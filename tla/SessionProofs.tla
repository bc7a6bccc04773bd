---------------------------- MODULE SessionProofs -----------------------------
(***************************************************************************)
(* Proofs about the main window and what is shown beside it: the run timer, *)
(* the actions and the core view always belong to the machine there is, no  *)
(* name leads to a symbol that was deleted, no edit is lost that the user   *)
(* did not give up, docks and views show what the machine has, the command  *)
(* line does what it was asked, and the New machine dialog shows what a     *)
(* machine is made from.                                                    *)
(***************************************************************************)
EXTENDS MainWindow, SymbolTable, SourceEditors, NewDialog, CommandLine, TableView, Docks,
        SequenceTheorems, FiniteSetTheorems, WellFoundedInduction, TLAPS

-----------------------------------------------------------------------------
(* Least and greatest numbers.                                               *)

LEMMA LeastNumber ==
    ASSUME NEW S \in SUBSET Nat, S # {}
    PROVE  \E x \in S : \A y \in S : x =< y
<1> DEFINE Below == OpToRel(<, Nat)
<1>1. \A x, y \in Nat : <<y, x>> \in Below <=> y < x
  BY DEF OpToRel
<1>2. IsWellFoundedOn(Below, Nat)
  BY NatLessThanWellFounded
<1> HIDE DEF Below
<1>3. PICK x \in S : \A y \in S : ~(<<y, x>> \in Below)
  BY <1>2, WFMin
<1>4. ASSUME NEW y \in S
      PROVE  x =< y
  <2>1. x \in Nat /\ y \in Nat
    OBVIOUS
  <2>2. ~(y < x)
    BY <1>1, <1>3, <2>1
  <2> QED
    BY <2>1, <2>2
<1> QED
  BY <1>4

LEMMA GreatestNumber ==
    ASSUME NEW S \in SUBSET Nat, S # {}, NEW b \in Nat, \A x \in S : x < b
    PROVE  \E x \in S : \A y \in S : y =< x
<1> DEFINE D == {d \in Nat : b - d \in S}
<1>1. D # {}
  <2>1. PICK x \in S : TRUE
    OBVIOUS
  <2>2. x \in Nat /\ x < b
    BY <2>1
  <2>3. b - x \in Nat /\ b - (b - x) = x
    BY <2>2
  <2> QED
    BY <2>1, <2>3
<1>2. PICK d \in D : \A e \in D : d =< e
  BY <1>1, LeastNumber
<1>3. ASSUME NEW y \in S
      PROVE  y =< b - d
  <2>1. y \in Nat /\ y < b /\ d \in Nat
    OBVIOUS
  <2>2. b - y \in Nat /\ b - (b - y) = y
    BY <2>1
  <2>3. d =< b - y
    BY <1>2, <2>2
  <2> QED
    BY <2>1, <2>2, <2>3
<1> QED
  BY <1>3

-----------------------------------------------------------------------------
(* The signals of an operation, handled one after the other.                 *)

Stats == {"READY", "RUNNING", "BUSY", "EXIT", "TRAPPED"}
Signals == {<<"status_change", st>> : st \in Stats}
           \cup {<<"tick">>, <<"post_tick">>, <<"program_exit">>, <<"program_trap">>}

\* f holds the actions after each of the first n signals
Handles(f, u, sig, n) == f = [i \in 0 .. n |-> IF i = 0 THEN u ELSE Slot(f[i - 1], sig[i])]

LEMMA HandledIs ==
    ASSUME NEW u, NEW sig
    PROVE  Handled(u, sig) = (CHOOSE f : Handles(f, u, sig, Len(sig)))[Len(sig)]
BY DEF Handled, Handles

\* one more signal
LEMMA HandlesOneMore ==
    ASSUME NEW u, NEW sig, NEW n \in Nat, NEW f, Handles(f, u, sig, n)
    PROVE  Handles([i \in 0 .. n + 1 |-> IF i = n + 1 THEN Slot(f[n], sig[n + 1]) ELSE f[i]],
                   u, sig, n + 1)
<1> DEFINE g == [i \in 0 .. n + 1 |-> IF i = n + 1 THEN Slot(f[n], sig[n + 1]) ELSE f[i]]
           h == [i \in 0 .. n + 1 |-> IF i = 0 THEN u ELSE Slot(g[i - 1], sig[i])]
<1>1. \A i \in 0 .. n : f[i] = IF i = 0 THEN u ELSE Slot(f[i - 1], sig[i])
  BY DEF Handles
<1>2. \A i \in 0 .. n + 1 : g[i] = IF i = n + 1 THEN Slot(f[n], sig[n + 1]) ELSE f[i]
  OBVIOUS
<1>3. \A i \in 0 .. n + 1 : h[i] = IF i = 0 THEN u ELSE Slot(g[i - 1], sig[i])
  OBVIOUS
<1>4. g = h
  <2>1. ASSUME NEW i \in 0 .. n + 1
        PROVE  g[i] = h[i]
    <3>1. CASE i = 0
      <4>1. i # n + 1 /\ i \in 0 .. n
        BY <3>1
      <4>2. g[i] = f[i] /\ f[i] = u
        BY <1>1, <1>2, <3>1, <4>1
      <4> QED
        BY <1>3, <3>1, <4>2
    <3>2. CASE i = n + 1
      <4>1. i # 0 /\ i - 1 = n /\ n \in 0 .. n + 1 /\ n # n + 1
        BY <3>2
      <4>2. g[i - 1] = f[n]
        BY <1>2, <4>1
      <4>3. h[i] = Slot(g[i - 1], sig[i])
        BY <1>3, <4>1
      <4> QED
        BY <1>2, <3>2, <4>2, <4>3
    <3>3. CASE i # 0 /\ i # n + 1
      <4>1. i \in 0 .. n /\ i - 1 \in 0 .. n + 1 /\ i - 1 # n + 1
        BY <3>3
      <4>2. g[i] = f[i] /\ g[i - 1] = f[i - 1]
        BY <1>2, <3>3, <4>1
      <4>3. f[i] = Slot(f[i - 1], sig[i])
        BY <1>1, <3>3, <4>1
      <4>4. h[i] = Slot(g[i - 1], sig[i])
        BY <1>3, <3>3
      <4> QED
        BY <4>2, <4>3, <4>4
    <3> QED
      BY <3>1, <3>2, <3>3
  <2> HIDE DEF g, h
  <2>2. g = [i \in 0 .. n + 1 |-> g[i]] /\ h = [i \in 0 .. n + 1 |-> h[i]]
    BY DEF g, h
  <2> QED
    BY <2>1, <2>2
<1> QED
  BY <1>4 DEF Handles

LEMMA HandlesExists ==
    ASSUME NEW u, NEW sig, NEW n \in Nat
    PROVE  \E f : Handles(f, u, sig, n)
<1> DEFINE Bad == {k \in Nat : ~\E f : Handles(f, u, sig, k)}
<1>1. ASSUME Bad # {} PROVE FALSE
  <2>1. PICK k \in Bad : \A j \in Bad : k =< j
    BY <1>1, LeastNumber
  <2>2. CASE k = 0
    <3> DEFINE f == [i \in 0 .. 0 |-> u]
    <3>1. f = [i \in 0 .. 0 |-> IF i = 0 THEN u ELSE Slot(f[i - 1], sig[i])]
      OBVIOUS
    <3>2. Handles(f, u, sig, 0)
      BY <3>1 DEF Handles
    <3> QED
      BY <2>2, <3>2
  <2>3. CASE k # 0
    <3>1. k - 1 \in Nat /\ ~(k =< k - 1) /\ (k - 1) + 1 = k
      BY <2>3
    <3>2. k - 1 \notin Bad
      BY <2>1, <3>1
    <3>3. PICK f : Handles(f, u, sig, k - 1)
      BY <3>1, <3>2
    <3>4. \E g : Handles(g, u, sig, (k - 1) + 1)
      BY <3>1, <3>3, HandlesOneMore
    <3> QED
      BY <3>1, <3>4
  <2> QED
    BY <2>2, <2>3
<1> QED
  BY <1>1

\* two such functions agree, also when one of them handles more signals
LEMMA HandlesAgree ==
    ASSUME NEW u, NEW s, NEW t, NEW n \in Nat, NEW m \in Nat, n =< m,
           \A i \in 1 .. n : s[i] = t[i],
           NEW f, Handles(f, u, s, n), NEW g, Handles(g, u, t, m)
    PROVE  f[n] = g[n]
<1> DEFINE Bad == {k \in 0 .. n : f[k] # g[k]}
<1>1. \A i \in 0 .. n : /\ f[i] = IF i = 0 THEN u ELSE Slot(f[i - 1], s[i])
                        /\ g[i] = IF i = 0 THEN u ELSE Slot(g[i - 1], t[i])
  <2>1. \A i \in 0 .. n : i \in 0 .. m
    OBVIOUS
  <2>2. \A i \in 0 .. n : f[i] = IF i = 0 THEN u ELSE Slot(f[i - 1], s[i])
    BY DEF Handles
  <2>3. \A i \in 0 .. m : g[i] = IF i = 0 THEN u ELSE Slot(g[i - 1], t[i])
    BY DEF Handles
  <2> QED
    BY <2>1, <2>2, <2>3
<1>2. ASSUME Bad # {} PROVE FALSE
  <2> Bad \in SUBSET Nat
    OBVIOUS
  <2>1. PICK k \in Bad : \A j \in Bad : k =< j
    BY <1>2, LeastNumber
  <2>2. k \in 0 .. n /\ f[k] # g[k]
    OBVIOUS
  <2>3. k # 0
    BY <1>1, <2>2
  <2>4. k - 1 \in 0 .. n /\ ~(k =< k - 1) /\ k \in 1 .. n
    BY <2>2, <2>3
  <2>5. f[k - 1] = g[k - 1]
    BY <2>1, <2>4
  <2>6. s[k] = t[k]
    BY <2>4
  <2>7. f[k] = Slot(f[k - 1], s[k]) /\ g[k] = Slot(g[k - 1], t[k])
    BY <1>1, <2>2, <2>3
  <2> QED
    BY <2>2, <2>5, <2>6, <2>7
<1>3. n \in 0 .. n
  OBVIOUS
<1> QED
  BY <1>2, <1>3

\* An operation that emitted no signal leaves the actions as they are.
LEMMA NoSignal == ASSUME NEW u PROVE Handled(u, <<>>) = u
<1> DEFINE g == CHOOSE f : Handles(f, u, <<>>, Len(<<>>))
<1>1. Len(<<>>) = 0
  OBVIOUS
<1>2. Handles(g, u, <<>>, Len(<<>>))
  <2>1. \E f : Handles(f, u, <<>>, Len(<<>>))
    BY <1>1, HandlesExists
  <2> QED
    BY <2>1
<1>3. Handled(u, <<>>) = g[Len(<<>>)]
  BY HandledIs
<1> HIDE DEF g
<1>4. \A i \in 0 .. 0 : g[i] = IF i = 0 THEN u ELSE Slot(g[i - 1], <<>>[i])
  BY <1>1, <1>2 DEF Handles
<1> QED
  BY <1>1, <1>3, <1>4

\* A signal is handled after those that were emitted before it.
LEMMA LastSignal ==
    ASSUME NEW u, NEW sig \in Seq(Signals), NEW x \in Signals
    PROVE  Handled(u, Append(sig, x)) = Slot(Handled(u, sig), x)
<1> DEFINE n == Len(sig)
           longer == Append(sig, x)
           f == CHOOSE f1 : Handles(f1, u, sig, n)
           g == CHOOSE g1 : Handles(g1, u, longer, n + 1)
<1>1. n \in Nat /\ Len(longer) = n + 1 /\ longer[n + 1] = x /\ \A i \in 1 .. n : sig[i] = longer[i]
  OBVIOUS
<1>2. Handles(f, u, sig, n)
  BY <1>1, HandlesExists
<1>3. Handles(g, u, longer, n + 1)
  <2>1. n + 1 \in Nat
    BY <1>1
  <2> QED
    BY <2>1, HandlesExists
<1>4. Handled(u, sig) = f[n] /\ Handled(u, longer) = g[n + 1]
  BY <1>1, HandledIs
<1> HIDE DEF n, longer, f, g
<1>5. f[n] = g[n]
  <2>1. n + 1 \in Nat /\ n =< n + 1
    BY <1>1
  <2> QED
    BY <1>1, <1>2, <1>3, <2>1, HandlesAgree
<1>6. g[n + 1] = Slot(g[n], longer[n + 1])
  <2>1. \A i \in 0 .. n + 1 : g[i] = IF i = 0 THEN u ELSE Slot(g[i - 1], longer[i])
    BY <1>3 DEF Handles
  <2>2. n + 1 \in 0 .. n + 1 /\ n + 1 # 0 /\ (n + 1) - 1 = n
    BY <1>1
  <2> QED
    BY <2>1, <2>2
<1> QED
  BY <1>1, <1>4, <1>5, <1>6 DEF longer

-----------------------------------------------------------------------------
(* One machine and the actions that show it.                                 *)

Pcs == {0} \cup 0 .. EndPc

Machines ==
    [id : Nat, stat : Stats, timer : BOOLEAN, chunk : BOOLEAN, prev : {"READY", "RUNNING"},
     skip : BOOLEAN, stepping : BOOLEAN, pc : Pcs, loaded : BOOLEAN,
     mem : {"elf", "empty", "asm"}, parity : {0, 1}, sig : Seq(Signals)]

\* the actions as a machine with this status needs them
UiFor(st) == [pause |-> st = "RUNNING", run |-> st = "READY", step |-> st = "READY", text |-> st]

\* the status the user sees: a step in progress is not shown
Displayed(m) == IF m.stepping THEN m.prev ELSE m.stat

\* The machine m, its signals not handled yet, belongs to the actions u.
Shown(u, m) == /\ m \in Machines
               /\ m.stepping <=> m.stat = "BUSY"
               /\ m.timer <=> Displayed(m) = "RUNNING"
               /\ Handled(u, m.sig) = UiFor(Displayed(m))

\* what no control operation touches
Same(r, m) == r.id = m.id /\ r.parity = m.parity

LEMMA EmitKeeps ==
    ASSUME NEW u, NEW m \in Machines, NEW x \in Signals
    PROVE  /\ Emit(m, x) \in Machines
           /\ \A f \in DOMAIN m \ {"sig"} : Emit(m, x)[f] = m[f]
           /\ Handled(u, Emit(m, x).sig) = Slot(Handled(u, m.sig), x)
<1>1. m.sig \in Seq(Signals) /\ Append(m.sig, x) \in Seq(Signals)
  BY DEF Machines
<1>2. Emit(m, x) = [m EXCEPT !.sig = Append(m.sig, x)]
  BY DEF Emit
<1>3. Emit(m, x) \in Machines
  BY <1>1, <1>2 DEF Machines
<1>4. \A f \in DOMAIN m \ {"sig"} : Emit(m, x)[f] = m[f]
  BY <1>2
<1>5. Emit(m, x).sig = Append(m.sig, x)
  BY <1>2 DEF Machines
<1> QED
  BY <1>1, <1>3, <1>4, <1>5, LastSignal

LEMMA StatusSet ==
    ASSUME NEW u, NEW m \in Machines, NEW st \in Stats, st # m.stat
    PROVE  /\ set_status(m, st) \in Machines
           /\ \A f \in DOMAIN m \ {"stat", "sig"} : set_status(m, st)[f] = m[f]
           /\ set_status(m, st).stat = st
           /\ Handled(u, set_status(m, st).sig) = machine_status(Handled(u, m.sig), st)
<1> DEFINE d == [m EXCEPT !.stat = st]
<1>1. d \in Machines /\ d.stat = st /\ DOMAIN d = DOMAIN m /\ d.sig = m.sig
  BY DEF Machines
<1>2. \A f \in DOMAIN m \ {"stat"} : d[f] = m[f]
  OBVIOUS
<1>3. <<"status_change", st>> \in Signals
  BY DEF Signals
<1>4. set_status(m, st) = Emit(d, <<"status_change", st>>)
  BY DEF set_status
<1> HIDE DEF d
<1>5. "stat" \in DOMAIN d
  BY <1>1 DEF Machines
<1>6. Slot(Handled(u, d.sig), <<"status_change", st>>) = machine_status(Handled(u, d.sig), st)
  BY DEF Slot
<1> DEFINE x == <<"status_change", st>>
<1>7. x \in Signals /\ set_status(m, st) = Emit(d, x)
      /\ Slot(Handled(u, d.sig), x) = machine_status(Handled(u, d.sig), st)
  BY <1>3, <1>4, <1>6
<1> HIDE DEF x
<1>8. /\ Emit(d, x) \in Machines
      /\ \A f \in DOMAIN d \ {"sig"} : Emit(d, x)[f] = d[f]
      /\ Handled(u, Emit(d, x).sig) = Slot(Handled(u, d.sig), x)
  BY <1>1, <1>7, EmitKeeps
<1>9. Emit(d, x).stat = st
  BY <1>1, <1>5, <1>8
<1> QED
  BY <1>1, <1>2, <1>7, <1>8, <1>9

LEMMA SlotsShow ==
    ASSUME NEW u
    PROVE  /\ machine_status(u, "READY") = UiFor("READY")
           /\ machine_status(u, "RUNNING") = UiFor("RUNNING")
           /\ machine_status(u, "BUSY") = u
           /\ \A st \in {"READY", "RUNNING"}, over \in {"EXIT", "TRAPPED"} :
                 u = UiFor(st) => machine_exit(machine_status(u, over)) = UiFor(over)
           /\ Slot(u, <<"tick">>) = u /\ Slot(u, <<"post_tick">>) = u
           /\ Slot(u, <<"program_exit">>) = machine_exit(u)
           /\ Slot(u, <<"program_trap">>) = machine_exit(u)
<1>1. machine_status(u, "READY") = UiFor("READY") /\ machine_status(u, "RUNNING") = UiFor("RUNNING")
  BY DEF machine_status, UiFor
<1>2. machine_status(u, "BUSY") = u
  BY DEF machine_status
<1>3. ASSUME NEW st \in {"READY", "RUNNING"}, NEW over \in {"EXIT", "TRAPPED"}, u = UiFor(st)
      PROVE  machine_exit(machine_status(u, over)) = UiFor(over)
  <2>1. machine_status(u, over) = [u EXCEPT !.text = over]
    BY DEF machine_status
  <2>2. UiFor(over) = [pause |-> FALSE, run |-> FALSE, step |-> FALSE, text |-> over]
    BY DEF UiFor
  <2>3. u = [pause |-> st = "RUNNING", run |-> st = "READY", step |-> st = "READY", text |-> st]
    BY <1>3 DEF UiFor
  <2> DEFINE v == [u EXCEPT !.text = over]
  <2>4. v = [pause |-> st = "RUNNING", run |-> st = "READY", step |-> st = "READY", text |-> over]
    BY <2>3
  <2>5. machine_status(u, over) = v
    BY <2>1
  <2> HIDE DEF v
  <2>6. v \in [pause : BOOLEAN, run : BOOLEAN, step : BOOLEAN, text : {over}]
    BY <2>4
  <2> DEFINE v1 == [v EXCEPT !.pause = FALSE]
             v2 == [v1 EXCEPT !.run = FALSE]
             v3 == [v2 EXCEPT !.step = FALSE]
  <2>7. v1 \in [pause : {FALSE}, run : BOOLEAN, step : BOOLEAN, text : {over}]
    BY <2>6
  <2>8. machine_exit(v) = v3
    BY DEF machine_exit
  <2> HIDE DEF v1
  <2>9. v2 \in [pause : {FALSE}, run : {FALSE}, step : BOOLEAN, text : {over}]
    BY <2>7
  <2> HIDE DEF v2
  <2>10. v3 \in [pause : {FALSE}, run : {FALSE}, step : {FALSE}, text : {over}]
    BY <2>9
  <2> HIDE DEF v3
  <2>11. v3 = [pause |-> FALSE, run |-> FALSE, step |-> FALSE, text |-> over]
    BY <2>10
  <2> QED
    BY <2>2, <2>5, <2>8, <2>11
<1>4. Slot(u, <<"tick">>) = u /\ Slot(u, <<"post_tick">>) = u
  BY DEF Slot
<1>5. Slot(u, <<"program_exit">>) = machine_exit(u) /\ Slot(u, <<"program_trap">>) = machine_exit(u)
  BY DEF Slot
<1> QED
  BY <1>1, <1>2, <1>3, <1>4, <1>5

\* A step begins: the status becomes BUSY, which the user does not see.
LEMMA StepBegins ==
    ASSUME NEW u, NEW m, Shown(u, m), ~m.stepping, NEW skip \in BOOLEAN
    PROVE  Shown(u, step_begin(m, skip)) /\ Same(step_begin(m, skip), m)
<1>1. CASE CTL_GUARD(m)
  BY <1>1 DEF step_begin, Same
<1>2. CASE ~CTL_GUARD(m)
  <2> DEFINE d == [m EXCEPT !.prev = m.stat, !.skip = skip, !.stepping = TRUE]
             e == set_status(d, "BUSY")
  <2>1. m.stat \in {"READY", "RUNNING"}
    BY <1>2 DEF CTL_GUARD, exited, Shown, Machines, Stats
  <2>2. /\ d \in Machines /\ d.stat = m.stat /\ d.prev = m.stat /\ d.stepping = TRUE
        /\ d.timer = m.timer /\ d.sig = m.sig /\ d.id = m.id /\ d.parity = m.parity
    BY <2>1 DEF Shown, Machines
  <2>3. step_begin(m, skip) = Emit(e, <<"tick">>)
    BY <1>2 DEF step_begin
  <2> HIDE DEF d
  <2>4. "BUSY" \in Stats /\ "BUSY" # d.stat /\ <<"tick">> \in Signals
    BY <2>1, <2>2 DEF Stats, Signals
  <2>5. /\ e \in Machines /\ e.stat = "BUSY"
        /\ \A f \in DOMAIN d \ {"stat", "sig"} : e[f] = d[f]
        /\ Handled(u, e.sig) = machine_status(Handled(u, d.sig), "BUSY")
    <3>1. d \in Machines /\ "BUSY" \in Stats /\ "BUSY" # d.stat
      BY <2>2, <2>4
    <3> QED
      BY <3>1, StatusSet, SMTT(30)
  <2>6. Handled(u, e.sig) = Handled(u, m.sig)
    BY <2>2, <2>5, SlotsShow
  <2>7. /\ e.prev = m.stat /\ e.stepping = TRUE /\ e.timer = m.timer
        /\ e.id = m.id /\ e.parity = m.parity
    BY <2>2, <2>5 DEF Machines
  <2> HIDE DEF e
  <2>8. /\ Emit(e, <<"tick">>) \in Machines
        /\ \A f \in DOMAIN e \ {"sig"} : Emit(e, <<"tick">>)[f] = e[f]
        /\ Handled(u, Emit(e, <<"tick">>).sig) = Handled(u, m.sig)
    BY <2>4, <2>5, <2>6, EmitKeeps, SlotsShow
  <2> DEFINE r == Emit(e, <<"tick">>)
  <2>9. /\ r.prev = m.stat /\ r.stepping = TRUE /\ r.timer = m.timer /\ r.stat = "BUSY"
        /\ r.id = m.id /\ r.parity = m.parity
    BY <2>5, <2>7, <2>8 DEF Machines
  <2> HIDE DEF r
  <2> QED
    BY <2>3, <2>8, <2>9 DEF r, Shown, Displayed, Same
<1> QED
  BY <1>1, <1>2

\* the machine is READY or RUNNING from now on
Retimed(m, st) == IF st = "RUNNING" THEN [set_status(m, st) EXCEPT !.timer = TRUE]
                  ELSE [set_status(m, st) EXCEPT !.timer = FALSE]

LEMMA StatusShown ==
    ASSUME NEW u, NEW m \in Machines, NEW st \in {"READY", "RUNNING"},
           m.stat = st => Handled(u, m.sig) = UiFor(st)
    PROVE  /\ Retimed(m, st) \in Machines /\ Retimed(m, st).stat = st
           /\ Retimed(m, st).timer <=> st = "RUNNING"
           /\ Retimed(m, st).stepping = m.stepping /\ Retimed(m, st).prev = m.prev
           /\ Same(Retimed(m, st), m)
           /\ Handled(u, Retimed(m, st).sig) = UiFor(st)
<1> DEFINE c == set_status(m, st)
           d == Retimed(m, st)
<1>1. /\ c \in Machines /\ c.stat = st
      /\ c.stepping = m.stepping /\ c.prev = m.prev /\ Same(c, m)
      /\ Handled(u, c.sig) = UiFor(st)
  <2>1. CASE st = m.stat
    <3>1. c = m
      BY <2>1 DEF set_status
    <3> QED
      BY <2>1, <3>1 DEF Same
  <2>2. CASE st # m.stat
    <3>1. st \in Stats
      BY DEF Stats
    <3>2. /\ c \in Machines /\ c.stat = st
          /\ \A f \in DOMAIN m \ {"stat", "sig"} : c[f] = m[f]
          /\ Handled(u, c.sig) = machine_status(Handled(u, m.sig), st)
      BY <2>2, <3>1, StatusSet
    <3> HIDE DEF c
    <3>3. c.stepping = m.stepping /\ c.prev = m.prev /\ Same(c, m)
      BY <3>2 DEF Machines, Same
    <3>4. machine_status(Handled(u, m.sig), st) = UiFor(st)
      BY SlotsShow
    <3> QED
      BY <3>2, <3>3, <3>4
  <2> QED
    BY <2>1, <2>2
<1>2. /\ st = "RUNNING" => d = [c EXCEPT !.timer = TRUE]
      /\ st = "READY" => d = [c EXCEPT !.timer = FALSE]
  BY DEF Retimed
<1> HIDE DEF c, d
<1>3. /\ d \in Machines /\ d.stat = c.stat /\ (d.timer <=> st = "RUNNING")
      /\ d.stepping = c.stepping /\ d.prev = c.prev /\ d.id = c.id /\ d.parity = c.parity
      /\ d.sig = c.sig
  <2>1. CASE st = "RUNNING"
    BY <1>1, <1>2, <2>1 DEF Machines
  <2>2. CASE st # "RUNNING"
    BY <1>1, <1>2, <2>2 DEF Machines
  <2> QED
    BY <2>1, <2>2
<1>4. Same(d, m)
  BY <1>1, <1>3 DEF Same
<1> QED
  BY <1>1, <1>3, <1>4 DEF d

LEMMA PlayShows ==
    ASSUME NEW u, NEW m, Shown(u, m), ~m.stepping
    PROVE  Shown(u, play(m)) /\ Same(play(m), m)
<1>1. CASE CTL_GUARD(m)
  BY <1>1 DEF play, Same
<1>2. CASE ~CTL_GUARD(m)
  <2> DEFINE d == Retimed(m, "RUNNING")
  <2>1. m \in Machines /\ (m.stat = "RUNNING" => Handled(u, m.sig) = UiFor("RUNNING"))
    BY DEF Shown, Displayed
  <2>3. play(m) = step_begin(d, TRUE)
    BY <1>2 DEF play, Retimed
  <2>2. /\ d \in Machines /\ d.stat = "RUNNING" /\ (d.timer <=> TRUE)
        /\ d.stepping = m.stepping /\ Same(d, m)
        /\ Handled(u, d.sig) = UiFor("RUNNING")
    BY <2>1, StatusShown
  <2> HIDE DEF d
  <2>4. Shown(u, d) /\ ~d.stepping
    BY <2>2 DEF Shown, Displayed
  <2>5. Shown(u, step_begin(d, TRUE)) /\ Same(step_begin(d, TRUE), d)
    BY <2>4, StepBegins
  <2> QED
    BY <2>2, <2>3, <2>5 DEF Same
<1> QED
  BY <1>1, <1>2

\* pause: the status is READY, also in the middle of a step
LEMMA PauseFacts ==
    ASSUME NEW u, NEW m, Shown(u, m), m.stat \in {"READY", "RUNNING", "BUSY"}
    PROVE  /\ pause(m) \in Machines /\ pause(m).stat = "READY" /\ ~pause(m).timer
           /\ pause(m).stepping = m.stepping /\ Same(pause(m), m)
           /\ Handled(u, pause(m).sig) = UiFor("READY")
<1>1. m \in Machines /\ (m.stat = "READY" => Handled(u, m.sig) = UiFor("READY"))
  BY DEF Shown, Displayed
<1>2. pause(m) = Retimed(m, "READY")
  BY DEF pause, CTL_GUARD, exited, Retimed
<1> QED
  BY <1>1, <1>2, StatusShown

LEMMA PauseShows ==
    ASSUME NEW u, NEW m, Shown(u, m), ~m.stepping
    PROVE  Shown(u, pause(m)) /\ Same(pause(m), m)
<1>1. CASE m.stat \in {"READY", "RUNNING"}
  BY <1>1, PauseFacts DEF Shown, Displayed
<1>2. CASE m.stat \notin {"READY", "RUNNING"}
  <2>1. pause(m) = m
    BY <1>2 DEF pause, CTL_GUARD, exited, Shown, Machines, Stats
  <2> QED
    BY <2>1 DEF Same
<1> QED
  BY <1>1, <1>2

\* restart: also a machine that exited or trapped is READY again
LEMMA RestartShows ==
    ASSUME NEW u, NEW m, Shown(u, m), ~m.stepping
    PROVE  Shown(u, restart(m)) /\ Same(restart(m), m)
<1> DEFINE p == pause(m)
           d == [p EXCEPT !.pc = 0, !.mem = IF m.loaded THEN "elf" ELSE @]
           r == set_status(d, "READY")
<1>1. Shown(u, p) /\ Same(p, m) /\ ~p.stepping /\ p.stat # "RUNNING"
  <2>1. CASE m.stat \in {"READY", "RUNNING"}
    BY <2>1, PauseFacts, PauseShows
  <2>2. CASE m.stat \notin {"READY", "RUNNING"}
    <3>1. p = m
      BY <2>2 DEF pause, CTL_GUARD, exited, Shown, Machines, Stats
    <3> QED
      BY <2>2, <3>1, PauseShows
  <2> QED
    BY <2>1, <2>2
<1>2. restart(m) = r
  BY DEF restart
<1> HIDE DEF p
<1>3. /\ d \in Machines /\ d.stat = p.stat /\ d.timer = p.timer /\ d.stepping = p.stepping
      /\ Same(d, p) /\ d.sig = p.sig
  BY <1>1 DEF Shown, Machines, Same, Pcs
<1> HIDE DEF d
<1>4. Handled(u, d.sig) = UiFor(d.stat) /\ d.timer = FALSE /\ ~d.stepping
  BY <1>1, <1>3 DEF Shown, Displayed, Machines
<1>5. /\ r \in Machines /\ r.stat = "READY" /\ r.timer = FALSE /\ ~r.stepping
      /\ Same(r, d) /\ Handled(u, r.sig) = UiFor("READY")
  <2>1. CASE d.stat = "READY"
    <3>1. r = d
      BY <2>1 DEF set_status
    <3> QED
      BY <1>3, <1>4, <2>1, <3>1 DEF Same
  <2>2. CASE d.stat # "READY"
    <3>1. "READY" \in Stats /\ "READY" # d.stat
      BY <2>2 DEF Stats
    <3>2. /\ r \in Machines /\ r.stat = "READY"
          /\ \A f \in DOMAIN d \ {"stat", "sig"} : r[f] = d[f]
          /\ Handled(u, r.sig) = machine_status(Handled(u, d.sig), "READY")
      BY <1>3, <3>1, StatusSet
    <3> HIDE DEF r
    <3>3. r.timer = d.timer /\ r.stepping = d.stepping /\ Same(r, d)
      BY <1>3, <3>2 DEF Machines, Same
    <3> QED
      BY <1>4, <3>2, <3>3, SlotsShow
  <2> QED
    BY <2>1, <2>2
<1> HIDE DEF r
<1> QED
  BY <1>1, <1>2, <1>3, <1>5 DEF Shown, Displayed, Same

LEMMA CoreStepShows ==
    ASSUME NEW u, NEW m, Shown(u, m), m.stepping, NEW pc \in 0 .. EndPc
    PROVE  Shown(u, core_step(m, pc)) /\ core_step(m, pc).stepping /\ core_step(m, pc).id = m.id
<1> DEFINE c == core_step(m, pc)
           flipped == 1 - m.parity
<1>1. flipped \in {0, 1} /\ pc \in Pcs /\ m \in Machines
  BY DEF Shown, Machines, Pcs
<1>2. c = [m EXCEPT !.pc = pc, !.parity = flipped]
  BY DEF core_step
<1> HIDE DEF flipped, c
<1>3. /\ c \in Machines /\ c.stat = m.stat /\ c.timer = m.timer /\ c.prev = m.prev
      /\ c.stepping = m.stepping /\ c.sig = m.sig /\ c.id = m.id
  BY <1>1, <1>2 DEF Machines
<1> QED
  BY <1>3 DEF c, Shown, Displayed

\* the machine as step_internal finds it at its end: still BUSY, or paused by an exception
Ending(u, m) ==
    /\ m \in Machines /\ m.stepping
    /\ \/ m.stat = "BUSY" /\ (m.timer <=> m.prev = "RUNNING") /\ Handled(u, m.sig) = UiFor(m.prev)
       \/ m.stat = "READY" /\ ~m.timer /\ Handled(u, m.sig) = UiFor("READY")

\* The program is over, in one way or the other: the actions are disabled.
LEMMA OverShows ==
    ASSUME NEW u, NEW d \in Machines, ~d.timer, ~d.stepping, NEW over \in {"EXIT", "TRAPPED"},
           over # d.stat, NEW st \in {"READY", "RUNNING"}, Handled(u, d.sig) = UiFor(st),
           NEW x \in {<<"program_exit">>, <<"program_trap">>}
    PROVE  Shown(u, Emit(set_status(d, over), x)) /\ Same(Emit(set_status(d, over), x), d)
<1> DEFINE e == set_status(d, over)
           r == Emit(e, x)
<1>1. over \in Stats /\ x \in Signals
  BY DEF Stats, Signals
<1>2. /\ e \in Machines /\ e.stat = over
      /\ \A f \in DOMAIN d \ {"stat", "sig"} : e[f] = d[f]
      /\ Handled(u, e.sig) = machine_status(UiFor(st), over)
  BY <1>1, StatusSet
<1> HIDE DEF e
<1>3. e.timer = d.timer /\ e.stepping = d.stepping /\ Same(e, d)
  BY <1>2 DEF Machines, Same
<1>4. /\ r \in Machines
      /\ \A f \in DOMAIN e \ {"sig"} : r[f] = e[f]
      /\ Handled(u, r.sig) = Slot(Handled(u, e.sig), x)
  BY <1>1, <1>2, EmitKeeps
<1> HIDE DEF r
<1>5. r.timer = e.timer /\ r.stepping = e.stepping /\ r.stat = e.stat /\ Same(r, e)
  BY <1>2, <1>4 DEF Machines, Same
<1>6. Handled(u, r.sig) = machine_exit(machine_status(UiFor(st), over))
  <2>1. CASE x = <<"program_exit">>
    BY <1>2, <1>4, <2>1, SlotsShow
  <2>2. CASE x = <<"program_trap">>
    BY <1>2, <1>4, <2>2, SlotsShow
  <2> QED
    BY <2>1, <2>2
<1>7. Handled(u, r.sig) = UiFor(over)
  BY <1>6, SlotsShow
<1>8. Shown(u, r)
  BY <1>2, <1>3, <1>4, <1>5, <1>7 DEF Shown, Displayed
<1> QED
  BY <1>3, <1>5, <1>8 DEF Same, r, e

LEMMA FinishShows ==
    ASSUME NEW u, NEW m, Ending(u, m)
    PROVE  Shown(u, step_finish(m)) /\ Same(step_finish(m), m)
<1> DEFINE d == [m EXCEPT !.stepping = FALSE]
           o == [d EXCEPT !.timer = FALSE]
           e == IF PastEnd(m) THEN Emit(set_status(o, "EXIT"), <<"program_exit">>)
                ELSE IF m.stat = "BUSY" THEN set_status(d, m.prev) ELSE d
<1>1. step_finish(m) = Emit(e, <<"post_tick">>)
  BY DEF step_finish
<1>2. /\ d \in Machines /\ ~d.stepping /\ d.timer = m.timer /\ d.stat = m.stat
      /\ d.prev = m.prev /\ d.sig = m.sig /\ Same(d, m)
  BY DEF Ending, Machines, Same
<1>3. PICK st \in {"READY", "RUNNING"} : Handled(u, m.sig) = UiFor(st)
  BY DEF Ending, Machines
<1>4. Shown(u, e) /\ Same(e, m)
  <2>1. CASE PastEnd(m)
    <3> HIDE DEF d
    <3>1. o \in Machines /\ ~o.stepping /\ ~o.timer /\ o.stat = d.stat /\ o.sig = d.sig /\ Same(o, d)
      BY <1>2 DEF Machines, Same
    <3> HIDE DEF o
    <3>2. e = Emit(set_status(o, "EXIT"), <<"program_exit">>)
      BY <2>1
    <3> HIDE DEF e
    <3>3. "EXIT" # o.stat /\ Handled(u, o.sig) = UiFor(st)
      BY <1>2, <1>3, <3>1 DEF Ending
    <3>4. Shown(u, e) /\ Same(e, o)
      BY <3>1, <3>2, <3>3, OverShows
    <3> QED
      BY <1>2, <3>1, <3>4 DEF Same
  <2>2. CASE ~PastEnd(m) /\ m.stat = "BUSY"
    <3>1. e = set_status(d, m.prev)
      BY <2>2
    <3> HIDE DEF d, e
    <3>2. m.prev \in {"READY", "RUNNING"} /\ m.prev \in Stats /\ m.prev # d.stat
      BY <1>2, <2>2 DEF Ending, Machines, Stats
    <3>3. /\ e \in Machines /\ e.stat = m.prev
          /\ \A f \in DOMAIN d \ {"stat", "sig"} : e[f] = d[f]
          /\ Handled(u, e.sig) = machine_status(Handled(u, d.sig), m.prev)
      BY <1>2, <3>1, <3>2, StatusSet
    <3>4. e.timer = d.timer /\ e.stepping = d.stepping /\ Same(e, d)
      BY <1>2, <3>3 DEF Machines, Same
    <3>5. Handled(u, e.sig) = UiFor(m.prev)
      BY <3>2, <3>3, SlotsShow
    <3>6. m.timer <=> m.prev = "RUNNING"
      BY <2>2 DEF Ending
    <3>7. Shown(u, e)
      BY <1>2, <3>2, <3>3, <3>4, <3>5, <3>6 DEF Shown, Displayed
    <3> QED
      BY <1>2, <3>4, <3>7 DEF Same
  <2>3. CASE ~PastEnd(m) /\ m.stat # "BUSY"
    <3>1. e = d
      BY <2>3
    <3> HIDE DEF d, e
    <3>2. d.stat = "READY" /\ ~d.timer /\ Handled(u, d.sig) = UiFor("READY")
      BY <1>2, <2>3 DEF Ending
    <3> QED
      BY <1>2, <3>1, <3>2 DEF Shown, Displayed
  <2> QED
    BY <2>1, <2>2, <2>3
<1> HIDE DEF d, o, e
<1> DEFINE r == Emit(e, <<"post_tick">>)
<1>5. e \in Machines /\ <<"post_tick">> \in Signals
  BY <1>4 DEF Shown, Signals
<1>6. /\ r \in Machines
      /\ \A f \in DOMAIN e \ {"sig"} : r[f] = e[f]
      /\ Handled(u, r.sig) = Handled(u, e.sig)
  BY <1>5, EmitKeeps, SlotsShow
<1> HIDE DEF r
<1>7. r.timer = e.timer /\ r.stepping = e.stepping /\ r.stat = e.stat /\ r.prev = e.prev /\ Same(r, e)
  BY <1>5, <1>6 DEF Machines, Same
<1>8. Shown(u, r)
  BY <1>4, <1>6, <1>7 DEF Shown, Displayed
<1> QED
  BY <1>1, <1>4, <1>7, <1>8 DEF Same, r

LEMMA TrapShows ==
    ASSUME NEW u, NEW m, Shown(u, m), m.stepping
    PROVE  Shown(u, step_trapped(m)) /\ Same(step_trapped(m), m)
<1> DEFINE d == [m EXCEPT !.timer = FALSE, !.stepping = FALSE]
<1>1. /\ d \in Machines /\ ~d.stepping /\ ~d.timer /\ d.stat = m.stat
      /\ d.sig = m.sig /\ Same(d, m)
  BY DEF Shown, Machines, Same
<1>2. step_trapped(m) = Emit(set_status(d, "TRAPPED"), <<"program_trap">>)
  BY DEF step_trapped
<1> HIDE DEF d
<1>3. "TRAPPED" # d.stat
  BY <1>1 DEF Shown
<1>4. m.prev \in {"READY", "RUNNING"} /\ Handled(u, d.sig) = UiFor(m.prev)
  BY <1>1 DEF Shown, Displayed, Machines
<1>5. Shown(u, step_trapped(m)) /\ Same(step_trapped(m), d)
  BY <1>1, <1>2, <1>3, <1>4, OverShows
<1> QED
  BY <1>1, <1>5 DEF Same

-----------------------------------------------------------------------------
(* The window.                                                               *)

WinSpec == WinInit /\ [][WinNext]_winvars

\* the current machine is the last one made, and no signal of it waits
WindowInv ==
    /\ made \in Nat /\ speed \in BOOLEAN /\ coreview_shown \in BOOLEAN
    /\ Present => Shown(ui, machine) /\ machine.sig = <<>> /\ machine.id = made /\ made # 0
    /\ scene = IF Present /\ coreview_shown THEN made ELSE 0

LEMMA WindowInvImplies == WindowInv => WindowMatchesMachine
<1> SUFFICES ASSUME WindowInv PROVE WindowMatchesMachine
  OBVIOUS
<1>1. CASE ~Present
  <2>1. machine.id = 0
    BY <1>1 DEF Present, NoMachine
  <2>2. scene = 0
    BY <1>1 DEF WindowInv
  <2> QED
    BY <1>1, <2>1, <2>2 DEF WindowMatchesMachine, TimerMatchesStatus, ButtonsMatchStatus, SceneOfMachine
<1>2. CASE Present
  <2>1. Shown(ui, machine) /\ machine.sig = <<>> /\ machine.id = made /\ made # 0
    BY <1>2 DEF WindowInv
  <2>2. ui = UiFor(Displayed(machine))
    BY <2>1, NoSignal DEF Shown
  <2>3. TimerMatchesStatus
    BY <1>2, <2>1 DEF TimerMatchesStatus, Free, Shown, Displayed
  <2>4. ButtonsMatchStatus
    <3> SUFFICES ASSUME Free
                 PROVE  /\ ui.pause = (machine.stat = "RUNNING")
                        /\ ui.run = (machine.stat = "READY") /\ ui.step = ui.run
                        /\ ui.text = machine.stat
      BY DEF ButtonsMatchStatus
    <3>1. Displayed(machine) = machine.stat
      BY <1>2 DEF Free, Displayed
    <3> QED
      BY <2>2, <3>1 DEF UiFor
  <2>5. SceneOfMachine
    BY <1>2, <2>1 DEF SceneOfMachine, WindowInv
  <2> QED
    BY <2>3, <2>4, <2>5 DEF WindowMatchesMachine
<1> QED
  BY <1>1, <1>2

\* the window after an operation on its machine
LEMMA BecomesKeeps ==
    ASSUME WindowInv, Present, NEW m, Shown(ui, m), m.id = machine.id, Becomes(m),
           UNCHANGED <<made, speed, coreview_shown, scene>>
    PROVE  WindowInv'
<1> DEFINE n == [m EXCEPT !.sig = <<>>]
<1>1. machine' = n /\ ui' = UiFor(Displayed(m))
  BY DEF Becomes, Shown
<1>2. <<>> \in Seq(Signals)
  OBVIOUS
<1>3. /\ n \in Machines /\ n.stat = m.stat /\ n.timer = m.timer /\ n.prev = m.prev
      /\ n.stepping = m.stepping /\ n.sig = <<>> /\ n.id = m.id
  BY <1>2 DEF Shown, Machines
<1> HIDE DEF n
<1>4. Handled(ui', n.sig) = ui'
  BY <1>3, NoSignal
<1>5. Shown(ui', n)
  BY <1>1, <1>3, <1>4 DEF Shown, Displayed
<1>6. n # NoMachine
  BY <1>3 DEF WindowInv, NoMachine
<1>7. Present'
  BY <1>1, <1>6 DEF Present
<1>8. Shown(ui, machine)' /\ machine'.sig = <<>> /\ machine'.id = made'
  <2>1. Shown(ui, machine)' <=> Shown(ui', machine')
    BY DEF Shown, Displayed
  <2> QED
    BY <1>1, <1>3, <1>5, <2>1 DEF WindowInv
<1> QED
  BY <1>7, <1>8 DEF WindowInv

\* a change of a field the control does not look at
LEMMA FieldKeeps ==
    ASSUME WindowInv, NEW m \in Machines, Present,
           m.stat = machine.stat, m.timer = machine.timer, m.prev = machine.prev,
           m.stepping = machine.stepping, m.sig = machine.sig, m.id = machine.id,
           machine' = m, UNCHANGED <<ui, made>>, speed' \in BOOLEAN, UNCHANGED <<coreview_shown, scene>>
    PROVE  WindowInv'
<1>1. Shown(ui, machine) /\ machine.sig = <<>> /\ machine.id = made /\ made # 0
  BY DEF WindowInv
<1>2. m # NoMachine
  BY <1>1 DEF NoMachine
<1>3. Present'
  BY <1>2 DEF Present
<1>4. Shown(ui, machine)'
  BY <1>1 DEF Shown, Displayed
<1> QED
  BY <1>1, <1>3, <1>4 DEF WindowInv

LEMMA NothingKeeps ==
    ASSUME WindowInv, UNCHANGED <<machine, ui, scene, coreview_shown, speed, made>>
    PROVE  WindowInv'
BY DEF WindowInv, Present, Shown, Displayed

\* Run, Pause, Step and Restart, and the run timer
LEMMA ControlBecomes ==
    ASSUME WindowInv, actionRun \/ actionPause \/ actionStep \/ actionRestart \/ Timeout
    PROVE  \E m : Becomes(m) /\ Shown(ui, m) /\ Same(m, machine)
<1>1. Present /\ ~machine.stepping
  BY DEF actionRun, actionPause, actionStep, actionRestart, Timeout, Input, Free
<1>2. Shown(ui, machine)
  BY <1>1 DEF WindowInv
<1> QED
  <2>1. CASE actionRun
    BY <1>1, <1>2, <2>1, PlayShows DEF actionRun
  <2>2. CASE actionPause
    BY <1>1, <1>2, <2>2, PauseShows DEF actionPause
  <2>3. CASE actionStep
    <3>1. Becomes(step_begin(machine, TRUE))
      BY <2>3 DEF actionStep, step
    <3>2. TRUE \in BOOLEAN
      OBVIOUS
    <3> QED
      BY <1>1, <1>2, <3>1, <3>2, StepBegins
  <2>4. CASE actionRestart
    BY <1>1, <1>2, <2>4, RestartShows DEF actionRestart
  <2>5. CASE Timeout
    <3>1. Becomes(step_begin(machine, FALSE))
      BY <2>5 DEF Timeout, step_timer
    <3>2. FALSE \in BOOLEAN
      OBVIOUS
    <3> QED
      BY <1>1, <1>2, <3>1, <3>2, StepBegins
  <2> QED
    BY <2>1, <2>2, <2>3, <2>4, <2>5

LEMMA ControlKeeps ==
    ASSUME WindowInv, actionRun \/ actionPause \/ actionStep \/ actionRestart \/ Timeout
    PROVE  WindowInv'
<1>1. Present /\ UNCHANGED <<made, speed, coreview_shown, scene>>
  BY DEF actionRun, actionPause, actionStep, actionRestart, Timeout
<1>2. PICK m : Becomes(m) /\ Shown(ui, m) /\ Same(m, machine)
  BY ControlBecomes
<1> QED
  BY <1>1, <1>2, BecomesKeeps DEF Same

LEMMA CoreKeeps ==
    ASSUME WindowInv, CoreStep \/ CoreTrap
    PROVE  WindowInv'
<1>1. Present /\ machine.stepping /\ UNCHANGED <<made, speed, coreview_shown, scene>>
  BY DEF CoreStep, CoreTrap
<1>2. Shown(ui, machine)
  BY <1>1 DEF WindowInv
<1>3. CASE CoreTrap
  <2>1. Becomes(step_trapped(machine))
    BY <1>3 DEF CoreTrap
  <2>2. Shown(ui, step_trapped(machine)) /\ Same(step_trapped(machine), machine)
    BY <1>1, <1>2, TrapShows
  <2> QED
    BY <1>1, <2>1, <2>2, BecomesKeeps DEF Same
<1>4. CASE CoreStep
  <2>1. PICK pc \in 0 .. EndPc, stop \in BOOLEAN :
          \E m \in {core_step(machine, pc)} : \E n \in {IF stop THEN pause(m) ELSE m} :
             (step_again(n) /\ Becomes(n)) \/ Becomes(step_finish(n))
    BY <1>4 DEF CoreStep
  <2> DEFINE m == core_step(machine, pc)
             n == IF stop THEN pause(m) ELSE m
  <2>2. (step_again(n) /\ Becomes(n)) \/ Becomes(step_finish(n))
    BY <2>1
  <2>3. Shown(ui, m) /\ m.stepping /\ m.id = machine.id
    BY <1>1, <1>2, CoreStepShows
  <2>4. m.stat = "BUSY"
    BY <2>3 DEF Shown
  <2> HIDE DEF m
  <2>5. CASE ~stop
    <3>1. n = m
      BY <2>5
    <3> HIDE DEF n
    <3>2. Ending(ui, n)
      BY <2>3, <2>4, <3>1 DEF Ending, Shown, Displayed
    <3>3. CASE Becomes(n)
      BY <1>1, <2>3, <3>1, <3>3, BecomesKeeps
    <3>4. CASE Becomes(step_finish(n))
      <4>1. Shown(ui, step_finish(n)) /\ Same(step_finish(n), n)
        BY <3>2, FinishShows
      <4> QED
        BY <1>1, <2>3, <3>1, <3>4, <4>1, BecomesKeeps DEF Same
    <3> QED
      BY <2>2, <3>3, <3>4
  <2>6. CASE stop
    <3>1. n = pause(m)
      BY <2>6
    <3> HIDE DEF n
    <3>2. /\ n \in Machines /\ n.stat = "READY" /\ ~n.timer
          /\ n.stepping = m.stepping /\ Same(n, m) /\ Handled(ui, n.sig) = UiFor("READY")
      BY <2>3, <2>4, <3>1, PauseFacts
    <3>3. Ending(ui, n)
      BY <2>3, <3>2 DEF Ending
    <3>4. Becomes(step_finish(n))
      BY <2>2, <3>2 DEF step_again
    <3>5. Shown(ui, step_finish(n)) /\ Same(step_finish(n), n)
      BY <3>3, FinishShows
    <3> QED
      BY <1>1, <2>3, <3>2, <3>4, <3>5, BecomesKeeps DEF Same
  <2> QED
    BY <2>5, <2>6
<1> QED
  BY <1>3, <1>4

\* a new machine takes the place of the one there was
LEMMA CreateCoreKeeps ==
    ASSUME WindowInv, NEW load \in BOOLEAN, NEW memory \in {"elf", "empty", "asm"},
           create_core(load, memory), UNCHANGED <<speed, coreview_shown>>
    PROVE  WindowInv'
<1> DEFINE m == NewMachine(made + 1, load, memory)
           n == set_speed(m, speed)
<1>1. made \in Nat /\ speed \in BOOLEAN /\ made + 1 \in Nat /\ made + 1 # 0
  BY DEF WindowInv
<1>2. <<>> \in Seq(Signals)
  OBVIOUS
<1>3. /\ m \in Machines /\ m.stat = "READY" /\ m.timer = FALSE /\ m.stepping = FALSE
      /\ m.sig = <<>> /\ m.id = made + 1
  BY <1>1, <1>2 DEF NewMachine, Machines, Stats, Pcs
<1> HIDE DEF m
<1>4. /\ n \in Machines /\ n.stat = "READY" /\ ~n.timer /\ ~n.stepping
      /\ n.sig = <<>> /\ n.id = made + 1
  BY <1>1, <1>3 DEF set_speed, Machines
<1>5. machine' = n /\ made' = made + 1 /\ ui' = UiFor("READY")
  BY SlotsShow DEF create_core, m
<1>6. scene' = IF coreview_shown THEN made + 1 ELSE 0
  BY <1>1 DEF create_core, show_hide_coreview
<1> HIDE DEF n
<1>7. Handled(ui', machine'.sig) = UiFor("READY")
  BY <1>4, <1>5, NoSignal
<1>8. Shown(ui, machine)'
  BY <1>4, <1>5, <1>7 DEF Shown, Displayed
<1>9. Present'
  BY <1>1, <1>4, <1>5 DEF Present, NoMachine
<1> QED
  BY <1>1, <1>4, <1>5, <1>6, <1>8, <1>9 DEF WindowInv

LEMMA CreateFromDialogKeeps ==
    ASSUME WindowInv, CreateFromDialog
    PROVE  WindowInv'
<1>1. CASE \E load \in BOOLEAN : create_core(load, MemoryOf(load, ~load))
  <2>1. PICK load \in BOOLEAN : create_core(load, MemoryOf(load, ~load))
    BY <1>1
  <2>2. MemoryOf(load, ~load) \in {"elf", "empty", "asm"}
    BY DEF MemoryOf, WindowInv, Shown, Machines
  <2> QED
    BY <2>1, <2>2, CreateCoreKeeps DEF CreateFromDialog
<1>2. CASE CreateFails(TRUE, "create")
  BY <1>2, NothingKeeps DEF CreateFails, CreateFromDialog
<1> QED
  BY <1>1, <1>2 DEF CreateFromDialog

LEMMA ReloadKeeps ==
    ASSUME WindowInv, Present, NEW reset \in BOOLEAN, NEW force \in BOOLEAN,
           machine_reload(reset, force), UNCHANGED <<speed, coreview_shown>>
    PROVE  WindowInv'
<1>1. machine \in Machines
  BY DEF WindowInv, Shown
<1>2. PICK load \in {force \/ executable_loaded(machine)} :
         \/ create_core(load, MemoryOf(load, ~reset))
         \/ CreateFails(load, "reload")
  BY DEF machine_reload
<1>3. load \in BOOLEAN /\ MemoryOf(load, ~reset) \in {"elf", "empty", "asm"}
  BY <1>1, <1>2 DEF executable_loaded, MemoryOf, Machines
<1>4. CASE create_core(load, MemoryOf(load, ~reset))
  BY <1>3, <1>4, CreateCoreKeeps
<1>5. CASE CreateFails(load, "reload")
  BY <1>5, NothingKeeps DEF CreateFails
<1> QED
  BY <1>2, <1>4, <1>5

LEMMA CompileKeeps ==
    ASSUME WindowInv, compile_source
    PROVE  WindowInv'
<1>1. /\ Present /\ machine \in Machines
      /\ UNCHANGED <<speed, coreview_shown>> /\ speed \in BOOLEAN
  BY DEF compile_source, WindowInv, Shown
<1>2. CASE reset_at_compile
  <2> DEFINE load == executable_loaded(machine)
  <2>1. load \in BOOLEAN
    BY <1>1 DEF executable_loaded, Machines
  <2>2. create_core(load, "asm") \/ CreateFails(load, "compile")
    BY <1>2 DEF compile_source
  <2> HIDE DEF load
  <2>3. CASE create_core(load, "asm")
    BY <1>1, <2>1, <2>3, CreateCoreKeeps
  <2>4. CASE CreateFails(load, "compile")
    BY <1>1, <2>4, NothingKeeps DEF CreateFails
  <2> QED
    BY <2>2, <2>3, <2>4
<1>3. CASE ~reset_at_compile
  <2> DEFINE m == [machine EXCEPT !.mem = "asm"]
  <2>1. machine' = m /\ UNCHANGED <<scene, ui, made>>
    BY <1>3 DEF compile_source
  <2>2. /\ m \in Machines /\ m.stat = machine.stat /\ m.timer = machine.timer
        /\ m.prev = machine.prev /\ m.stepping = machine.stepping /\ m.sig = machine.sig
        /\ m.id = machine.id
    BY <1>1 DEF Machines
  <2> HIDE DEF m
  <2> QED
    BY <1>1, <2>1, <2>2, FieldKeeps
<1> QED
  BY <1>2, <1>3

LEMMA CloseDialogKeeps ==
    ASSUME WindowInv, CloseDialog
    PROVE  WindowInv'
<1>1. UNCHANGED <<ui, scene, coreview_shown, speed, made>> /\ speed \in BOOLEAN
  BY DEF CloseDialog, WindowInv
<1> DEFINE m == [machine EXCEPT !.mem = "asm"]
<1>2. machine' = m \/ machine' = machine
  BY DEF CloseDialog
<1>3. CASE machine' = machine
  BY <1>1, <1>3, NothingKeeps
<1>4. CASE machine' = m /\ Present
  <2>1. machine \in Machines
    BY <1>4 DEF WindowInv, Shown
  <2>2. /\ m \in Machines /\ m.stat = machine.stat /\ m.timer = machine.timer
        /\ m.prev = machine.prev /\ m.stepping = machine.stepping /\ m.sig = machine.sig
        /\ m.id = machine.id
    BY <2>1 DEF Machines
  <2> HIDE DEF m
  <2> QED
    BY <1>1, <1>4, <2>2, FieldKeeps
<1>5. CASE machine' = m /\ ~Present
  <2>1. m = machine
    BY <1>5 DEF Present, NoMachine
  <2> QED
    BY <1>1, <1>5, <2>1, NothingKeeps
<1> QED
  BY <1>2, <1>3, <1>4, <1>5

LEMMA SettingsKeep ==
    ASSUME WindowInv, NEW s \in BOOLEAN, set_speed_action(s) \/ show_coreview(s)
    PROVE  WindowInv'
<1>1. CASE set_speed_action(s)
  <2>1. /\ speed' = s /\ UNCHANGED <<ui, scene, coreview_shown, made>>
        /\ machine' = IF Present THEN set_speed(machine, s) ELSE machine
    BY <1>1 DEF set_speed_action
  <2>2. CASE Present
    <3> DEFINE m == set_speed(machine, s)
    <3>1. machine \in Machines
      BY <2>2 DEF WindowInv, Shown
    <3>2. /\ m \in Machines /\ m.stat = machine.stat /\ m.timer = machine.timer
          /\ m.prev = machine.prev /\ m.stepping = machine.stepping /\ m.sig = machine.sig
          /\ m.id = machine.id
      BY <3>1 DEF set_speed, Machines
    <3>3. machine' = m
      BY <2>1, <2>2
    <3> HIDE DEF m
    <3> QED
      BY <2>1, <2>2, <3>2, <3>3, FieldKeeps
  <2>3. CASE ~Present
    BY <2>1, <2>3 DEF WindowInv, Present
  <2> QED
    BY <2>2, <2>3
<1>2. CASE show_coreview(s)
  <2>1. /\ coreview_shown' = s /\ UNCHANGED <<machine, ui, speed, made>>
        /\ scene' = show_hide_coreview(scene, machine.id, s)
    BY <1>2 DEF show_coreview
  <2>2. scene' = IF Present /\ s THEN made ELSE 0
    <3>1. CASE Present
      BY <2>1, <3>1 DEF WindowInv, show_hide_coreview
    <3>2. CASE ~Present
      <4>1. machine.id = 0
        BY <3>2 DEF Present, NoMachine
      <4> QED
        BY <2>1, <3>2, <4>1 DEF show_hide_coreview
    <3> QED
      BY <3>1, <3>2
  <2> QED
    BY <2>1, <2>2 DEF WindowInv, Present, Shown, Displayed
<1> QED
  BY <1>1, <1>2

LEMMA WindowNextKeeps == WindowInv /\ [WinNext]_winvars => WindowInv'
<1> SUFFICES ASSUME WindowInv, [WinNext]_winvars PROVE WindowInv'
  OBVIOUS
<1>1. CASE actionRun \/ actionPause \/ actionStep \/ actionRestart \/ Timeout
  BY <1>1, ControlKeeps
<1>2. CASE CoreStep \/ CoreTrap
  BY <1>2, CoreKeeps
<1>3. CASE CreateFromDialog
  BY <1>3, CreateFromDialogKeeps
<1>4. CASE actionReload
  <2>1. Present /\ machine_reload(FALSE, FALSE) /\ UNCHANGED <<speed, coreview_shown>>
    BY <1>4 DEF actionReload
  <2>2. FALSE \in BOOLEAN
    OBVIOUS
  <2> QED
    BY <2>1, <2>2, ReloadKeeps
<1>5. CASE compile_source
  BY <1>5, CompileKeeps
<1>6. CASE build_execute
  BY <1>6, NothingKeeps DEF build_execute
<1>7. ASSUME NEW ok \in BOOLEAN, build_execute_finished(ok)
      PROVE  WindowInv'
  <2>1. CASE ok /\ Present /\ reset_at_compile
    <3>1. machine_reload(TRUE, TRUE) /\ UNCHANGED <<speed, coreview_shown>>
      BY <1>7, <2>1 DEF build_execute_finished
    <3>2. TRUE \in BOOLEAN
      OBVIOUS
    <3> QED
      BY <2>1, <3>1, <3>2, ReloadKeeps
  <2>2. CASE ~(ok /\ Present /\ reset_at_compile)
    BY <1>7, <2>2, NothingKeeps DEF build_execute_finished
  <2> QED
    BY <2>1, <2>2
<1>8. CASE CloseDialog
  BY <1>8, CloseDialogKeeps
<1>9. ASSUME NEW s \in BOOLEAN, set_speed_action(s) \/ show_coreview(s)
      PROVE  WindowInv'
  BY <1>9, SettingsKeep
<1>10. CASE UNCHANGED winvars
  BY <1>10, NothingKeeps DEF winvars
<1> QED
  BY <1>1, <1>2, <1>3, <1>4, <1>5, <1>6, <1>7, <1>8, <1>9, <1>10 DEF WinNext

LEMMA WindowInitHolds == WinInit => WindowInv
<1> SUFFICES ASSUME WinInit PROVE WindowInv
  OBVIOUS
<1>1. ~Present /\ made = 0 /\ scene = 0
  BY DEF WinInit, Present
<1>2. speed \in BOOLEAN /\ coreview_shown \in BOOLEAN
  BY Zenon DEF WinInit
<1> QED
  BY <1>1, <1>2 DEF WindowInv

LEMMA WindowAlways == WinSpec => []WindowInv
<1>1. WindowInv /\ [WinNext]_winvars => WindowInv'
  BY WindowNextKeeps
<1> QED
  BY WindowInitHolds, <1>1, PTL DEF WinSpec

\* In whatever order ticks of the run timer, clicks, message boxes, exceptions and finished
\* builds come, the timer, the actions and the core view belong to the current machine and
\* its status whenever no step is under way (mainwindow.cpp, machine.cpp).
THEOREM WindowMatches == WinSpec => []WindowMatchesMachine
BY WindowAlways, WindowInvImplies, PTL

\* only a step of the core counts as one
LEMMA OnlyCoreSteps ==
    ASSUME WindowInv, WinNext, Present, machine'.id = machine.id, ~machine.stepping
    PROVE  machine'.parity = machine.parity
<1>1. machine \in Machines /\ machine.id = made /\ made \in Nat
  BY DEF WindowInv, Shown
<1>2. CASE actionRun \/ actionPause \/ actionStep \/ actionRestart \/ Timeout
  <2>1. PICK m : Becomes(m) /\ Shown(ui, m) /\ Same(m, machine)
    BY <1>2, ControlBecomes
  <2>2. m \in Machines /\ m.parity = machine.parity /\ machine' = [m EXCEPT !.sig = <<>>]
    BY <2>1 DEF Shown, Same, Becomes
  <2> QED
    BY <2>2 DEF Machines
<1>3. CASE CoreStep \/ CoreTrap
  BY <1>3 DEF CoreStep, CoreTrap
<1>4. ASSUME NEW load, NEW memory, create_core(load, memory)
      PROVE  FALSE
  BY <1>1, <1>4 DEF create_core, NewMachine, set_speed
<1>5. ASSUME NEW load, NEW what, CreateFails(load, what)
      PROVE  machine' = machine
  BY <1>5 DEF CreateFails
<1>6. CASE CreateFromDialog
  BY <1>4, <1>5, <1>6 DEF CreateFromDialog
<1>7. ASSUME NEW reset, NEW force, machine_reload(reset, force)
      PROVE  machine' = machine
  BY <1>4, <1>5, <1>7 DEF machine_reload
<1>8. CASE actionReload
  BY <1>7, <1>8 DEF actionReload
<1>9. CASE compile_source
  BY <1>1, <1>4, <1>5, <1>9 DEF compile_source, Machines
<1>10. CASE build_execute
  BY <1>10 DEF build_execute
<1>11. ASSUME NEW ok \in BOOLEAN, build_execute_finished(ok)
       PROVE  machine' = machine
  BY <1>7, <1>11 DEF build_execute_finished
<1>12. CASE CloseDialog
  BY <1>1, <1>12 DEF CloseDialog, Machines
<1>13. ASSUME NEW s \in BOOLEAN, set_speed_action(s) \/ show_coreview(s)
       PROVE  machine'.parity = machine.parity
  BY <1>1, <1>13 DEF set_speed_action, show_coreview, set_speed, Machines
<1> QED
  BY <1>2, <1>3, <1>6, <1>8, <1>9, <1>10, <1>11, <1>12, <1>13 DEF WinNext

\* Whatever stops a run (the end of the program, an exception, the user), the core makes
\* no further step before the machine is started again (Machine::step_internal).
THEOREM StoppedMachineRests == WinSpec => StopStopsTheRun
<1> DEFINE StepsBusy == machine.id = machine'.id /\ Present /\ machine'.parity # machine.parity
                          => machine.stat = "BUSY"
<1>1. WindowInv /\ [WinNext]_winvars => [StepsBusy]_winvars
  <2> SUFFICES ASSUME WindowInv, WinNext, machine.id = machine'.id, Present,
                      machine'.parity # machine.parity
               PROVE  machine.stat = "BUSY"
    OBVIOUS
  <2>1. machine.stepping
    BY OnlyCoreSteps
  <2> QED
    BY <2>1 DEF WindowInv, Shown
<1> QED
  BY WindowAlways, <1>1, PTL DEF WinSpec, StopStopsTheRun

-----------------------------------------------------------------------------
(* The symbol table.                                                         *)

SymSpec == SymInit /\ [][SymNext]_symtab

Entries == [id : Nat, name : SymbolNames, value : SymbolValues]

\* every entry has a number of its own, below the next one, and every name leads to an
\* entry of that name
SymbolsOwned(t) ==
    /\ t.next \in Nat
    /\ t.by_value \in SUBSET Entries
    /\ \A e \in t.by_value : e.id < t.next
    /\ \A e, f \in t.by_value : e.id = f.id => e = f
    /\ \A n \in DOMAIN t.by_name : \E e \in t.by_value : e.id = t.by_name[n] /\ e.name = n

IsTable(t) == t = [by_name |-> t.by_name, by_value |-> t.by_value, next |-> t.next]

SymbolsInv == IsTable(symtab) /\ SymbolsOwned(symtab)

LEMMA SymbolAdded ==
    ASSUME NEW t, SymbolsOwned(t), NEW n \in SymbolNames, NEW v \in SymbolValues
    PROVE  SymbolsOwned(add_symbol(t, n, v)) /\ IsTable(add_symbol(t, n, v))
<1> DEFINE r == add_symbol(t, n, v)
           new == [id |-> t.next, name |-> n, value |-> v]
<1>1. /\ r.next = t.next + 1 /\ r.by_value = {new} \cup t.by_value
      /\ DOMAIN r.by_name = DOMAIN t.by_name \cup {n}
      /\ \A k \in DOMAIN r.by_name : r.by_name[k] = IF k = n THEN t.next ELSE t.by_name[k]
  BY DEF add_symbol
<1>2. IsTable(r)
  BY DEF IsTable, add_symbol
<1>3. new \in Entries /\ new.id = t.next /\ new.name = n /\ t.next \in Nat
  BY DEF SymbolsOwned, Entries
<1> HIDE DEF r, new
<1>4. r.next \in Nat /\ r.by_value \in SUBSET Entries
  BY <1>1, <1>3 DEF SymbolsOwned
<1>5. \A e \in r.by_value : e.id < r.next
  BY <1>1, <1>3 DEF SymbolsOwned, Entries
<1>6. \A e, f \in r.by_value : e.id = f.id => e = f
  BY <1>1, <1>3 DEF SymbolsOwned, Entries
<1>7. ASSUME NEW k \in DOMAIN r.by_name
      PROVE  \E e \in r.by_value : e.id = r.by_name[k] /\ e.name = k
  <2>1. CASE k = n
    BY <1>1, <1>3, <2>1
  <2>2. CASE k # n
    BY <1>1, <2>2 DEF SymbolsOwned
  <2> QED
    BY <2>1, <2>2
<1>8. SymbolsOwned(r)
  BY <1>4, <1>5, <1>6, <1>7 DEF SymbolsOwned
<1> QED
  BY <1>2, <1>8 DEF r

LEMMA SymbolRemoved ==
    ASSUME NEW t, SymbolsOwned(t), IsTable(t), NEW n
    PROVE  SymbolsOwned(remove_symbol(t, n)) /\ IsTable(remove_symbol(t, n))
<1> DEFINE r == remove_symbol(t, n)
<1>1. CASE n \notin DOMAIN t.by_name
  BY <1>1 DEF remove_symbol
<1>2. CASE n \in DOMAIN t.by_name
  <2> DEFINE names == Removed(t.by_name, n)
             kept == {e \in t.by_value : e.id # t.by_name[n]}
  <2>1. r = [by_name |-> names, by_value |-> kept, next |-> t.next]
    BY <1>2 DEF remove_symbol, IsTable
  <2>2. DOMAIN names = DOMAIN t.by_name \ {n} /\ \A k \in DOMAIN names : names[k] = t.by_name[k]
    BY DEF Removed
  <2> HIDE DEF r, names
  <2>3. r.by_name = names /\ r.by_value = kept /\ r.next = t.next /\ IsTable(r)
    BY <2>1 DEF IsTable
  <2>4. ASSUME NEW k \in DOMAIN names
        PROVE  \E e \in kept : e.id = names[k] /\ e.name = k
    <3>1. PICK e \in t.by_value : e.id = t.by_name[k] /\ e.name = k
      BY <2>2 DEF SymbolsOwned
    <3>2. PICK f \in t.by_value : f.id = t.by_name[n] /\ f.name = n
      BY <1>2 DEF SymbolsOwned
    <3>3. e.id # f.id
      BY <2>2, <3>1, <3>2 DEF SymbolsOwned
    <3> QED
      BY <2>2, <3>1, <3>2, <3>3
  <2>5. SymbolsOwned(r)
    BY <2>3, <2>4 DEF SymbolsOwned
  <2> QED
    BY <2>3, <2>5 DEF r
<1> QED
  BY <1>1, <1>2

LEMMA SymbolsOwnedLive == SymbolsInv => SymbolsLive
<1> SUFFICES ASSUME SymbolsOwned(symtab), NEW n \in DOMAIN symtab.by_name
             PROVE  /\ \E e \in symtab.by_value : e.id = symtab.by_name[n] /\ e.name = n
                    /\ \E e \in symtab.by_value :
                          /\ e.name = location_to_name(symtab, name_to_value(symtab, n))
                          /\ e.value = name_to_value(symtab, n)
  BY DEF SymbolsLive, SymbolsInv
<1>1. \E e \in symtab.by_value : e.id = symtab.by_name[n] /\ e.name = n
  BY DEF SymbolsOwned
<1> DEFINE e == NamedEntry(symtab, n)
           v == e.value
           same == {g \in symtab.by_value : g.value = v}
           ids == {i \in Nat : \E g \in same : g.id = i}
<1>2. e \in symtab.by_value
  BY <1>1 DEF NamedEntry
<1>3. name_to_value(symtab, n) = v
  BY DEF name_to_value
<1> HIDE DEF e
<1>4. \A g \in symtab.by_value : g.id \in Nat /\ g.id < symtab.next
  BY DEF SymbolsOwned, Entries
<1>5. \E i \in ids : \A j \in ids : j =< i
  <2>1. ids # {} /\ ids \in SUBSET Nat
    BY <1>2, <1>4
  <2>2. symtab.next \in Nat /\ \A i \in ids : i < symtab.next
    BY <1>4 DEF SymbolsOwned
  <2> HIDE DEF ids
  <2> QED
    BY <2>1, <2>2, GreatestNumber
<1>6. \E f \in symtab.by_value : f.value = v /\ \A g \in symtab.by_value : g.value = v => g.id =< f.id
  BY <1>4, <1>5
<1> DEFINE f == FirstEntry(symtab, v)
<1>7. f \in symtab.by_value /\ f.value = v
  BY <1>6 DEF FirstEntry
<1>8. location_to_name(symtab, v) = f.name
  BY DEF location_to_name
<1> HIDE DEF f, v
<1> QED
  BY <1>1, <1>3, <1>7, <1>8

\* However often the loader and the assembler add, set and remove symbols, of names and
\* values that repeat, no name leads to a deleted entry and the symbol found at a name's
\* value has that value (symboltable.cpp).
THEOREM SymbolsStayLive == SymSpec => []SymbolsLive
<1>1. SymInit => SymbolsInv
  BY DEF SymInit, SymbolsInv, SymbolsOwned, IsTable
<1>2. SymbolsInv /\ [SymNext]_symtab => SymbolsInv'
  <2> SUFFICES ASSUME SymbolsInv, [SymNext]_symtab PROVE SymbolsInv'
    OBVIOUS
  <2> DEFINE Owned(t) == SymbolsOwned(t) /\ IsTable(t)
  <2>1. Owned(symtab)
    BY DEF SymbolsInv
  <2>2. Owned(symtab')
    <3>1. CASE AddSymbol
      BY <2>1, <3>1, SymbolAdded DEF AddSymbol
    <3>2. CASE set_symbol
      BY <2>1, <3>2, SymbolAdded, SymbolRemoved DEF set_symbol
    <3>3. CASE RemoveSymbol
      BY <2>1, <3>3, SymbolRemoved DEF RemoveSymbol
    <3>4. CASE UNCHANGED symtab
      BY <2>1, <3>4
    <3> QED
      BY <3>1, <3>2, <3>3, <3>4 DEF SymNext
  <2> QED
    BY <2>2 DEF SymbolsInv, SymbolsOwned, IsTable
<1> QED
  BY <1>1, <1>2, SymbolsOwnedLive, PTL DEF SymSpec

-----------------------------------------------------------------------------
(* The source editors.  The names that are picked and the files that are    *)
(* saved are computed one after the other, from a first value by a step.    *)

\* induction up to n
LEMMA UpTo ==
    ASSUME NEW n \in Nat, NEW B, 0 \in B, \A k \in 1 .. n : k - 1 \in B => k \in B
    PROVE  \A k \in 0 .. n : k \in B
<1> DEFINE Bad == {k \in 0 .. n : k \notin B}
<1>1. ASSUME Bad # {} PROVE FALSE
  <2>1. Bad \in SUBSET Nat
    OBVIOUS
  <2>2. PICK k \in Bad : \A j \in Bad : k =< j
    <3> HIDE DEF Bad
    <3> QED
      BY <1>1, <2>1, LeastNumber
  <2>3. k \in 1 .. n /\ k - 1 \in 0 .. n /\ ~(k =< k - 1)
    BY <2>2
  <2>4. k - 1 \in B
    BY <2>2, <2>3
  <2> QED
    BY <2>2, <2>3, <2>4
<1> QED
  BY <1>1

Walks(f, n, base, move) ==
    f = [k \in 0 .. n |-> IF k = 0 THEN base ELSE move[<<k, f[k - 1]>>]]

LEMMA WalkOneMore ==
    ASSUME NEW n \in Nat, NEW base, NEW move, NEW f, Walks(f, n, base, move)
    PROVE  \E g : Walks(g, n + 1, base, move)
<1> DEFINE g == [k \in 0 .. n + 1 |-> IF k = n + 1 THEN move[<<n + 1, f[n]>>] ELSE f[k]]
           h == [k \in 0 .. n + 1 |-> IF k = 0 THEN base ELSE move[<<k, g[k - 1]>>]]
<1>1. \A k \in 0 .. n : f[k] = IF k = 0 THEN base ELSE move[<<k, f[k - 1]>>]
  BY DEF Walks
<1>2. \A k \in 0 .. n + 1 : g[k] = IF k = n + 1 THEN move[<<n + 1, f[n]>>] ELSE f[k]
  OBVIOUS
<1>3. \A k \in 0 .. n + 1 : h[k] = IF k = 0 THEN base ELSE move[<<k, g[k - 1]>>]
  OBVIOUS
<1>4. ASSUME NEW k \in 0 .. n + 1
      PROVE  g[k] = h[k]
  <2> HIDE DEF g, h
  <2>1. CASE k = 0
    <3>1. k # n + 1 /\ k \in 0 .. n
      BY <2>1
    <3> QED
      BY <1>1, <1>2, <1>3, <2>1, <3>1
  <2>2. CASE k = n + 1
    <3>1. k # 0 /\ k - 1 = n /\ n \in 0 .. n + 1 /\ n # n + 1
      BY <2>2
    <3>2. g[k - 1] = f[n]
      BY <1>2, <3>1
    <3> QED
      BY <1>2, <1>3, <2>2, <3>1, <3>2
  <2>3. CASE k # 0 /\ k # n + 1
    <3>1. k \in 0 .. n /\ k - 1 \in 0 .. n + 1 /\ k - 1 # n + 1
      BY <2>3
    <3>2. g[k] = f[k] /\ g[k - 1] = f[k - 1]
      BY <1>2, <2>3, <3>1
    <3> QED
      BY <1>1, <1>3, <2>3, <3>1, <3>2
  <2> QED
    BY <2>1, <2>2, <2>3
<1>5. g = [k \in 0 .. n + 1 |-> g[k]] /\ h = [k \in 0 .. n + 1 |-> h[k]]
  <2>1. g = [k \in 0 .. n + 1 |-> g[k]]
    BY SMTT(30)
  <2>2. h = [k \in 0 .. n + 1 |-> h[k]]
    <3> HIDE DEF g
    <3> QED
      BY SMTT(30)
  <2> QED
    BY <2>1, <2>2
<1>6. g = h
  <2> HIDE DEF g, h
  <2> QED
    BY <1>4, <1>5
<1> QED
  BY <1>6 DEF Walks

LEMMA WalkExists ==
    ASSUME NEW n \in Nat, NEW base, NEW move
    PROVE  \E f : Walks(f, n, base, move)
<1> DEFINE B == {k \in 0 .. n : \E f : Walks(f, k, base, move)}
<1>1. 0 \in B
  <2> DEFINE f == [i \in 0 .. 0 |-> base]
  <2>1. f = [i \in 0 .. 0 |-> IF i = 0 THEN base ELSE move[<<i, f[i - 1]>>]]
    OBVIOUS
  <2>2. Walks(f, 0, base, move)
    BY <2>1 DEF Walks
  <2> QED
    BY <2>2
<1>2. ASSUME NEW k \in 1 .. n, k - 1 \in B PROVE k \in B
  <2>1. k - 1 \in Nat /\ (k - 1) + 1 = k
    OBVIOUS
  <2>2. PICK f : Walks(f, k - 1, base, move)
    BY <1>2
  <2>3. \E g : Walks(g, (k - 1) + 1, base, move)
    BY <2>1, <2>2, WalkOneMore
  <2> QED
    BY <2>1, <2>3
<1> HIDE DEF B
<1>3. n \in B
  BY <1>1, <1>2, UpTo
<1> QED
  BY <1>3 DEF B

\* A function that keeps to its step on a set stays in that set.
OnStep(f, n, S, base, move) ==
    /\ f = [k \in 0 .. n |-> f[k]]
    /\ f[0] = base
    /\ \A k \in 1 .. n : f[k - 1] \in S => f[k] = move[<<k, f[k - 1]>>]

LEMMA WalkStays ==
    ASSUME NEW n \in Nat, NEW S, NEW base \in S, NEW move \in [(1 .. n) \X S -> S],
           NEW f, OnStep(f, n, S, base, move)
    PROVE  f \in [0 .. n -> S]
<1> DEFINE B == {k \in 0 .. n : f[k] \in S}
<1>1. f = [k \in 0 .. n |-> f[k]] /\ f[0] = base
      /\ \A k \in 1 .. n : f[k - 1] \in S => f[k] = move[<<k, f[k - 1]>>]
  BY DEF OnStep
<1>2. 0 \in B
  BY <1>1
<1>3. ASSUME NEW k \in 1 .. n, k - 1 \in B PROVE k \in B
  <2>1. f[k - 1] \in S /\ k \in 0 .. n
    BY <1>3
  <2>2. move[<<k, f[k - 1]>>] \in S
    BY <2>1
  <2> QED
    BY <1>1, <2>1, <2>2
<1> HIDE DEF B
<1>4. \A k \in 0 .. n : k \in B
  BY <1>2, <1>3, UpTo
<1>5. \A k \in 0 .. n : f[k] \in S
  BY <1>4 DEF B
<1> QED
  BY <1>1, <1>5

\* what there is to walk with, and a walk
Moves(n, S, base, move) == n \in Nat /\ base \in S /\ move \in [(1 .. n) \X S -> S]
Walked(f, n, S, base, move) ==
    f \in [0 .. n -> S] /\ f[0] = base /\ \A k \in 1 .. n : f[k] = move[<<k, f[k - 1]>>]

LEMMA WalkTaken ==
    ASSUME NEW n, NEW S, NEW base, NEW move, Moves(n, S, base, move)
    PROVE  \E f : Walked(f, n, S, base, move)
<1>1. n \in Nat /\ base \in S /\ move \in [(1 .. n) \X S -> S]
  BY DEF Moves
<1>2. PICK f : Walks(f, n, base, move)
  BY <1>1, WalkExists
<1>3. \A k \in 0 .. n : f[k] = IF k = 0 THEN base ELSE move[<<k, f[k - 1]>>]
  BY <1>2 DEF Walks
<1>4. 0 \in 0 .. n /\ \A k \in 1 .. n : k \in 0 .. n /\ k # 0
  BY <1>1
<1>5. f[0] = base /\ \A k \in 1 .. n : f[k] = move[<<k, f[k - 1]>>]
  BY <1>3, <1>4
<1>6. f = [k \in 0 .. n |-> f[k]]
  BY <1>2 DEF Walks
<1>7. OnStep(f, n, S, base, move)
  BY <1>5, <1>6 DEF OnStep
<1>8. f \in [0 .. n -> S]
  BY <1>1, <1>7, WalkStays
<1> QED
  BY <1>5, <1>8 DEF Walked

\* What is picked from s: the elements at the positions of P, none of them twice if s
\* has none twice.
LEMMA PickedFacts ==
    ASSUME NEW X, NEW s \in Seq(X), NEW P
    PROVE  /\ Picked(s, P) \in Seq(X)
           /\ Len(Picked(s, P)) \in Nat /\ Len(Picked(s, P)) <= Len(s)
           /\ \A x : x \in ToSet(Picked(s, P)) <=> \E i \in 1 .. Len(s) : i \in P /\ s[i] = x
           /\ IsInjective(s) => IsInjective(Picked(s, P))
<1> DEFINE n == Len(s)
           S == Seq(X)
           none == <<>>
           W(t, k) == IF k \in P THEN Append(t, s[k]) ELSE t
           move == [x \in (1 .. n) \X S |-> W(x[2], x[1])]
           Eqn(f) == f = [k \in 0 .. n |-> IF k = 0 THEN none ELSE W(f[k - 1], k)]
<1>1. n \in Nat /\ none \in S /\ \A k \in 1 .. n : s[k] \in X
  BY ElementOfSeq
<1>2. \A k \in 1 .. n, t \in S : W(t, k) \in S
  BY <1>1, AppendProperties
<1>3. move \in [(1 .. n) \X S -> S]
  <2> HIDE DEF W, S, n
  <2>1. \A x \in (1 .. n) \X S : x[1] \in 1 .. n /\ x[2] \in S
    OBVIOUS
  <2>2. \A x \in (1 .. n) \X S : W(x[2], x[1]) \in S
    BY <1>2, <2>1
  <2> QED
    BY <2>2
<1>4. ASSUME NEW k \in 1 .. n, NEW t \in S
      PROVE  move[<<k, t>>] = W(t, k)
  <2> HIDE DEF W, S, n, move
  <2>1. <<k, t>> \in (1 .. n) \X S
    OBVIOUS
  <2>2. move[<<k, t>>] = W(<<k, t>>[2], <<k, t>>[1])
    BY <2>1 DEF move
  <2> QED
    BY <2>2
<1>5. \E f : Eqn(f)
  <2> HIDE DEF move, S, n, W, none
  <2>1. Moves(n, S, none, move)
    BY <1>1, <1>3 DEF Moves
  <2>a. PICK f : Walked(f, n, S, none, move)
    BY <2>1, WalkTaken
  <2>2. f \in [0 .. n -> S] /\ f[0] = none /\ \A k \in 1 .. n : f[k] = move[<<k, f[k - 1]>>]
    BY <2>a DEF Walked
  <2>3. \A k \in 1 .. n : k - 1 \in 0 .. n
    BY <1>1
  <2>4. \A k \in 1 .. n : f[k] = W(f[k - 1], k)
    BY <1>4, <2>2, <2>3
  <2>5. \A k \in 0 .. n : k = 0 \/ k \in 1 .. n
    BY <1>1
  <2>6. \A k \in 0 .. n : f[k] = IF k = 0 THEN none ELSE W(f[k - 1], k)
    BY <2>2, <2>4, <2>5
  <2>7. Eqn(f)
    BY <2>2, <2>6
  <2> QED
    BY <2>7
<1> DEFINE g == CHOOSE f : Eqn(f)
<1>6. Picked(s, P) = g[n]
  BY DEF Picked
<1>7. Eqn(g)
  <2> HIDE DEF Eqn
  <2> QED
    BY <1>5
<1> HIDE DEF g
<1>8. /\ g = [k \in 0 .. n |-> g[k]]
      /\ \A k \in 0 .. n : g[k] = IF k = 0 THEN none ELSE W(g[k - 1], k)
  <2> HIDE DEF W
  <2> QED
    BY <1>7
<1>9. 0 \in 0 .. n /\ n \in 0 .. n /\ \A k \in 1 .. n : k \in 0 .. n /\ k # 0
  BY <1>1
<1>10. g[0] = none /\ \A k \in 1 .. n : g[k] = W(g[k - 1], k)
  <2> HIDE DEF W, n
  <2> QED
    BY <1>8, <1>9
<1> DEFINE Q(k) == /\ g[k] \in S /\ Len(g[k]) <= k
                   /\ \A x : x \in ToSet(g[k]) <=> \E i \in 1 .. k : i \in P /\ s[i] = x
                   /\ IsInjective(s) => IsInjective(g[k])
           B == {k \in 0 .. n : Q(k)}
<1>11. 0 \in B
  <2>1. Q(0)
    BY <1>1, <1>10 DEF ToSet, IsInjective
  <2> HIDE DEF Q
  <2> QED
    BY <1>9, <2>1
<1>12. ASSUME NEW k \in 1 .. n, k - 1 \in B PROVE k \in B
  <2> DEFINE t == g[k - 1]
  <2>1. Q(k - 1) /\ k \in Nat /\ k - 1 \in Nat /\ k \in 0 .. n
    BY <1>1, <1>12
  <2>2. g[k] = W(t, k)
    BY <1>10
  <2>3. t \in S /\ Len(t) \in Nat /\ DOMAIN t = 1 .. Len(t) /\ Len(t) <= k - 1
    BY <2>1, LenProperties
  <2>4. \A x : x \in ToSet(t) <=> \E i \in 1 .. k - 1 : i \in P /\ s[i] = x
    BY <2>1
  <2>5. IsInjective(s) => IsInjective(t)
    BY <2>1
  <2>6. \A i : i \in 1 .. k <=> i \in 1 .. k - 1 \/ i = k
    BY <2>1
  <2> HIDE DEF t, Q
  <2>7. CASE k \notin P
    <3>1. g[k] = t
      BY <2>2, <2>7
    <3>2. \A x : x \in ToSet(t) <=> \E i \in 1 .. k : i \in P /\ s[i] = x
      BY <2>4, <2>6, <2>7
    <3>3. Len(t) <= k
      BY <2>1, <2>3
    <3>4. Q(k)
      BY <2>3, <2>5, <3>1, <3>2, <3>3 DEF Q
    <3> QED
      BY <2>1, <3>4
  <2>8. CASE k \in P
    <3> DEFINE u == Append(t, s[k])
    <3>1. g[k] = u
      BY <2>2, <2>8
    <3>2. /\ u \in S /\ Len(u) = Len(t) + 1 /\ DOMAIN u = 1 .. (Len(t) + 1)
          /\ u[Len(t) + 1] = s[k] /\ \A i \in 1 .. Len(t) : u[i] = t[i]
      BY <1>1, <2>3, AppendProperties
    <3> HIDE DEF u
    <3>3. \A x : x \in ToSet(u) <=> x \in ToSet(t) \/ x = s[k]
      <4>1. \A i : i \in 1 .. (Len(t) + 1) <=> i \in 1 .. Len(t) \/ i = Len(t) + 1
        BY <2>3
      <4> QED
        BY <2>3, <3>2, <4>1 DEF ToSet
    <3>4. \A x : x \in ToSet(u) <=> \E i \in 1 .. k : i \in P /\ s[i] = x
      BY <2>4, <2>6, <2>8, <3>3
    <3>5. ASSUME IsInjective(s) PROVE IsInjective(u)
      <4>1. \A i \in 1 .. Len(t) : t[i] # s[k]
        <5> SUFFICES ASSUME NEW i \in 1 .. Len(t), t[i] = s[k] PROVE FALSE
          OBVIOUS
        <5>1. s[k] \in ToSet(t)
          BY <2>3 DEF ToSet
        <5>2. PICK j \in 1 .. k - 1 : s[j] = s[k]
          BY <2>4, <5>1
        <5>3. j \in DOMAIN s /\ k \in DOMAIN s /\ j # k
          BY <1>1, LenProperties
        <5> QED
          BY <3>5, <5>2, <5>3 DEF IsInjective
      <4>2. \A i, j \in 1 .. Len(t) : t[i] = t[j] => i = j
        BY <2>3, <2>5, <3>5 DEF IsInjective
      <4>3. \A i \in 1 .. (Len(t) + 1) : i \in 1 .. Len(t) \/ i = Len(t) + 1
        BY <2>3
      <4>4. \A i, j \in 1 .. (Len(t) + 1) : u[i] = u[j] => i = j
        BY <3>2, <4>1, <4>2, <4>3
      <4> QED
        BY <3>2, <4>4 DEF IsInjective
    <3>6. Len(u) <= k
      BY <2>1, <2>3, <3>2
    <3>7. Q(k)
      BY <3>1, <3>2, <3>4, <3>5, <3>6 DEF Q
    <3> QED
      BY <2>1, <3>7
  <2> QED
    BY <2>7, <2>8
<1>13. n \in B
  <2> HIDE DEF B
  <2> QED
    BY <1>1, <1>9, <1>11, <1>12, UpTo
<1>14. Q(n)
  BY <1>13
<1>15. g[n] \in S => Len(g[n]) \in Nat
  BY LenProperties
<1> QED
  BY <1>6, <1>14, <1>15

-----------------------------------------------------------------------------
Names == FileNames \cup {Example, NoName}
\* only a file of a name the user can write to is saved without asking for one
Docs == {d \in [file : Names, saveAsRequired : BOOLEAN, modified : BOOLEAN, text : Nat] :
            d.saveAsRequired <=> d.file \notin FileNames}

TabsOk == /\ tabs \in Seq(Editors) /\ IsInjective(tabs) /\ Len(tabs) <= MaxEditors
          /\ ed \in [Editors -> Docs]
          /\ disk \in [Files -> Nat]

ShownOk == /\ shown \in OpenEditors \cup {0}
           /\ current_srceditor \in OpenEditors \cup {0}
           /\ shown # 0 => current_srceditor = shown

ListOk == /\ openSrcFiles \in Seq(FileNames \cup {Example}) /\ Len(openSrcFiles) <= MaxEditors
          /\ ~stray => openSrcFiles = FilesOf(tabs, ed)

\* While a question is asked the files it lists are open.
QuestionOk == /\ question.kind \in {"none", "closed", "close", "exit", "build"}
              /\ question.kind = "closed" => question = Closed
              /\ question.kind = "close" => current_srceditor # 0
              /\ question.kind \in {"exit", "build"} =>
                    /\ question.rows \in Seq(Names)
                    /\ \A i \in 1 .. Len(question.rows) :
                          \E e \in OpenEditors : ed[e].file = question.rows[i]

EdInv == TabsOk /\ ShownOk /\ ListOk /\ QuestionOk /\ edits \in Nat

LEMMA EditorsFacts ==
    /\ MaxEditors \in Nat /\ MaxEdits \in Nat /\ NoFile \in Nat
    /\ NoName \notin FileNames /\ NoName # Example /\ Example \notin FileNames
BY EditorsAssumption DEF EditorsAssumption, NoFile

LEMMA OpenFacts ==
    ASSUME TabsOk
    PROVE  /\ OpenEditors = {tabs[i] : i \in 1 .. Len(tabs)}
           /\ Len(tabs) \in Nat
           /\ OpenEditors \subseteq Editors
           /\ 0 \notin OpenEditors
           /\ \A i \in 1 .. Len(tabs) : tabs[i] \in Editors
<1>1. Len(tabs) \in Nat /\ DOMAIN tabs = 1 .. Len(tabs)
  BY LenProperties DEF TabsOk
<1>2. \A i \in 1 .. Len(tabs) : tabs[i] \in Editors
  BY ElementOfSeq DEF TabsOk
<1> QED
  BY <1>1, <1>2 DEF OpenEditors, ToSet, Editors

\* A name matches an editor if it is the editor's, or a name of the same file.
Matches(name, d) == \/ name = d.file
                    \/ {name, d.file} \subseteq FileNames /\ Canon[name] = Canon[d.file]

LEMMA MatchFacts ==
    ASSUME NEW name, NEW d, NEW dsk
    PROVE  /\ compare_filenames(name, d.file, dsk) \in 0 .. 2
           /\ compare_filenames(name, d.file, dsk) > 0 => Matches(name, d)
           /\ name = d.file => compare_filenames(name, d.file, dsk) > 0
BY DEF compare_filenames, Exists, Matches

\* The editor found for a name is open and matches.
LEMMA EditorFound ==
    ASSUME TabsOk, NEW name, NEW es, NEW dsk,
           NEW m \in OpenEditors, compare_filenames(name, es[m].file, dsk) > 0
    PROVE  /\ EditorFor(name, es, dsk) \in OpenEditors
           /\ compare_filenames(name, es[EditorFor(name, es, dsk)].file, dsk) > 0
<1> DEFINE rank(e) == compare_filenames(name, es[e].file, dsk)
           best == {e \in OpenEditors : rank(e) > 0 /\ \A f \in OpenEditors : rank(e) >= rank(f)}
           at == {i \in 1 .. Len(tabs) : tabs[i] \in best}
           first == CHOOSE i \in 1 .. Len(tabs) :
                       tabs[i] \in best /\ \A j \in 1 .. i - 1 : tabs[j] \notin best
<1>1. \A e : rank(e) \in 0 .. 2
  BY DEF compare_filenames
<1>2. best # {}
  <2> DEFINE R == [e \in OpenEditors |-> rank(e)]
  <2>1. \A e \in OpenEditors : R[e] = rank(e)
    BY DEF compare_filenames
  <2>2. \A e \in OpenEditors : R[e] \in 0 .. 2
    BY <1>1
  <2>3. R[m] > 0
    OBVIOUS
  <2> HIDE DEF R
  <2>4. \E e \in OpenEditors : R[e] > 0 /\ \A f \in OpenEditors : R[e] >= R[f]
    <3>1. CASE \E e \in OpenEditors : R[e] = 2
      BY <2>2, <3>1
    <3>2. CASE ~\E e \in OpenEditors : R[e] = 2
      <4>1. R[m] = 1 /\ \A f \in OpenEditors : R[f] \in 0 .. 1
        BY <2>2, <2>3, <3>2
      <4> QED
        BY <4>1
    <3> QED
      BY <3>1, <3>2
  <2> QED
    BY <2>4 DEF R
<1>3. EditorFor(name, es, dsk) = IF current_srceditor \in best THEN current_srceditor ELSE tabs[first]
  BY <1>2 DEF EditorFor
<1>4. tabs[first] \in best
  <2>1. at # {} /\ at \in SUBSET Nat
    <3>1. PICK e \in best : TRUE
      BY <1>2
    <3>2. e \in OpenEditors
      OBVIOUS
    <3>3. PICK i \in 1 .. Len(tabs) : tabs[i] = e
      BY <3>2, OpenFacts
    <3> HIDE DEF best
    <3> QED
      BY <3>3, OpenFacts
  <2> HIDE DEF best
  <2>2. PICK i \in at : \A j \in at : i =< j
    <3> HIDE DEF at
    <3> QED
      BY <2>1, LeastNumber
  <2>3. i \in 1 .. Len(tabs) /\ tabs[i] \in best /\ \A j \in 1 .. i - 1 : tabs[j] \notin best
    <3>1. \A j \in 1 .. i - 1 : j \in 1 .. Len(tabs) /\ ~(i =< j)
      BY <2>2, OpenFacts
    <3> QED
      BY <2>2, <3>1
  <2> QED
    BY <2>3
<1> HIDE DEF first
<1> QED
  BY <1>3, <1>4

\* No other editor answers for a name of which one is alone.
LEMMA OnlyEditor ==
    ASSUME TabsOk, NEW name, NEW es, NEW dsk, NEW m \in OpenEditors, Matches(name, ed[m]),
           Alone(m, name), \A e \in OpenEditors : es[e].file = ed[e].file,
           NEW x \in OpenEditors, compare_filenames(name, es[x].file, dsk) > 0
    PROVE  x = m
<1>1. compare_filenames(name, ed[x].file, dsk) > 0
  OBVIOUS
<1>2. Matches(name, ed[x])
  BY <1>1, MatchFacts
<1> QED
  BY <1>2 DEF Alone, Matches

\* The assembler reads the open editor of an included file.
LEMMA TextShown ==
    ASSUME TabsOk, NEW name \in FileNames, NEW e \in OpenEditors,
           \/ name = ed[e].file
           \/ Exists(name, disk) /\ ed[e].file \in FileNames /\ Canon[name] = Canon[ed[e].file],
           Alone(e, name)
    PROVE  IncludedText(name) = ed[e].text
<1> DEFINE x == source_editor_for_file(name)
<1>1. Matches(name, ed[e])
  BY DEF Matches
<1>2. compare_filenames(name, ed[e].file, disk) > 0
  BY DEF compare_filenames, Exists
<1>3. x \in OpenEditors /\ compare_filenames(name, ed[x].file, disk) > 0
  BY <1>2, EditorFound DEF source_editor_for_file
<1> HIDE DEF x
<1>4. x = e
  BY <1>1, <1>3, OnlyEditor
<1>5. e # 0
  BY OpenFacts
<1> QED
  BY <1>4, <1>5 DEF x, IncludedText

\* The names of the tabs' files depend on the files alone.
LEMMA SameFiles ==
    ASSUME NEW ts, NEW es, NEW fs, \A i \in 1 .. Len(ts) : es[ts[i]].file = fs[ts[i]].file
    PROVE  FilesOf(ts, es) = FilesOf(ts, fs)
<1>1. NamesOf(ts, es) = NamesOf(ts, fs)
  BY DEF NamesOf
<1>2. {i \in 1 .. Len(ts) : es[ts[i]].file # NoName} = {i \in 1 .. Len(ts) : fs[ts[i]].file # NoName}
  OBVIOUS
<1> QED
  BY <1>1, <1>2 DEF FilesOf

LEMMA NamesTyped ==
    ASSUME NEW ts \in Seq(Editors), NEW es \in [Editors -> Docs]
    PROVE  /\ NamesOf(ts, es) \in Seq(Names) /\ Len(NamesOf(ts, es)) = Len(ts) /\ Len(ts) \in Nat
           /\ \A i \in 1 .. Len(ts) : NamesOf(ts, es)[i] = es[ts[i]].file
<1>1. Len(ts) \in Nat /\ \A i \in 1 .. Len(ts) : ts[i] \in Editors
  BY LenProperties, ElementOfSeq
<1>2. \A e \in Editors : es[e].file \in Names
  BY DEF Docs
<1> DEFINE s == NamesOf(ts, es)
<1>3. s \in [1 .. Len(ts) -> Names] /\ \A i \in 1 .. Len(ts) : s[i] = es[ts[i]].file
  BY <1>1, <1>2 DEF NamesOf
<1> HIDE DEF s
<1>4. s \in Seq(Names)
  BY <1>1, <1>3
<1>5. Len(s) = Len(ts)
  BY <1>1, <1>3, <1>4, LenProperties
<1> QED
  BY <1>1, <1>3, <1>4, <1>5 DEF s

LEMMA Narrower ==
    ASSUME NEW X, NEW Y, NEW s \in Seq(X), \A x \in ToSet(s) : x \in Y
    PROVE  s \in Seq(Y)
<1>1. Len(s) \in Nat /\ s \in [1 .. Len(s) -> X] /\ DOMAIN s = 1 .. Len(s)
  BY LenProperties
<1>2. \A i \in 1 .. Len(s) : s[i] \in Y
  BY <1>1 DEF ToSet
<1>3. s \in [1 .. Len(s) -> Y]
  BY <1>1, <1>2
<1> QED
  BY <1>1, <1>3

LEMMA FilesTyped ==
    ASSUME NEW ts \in Seq(Editors), Len(ts) <= MaxEditors, NEW es \in [Editors -> Docs]
    PROVE  /\ FilesOf(ts, es) \in Seq(FileNames \cup {Example})
           /\ Len(FilesOf(ts, es)) <= MaxEditors
<1> DEFINE s == NamesOf(ts, es)
           P == {i \in 1 .. Len(ts) : es[ts[i]].file # NoName}
           q == Picked(s, P)
<1>1. s \in Seq(Names) /\ Len(s) = Len(ts) /\ Len(ts) \in Nat
      /\ \A i \in 1 .. Len(ts) : s[i] = es[ts[i]].file
  BY NamesTyped
<1>2. FilesOf(ts, es) = q
  BY DEF FilesOf
<1> HIDE DEF s
<1>3. q \in Seq(Names) /\ Len(q) \in Nat /\ Len(q) <= Len(s)
  BY <1>1, PickedFacts
<1>4. \A x : x \in ToSet(q) <=> \E i \in 1 .. Len(s) : i \in P /\ s[i] = x
  BY <1>1, PickedFacts
<1> HIDE DEF q
<1>5. \A x \in ToSet(q) : x \in FileNames \cup {Example}
  <2>1. \A i \in 1 .. Len(s) : s[i] \in Names
    BY <1>1, ElementOfSeq
  <2>2. \A i \in P : s[i] # NoName
    BY <1>1
  <2> HIDE DEF P
  <2> QED
    BY <1>4, <2>1, <2>2 DEF Names
<1>6. q \in Seq(FileNames \cup {Example})
  BY <1>3, <1>5, Narrower
<1> QED
  BY <1>1, <1>2, <1>3, <1>6, EditorsFacts

\* There is an editor for a new tab while there are fewer tabs than editors.
LEMMA FreeFacts ==
    ASSUME TabsOk, Len(tabs) < MaxEditors
    PROVE  FreeEditor \in Editors /\ FreeEditor \notin OpenEditors
<1>1. Len(tabs) \in Nat /\ MaxEditors \in Nat
  BY OpenFacts, EditorsFacts
<1>2. ASSUME \A e \in Editors : e \in OpenEditors PROVE FALSE
  <2> DEFINE I == 1 .. Len(tabs)
             f == [i \in I |-> tabs[i]]
  <2>1. f \in [I -> Editors] /\ \A i \in I : f[i] = tabs[i]
    BY OpenFacts
  <2>2. \A e \in Editors : \E i \in I : tabs[i] = e
    BY <1>2, OpenFacts
  <2> HIDE DEF f
  <2>3. f \in Surjection(I, Editors)
    BY <2>1, <2>2 DEF Surjection
  <2>4. \A n \in Nat : IsFiniteSet(1 .. n) /\ Cardinality(1 .. n) = n
    BY FS_Interval
  <2>5. Cardinality(Editors) = MaxEditors /\ IsFiniteSet(I) /\ Cardinality(I) = Len(tabs)
    BY <1>1, <2>4 DEF Editors
  <2> HIDE DEF I
  <2>6. Cardinality(Editors) <= Cardinality(I)
    BY <2>3, <2>5, FS_Surjection
  <2> QED
    BY <1>1, <2>5, <2>6
<1> QED
  BY <1>2 DEF FreeEditor

\* a tab more
LEMMA TabAdded ==
    ASSUME TabsOk, NEW e \in Editors, e \notin OpenEditors, Len(tabs) < MaxEditors
    PROVE  /\ Append(tabs, e) \in Seq(Editors) /\ IsInjective(Append(tabs, e))
           /\ Len(Append(tabs, e)) <= MaxEditors
           /\ ToSet(Append(tabs, e)) = OpenEditors \cup {e}
<1> DEFINE t == Append(tabs, e)
           n == Len(tabs)
<1>1. n \in Nat /\ MaxEditors \in Nat /\ tabs \in Seq(Editors)
  BY OpenFacts, EditorsFacts DEF TabsOk
<1>2. t \in Seq(Editors) /\ Len(t) = n + 1 /\ t[n + 1] = e /\ \A i \in 1 .. n : t[i] = tabs[i]
  BY <1>1, AppendProperties
<1>3. DOMAIN t = 1 .. (n + 1)
  BY <1>2, LenProperties
<1>4. DOMAIN tabs = 1 .. n /\ OpenEditors = {tabs[i] : i \in 1 .. n}
  BY OpenFacts, LenProperties, <1>1
<1> HIDE DEF t, n
<1>5. \A i : i \in 1 .. (n + 1) <=> i \in 1 .. n \/ i = n + 1
  BY <1>1
<1>6. \A i, j \in 1 .. n : tabs[i] = tabs[j] => i = j
  BY <1>4 DEF TabsOk, IsInjective
<1>7. \A i, j \in 1 .. (n + 1) : t[i] = t[j] => i = j
  BY <1>2, <1>4, <1>5, <1>6
<1>8. IsInjective(t)
  BY <1>3, <1>7 DEF IsInjective
<1>9. ToSet(t) = {t[i] : i \in 1 .. (n + 1)}
  BY <1>3 DEF ToSet
<1>10. ToSet(t) = OpenEditors \cup {e}
  <2>1. \A i \in 1 .. n : t[i] \in OpenEditors
    BY <1>2, <1>4
  <2>2. \A x \in ToSet(t) : x \in OpenEditors \cup {e}
    BY <1>2, <1>5, <1>9, <2>1
  <2>3. \A x \in OpenEditors : \E i \in 1 .. n : t[i] = x
    BY <1>2, <1>4
  <2>4. \A x \in OpenEditors \cup {e} : x \in ToSet(t)
    BY <1>2, <1>5, <1>9, <2>3
  <2> QED
    BY <2>2, <2>4
<1> QED
  BY <1>1, <1>2, <1>8, <1>10 DEF t, n

LEMMA DocNamed ==
    ASSUME NEW d \in [file : Names, saveAsRequired : BOOLEAN, modified : BOOLEAN, text : Nat],
           NEW name \in Names
    PROVE  /\ setFileName(d, name) \in Docs
           /\ setFileName(d, name).file = name
           /\ setFileName(d, name).text = d.text
<1> DEFINE req == name \in {NoName, Example}
           c == [d EXCEPT !.file = name, !.saveAsRequired = req]
<1>1. req \in BOOLEAN /\ (req <=> name \notin FileNames)
  BY EditorsFacts DEF Names
<1>2. setFileName(d, name) = c
  BY DEF setFileName
<1> HIDE DEF req
<1>3. /\ c \in [file : Names, saveAsRequired : BOOLEAN, modified : BOOLEAN, text : Nat]
      /\ c.file = name /\ c.saveAsRequired = req /\ c.text = d.text
  BY <1>1
<1> HIDE DEF c
<1>4. c \in Docs
  BY <1>1, <1>3 DEF Docs
<1> QED
  BY <1>2, <1>3, <1>4

LEMMA DocSaved ==
    ASSUME NEW d \in Docs, NEW name \in Names, NEW ok \in BOOLEAN
    PROVE  /\ saveFile(d, name, ok) \in Docs
           /\ saveFile(d, name, ok).file = IF name = NoName THEN d.file ELSE name
           /\ saveFile(d, name, ok).text = d.text
<1>1. d \in [file : Names, saveAsRequired : BOOLEAN, modified : BOOLEAN, text : Nat]
  BY DEF Docs
<1>2. CASE name = NoName
  BY <1>2 DEF saveFile
<1>3. CASE name # NoName
  <2> DEFINE c == setFileName(d, name)
             m == c.modified /\ ~ok
  <2>1. c \in Docs /\ c.file = name /\ c.text = d.text
    BY <1>1, DocNamed
  <2>2. saveFile(d, name, ok) = [c EXCEPT !.modified = m]
    BY <1>3 DEF saveFile
  <2>3. m \in BOOLEAN
    OBVIOUS
  <2> HIDE DEF c, m
  <2>4. [c EXCEPT !.modified = m] \in Docs
    BY <2>1, <2>3 DEF Docs
  <2> QED
    BY <1>3, <2>1, <2>2, <2>4 DEF Docs
<1> QED
  BY <1>2, <1>3

LEMMA DiskWritten ==
    ASSUME NEW dsk \in [Files -> Nat], NEW d \in Docs, NEW name, NEW ok \in BOOLEAN
    PROVE  Written(dsk, d, name, ok) \in [Files -> Nat]
BY DEF Written, Docs, Files

LEMMA NewDoc == NewEditor \in Docs
BY EditorsFacts DEF NewEditor, Docs, Names

LEMMA Loaded ==
    ASSUME TabsOk, NEW name \in FileNames \cup {Example}
    PROVE  loadFile(name) \in Docs /\ loadFile(name).file = name
<1> DEFINE text == IF name = Example THEN 0 ELSE disk[Canon[name]]
<1>1. text \in Nat
  <2>1. CASE name = Example
    BY <2>1
  <2>2. CASE name # Example
    <3>1. Canon[name] \in Files
      BY <2>2 DEF Files
    <3>2. disk \in [Files -> Nat]
      BY DEF TabsOk
    <3>3. disk[Canon[name]] \in Nat
      BY <3>1, <3>2
    <3> QED
      BY <2>2, <3>3
  <2> QED
    BY <2>1, <2>2
<1> DEFINE d == [NewEditor EXCEPT !.text = text]
<1>2. loadFile(name) = setFileName(d, name)
  BY DEF loadFile
<1> HIDE DEF text
<1>3. d \in [file : Names, saveAsRequired : BOOLEAN, modified : BOOLEAN, text : Nat]
  BY <1>1 DEF NewEditor, Names
<1>4. name \in Names
  BY DEF Names
<1> HIDE DEF d
<1> QED
  BY <1>2, <1>3, <1>4, DocNamed

\* what a handler leaves to ask
LEMMA NoQuestion ==
    ASSUME question' = None \/ question' = Closed
    PROVE  QuestionOk'
BY DEF QuestionOk, None, Closed

LEMMA ShownAgain ==
    ASSUME TabsOk, ShownOk, NEW e \in OpenEditors \cup {0}, Show(e), tabs' = tabs
    PROVE  ShownOk'
BY DEF ShownOk, Show, OpenEditors

\* The setting stays true to the tabs while their files do.
LEMMA ListKept ==
    ASSUME TabsOk, ListOk, UNCHANGED <<tabs, openSrcFiles, stray>>,
           \A e \in OpenEditors : ed'[e].file = ed[e].file
    PROVE  ListOk'
<1>1. \A i \in 1 .. Len(tabs) : tabs[i] \in OpenEditors
  BY OpenFacts
<1>2. \A i \in 1 .. Len(tabs) : ed[tabs[i]].file = ed'[tabs[i]].file
  BY <1>1
<1>3. FilesOf(tabs, ed) = FilesOf(tabs, ed')
  BY <1>2, SameFiles
<1> QED
  BY <1>3 DEF ListOk

LEMMA ListUpdated ==
    ASSUME TabsOk', update_open_file_list
    PROVE  ListOk'
<1>1. tabs' \in Seq(Editors) /\ Len(tabs') <= MaxEditors /\ ed' \in [Editors -> Docs]
  BY DEF TabsOk
<1>2. FilesOf(tabs', ed') \in Seq(FileNames \cup {Example}) /\ Len(FilesOf(tabs', ed')) <= MaxEditors
  BY <1>1, FilesTyped
<1> QED
  BY <1>2 DEF ListOk, update_open_file_list

LEMMA OpensOk ==
    ASSUME EdInv, Len(tabs) < MaxEditors, NEW d \in Docs, Opens(FreeEditor, d), question = None
    PROVE  EdInv'
<1> DEFINE e == FreeEditor
<1>1. e \in Editors /\ e \notin OpenEditors /\ e # 0
  BY FreeFacts DEF EdInv, Editors
<1> HIDE DEF e
<1>2. /\ tabs' = Append(tabs, e) /\ ed' = [ed EXCEPT ![e] = d]
      /\ shown' = e /\ current_srceditor' = e /\ disk' = disk
      /\ question' = question /\ edits' = edits
  BY <1>1 DEF Opens, add_src_editor_to_tabs, Show, e
<1>3. /\ tabs' \in Seq(Editors) /\ IsInjective(tabs') /\ Len(tabs') <= MaxEditors
      /\ ToSet(tabs') = OpenEditors \cup {e}
  BY <1>1, <1>2, TabAdded DEF EdInv
<1>4. TabsOk'
  BY <1>1, <1>2, <1>3 DEF TabsOk, EdInv
<1>5. ShownOk'
  BY <1>2, <1>3 DEF ShownOk, OpenEditors
<1>6. ListOk'
  BY <1>4, ListUpdated DEF Opens
<1>7. QuestionOk'
  BY <1>2, NoQuestion
<1> QED
  BY <1>2, <1>4, <1>5, <1>6, <1>7 DEF EdInv

LEMMA TabOrEdit ==
    ASSUME EdInv, (\E e \in OpenEditors \cup {0} : central_tab_changed(e)) \/ Edit
    PROVE  EdInv'
<1>1. TabsOk /\ ShownOk /\ ListOk /\ edits \in Nat
  BY DEF EdInv
<1>2. CASE \E e \in OpenEditors \cup {0} : central_tab_changed(e)
  <2>1. PICK e \in OpenEditors \cup {0} : central_tab_changed(e)
    BY <1>2
  <2>2. UNCHANGED <<tabs, ed, disk, openSrcFiles, edits, stray>> /\ question' = None /\ Show(e)
    BY <2>1 DEF central_tab_changed, Idle
  <2>3. TabsOk'
    BY <1>1, <2>2 DEF TabsOk
  <2>4. ShownOk'
    BY <1>1, <2>2, ShownAgain
  <2>5. ListOk'
    BY <1>1, <2>2 DEF ListOk
  <2>6. QuestionOk'
    BY <2>2, NoQuestion
  <2> QED
    BY <1>1, <2>2, <2>3, <2>4, <2>5, <2>6 DEF EdInv
<1>3. CASE Edit
  <2>1. /\ UNCHANGED <<tabs, shown, current_srceditor, disk, openSrcFiles, stray>>
        /\ question' = None /\ edits' = edits + 1
        /\ ed' = [ed EXCEPT ![shown].text = edits + 1, ![shown].modified = TRUE]
    BY <1>3 DEF Edit, Idle
  <2>2. shown \in Editors
    BY <1>1, <1>3, OpenFacts DEF Edit, ShownOk
  <2>3. ed \in [Editors -> Docs]
    BY <1>1 DEF TabsOk
  <2> DEFINE d == [ed[shown] EXCEPT !.text = edits + 1, !.modified = TRUE]
  <2>4. d \in Docs /\ d.file = ed[shown].file
    <3>1. ed[shown] \in Docs
      BY <2>2, <2>3
    <3>2. edits + 1 \in Nat
      BY <1>1
    <3> QED
      BY <3>1, <3>2 DEF Docs
  <2>5. ed' = [ed EXCEPT ![shown] = d]
    BY <2>1, <2>2, <2>3
  <2> HIDE DEF d
  <2>6. ed' \in [Editors -> Docs] /\ \A e \in Editors : ed'[e].file = ed[e].file
    BY <2>2, <2>3, <2>4, <2>5
  <2>7. TabsOk'
    BY <1>1, <2>1, <2>6 DEF TabsOk
  <2>8. ShownOk'
    BY <1>1, <2>1 DEF ShownOk, OpenEditors
  <2>9. ListOk'
    <3>1. \A e \in OpenEditors : ed'[e].file = ed[e].file
      BY <1>1, <2>6, OpenFacts
    <3> QED
      BY <1>1, <2>1, <3>1, ListKept
  <2>10. QuestionOk'
    BY <2>1, NoQuestion
  <2> QED
    BY <1>1, <2>1, <2>7, <2>8, <2>9, <2>10 DEF EdInv
<1> QED
  BY <1>2, <1>3

\* the editor found for a name is an open one that matches it, if there is one
LEMMA EditorAnswers ==
    ASSUME TabsOk, NEW name, NEW es, NEW dsk, EditorFor(name, es, dsk) # 0
    PROVE  EditorFor(name, es, dsk) \in OpenEditors
<1>1. CASE \E m \in OpenEditors : compare_filenames(name, es[m].file, dsk) > 0
  BY <1>1, EditorFound
<1>2. CASE ~\E m \in OpenEditors : compare_filenames(name, es[m].file, dsk) > 0
  BY <1>2 DEF EditorFor
<1> QED
  BY <1>1, <1>2

LEMMA OpeningOk ==
    ASSUME EdInv, new_source \/ example_source \/ \E name \in FileNames \cup {Example} : OpenFile(name)
    PROVE  EdInv'
<1>1. TabsOk /\ ShownOk /\ ListOk /\ edits \in Nat
  BY DEF EdInv
<1>2. CASE new_source
  BY <1>2, NewDoc, OpensOk DEF new_source, Idle
<1>3. CASE example_source
  <2>1. loadFile(Example) \in Docs
    BY <1>1, Loaded
  <2> QED
    BY <1>3, <2>1, OpensOk DEF example_source, Idle
<1>4. CASE \E name \in FileNames \cup {Example} : OpenFile(name)
  <2>1. PICK name \in FileNames \cup {Example} : OpenFile(name)
    BY <1>4
  <2> DEFINE e == source_editor_for_file(name)
  <2>2. CASE /\ e # 0 /\ Show(e)
             /\ UNCHANGED <<tabs, ed, disk, openSrcFiles, question, edits, stray>>
    <3>1. question' = None
      BY <2>1, <2>2 DEF OpenFile, Idle
    <3>2. e \in OpenEditors
      <4>1. e = EditorFor(name, ed, disk)
        BY DEF source_editor_for_file
      <4> QED
        BY <1>1, <2>2, <4>1, EditorAnswers
    <3>3. TabsOk'
      BY <1>1, <2>2 DEF TabsOk
    <3> HIDE DEF e
    <3>4. ShownOk'
      BY <1>1, <2>2, <3>2, ShownAgain
    <3>5. ListOk'
      BY <1>1, <2>2 DEF ListOk
    <3>6. QuestionOk'
      BY <3>1, NoQuestion
    <3> QED
      BY <1>1, <2>2, <3>3, <3>4, <3>5, <3>6 DEF EdInv
  <2>3. CASE Len(tabs) < MaxEditors /\ Opens(FreeEditor, loadFile(name))
    <3>1. loadFile(name) \in Docs
      BY <1>1, Loaded
    <3> QED
      BY <2>1, <2>3, <3>1, OpensOk DEF OpenFile, Idle
  <2> QED
    BY <2>1, <2>2, <2>3 DEF OpenFile
<1> QED
  BY <1>2, <1>3, <1>4

LEMMA SavesAs ==
    ASSUME EdInv, NEW e \in OpenEditors, NEW name \in FileNames, NEW ok \in BOOLEAN,
           SaveAs(e, name, ok), tabs' = tabs
    PROVE  TabsOk' /\ ListOk'
<1>1. TabsOk /\ ListOk /\ e \in Editors
  BY OpenFacts DEF EdInv
<1>2. ed \in [Editors -> Docs] /\ ed[e] \in Docs /\ disk \in [Files -> Nat]
  BY <1>1 DEF TabsOk
<1>3. saveFile(ed[e], name, ok) \in Docs
  BY <1>2, DocSaved DEF Names
<1>4. ed' = [ed EXCEPT ![e] = saveFile(ed[e], name, ok)]
  BY DEF SaveAs
<1>5. disk' \in [Files -> Nat]
  BY <1>2, DiskWritten DEF SaveAs
<1>6. TabsOk'
  BY <1>1, <1>2, <1>3, <1>4, <1>5 DEF TabsOk
<1>7. CASE ok
  <2>1. update_open_file_list
    BY <1>7 DEF SaveAs, update_open_file_list
  <2> QED
    BY <1>6, <2>1, ListUpdated
<1>8. CASE ~ok
  BY <1>1, <1>6, <1>8 DEF SaveAs, ListOk
<1> QED
  BY <1>6, <1>7, <1>8

LEMMA SavingOk ==
    ASSUME EdInv, (\E name \in FileNames, ok \in BOOLEAN : save_source_as(name, ok))
                  \/ \E ok \in BOOLEAN : save_source(ok)
    PROVE  EdInv'
<1>1. TabsOk /\ ShownOk /\ ListOk /\ edits \in Nat
  BY DEF EdInv
<1>2. UNCHANGED <<tabs, shown, current_srceditor, edits>> /\ question' = None
      /\ current_srceditor \in OpenEditors
  BY <1>1 DEF save_source_as, save_source, Idle, ShownOk
<1>3. ShownOk'
  BY <1>1, <1>2 DEF ShownOk, OpenEditors
<1>4. QuestionOk'
  BY <1>2, NoQuestion
<1>5. CASE \E name \in FileNames, ok \in BOOLEAN : save_source_as(name, ok)
  <2>1. PICK name \in FileNames, ok \in BOOLEAN : SaveAs(current_srceditor, name, ok)
    BY <1>5 DEF save_source_as
  <2>2. TabsOk' /\ ListOk'
    BY <1>2, <2>1, SavesAs
  <2> QED
    BY <1>1, <1>2, <1>3, <1>4, <2>2 DEF EdInv
<1>6. CASE \E ok \in BOOLEAN : save_source(ok)
  <2>1. PICK ok \in BOOLEAN : save_source(ok)
    BY <1>6
  <2> DEFINE e == current_srceditor
             d == ed[e]
             s == saveFile(d, d.file, ok)
  <2>2. /\ ed' = [ed EXCEPT ![e] = s] /\ disk' = Written(disk, d, d.file, ok)
        /\ UNCHANGED <<openSrcFiles, stray>>
    BY <2>1 DEF save_source
  <2>3. e \in Editors /\ ed \in [Editors -> Docs] /\ d \in Docs /\ d.file \in Names
        /\ disk \in [Files -> Nat]
    BY <1>1, <1>2, OpenFacts DEF TabsOk, Docs
  <2>4. s \in Docs /\ s.file = d.file
    BY <2>3, DocSaved
  <2>5. disk' \in [Files -> Nat]
    BY <2>2, <2>3, DiskWritten
  <2> HIDE DEF s
  <2>6. ed' \in [Editors -> Docs] /\ \A f \in Editors : ed'[f].file = ed[f].file
    BY <2>2, <2>3, <2>4
  <2>7. TabsOk'
    BY <1>1, <1>2, <2>5, <2>6 DEF TabsOk
  <2>8. \A f \in OpenEditors : ed'[f].file = ed[f].file
    BY <1>1, <2>6, OpenFacts
  <2>9. ListOk'
    BY <1>1, <1>2, <2>2, <2>8, ListKept
  <2> QED
    BY <1>1, <1>2, <1>3, <1>4, <2>7, <2>9 DEF EdInv
<1> QED
  BY <1>5, <1>6

\* The rows of a question are files of tabs.
LEMMA RowsOpen ==
    ASSUME TabsOk, NEW P
    PROVE  /\ Picked(NamesOf(tabs, ed), P) \in Seq(Names)
           /\ \A i \in 1 .. Len(Picked(NamesOf(tabs, ed), P)) :
                 \E e \in OpenEditors : ed[e].file = Picked(NamesOf(tabs, ed), P)[i]
<1> DEFINE s == NamesOf(tabs, ed)
           q == Picked(s, P)
<1>1. tabs \in Seq(Editors) /\ ed \in [Editors -> Docs]
  BY DEF TabsOk
<1>2. s \in Seq(Names) /\ Len(s) = Len(tabs) /\ Len(tabs) \in Nat
      /\ \A i \in 1 .. Len(tabs) : s[i] = ed[tabs[i]].file
  BY <1>1, NamesTyped
<1>3. \A i \in 1 .. Len(tabs) : tabs[i] \in OpenEditors
  BY OpenFacts
<1> HIDE DEF s
<1>4. q \in Seq(Names) /\ \A x : x \in ToSet(q) <=> \E i \in 1 .. Len(s) : i \in P /\ s[i] = x
  BY <1>2, PickedFacts
<1>5. DOMAIN q = 1 .. Len(q)
  BY <1>4, LenProperties
<1> HIDE DEF q
<1>6. ASSUME NEW i \in 1 .. Len(q) PROVE \E e \in OpenEditors : ed[e].file = q[i]
  <2>1. q[i] \in ToSet(q)
    BY <1>5 DEF ToSet
  <2>2. PICK j \in 1 .. Len(s) : s[j] = q[i]
    BY <1>4, <2>1
  <2> QED
    BY <1>2, <1>3, <2>2
<1> QED
  BY <1>4, <1>6 DEF q, s

LEMMA AskingOk ==
    ASSUME EdInv, closeEvent \/ build_check \/ SaveChangedCancel
    PROVE  EdInv'
<1>1. TabsOk /\ ShownOk /\ ListOk /\ edits \in Nat
  BY DEF EdInv
<1>2. UNCHANGED <<tabs, shown, current_srceditor, ed, disk, openSrcFiles, edits, stray>>
  BY DEF closeEvent, build_check, SaveChangedCancel
<1>3. TabsOk' /\ ShownOk' /\ ListOk'
  BY <1>1, <1>2 DEF TabsOk, ShownOk, ListOk, OpenEditors
<1>4. ASSUME NEW unnamed, NEW kind \in {"exit", "build"},
             question' = [kind |-> kind, rows |-> modified_file_list(unnamed)]
      PROVE  QuestionOk'
  <2> DEFINE q == modified_file_list(unnamed)
  <2>1. q \in Seq(Names) /\ \A i \in 1 .. Len(q) : \E e \in OpenEditors : ed[e].file = q[i]
    BY <1>1, RowsOpen DEF modified_file_list
  <2> HIDE DEF q
  <2>2. question'.kind = kind /\ question'.rows = q
    BY <1>4 DEF q
  <2>3. \A i \in 1 .. Len(q) : \E e \in OpenEditors' : ed'[e].file = q[i]
    BY <1>2, <2>1 DEF OpenEditors
  <2> QED
    BY <2>1, <2>2, <2>3 DEF QuestionOk
<1>5. QuestionOk'
  <2>1. CASE question' = None \/ question' = Closed
    BY <2>1, NoQuestion
  <2>2. CASE ~(question' = None \/ question' = Closed)
    BY <1>4, <2>2 DEF closeEvent, build_check, SaveChangedCancel, Answered
  <2> QED
    BY <2>1, <2>2
<1> QED
  BY <1>1, <1>2, <1>3, <1>5 DEF EdInv

Without(e) == Picked(tabs, {i \in 1 .. Len(tabs) : tabs[i] # e})

LEMMA TabRemoved ==
    ASSUME TabsOk, NEW e
    PROVE  /\ Without(e) \in Seq(Editors) /\ IsInjective(Without(e)) /\ Len(Without(e)) <= MaxEditors
           /\ ToSet(Without(e)) = OpenEditors \ {e}
<1> DEFINE P == {i \in 1 .. Len(tabs) : tabs[i] # e}
           t == Picked(tabs, P)
<1>1. tabs \in Seq(Editors) /\ Len(tabs) \in Nat /\ Len(tabs) <= MaxEditors /\ IsInjective(tabs)
      /\ MaxEditors \in Nat
  BY OpenFacts, EditorsFacts DEF TabsOk
<1>2. t \in Seq(Editors) /\ Len(t) \in Nat /\ Len(t) <= Len(tabs)
  BY <1>1, PickedFacts
<1>3. IsInjective(t)
  BY <1>1, PickedFacts
<1>4. \A x : x \in ToSet(t) <=> \E i \in 1 .. Len(tabs) : i \in P /\ tabs[i] = x
  BY <1>1, PickedFacts
<1> HIDE DEF t
<1>5. \A x : x \in ToSet(t) <=> x \in OpenEditors \ {e}
  BY <1>4, OpenFacts
<1> QED
  BY <1>1, <1>2, <1>3, <1>5 DEF Without, t

LEMMA ShownAfter ==
    ASSUME TabsOk, ShownOk, NEW e \in OpenEditors
    PROVE  AfterRemoval(e) \in (OpenEditors \ {e}) \cup {0}
<1> DEFINE k == CHOOSE i \in 1 .. Len(tabs) : tabs[i] = e
<1>1. k \in 1 .. Len(tabs) /\ tabs[k] = e
  BY OpenFacts
<1>2. AfterRemoval(e) = IF shown # e THEN shown
                        ELSE IF k < Len(tabs) THEN tabs[k + 1] ELSE IF k > 1 THEN tabs[k - 1] ELSE 0
  BY DEF AfterRemoval
<1> HIDE DEF k
<1>3. Len(tabs) \in Nat /\ DOMAIN tabs = 1 .. Len(tabs)
  BY OpenFacts, LenProperties DEF TabsOk
<1>4. \A i \in 1 .. Len(tabs) : i # k => tabs[i] \in OpenEditors \ {e}
  BY <1>1, <1>3, OpenFacts DEF TabsOk, IsInjective
<1>5. CASE shown # e
  BY <1>2, <1>5 DEF ShownOk
<1>6. CASE shown = e /\ k < Len(tabs)
  <2>1. k + 1 \in 1 .. Len(tabs) /\ k + 1 # k
    BY <1>1, <1>3, <1>6
  <2> QED
    BY <1>2, <1>4, <1>6, <2>1
<1>7. CASE shown = e /\ ~(k < Len(tabs)) /\ k > 1
  <2>1. k - 1 \in 1 .. Len(tabs) /\ k - 1 # k
    BY <1>1, <1>3, <1>7
  <2> QED
    BY <1>2, <1>4, <1>7, <2>1
<1>8. CASE shown = e /\ ~(k < Len(tabs)) /\ ~(k > 1)
  BY <1>2, <1>8
<1> QED
  BY <1>5, <1>6, <1>7, <1>8

LEMMA ClosesTab ==
    ASSUME EdInv, current_srceditor # 0, NEW es \in [Editors -> Docs],
           close_source(current_srceditor, es), disk' \in [Files -> Nat]
    PROVE  TabsOk' /\ ShownOk' /\ ListOk'
<1> DEFINE e == current_srceditor
<1>1. TabsOk /\ ShownOk /\ ListOk
  BY DEF EdInv
<1>2. e \in OpenEditors /\ e \in Editors /\ e # 0
  BY <1>1, OpenFacts DEF ShownOk
<1>3. /\ tabs' = Without(e) /\ shown' = AfterRemoval(e)
      /\ current_srceditor' = IF shown = e THEN AfterRemoval(e) ELSE 0
      /\ ed' = [es EXCEPT ![e] = NewEditor] /\ update_open_file_list
  BY DEF close_source, Without
<1>4. /\ tabs' \in Seq(Editors) /\ IsInjective(tabs') /\ Len(tabs') <= MaxEditors
      /\ OpenEditors' = OpenEditors \ {e}
  BY <1>1, <1>3, TabRemoved DEF OpenEditors
<1>5. TabsOk'
  BY <1>2, <1>3, <1>4, NewDoc DEF TabsOk
<1>6. ListOk'
  BY <1>3, <1>5, ListUpdated
<1>7. AfterRemoval(e) \in (OpenEditors \ {e}) \cup {0}
  BY <1>1, <1>2, ShownAfter
<1>8. ShownOk'
  <2>1. CASE shown = e
    BY <1>3, <1>4, <1>7, <2>1 DEF ShownOk
  <2>2. CASE shown # e
    <3>1. shown = 0
      BY <1>1, <2>2 DEF ShownOk
    <3>2. AfterRemoval(e) = 0
      BY <2>2, <3>1 DEF AfterRemoval
    <3> QED
      BY <1>3, <2>2, <3>2 DEF ShownOk
  <2> QED
    BY <2>1, <2>2
<1> QED
  BY <1>5, <1>6, <1>8

LEMMA ClosingOk ==
    ASSUME EdInv, close_source_check \/ close_source_decided
    PROVE  EdInv'
<1> DEFINE e == current_srceditor
           d == ed[e]
<1>1. TabsOk /\ ShownOk /\ ListOk /\ QuestionOk /\ edits \in Nat
  BY DEF EdInv
<1>2. edits' = edits
  BY DEF close_source_check, close_source_decided
<1>3. ed \in [Editors -> Docs] /\ disk \in [Files -> Nat]
  BY <1>1 DEF TabsOk
<1>4. e # 0
  BY <1>1 DEF close_source_check, close_source_decided, QuestionOk
<1>5. e \in OpenEditors /\ e \in Editors /\ d \in Docs /\ d.file \in Names
  BY <1>1, <1>3, <1>4, OpenFacts DEF ShownOk, Docs
<1>6. ASSUME question' = None, UNCHANGED <<tabs, shown, current_srceditor, ed, disk, openSrcFiles, stray>>
      PROVE  EdInv'
  <2>1. TabsOk' /\ ShownOk' /\ ListOk'
    BY <1>1, <1>6 DEF TabsOk, ShownOk, ListOk, OpenEditors
  <2> QED
    BY <1>1, <1>2, <1>6, <2>1, NoQuestion DEF EdInv
<1>7. ASSUME question' = None, NEW es \in [Editors -> Docs], close_source(e, es),
             disk' \in [Files -> Nat]
      PROVE  EdInv'
  <2>1. TabsOk' /\ ShownOk' /\ ListOk'
    BY <1>4, <1>7, ClosesTab
  <2> QED
    BY <1>1, <1>2, <1>7, <2>1, NoQuestion DEF EdInv
<1>8. CASE close_source_check
  <2>1. CASE d.modified
    <3>1. question' = [kind |-> "close"]
          /\ UNCHANGED <<tabs, shown, current_srceditor, ed, disk, openSrcFiles, stray>>
      BY <1>8, <2>1 DEF close_source_check
    <3>2. TabsOk' /\ ShownOk' /\ ListOk'
      BY <1>1, <3>1 DEF TabsOk, ShownOk, ListOk, OpenEditors
    <3>3. QuestionOk'
      BY <1>4, <3>1 DEF QuestionOk
    <3> QED
      BY <1>1, <1>2, <3>2, <3>3 DEF EdInv
  <2>2. CASE ~d.modified
    BY <1>3, <1>7, <1>8, <2>2 DEF close_source_check, Idle
  <2> QED
    BY <2>1, <2>2
<1>9. CASE close_source_decided
  <2>1. question' = None
    BY <1>9 DEF close_source_decided, Answered
  <2>2. ASSUME NEW name \in FileNames, NEW ok \in BOOLEAN, SaveAs(e, name, ok),
               UNCHANGED <<tabs, shown, current_srceditor>>
        PROVE  EdInv'
    <3>1. TabsOk' /\ ListOk'
      BY <1>5, <2>2, SavesAs
    <3>2. ShownOk'
      BY <1>1, <2>2 DEF ShownOk, OpenEditors
    <3> QED
      BY <1>1, <1>2, <2>1, <3>1, <3>2, NoQuestion DEF EdInv
  <2>3. ASSUME NEW ok \in BOOLEAN, disk' = Written(disk, d, d.file, ok),
               close_source(e, [ed EXCEPT ![e] = saveFile(d, d.file, ok)])
        PROVE  EdInv'
    <3>1. [ed EXCEPT ![e] = saveFile(d, d.file, ok)] \in [Editors -> Docs]
      BY <1>3, <1>5, DocSaved
    <3>2. disk' \in [Files -> Nat]
      BY <1>3, <1>5, <2>3, DiskWritten
    <3> QED
      BY <1>7, <2>1, <2>3, <3>1, <3>2
  <2>4. ASSUME close_source(e, ed), UNCHANGED disk PROVE EdInv'
    BY <1>3, <1>7, <2>1, <2>4
  <2>5. \/ UNCHANGED <<tabs, shown, current_srceditor, ed, disk, openSrcFiles, stray>>
        \/ \E name \in FileNames, ok \in BOOLEAN : SaveAs(e, name, ok)
                                                   /\ UNCHANGED <<tabs, shown, current_srceditor>>
        \/ \E ok \in BOOLEAN : /\ disk' = Written(disk, d, d.file, ok)
                               /\ close_source(e, [ed EXCEPT ![e] = saveFile(d, d.file, ok)])
        \/ close_source(e, ed) /\ UNCHANGED disk
    BY <1>9 DEF close_source_decided
  <2> QED
    BY <1>6, <2>1, <2>2, <2>3, <2>4, <2>5
<1> QED
  BY <1>8, <1>9

-----------------------------------------------------------------------------
(* Saving the files of a question one after the other.                       *)

\* no file gets another name and no text changes
SavedStates ==
    {st \in [ed : [Editors -> Docs], disk : [Files -> Nat], unnamed : BOOLEAN, failed : SUBSET Editors] :
        /\ \A e \in Editors : st.ed[e].file = ed[e].file /\ st.ed[e].text = ed[e].text
        /\ st.unnamed => \E e \in OpenEditors : ed[e].file \notin FileNames}

IsSaved(es, dsk, u, bad) ==
    /\ es \in [Editors -> Docs] /\ dsk \in [Files -> Nat] /\ u \in BOOLEAN /\ bad \in SUBSET Editors
    /\ \A e \in Editors : es[e].file = ed[e].file /\ es[e].text = ed[e].text
    /\ u => \E e \in OpenEditors : ed[e].file \notin FileNames

LEMMA SavedIntro ==
    ASSUME NEW es, NEW dsk, NEW u, NEW bad, IsSaved(es, dsk, u, bad)
    PROVE  [ed |-> es, disk |-> dsk, unnamed |-> u, failed |-> bad] \in SavedStates
BY DEF SavedStates, IsSaved

LEMMA SavedElim ==
    ASSUME NEW st \in SavedStates
    PROVE  /\ IsSaved(st.ed, st.disk, st.unnamed, st.failed)
           /\ st = [ed |-> st.ed, disk |-> st.disk, unnamed |-> st.unnamed, failed |-> st.failed]
BY DEF SavedStates, IsSaved

LEMMA UnnamedNow ==
    ASSUME NEW st \in SavedStates
    PROVE  [st EXCEPT !.unnamed = TRUE]
             = [ed |-> st.ed, disk |-> st.disk, unnamed |-> TRUE, failed |-> st.failed]
<1> DEFINE c == [st EXCEPT !.unnamed = TRUE]
<1>1. st \in [ed : [Editors -> Docs], disk : [Files -> Nat], unnamed : BOOLEAN, failed : SUBSET Editors]
  BY DEF SavedStates
<1>2. c \in [ed : [Editors -> Docs], disk : [Files -> Nat], unnamed : BOOLEAN, failed : SUBSET Editors]
  BY <1>1
<1>3. c.ed = st.ed /\ c.disk = st.disk /\ c.unnamed = TRUE /\ c.failed = st.failed
  BY <1>1
<1> HIDE DEF c
<1>4. c = [ed |-> c.ed, disk |-> c.disk, unnamed |-> c.unnamed, failed |-> c.failed]
  BY <1>2
<1>5. c = [ed |-> st.ed, disk |-> st.disk, unnamed |-> TRUE, failed |-> st.failed]
  BY <1>3, <1>4
<1> QED
  BY <1>5 DEF c

\* The editor e is found for a name, and either it needs another name or it is saved.
Saves(st, name, e, ok, r) ==
    /\ compare_filenames(name, st.ed[e].file, st.disk) > 0
    /\ \/ /\ ed[e].file \notin FileNames
          /\ r = [ed |-> st.ed, disk |-> st.disk, unnamed |-> TRUE, failed |-> st.failed]
       \/ /\ ok => ed[e].file \in FileNames
          /\ r = [ed |-> [st.ed EXCEPT ![e] = saveFile(st.ed[e], st.ed[e].file, ok)],
                  disk |-> Written(st.disk, st.ed[e], st.ed[e].file, ok),
                  unnamed |-> st.unnamed,
                  failed |-> IF ok THEN st.failed ELSE st.failed \cup {e}]

LEMMA SaveOneDoes ==
    ASSUME TabsOk, NEW st \in SavedStates, NEW m \in OpenEditors, NEW Bad, NEW skip \in BOOLEAN
    PROVE  \E e \in OpenEditors, ok \in BOOLEAN :
              Saves(st, ed[m].file, e, ok, SaveOne(st, ed[m].file, Bad, skip))
<1> DEFINE name == ed[m].file
           e == EditorFor(name, st.ed, st.disk)
           d == st.ed[e]
           ok == e \notin Bad /\ d.file \in FileNames
           r == SaveOne(st, name, Bad, skip)
<1>1. IsSaved(st.ed, st.disk, st.unnamed, st.failed)
      /\ st = [ed |-> st.ed, disk |-> st.disk, unnamed |-> st.unnamed, failed |-> st.failed]
  BY SavedElim
<1>2. m \in Editors /\ st.ed[m].file = name
  BY <1>1, OpenFacts DEF IsSaved
<1>3. compare_filenames(name, st.ed[m].file, st.disk) > 0
  BY <1>2, MatchFacts
<1>4. e \in OpenEditors /\ compare_filenames(name, st.ed[e].file, st.disk) > 0
  BY <1>3, EditorFound
<1>5. r = IF skip /\ d.saveAsRequired THEN [st EXCEPT !.unnamed = TRUE]
          ELSE [ed |-> [st.ed EXCEPT ![e] = saveFile(d, d.file, ok)],
                disk |-> Written(st.disk, d, d.file, ok),
                unnamed |-> st.unnamed,
                failed |-> IF ok THEN st.failed ELSE st.failed \cup {e}]
  BY DEF SaveOne
<1> HIDE DEF e, r
<1>6. e \in Editors /\ d \in Docs /\ d.file = ed[e].file
  BY <1>1, <1>4, OpenFacts DEF IsSaved
<1>7. CASE skip /\ d.saveAsRequired
  <2>1. ed[e].file \notin FileNames
    BY <1>6, <1>7 DEF Docs
  <2>2. [st EXCEPT !.unnamed = TRUE]
          = [ed |-> st.ed, disk |-> st.disk, unnamed |-> TRUE, failed |-> st.failed]
    BY UnnamedNow
  <2>3. r = [ed |-> st.ed, disk |-> st.disk, unnamed |-> TRUE, failed |-> st.failed]
    BY <1>5, <1>7, <2>2
  <2> QED
    BY <1>4, <2>1, <2>3 DEF r, Saves
<1>8. CASE ~(skip /\ d.saveAsRequired)
  <2>1. ok \in BOOLEAN /\ (ok => ed[e].file \in FileNames)
    BY <1>6
  <2>2. r = [ed |-> [st.ed EXCEPT ![e] = saveFile(d, d.file, ok)],
             disk |-> Written(st.disk, d, d.file, ok),
             unnamed |-> st.unnamed,
             failed |-> IF ok THEN st.failed ELSE st.failed \cup {e}]
    BY <1>5, <1>8
  <2> HIDE DEF ok
  <2> QED
    BY <1>4, <2>1, <2>2 DEF r, Saves
<1> QED
  BY <1>7, <1>8

LEMMA SaveOneStays ==
    ASSUME TabsOk, NEW st \in SavedStates, NEW m \in OpenEditors, NEW Bad, NEW skip \in BOOLEAN
    PROVE  SaveOne(st, ed[m].file, Bad, skip) \in SavedStates
<1>1. IsSaved(st.ed, st.disk, st.unnamed, st.failed)
  BY SavedElim
<1> DEFINE r == SaveOne(st, ed[m].file, Bad, skip)
<1>2. PICK e \in OpenEditors, ok \in BOOLEAN : Saves(st, ed[m].file, e, ok, r)
  BY SaveOneDoes
<1> HIDE DEF r
<1>3. e \in Editors
  BY OpenFacts
<1>4. CASE /\ ed[e].file \notin FileNames
           /\ r = [ed |-> st.ed, disk |-> st.disk, unnamed |-> TRUE, failed |-> st.failed]
  <2>1. IsSaved(st.ed, st.disk, TRUE, st.failed)
    BY <1>1, <1>4 DEF IsSaved
  <2> QED
    BY <1>4, <2>1, SavedIntro DEF r
<1>5. CASE r = [ed |-> [st.ed EXCEPT ![e] = saveFile(st.ed[e], st.ed[e].file, ok)],
                disk |-> Written(st.disk, st.ed[e], st.ed[e].file, ok),
                unnamed |-> st.unnamed,
                failed |-> IF ok THEN st.failed ELSE st.failed \cup {e}]
  <2> DEFINE d == st.ed[e]
             s == saveFile(d, d.file, ok)
             es == [st.ed EXCEPT ![e] = s]
             dsk == Written(st.disk, d, d.file, ok)
             bad == IF ok THEN st.failed ELSE st.failed \cup {e}
  <2>1. /\ st.ed \in [Editors -> Docs] /\ st.disk \in [Files -> Nat]
        /\ st.unnamed \in BOOLEAN /\ st.failed \in SUBSET Editors
        /\ \A f \in Editors : st.ed[f].file = ed[f].file /\ st.ed[f].text = ed[f].text
        /\ st.unnamed => \E f \in OpenEditors : ed[f].file \notin FileNames
    BY <1>1 DEF IsSaved
  <2>2. d \in Docs /\ d.file \in Names
    BY <1>3, <2>1 DEF Docs
  <2>3. s \in Docs /\ s.file = d.file /\ s.text = d.text
    BY <2>2, DocSaved
  <2>4. dsk \in [Files -> Nat]
    BY <2>1, <2>2, DiskWritten
  <2>5. bad \in SUBSET Editors
    BY <1>3, <2>1
  <2>6. r = [ed |-> es, disk |-> dsk, unnamed |-> st.unnamed, failed |-> bad]
    BY <1>5
  <2> HIDE DEF s, dsk, bad
  <2>7. es \in [Editors -> Docs] /\ \A f \in Editors : es[f].file = ed[f].file /\ es[f].text = ed[f].text
    BY <1>3, <2>1, <2>3
  <2> HIDE DEF es
  <2>8. IsSaved(es, dsk, st.unnamed, bad)
    BY <2>1, <2>4, <2>5, <2>7 DEF IsSaved
  <2> QED
    BY <2>6, <2>8, SavedIntro DEF r
<1> QED
  BY <1>2, <1>4, <1>5 DEF Saves

\* what was written for the editor m is on the disk
OnDisk(m, dsk) == ed[m].file \in FileNames /\ dsk[Canon[ed[m].file]] = ed[m].text

Survived(m, st) == st.unnamed \/ m \in st.failed \/ OnDisk(m, st.disk)

\* The text of an editor whose file no other editor holds is written and stays written.
LEMMA SaveOneWrites ==
    ASSUME TabsOk, NEW st \in SavedStates, NEW m \in OpenEditors, NEW Bad, NEW skip \in BOOLEAN,
           NEW o \in OpenEditors, Alone(o, ed[o].file), ed[m].file = ed[o].file \/ Survived(o, st)
    PROVE  Survived(o, SaveOne(st, ed[m].file, Bad, skip))
<1>1. IsSaved(st.ed, st.disk, st.unnamed, st.failed)
  BY SavedElim
<1> DEFINE r == SaveOne(st, ed[m].file, Bad, skip)
<1>2. PICK e \in OpenEditors, ok \in BOOLEAN : Saves(st, ed[m].file, e, ok, r)
  BY SaveOneDoes
<1> HIDE DEF r
<1>3. CASE r = [ed |-> st.ed, disk |-> st.disk, unnamed |-> TRUE, failed |-> st.failed]
  BY <1>3 DEF r, Survived
<1>4. CASE /\ ok => ed[e].file \in FileNames
           /\ r = [ed |-> [st.ed EXCEPT ![e] = saveFile(st.ed[e], st.ed[e].file, ok)],
                   disk |-> Written(st.disk, st.ed[e], st.ed[e].file, ok),
                   unnamed |-> st.unnamed,
                   failed |-> IF ok THEN st.failed ELSE st.failed \cup {e}]
  <2> DEFINE d == st.ed[e]
             dsk == Written(st.disk, d, d.file, ok)
             bad == IF ok THEN st.failed ELSE st.failed \cup {e}
  <2>1. r.disk = dsk /\ r.unnamed = st.unnamed /\ r.failed = bad
    BY <1>4
  <2>2. e \in Editors /\ d.file = ed[e].file /\ d.text = ed[e].text
    BY <1>1, OpenFacts DEF IsSaved
  <2>3. st.disk \in [Files -> Nat] /\ \A f \in FileNames : Canon[f] \in Files
    BY <1>1 DEF IsSaved, Files
  <2>4. dsk = IF ok THEN [st.disk EXCEPT ![Canon[ed[e].file]] = ed[e].text] ELSE st.disk
    BY <1>4, <2>2 DEF Written
  <2> HIDE DEF d, dsk
  <2>5. ed[m].file = ed[o].file => e = o
    <3> SUFFICES ASSUME ed[m].file = ed[o].file PROVE e = o
      OBVIOUS
    <3>1. \A f \in OpenEditors : st.ed[f].file = ed[f].file
      BY <1>1, OpenFacts DEF IsSaved
    <3>2. Matches(ed[o].file, ed[o])
      BY DEF Matches
    <3>3. compare_filenames(ed[o].file, st.ed[e].file, st.disk) > 0
      BY <1>2 DEF Saves
    <3> QED
      BY <3>1, <3>2, <3>3, OnlyEditor
  <2>6. CASE ~ok
    <3>1. e = o => o \in bad
      BY <2>6
    <3>2. e # o => Survived(o, st)
      BY <2>5
    <3> QED
      BY <2>1, <2>4, <2>6, <3>1, <3>2 DEF Survived, OnDisk, r
  <2>7. CASE ok /\ e = o
    <3>1. OnDisk(o, dsk)
      BY <1>4, <2>3, <2>4, <2>7 DEF OnDisk
    <3> QED
      BY <2>1, <3>1 DEF Survived, r
  <2>8. CASE ok /\ e # o
    <3>1. Survived(o, st)
      BY <2>5, <2>8
    <3>2. CASE st.unnamed \/ o \in st.failed
      BY <2>1, <2>8, <3>2 DEF Survived, r
    <3>3. CASE OnDisk(o, st.disk)
      <4>1. ed[o].file \in FileNames /\ ed[e].file \in FileNames /\ Canon[ed[e].file] # Canon[ed[o].file]
        BY <1>4, <2>8, <3>3 DEF OnDisk, Alone
      <4>2. OnDisk(o, dsk)
        BY <2>3, <2>4, <2>8, <3>3, <4>1 DEF OnDisk
      <4> QED
        BY <2>1, <4>2 DEF Survived, r
    <3> QED
      BY <3>1, <3>2, <3>3 DEF Survived
  <2> QED
    BY <2>6, <2>7, <2>8
<1> QED
  BY <1>2, <1>3, <1>4 DEF Saves

\* the files of these names are open
NamesOpen(names) ==
    /\ names \in Seq(Names)
    /\ \A i \in 1 .. Len(names) : \E m \in OpenEditors : ed[m].file = names[i]

\* Saving all: what is true of the outcome.
LEMMA SaveAllDoes ==
    ASSUME TabsOk, NEW names, NamesOpen(names), NEW Bad, NEW skip \in BOOLEAN
    PROVE  /\ SaveAll(names, Bad, skip) \in SavedStates
           /\ \A o \in OpenEditors :
                 Alone(o, ed[o].file) /\ ed[o].file \in ToSet(names)
                    => Survived(o, SaveAll(names, Bad, skip))
<1> DEFINE n == Len(names)
           S == SavedStates
           first == [ed |-> ed, disk |-> disk, unnamed |-> FALSE, failed |-> {}]
           W(t, k) == SaveOne(t, names[k], Bad, skip)
           move == [x \in (1 .. n) \X S |-> W(x[2], x[1])]
           Eqn(f) == f = [k \in 0 .. n |-> IF k = 0 THEN first ELSE W(f[k - 1], k)]
<1>1. n \in Nat /\ DOMAIN names = 1 .. n
      /\ \A i \in 1 .. n : \E m \in OpenEditors : ed[m].file = names[i]
  BY LenProperties DEF NamesOpen
<1>2. first \in S
  <2>1. IsSaved(ed, disk, FALSE, {})
    BY DEF IsSaved, TabsOk
  <2> QED
    BY <2>1, SavedIntro
<1>3. \A k \in 1 .. n, t \in S : W(t, k) \in S
  BY <1>1, SaveOneStays
<1>4. move \in [(1 .. n) \X S -> S]
  <2> HIDE DEF W, S, n
  <2>1. \A x \in (1 .. n) \X S : x[1] \in 1 .. n /\ x[2] \in S
    OBVIOUS
  <2>2. \A x \in (1 .. n) \X S : W(x[2], x[1]) \in S
    BY <1>3, <2>1
  <2> QED
    BY <2>2
<1>5. ASSUME NEW k \in 1 .. n, NEW t \in S
      PROVE  move[<<k, t>>] = W(t, k)
  <2> HIDE DEF W, S, n, move
  <2>1. <<k, t>> \in (1 .. n) \X S
    OBVIOUS
  <2>2. move[<<k, t>>] = W(<<k, t>>[2], <<k, t>>[1])
    BY <2>1 DEF move
  <2> QED
    BY <2>2
<1>6. \E f : Eqn(f)
  <2> HIDE DEF move, S, n, W, first
  <2>1. Moves(n, S, first, move)
    BY <1>1, <1>2, <1>4 DEF Moves
  <2>a. PICK f : Walked(f, n, S, first, move)
    BY <2>1, WalkTaken
  <2>2. f \in [0 .. n -> S] /\ f[0] = first /\ \A k \in 1 .. n : f[k] = move[<<k, f[k - 1]>>]
    BY <2>a DEF Walked
  <2>3. \A k \in 1 .. n : k - 1 \in 0 .. n
    BY <1>1
  <2>4. \A k \in 1 .. n : f[k] = W(f[k - 1], k)
    BY <1>5, <2>2, <2>3
  <2>5. \A k \in 0 .. n : k = 0 \/ k \in 1 .. n
    BY <1>1
  <2>6. \A k \in 0 .. n : f[k] = IF k = 0 THEN first ELSE W(f[k - 1], k)
    BY <2>2, <2>4, <2>5
  <2>7. Eqn(f)
    BY <2>2, <2>6
  <2> QED
    BY <2>7
<1> DEFINE g == CHOOSE f : Eqn(f)
<1>7. SaveAll(names, Bad, skip) = g[n]
  BY DEF SaveAll
<1>8. Eqn(g)
  <2> HIDE DEF Eqn
  <2> QED
    BY <1>6
<1> HIDE DEF g
<1>9. /\ g = [k \in 0 .. n |-> g[k]]
      /\ \A k \in 0 .. n : g[k] = IF k = 0 THEN first ELSE W(g[k - 1], k)
  <2> HIDE DEF W, first
  <2> QED
    BY <1>8
<1>10. 0 \in 0 .. n /\ n \in 0 .. n /\ \A k \in 1 .. n : k \in 0 .. n /\ k # 0
  BY <1>1
<1>11. g[0] = first /\ \A k \in 1 .. n : g[k] = W(g[k - 1], k)
  <2> HIDE DEF W, n, first
  <2> QED
    BY <1>9, <1>10
<1> DEFINE Q(k) == /\ g[k] \in S
                   /\ \A o \in OpenEditors, i \in 1 .. k :
                         Alone(o, ed[o].file) /\ ed[o].file = names[i] => Survived(o, g[k])
           B == {k \in 0 .. n : Q(k)}
<1>12. 0 \in B
  <2>1. Q(0)
    BY <1>2, <1>11
  <2> HIDE DEF Q
  <2> QED
    BY <1>10, <2>1
<1>13. ASSUME NEW k \in 1 .. n, k - 1 \in B PROVE k \in B
  <2> DEFINE t == g[k - 1]
  <2>1. Q(k - 1) /\ k \in 0 .. n
    BY <1>10, <1>13
  <2>2. PICK m \in OpenEditors : ed[m].file = names[k]
    BY <1>1
  <2>3. t \in S /\ \A o \in OpenEditors, i \in 1 .. k - 1 :
                      Alone(o, ed[o].file) /\ ed[o].file = names[i] => Survived(o, t)
    BY <2>1
  <2>4. \A i : i \in 1 .. k <=> i \in 1 .. k - 1 \/ i = k
    BY <1>1
  <2>5. g[k] = SaveOne(t, ed[m].file, Bad, skip)
    BY <1>11, <2>2
  <2> HIDE DEF t, Q
  <2>6. g[k] \in S
    BY <2>3, <2>5, SaveOneStays
  <2>7. ASSUME NEW o \in OpenEditors, NEW i \in 1 .. k, Alone(o, ed[o].file), ed[o].file = names[i]
        PROVE  Survived(o, g[k])
    <3>1. ed[m].file = ed[o].file \/ Survived(o, t)
      <4>1. i \in 1 .. k - 1 \/ i = k
        BY <2>4
      <4>2. CASE i = k
        BY <2>2, <2>7, <4>2
      <4>3. CASE i \in 1 .. k - 1
        BY <2>3, <2>7, <4>3
      <4> QED
        BY <4>1, <4>2, <4>3
    <3>2. Survived(o, SaveOne(t, ed[m].file, Bad, skip))
      BY <2>3, <2>7, <3>1, SaveOneWrites
    <3> QED
      BY <2>5, <3>2
  <2>8. Q(k)
    BY <2>6, <2>7 DEF Q
  <2> QED
    BY <2>1, <2>8
<1>14. n \in B
  <2> HIDE DEF B
  <2> QED
    BY <1>1, <1>10, <1>12, <1>13, UpTo
<1>15. Q(n)
  BY <1>14
<1> QED
  BY <1>1, <1>7, <1>15 DEF ToSet

\* The ticked rows are files of tabs.
LEMMA TickedOpen ==
    ASSUME EdInv, question.kind \in {"exit", "build"}, NEW names \in Ticked
    PROVE  NamesOpen(names)
<1>1. question.rows \in Seq(Names)
      /\ \A i \in 1 .. Len(question.rows) : \E e \in OpenEditors : ed[e].file = question.rows[i]
  BY DEF EdInv, QuestionOk
<1> DEFINE rows == question.rows
<1>2. PICK T : names = Picked(rows, T)
  BY DEF Ticked
<1> HIDE DEF rows
<1>3. rows \in Seq(Names) /\ \A i \in 1 .. Len(rows) : \E e \in OpenEditors : ed[e].file = rows[i]
  BY <1>1 DEF rows
<1>4. names \in Seq(Names) /\ \A x : x \in ToSet(names) <=> \E i \in 1 .. Len(rows) : i \in T /\ rows[i] = x
  BY <1>2, <1>3, PickedFacts
<1>5. DOMAIN names = 1 .. Len(names)
  BY <1>4, LenProperties
<1>6. ASSUME NEW i \in 1 .. Len(names) PROVE \E m \in OpenEditors : ed[m].file = names[i]
  <2>1. names[i] \in ToSet(names)
    BY <1>5 DEF ToSet
  <2>2. PICK j \in 1 .. Len(rows) : rows[j] = names[i]
    BY <1>4, <2>1
  <2> QED
    BY <1>3, <2>2
<1> QED
  BY <1>4, <1>6 DEF NamesOpen

LEMMA FirstFound ==
    ASSUME TabsOk, NEW es, \E e \in OpenEditors : es[e].saveAsRequired
    PROVE  FirstUnnamed(es) \in OpenEditors
<1> DEFINE at == {i \in 1 .. Len(tabs) : es[tabs[i]].saveAsRequired}
           k == CHOOSE i \in 1 .. Len(tabs) : /\ es[tabs[i]].saveAsRequired
                                              /\ \A j \in 1 .. i - 1 : ~es[tabs[j]].saveAsRequired
<1>1. at # {} /\ at \in SUBSET Nat
  BY OpenFacts
<1>2. PICK i \in at : \A j \in at : i =< j
  <2> HIDE DEF at
  <2> QED
    BY <1>1, LeastNumber
<1>3. \A j \in 1 .. i - 1 : j \in 1 .. Len(tabs) /\ ~(i =< j)
  BY <1>2, OpenFacts
<1>4. /\ i \in 1 .. Len(tabs) /\ es[tabs[i]].saveAsRequired
      /\ \A j \in 1 .. i - 1 : ~es[tabs[j]].saveAsRequired
  BY <1>2, <1>3
<1>5. k \in 1 .. Len(tabs)
  BY <1>4
<1>6. FirstUnnamed(es) = tabs[k]
  BY DEF FirstUnnamed
<1> HIDE DEF k
<1> QED
  BY <1>5, <1>6, OpenFacts

\* The files that are saved keep their names: the tabs are as they were.
LEMMA SavedTabs ==
    ASSUME EdInv, NEW st \in SavedStates, ed' = st.ed, disk' = st.disk, UNCHANGED tabs
    PROVE  TabsOk' /\ (UNCHANGED <<openSrcFiles, stray>> => ListOk')
<1>1. TabsOk /\ ListOk
  BY DEF EdInv
<1>2. IsSaved(st.ed, st.disk, st.unnamed, st.failed)
  BY SavedElim
<1>3. TabsOk'
  BY <1>1, <1>2 DEF TabsOk, IsSaved
<1>4. \A e \in OpenEditors : ed'[e].file = ed[e].file
  BY <1>1, <1>2, OpenFacts DEF IsSaved
<1>5. ASSUME UNCHANGED <<openSrcFiles, stray>> PROVE ListOk'
  BY <1>1, <1>4, <1>5, ListKept
<1> QED
  BY <1>3, <1>5

\* what is done about the editor e that has yet to be named
NamesOne(st, e) ==
    \/ ed' = st.ed /\ disk' = st.disk /\ UNCHANGED <<openSrcFiles, stray>>
    \/ \E name \in FileNames, ok \in BOOLEAN :
         /\ ed' = [st.ed EXCEPT ![e] = saveFile(@, name, ok)]
         /\ disk' = Written(st.disk, st.ed[e], name, ok)
         /\ openSrcFiles' = IF ok THEN FilesOf(tabs, ed') ELSE openSrcFiles
         /\ stray' = ~ok

LEMMA ExitNames ==
    ASSUME NEW names, NEW Bad, NEW st, st = SaveAll(names, Bad, TRUE), st.unnamed,
           save_exit_or_ignore(names, Bad)
    PROVE  /\ question' = None
           /\ Show(FirstUnnamed(st.ed)) /\ NamesOne(st, FirstUnnamed(st.ed))
<1> DEFINE Closing(s) == s.unnamed => /\ question' = None
                                   /\ \E e \in {FirstUnnamed(s.ed)} : Show(e) /\ NamesOne(s, e)
<1>1. \E s \in {SaveAll(names, Bad, TRUE)} : Closing(s)
  BY DEF save_exit_or_ignore, NamesOne
<1>2. Closing(st)
  <2> HIDE DEF Closing
  <2> QED
    BY <1>1
<1> QED
  BY <1>2

LEMMA ExitOk ==
    ASSUME EdInv, ExitDecided
    PROVE  EdInv'
<1>1. TabsOk /\ ShownOk /\ ListOk /\ QuestionOk /\ edits \in Nat
  BY DEF EdInv
<1>2. PICK names \in Ticked, Bad \in SUBSET OpenEditors : save_exit_or_ignore(names, Bad)
  BY DEF ExitDecided
<1>3. UNCHANGED <<tabs, edits>> /\ question.kind = "exit"
  BY DEF ExitDecided
<1> DEFINE st == SaveAll(names, Bad, TRUE)
<1>4. NamesOpen(names)
  BY <1>3, TickedOpen
<1>5. st \in SavedStates
  BY <1>1, <1>4, SaveAllDoes
<1>6. CASE ~st.unnamed
  <2>1. /\ ed' = st.ed /\ disk' = st.disk /\ question' = Closed
        /\ UNCHANGED <<shown, current_srceditor, openSrcFiles, stray>>
    BY <1>2, <1>6 DEF save_exit_or_ignore
  <2> HIDE DEF st
  <2>2. TabsOk' /\ ListOk'
    BY <1>3, <1>5, <2>1, SavedTabs
  <2>3. ShownOk'
    BY <1>1, <1>3, <2>1 DEF ShownOk, OpenEditors
  <2> QED
    BY <1>1, <1>3, <2>1, <2>2, <2>3, NoQuestion DEF EdInv
<1>7. CASE st.unnamed
  <2> DEFINE e == FirstUnnamed(st.ed)
  <2>1. question' = None /\ Show(e) /\ NamesOne(st, e)
    BY <1>2, <1>7, ExitNames
  <2> HIDE DEF st
  <2>2. IsSaved(st.ed, st.disk, st.unnamed, st.failed)
    BY <1>5, SavedElim
  <2>3. e \in OpenEditors
    <3>1. PICK m \in OpenEditors : ed[m].file \notin FileNames
      BY <1>7, <2>2 DEF IsSaved
    <3>2. m \in Editors
      BY <1>1, OpenFacts
    <3>3. st.ed[m] \in Docs /\ st.ed[m].file = ed[m].file
      BY <2>2, <3>2 DEF IsSaved
    <3>4. st.ed[m].saveAsRequired
      BY <3>1, <3>3 DEF Docs
    <3> QED
      BY <1>1, <3>4, FirstFound
  <2> HIDE DEF e
  <2>4. ShownOk'
    BY <1>1, <1>3, <2>1, <2>3, ShownAgain
  <2>5. CASE ed' = st.ed /\ disk' = st.disk /\ UNCHANGED <<openSrcFiles, stray>>
    <3>1. TabsOk' /\ ListOk'
      BY <1>3, <1>5, <2>5, SavedTabs
    <3> QED
      BY <1>1, <1>3, <2>1, <2>4, <3>1, NoQuestion DEF EdInv
  <2>6. ASSUME NEW name \in FileNames, NEW ok \in BOOLEAN,
               ed' = [st.ed EXCEPT ![e] = saveFile(@, name, ok)],
               disk' = Written(st.disk, st.ed[e], name, ok),
               openSrcFiles' = IF ok THEN FilesOf(tabs, ed') ELSE openSrcFiles,
               stray' = ~ok
        PROVE  EdInv'
    <3>1. e \in Editors /\ st.ed \in [Editors -> Docs] /\ st.disk \in [Files -> Nat]
      BY <1>1, <2>2, <2>3, OpenFacts DEF IsSaved
    <3>2. saveFile(st.ed[e], name, ok) \in Docs
      BY <3>1, DocSaved DEF Names
    <3>3. ed' \in [Editors -> Docs]
      BY <2>6, <3>1, <3>2
    <3>4. disk' \in [Files -> Nat]
      BY <2>6, <3>1, DiskWritten
    <3>5. TabsOk'
      BY <1>1, <1>3, <3>3, <3>4 DEF TabsOk
    <3>6. CASE ok
      <4>1. update_open_file_list
        BY <1>3, <2>6, <3>6 DEF update_open_file_list
      <4>2. ListOk'
        BY <3>5, <4>1, ListUpdated
      <4> QED
        BY <1>1, <1>3, <2>1, <2>4, <3>5, <4>2, NoQuestion DEF EdInv
    <3>7. CASE ~ok
      <4>1. ListOk'
        BY <1>1, <2>6, <3>7 DEF ListOk
      <4> QED
        BY <1>1, <1>3, <2>1, <2>4, <3>5, <4>1, NoQuestion DEF EdInv
    <3> QED
      BY <3>6, <3>7
  <2> QED
    BY <2>1, <2>5, <2>6 DEF NamesOne
<1> QED
  BY <1>6, <1>7

LEMMA BuildOk ==
    ASSUME EdInv, build_execute_with_save
    PROVE  EdInv'
<1>1. TabsOk /\ ShownOk /\ ListOk /\ QuestionOk /\ edits \in Nat
  BY DEF EdInv
<1>2. PICK names \in Ticked, Bad \in SUBSET OpenEditors :
         /\ ed' = SaveAll(names, Bad, FALSE).ed /\ disk' = SaveAll(names, Bad, FALSE).disk
         /\ question' = None
  BY DEF build_execute_with_save, Answered
<1>3. /\ UNCHANGED <<tabs, shown, current_srceditor, openSrcFiles, edits, stray>>
      /\ question.kind = "build"
  BY DEF build_execute_with_save
<1>4. SaveAll(names, Bad, FALSE) \in SavedStates
  BY <1>1, <1>3, TickedOpen, SaveAllDoes
<1>5. TabsOk' /\ ListOk'
  BY <1>2, <1>3, <1>4, SavedTabs
<1>6. ShownOk'
  BY <1>1, <1>3 DEF ShownOk, OpenEditors
<1> QED
  BY <1>1, <1>2, <1>3, <1>5, <1>6, NoQuestion DEF EdInv

LEMMA RestartOk ==
    ASSUME EdInv, Restart
    PROVE  EdInv'
<1>1. TabsOk /\ ListOk /\ edits \in Nat
  BY DEF EdInv
<1> DEFINE names == Restored
           n == Len(names)
           P == {i \in 1 .. Len(openSrcFiles) :
                    openSrcFiles[i] = Example \/ Exists(openSrcFiles[i], disk)}
           X == FileNames \cup {Example}
<1>2. /\ tabs' = [i \in 1 .. n |-> i]
      /\ ed' = [e \in Editors |-> IF e <= n THEN loadFile(names[e]) ELSE NewEditor]
      /\ shown' = n /\ current_srceditor' = n
      /\ stray' = (FilesOf(tabs', ed') # openSrcFiles)
      /\ question' = None /\ UNCHANGED <<disk, openSrcFiles, edits>>
  BY DEF Restart, Answered
<1>3. names \in Seq(X) /\ n \in Nat /\ n <= MaxEditors
  <2>1. openSrcFiles \in Seq(X) /\ Len(openSrcFiles) \in Nat /\ Len(openSrcFiles) <= MaxEditors
    BY <1>1, LenProperties DEF ListOk
  <2>2. names = Picked(openSrcFiles, P)
    BY DEF Restored
  <2> HIDE DEF names, P, X
  <2>3. names \in Seq(X) /\ n \in Nat /\ n <= Len(openSrcFiles)
    BY <2>1, <2>2, PickedFacts
  <2> QED
    BY <2>1, <2>3, EditorsFacts
<1>4. \A i \in 1 .. n : names[i] \in X
  BY <1>3, ElementOfSeq
<1> HIDE DEF names
<1>5. 1 .. n \subseteq Editors
  BY <1>3, EditorsFacts DEF Editors
<1>6. tabs' \in Seq(Editors) /\ Len(tabs') = n /\ DOMAIN tabs' = 1 .. n
      /\ \A i \in 1 .. n : tabs'[i] = i
  <2>1. tabs' \in [1 .. n -> Editors] /\ \A i \in 1 .. n : tabs'[i] = i
    BY <1>2, <1>5
  <2>2. tabs' \in Seq(Editors)
    BY <1>3, <2>1
  <2> QED
    BY <1>3, <2>1, <2>2, LenProperties
<1>7. IsInjective(tabs') /\ OpenEditors' = 1 .. n
  BY <1>6 DEF IsInjective, OpenEditors, ToSet
<1>8. ed' \in [Editors -> Docs]
  <2>1. \A e \in Editors : e <= n => loadFile(names[e]) \in Docs
    <3>1. \A e \in Editors : e <= n => e \in 1 .. n
      BY <1>3 DEF Editors
    <3> QED
      BY <1>1, <1>4, <3>1, Loaded
  <2> QED
    BY <1>2, <2>1, NewDoc
<1>9. TabsOk'
  BY <1>1, <1>2, <1>3, <1>6, <1>7, <1>8 DEF TabsOk
<1>10. ShownOk'
  BY <1>2, <1>3, <1>7 DEF ShownOk
<1>11. ListOk'
  BY <1>1, <1>2 DEF ListOk
<1> QED
  BY <1>1, <1>2, <1>9, <1>10, <1>11, NoQuestion DEF EdInv

LEMMA EditorsStart ==
    ASSUME EdInit
    PROVE  EdInv
<1>1. /\ tabs = <<>> /\ shown = 0 /\ current_srceditor = 0
      /\ ed = [e \in Editors |-> NewEditor] /\ disk \in [Files -> {0, NoFile}]
      /\ openSrcFiles = <<>> /\ question = None /\ edits = 0
  BY DEF EdInit
<1>2. tabs \in Seq(Editors) /\ Len(tabs) = 0 /\ IsInjective(tabs)
  BY <1>1 DEF IsInjective
<1>3. TabsOk
  BY <1>1, <1>2, NewDoc, EditorsFacts DEF TabsOk
<1>4. FilesOf(tabs, ed) = <<>>
  <2> DEFINE s == NamesOf(tabs, ed)
             q == Picked(s, {i \in 1 .. Len(tabs) : ed[tabs[i]].file # NoName})
  <2>1. s \in Seq(Names) /\ Len(s) = 0
    BY <1>2, <1>3, NamesTyped DEF TabsOk
  <2>2. FilesOf(tabs, ed) = q
    BY DEF FilesOf
  <2> HIDE DEF s
  <2>3. q \in Seq(Names) /\ Len(q) \in Nat /\ Len(q) <= 0
    BY <2>1, PickedFacts
  <2> HIDE DEF q
  <2>4. q = <<>>
    BY <2>3, EmptySeq
  <2> QED
    BY <2>2, <2>4
<1>5. ListOk
  BY <1>1, <1>4, EditorsFacts DEF ListOk
<1>6. ShownOk
  BY <1>1 DEF ShownOk
<1>7. QuestionOk
  BY <1>1 DEF QuestionOk, None, Closed
<1> QED
  BY <1>1, <1>3, <1>5, <1>6, <1>7 DEF EdInv

LEMMA EditorsStep ==
    ASSUME EdInv, [EdNext]_edvars
    PROVE  EdInv'
<1>1. CASE UNCHANGED edvars
  BY <1>1 DEF edvars, EdInv, TabsOk, ShownOk, ListOk, QuestionOk, OpenEditors
<1> QED
  BY <1>1, TabOrEdit, OpeningOk, SavingOk, ClosingOk, AskingOk, ExitOk, BuildOk, RestartOk DEF EdNext

LEMMA EditorsAlways == EdSpec => []EdInv
BY EditorsStart, EditorsStep, PTL DEF EdSpec

\* The window, the session list and the assembler agree on the open editors, whatever is
\* opened, saved with or without success, closed and restarted (mainwindow.cpp).
THEOREM EditorsAgree == EdSpec => []EditorsConsistent
<1>1. EdInv => EditorsConsistent
  <2> SUFFICES ASSUME EdInv PROVE EditorsConsistent
    OBVIOUS
  <2>1. TabsOk /\ ShownOk /\ ListOk /\ QuestionOk
    BY DEF EdInv
  <2>2. ShownEditorIsCurrent
    BY <2>1 DEF ShownEditorIsCurrent, ShownOk, QuestionOk
  <2>3. IncludesShownText
    BY <2>1, TextShown DEF IncludesShownText
  <2>4. SessionListMatches
    BY <2>1 DEF SessionListMatches, ListOk
  <2> QED
    BY <2>2, <2>3, <2>4 DEF EditorsConsistent
<1> QED
  BY EditorsAlways, <1>1, PTL

\* an editor goes, or the whole window does, while it holds an edit that was not saved
Goes(e) == ed[e].modified /\ question # Closed /\ (question' = Closed \/ e \notin ToSet(tabs'))

Accounted(e) ==
    \/ ed[e].file \in FileNames /\ disk'[Canon[ed[e].file]] = ed[e].text
    \/ answer'.kind = "discard"
    \/ answer'.kind = "save" /\ answer'.failed
    \/ answer'.kind = "exit" /\ (ed[e].file \notin answer'.names \/ e \in answer'.failed)
    \/ ~Alone(e, ed[e].file)

LEMMA StaysOpen ==
    ASSUME NEW e \in OpenEditors, UNCHANGED tabs, question' # Closed
    PROVE  ~Goes(e)
BY DEF Goes, OpenEditors

LEMMA OpeningLosesNone ==
    ASSUME EdInv, NEW e \in OpenEditors,
           new_source \/ example_source \/ \E name \in FileNames \cup {Example} : OpenFile(name)
    PROVE  ~Goes(e)
<1>1. question' = None
  BY DEF new_source, example_source, OpenFile, Opens, Idle
<1>2. question' # Closed
  BY <1>1 DEF None, Closed
<1>3. CASE UNCHANGED tabs
  BY <1>2, <1>3, StaysOpen
<1>4. CASE Len(tabs) < MaxEditors /\ tabs' = Append(tabs, FreeEditor)
  <2>1. FreeEditor \in Editors /\ FreeEditor \notin OpenEditors /\ TabsOk
    BY <1>4, FreeFacts DEF EdInv
  <2>2. ToSet(tabs') = OpenEditors \cup {FreeEditor}
    BY <1>4, <2>1, TabAdded
  <2> QED
    BY <1>2, <2>2 DEF Goes
<1> QED
  BY <1>3, <1>4 DEF new_source, example_source, OpenFile, Opens, add_src_editor_to_tabs

LEMMA ClosingAccounts ==
    ASSUME EdInv, NEW e \in OpenEditors, close_source_check \/ close_source_decided, Goes(e)
    PROVE  Accounted(e)
<1> DEFINE c == current_srceditor
           d == ed[c]
<1>1. TabsOk /\ ShownOk /\ QuestionOk
  BY DEF EdInv
<1>2. c # 0
  BY <1>1 DEF close_source_check, close_source_decided, QuestionOk
<1>3. c \in Editors /\ d \in Docs /\ disk \in [Files -> Nat]
  BY <1>1, <1>2, OpenFacts DEF ShownOk, TabsOk
<1>4. ASSUME NEW es, close_source(c, es), question' # Closed PROVE e = c
  <2>1. ToSet(tabs') = OpenEditors \ {c}
    BY <1>1, <1>4, TabRemoved DEF close_source, Without
  <2> QED
    BY <1>4, <2>1 DEF Goes
<1>5. CASE close_source_check
  <2>1. CASE d.modified
    <3>1. UNCHANGED tabs /\ question' = [kind |-> "close"]
      BY <1>5, <2>1 DEF close_source_check
    <3>2. question' # Closed
      BY <3>1 DEF Closed
    <3> QED
      BY <3>1, <3>2, StaysOpen
  <2>2. CASE ~d.modified
    <3>1. close_source(c, ed) /\ question' = None
      BY <1>5, <2>2 DEF close_source_check, Idle
    <3>2. question' # Closed
      BY <3>1 DEF None, Closed
    <3> QED
      BY <1>4, <2>2, <3>1, <3>2 DEF Goes
  <2> QED
    BY <2>1, <2>2
<1>6. CASE close_source_decided
  <2>1. question' = None
    BY <1>6 DEF close_source_decided, Answered
  <2>2. question' # Closed
    BY <2>1 DEF None, Closed
  <2>3. CASE UNCHANGED tabs
    BY <2>2, <2>3, StaysOpen
  <2>4. ASSUME NEW ok \in BOOLEAN, ~d.saveAsRequired,
               answer' = [kind |-> "save", failed |-> ~ok],
               disk' = Written(disk, d, d.file, ok),
               close_source(c, [ed EXCEPT ![c] = saveFile(d, d.file, ok)])
        PROVE  Accounted(e)
    <3>1. e = c
      BY <1>4, <2>2, <2>4
    <3>2. CASE ~ok
      BY <2>4, <3>2 DEF Accounted
    <3>3. CASE ok
      <4>1. d.file \in FileNames
        BY <1>3, <2>4 DEF Docs
      <4>2. Canon[d.file] \in Files
        BY <4>1 DEF Files
      <4>3. disk' = [disk EXCEPT ![Canon[d.file]] = d.text]
        BY <2>4, <3>3, <4>1 DEF Written
      <4>4. disk'[Canon[d.file]] = d.text
        BY <1>3, <4>2, <4>3
      <4> QED
        BY <3>1, <4>1, <4>4 DEF Accounted
    <3> QED
      BY <3>2, <3>3
  <2>5. CASE answer' = [kind |-> "discard"]
    BY <2>5 DEF Accounted
  <2> QED
    BY <1>6, <2>3, <2>4, <2>5 DEF close_source_decided, Answered
<1> QED
  BY <1>5, <1>6

LEMMA QuestionLosesNone ==
    ASSUME EdInv, NEW e \in OpenEditors, closeEvent \/ build_check \/ SaveChangedCancel
    PROVE  ~Goes(e)
<1>1. UNCHANGED tabs
  BY DEF closeEvent, build_check, SaveChangedCancel
<1>2. CASE question' # Closed
  BY <1>1, <1>2, StaysOpen
<1>3. CASE question' = Closed
  <2> DEFINE s == NamesOf(tabs, ed)
             P == {i \in 1 .. Len(tabs) : ed[tabs[i]].modified /\ (TRUE \/ ed[tabs[i]].file # NoName)}
  <2>1. modified_file_list(TRUE) = <<>>
    BY <1>3 DEF closeEvent, build_check, SaveChangedCancel, Answered, None, Closed
  <2>2. Picked(s, P) = <<>>
    BY <2>1 DEF modified_file_list
  <2>3. TabsOk
    BY DEF EdInv
  <2>4. s \in Seq(Names) /\ Len(s) = Len(tabs)
    BY <2>3, NamesTyped DEF TabsOk
  <2> HIDE DEF s
  <2>5. \A x : x \in ToSet(Picked(s, P)) <=> \E i \in 1 .. Len(s) : i \in P /\ s[i] = x
    BY <2>4, PickedFacts
  <2>6. ToSet(Picked(s, P)) = {}
    BY <2>2 DEF ToSet
  <2>7. PICK i \in 1 .. Len(tabs) : tabs[i] = e
    BY <2>3, OpenFacts
  <2>8. i \notin P
    BY <2>4, <2>5, <2>6
  <2> QED
    BY <2>7, <2>8 DEF Goes
<1> QED
  BY <1>2, <1>3

LEMMA ExitAccounts ==
    ASSUME EdInv, NEW e \in OpenEditors, ExitDecided, Goes(e)
    PROVE  Accounted(e)
<1>1. PICK names \in Ticked, Bad \in SUBSET OpenEditors : save_exit_or_ignore(names, Bad)
  BY DEF ExitDecided
<1>2. UNCHANGED tabs /\ question.kind = "exit" /\ TabsOk
  BY DEF ExitDecided, EdInv
<1> DEFINE st == SaveAll(names, Bad, TRUE)
<1>3. NamesOpen(names)
  BY <1>2, TickedOpen
<1>4. Alone(e, ed[e].file) /\ ed[e].file \in ToSet(names) => Survived(e, st)
  BY <1>2, <1>3, SaveAllDoes
<1>5. CASE st.unnamed
  <2>1. question' = None
    BY <1>1, <1>5, ExitNames
  <2>2. question' # Closed
    BY <2>1 DEF None, Closed
  <2> QED
    BY <1>2, <2>2, StaysOpen
<1>6. CASE ~st.unnamed
  <2>1. /\ answer' = [kind |-> "exit", names |-> ToSet(names), failed |-> st.failed]
        /\ disk' = st.disk
    BY <1>1, <1>6 DEF save_exit_or_ignore
  <2> HIDE DEF st
  <2> QED
    BY <1>4, <1>6, <2>1 DEF Accounted, Survived, OnDisk
<1> QED
  BY <1>5, <1>6

\* Closing an editor or the window, with or without a failed write and whatever is
\* ticked, loses no edit that the user did not give up (close_source_decided,
\* save_exit_or_ignore, closeEvent).
THEOREM EditsSurvive == EdSpec => NoEditLost
<1>1. EdInv /\ [EdNext]_edvars => [\A e \in OpenEditors : Goes(e) => Accounted(e)]_edvars
  <2> SUFFICES ASSUME EdInv, EdNext, NEW e \in OpenEditors, Goes(e) PROVE Accounted(e)
    OBVIOUS
  <2>1. CASE (\E f \in OpenEditors \cup {0} : central_tab_changed(f)) \/ Edit
             \/ (\E name \in FileNames, ok \in BOOLEAN : save_source_as(name, ok))
             \/ (\E ok \in BOOLEAN : save_source(ok)) \/ build_execute_with_save
    <3>1. UNCHANGED tabs /\ question' = None
      BY <2>1 DEF central_tab_changed, Edit, save_source_as, save_source,
                  build_execute_with_save, Idle, Answered
    <3>2. question' # Closed
      BY <3>1 DEF None, Closed
    <3> QED
      BY <3>1, <3>2, StaysOpen
  <2>2. CASE new_source \/ example_source \/ \E name \in FileNames \cup {Example} : OpenFile(name)
    BY <2>2, OpeningLosesNone
  <2>3. CASE close_source_check \/ close_source_decided
    BY <2>3, ClosingAccounts
  <2>4. CASE closeEvent \/ build_check \/ SaveChangedCancel
    BY <2>4, QuestionLosesNone
  <2>5. CASE ExitDecided
    BY <2>5, ExitAccounts
  <2>6. CASE Restart
    BY <2>6 DEF Restart, Goes
  <2> QED
    BY <2>1, <2>2, <2>3, <2>4, <2>5, <2>6 DEF EdNext
<1>2. [\A e \in OpenEditors : Goes(e) => Accounted(e)]_edvars
        => [\A e \in OpenEditors :
              ed[e].modified /\ question # Closed /\ (question' = Closed \/ e \notin ToSet(tabs'))
                 => \/ ed[e].file \in FileNames /\ disk'[Canon[ed[e].file]] = ed[e].text
                    \/ answer'.kind = "discard"
                    \/ answer'.kind = "save" /\ answer'.failed
                    \/ answer'.kind = "exit" /\ (ed[e].file \notin answer'.names \/ e \in answer'.failed)
                    \/ ~Alone(e, ed[e].file)]_edvars
  BY DEF Goes, Accounted
<1> QED
  BY EditorsAlways, <1>1, <1>2, PTL DEF EdSpec, NoEditLost

-----------------------------------------------------------------------------
(* The docks.                                                                *)

\* a register of coprocessor 0 holds bits
Values == {v \in [Labels -> Nat \cup SUBSET Bits] : \A r \in Cop0Names : v[r] \in SUBSET Bits}

DockRecords ==
    [value : Values, text : Values, colour : [Labels -> {"normal", "updated", "read"}],
     marked : SUBSET Labels, any : BOOLEAN, hwr_userlocal : SUBSET Bits, set : BOOLEAN,
     written : SUBSET Labels, seen : SUBSET Labels, ops : Nat]

\* A label is marked exactly if its register was used, the program counter apart, and the
\* dock of coprocessor 0 knows that it has marks to clear.
DocksOk(d) ==
    /\ d \in DockRecords
    /\ d.text = d.value
    /\ d.marked = (d.written \cup d.seen) \ {"pc"}
    /\ ~d.any => d.marked \cap Cop0Names = {}
    /\ \A l \in Labels \ {"pc"} :
          d.colour[l] = IF l \in d.written THEN "updated" ELSE IF l \in d.seen THEN "read" ELSE "normal"

SameUserLocal(d, e) == e.hwr_userlocal = d.hwr_userlocal /\ e.set = d.set
                       /\ e.value["UserLocal"] = d.value["UserLocal"]

LEMMA NamesApart ==
    /\ "UserLocal" \notin RegNames /\ "UserLocal" \in Cop0Names
    /\ \A r \in Cop0Names : r \notin RegNames /\ r # "pc" /\ r \in Labels
    /\ \A l \in RegNames : l \in Labels
BY DocksAssumption DEF DocksAssumption, RegNames, Cop0Names, Labels

LEMMA RegsWritten ==
    ASSUME NEW d, DocksOk(d), NEW labels \in SUBSET RegNames, NEW val \in Values,
           \A l \in Labels \ labels : val[l] = d.value[l]
    PROVE  /\ DocksOk(regs_changed([d EXCEPT !.value = val], labels))
           /\ SameUserLocal(d, regs_changed([d EXCEPT !.value = val], labels))
<1> DEFINE c == [d EXCEPT !.value = val]
           marks == labels \ {"pc"}
           text == [l \in Labels |-> IF l \in labels THEN val[l] ELSE d.text[l]]
           colour == [l \in Labels |-> IF l \in marks THEN "updated" ELSE d.colour[l]]
           r == regs_changed(c, labels)
<1>1. /\ c \in DockRecords /\ c.value = val /\ c.text = d.text /\ c.colour = d.colour
      /\ c.marked = d.marked /\ c.any = d.any /\ c.hwr_userlocal = d.hwr_userlocal
      /\ c.set = d.set /\ c.written = d.written /\ c.seen = d.seen
  BY DEF DocksOk, DockRecords
<1> HIDE DEF c
<1>2. r = [c EXCEPT !.text = text, !.colour = colour, !.marked = d.marked \cup marks,
                    !.written = d.written \cup labels]
  BY <1>1 DEF regs_changed
<1>3. text = val
  <2>1. \A l \in Labels : text[l] = val[l]
    BY DEF DocksOk
  <2>2. val \in [Labels -> Nat \cup SUBSET Bits]
    BY DEF Values
  <2> QED
    BY <2>1, <2>2
<1>4. colour \in [Labels -> {"normal", "updated", "read"}]
  BY DEF DocksOk, DockRecords
<1>5. marks \in SUBSET Labels /\ labels \in SUBSET Labels
  BY NamesApart
<1>6. \A l \in Labels : colour[l] = IF l \in marks THEN "updated" ELSE d.colour[l]
  OBVIOUS
<1> HIDE DEF text, colour, r
<1>7. r \in DockRecords
  BY <1>1, <1>2, <1>3, <1>4, <1>5 DEF DockRecords
<1>8. /\ r.value = val /\ r.text = text /\ r.colour = colour /\ r.any = d.any
      /\ r.marked = d.marked \cup marks /\ r.written = d.written \cup labels /\ r.seen = d.seen
      /\ r.hwr_userlocal = d.hwr_userlocal /\ r.set = d.set
  BY <1>1, <1>2 DEF DockRecords
<1>9. r.marked = (r.written \cup r.seen) \ {"pc"}
  BY <1>8 DEF DocksOk
<1>10. ~r.any => r.marked \cap Cop0Names = {}
  BY <1>8, NamesApart DEF DocksOk
<1>11. \A l \in Labels \ {"pc"} :
          r.colour[l] = IF l \in r.written THEN "updated" ELSE IF l \in r.seen THEN "read" ELSE "normal"
  BY <1>6, <1>8 DEF DocksOk
<1>12. DocksOk(r)
  BY <1>3, <1>7, <1>8, <1>9, <1>10, <1>11 DEF DocksOk
<1>13. val["UserLocal"] = d.value["UserLocal"]
  BY NamesApart
<1> QED
  BY <1>8, <1>12, <1>13 DEF r, c, SameUserLocal

LEMMA Cop0Written ==
    ASSUME NEW d, DocksOk(d), NEW r \in Cop0Names, NEW b \in SUBSET Bits
    PROVE  /\ DocksOk(set_cop0reg(d, r, b))
           /\ set_cop0reg(d, r, b).value[r] = b
           /\ r # "UserLocal" => SameUserLocal(d, set_cop0reg(d, r, b))
           /\ set_cop0reg(d, r, b).hwr_userlocal = d.hwr_userlocal
           /\ set_cop0reg(d, r, b).set = d.set
<1> DEFINE val == [d.value EXCEPT ![r] = b]
           c == [d EXCEPT !.value = val]
           text == [d.text EXCEPT ![r] = b]
           colour == [d.colour EXCEPT ![r] = "updated"]
           e == set_cop0reg(d, r, b)
<1>1. r \in Labels /\ r # "pc" /\ d \in DockRecords /\ d.value \in Values
  BY NamesApart DEF DocksOk, DockRecords
<1>c. d.value \in [Labels -> Nat \cup SUBSET Bits] /\ \A q \in Cop0Names : d.value[q] \in SUBSET Bits
  BY <1>1 DEF Values
<1>2. val \in Values /\ val[r] = b /\ \A l \in Labels \ {r} : val[l] = d.value[l]
  <2>1. /\ val \in [Labels -> Nat \cup SUBSET Bits] /\ val[r] = b
        /\ \A l \in Labels \ {r} : val[l] = d.value[l]
    BY <1>1, <1>c
  <2>2. \A q \in Cop0Names : val[q] \in SUBSET Bits
    <3> HIDE DEF val
    <3> QED
      BY <1>c, <2>1, NamesApart
  <2> HIDE DEF val
  <2> QED
    BY <2>1, <2>2 DEF Values
<1>a. text = val
  BY DEF DocksOk
<1>b. set_cop0reg(d, r, b) = cop0reg_changed(c, r)
  BY DEF set_cop0reg
<1> HIDE DEF val
<1>3. /\ c \in DockRecords /\ c.value = val /\ c.text = d.text /\ c.colour = d.colour
      /\ c.marked = d.marked /\ c.any = d.any /\ c.hwr_userlocal = d.hwr_userlocal
      /\ c.set = d.set /\ c.written = d.written /\ c.seen = d.seen
  BY <1>1, <1>2 DEF DocksOk, DockRecords
<1> HIDE DEF c
<1>4. e = [c EXCEPT !.text = text, !.colour = colour, !.marked = d.marked \cup {r},
                    !.any = TRUE, !.written = d.written \cup {r}]
  BY <1>b, <1>2, <1>3, Zenon DEF cop0reg_changed
<1>5. colour \in [Labels -> {"normal", "updated", "read"}]
      /\ \A l \in Labels : colour[l] = IF l = r THEN "updated" ELSE d.colour[l]
  BY <1>1 DEF DockRecords
<1> HIDE DEF text, colour, e
<1>6. e \in DockRecords
  BY <1>1, <1>2, <1>a, <1>3, <1>4, <1>5 DEF DockRecords
<1>7. /\ e.value = val /\ e.text = text /\ e.colour = colour /\ e.any = TRUE
      /\ e.marked = d.marked \cup {r} /\ e.written = d.written \cup {r} /\ e.seen = d.seen
      /\ e.hwr_userlocal = d.hwr_userlocal /\ e.set = d.set
  BY <1>3, <1>4 DEF DockRecords
<1>8. e.marked = (e.written \cup e.seen) \ {"pc"}
  BY <1>1, <1>7 DEF DocksOk
<1>9. \A l \in Labels \ {"pc"} :
          e.colour[l] = IF l \in e.written THEN "updated" ELSE IF l \in e.seen THEN "read" ELSE "normal"
  BY <1>5, <1>7 DEF DocksOk
<1>10. DocksOk(e)
  BY <1>a, <1>6, <1>7, <1>8, <1>9 DEF DocksOk
<1>11. r # "UserLocal" => val["UserLocal"] = d.value["UserLocal"]
  BY <1>2, NamesApart
<1> QED
  BY <1>2, <1>7, <1>10, <1>11 DEF e, SameUserLocal

LEMMA ReadMarks ==
    ASSUME NEW d, DocksOk(d), NEW l \in Labels \ {"pc"}, NEW e \in DockRecords,
           e.value = d.value, e.text = d.text,
           e.colour = [d.colour EXCEPT ![l] = IF l \in d.marked THEN @ ELSE "read"],
           e.marked = d.marked \cup {l}, e.written = d.written, e.seen = d.seen \cup {l},
           e.any = TRUE \/ (e.any = d.any /\ l \notin Cop0Names)
    PROVE  DocksOk(e)
<1>1. d.colour \in [Labels -> {"normal", "updated", "read"}]
  BY DEF DocksOk, DockRecords
<1>2. ASSUME NEW k \in Labels \ {"pc"}
      PROVE  e.colour[k] = IF k \in e.written THEN "updated" ELSE IF k \in e.seen THEN "read" ELSE "normal"
  <2>1. e.colour[k] = IF k = l /\ l \notin d.marked THEN "read" ELSE d.colour[k]
    BY <1>1
  <2>2. d.colour[k] = IF k \in d.written THEN "updated" ELSE IF k \in d.seen THEN "read" ELSE "normal"
    BY DEF DocksOk
  <2>3. l \in d.marked <=> l \in d.written \/ l \in d.seen
    BY DEF DocksOk
  <2> QED
    BY <2>1, <2>2, <2>3
<1>3. e.marked = (e.written \cup e.seen) \ {"pc"}
  BY DEF DocksOk
<1>4. ~e.any => e.marked \cap Cop0Names = {}
  BY DEF DocksOk
<1> QED
  BY <1>2, <1>3, <1>4 DEF DocksOk

LEMMA RegRead ==
    ASSUME NEW d, DocksOk(d), NEW l \in RegNames \ {"pc"}
    PROVE  DocksOk(reg_read(d, l)) /\ SameUserLocal(d, reg_read(d, l))
<1> DEFINE colour == [d.colour EXCEPT ![l] = IF l \in d.marked THEN @ ELSE "read"]
           e == reg_read(d, l)
<1>1. l \in Labels /\ l # "pc" /\ l \notin Cop0Names /\ d \in DockRecords
  BY NamesApart DEF DocksOk
<1>2. e = [d EXCEPT !.colour = colour, !.marked = d.marked \cup {l}, !.seen = d.seen \cup {l}]
  BY Zenon DEF reg_read
<1>3. colour \in [Labels -> {"normal", "updated", "read"}]
  BY <1>1 DEF DockRecords
<1> HIDE DEF colour, e
<1>4. /\ e \in DockRecords
      /\ e.value = d.value /\ e.text = d.text /\ e.colour = colour
      /\ e.marked = d.marked \cup {l} /\ e.written = d.written /\ e.seen = d.seen \cup {l}
      /\ e.any = d.any /\ e.hwr_userlocal = d.hwr_userlocal /\ e.set = d.set
  BY <1>1, <1>2, <1>3 DEF DockRecords
<1>5. DocksOk(e)
  BY <1>1, <1>4, ReadMarks DEF colour
<1> QED
  BY <1>4, <1>5 DEF e, SameUserLocal

LEMMA Cop0Read ==
    ASSUME NEW d, DocksOk(d), NEW r \in Cop0Names
    PROVE  DocksOk(cop0reg_read(d, r)) /\ SameUserLocal(d, cop0reg_read(d, r))
           /\ cop0reg_read(d, r).value = d.value
<1> DEFINE colour == [d.colour EXCEPT ![r] = IF r \in d.marked THEN @ ELSE "read"]
           e == cop0reg_read(d, r)
<1>1. r \in Labels /\ r # "pc" /\ d \in DockRecords
  BY NamesApart DEF DocksOk
<1>2. e = [d EXCEPT !.colour = colour, !.marked = d.marked \cup {r}, !.any = TRUE,
                    !.seen = d.seen \cup {r}]
  BY Zenon DEF cop0reg_read
<1>3. colour \in [Labels -> {"normal", "updated", "read"}]
  BY <1>1 DEF DockRecords
<1> HIDE DEF colour, e
<1>4. /\ e \in DockRecords
      /\ e.value = d.value /\ e.text = d.text /\ e.colour = colour
      /\ e.marked = d.marked \cup {r} /\ e.written = d.written /\ e.seen = d.seen \cup {r}
      /\ e.any = TRUE /\ e.hwr_userlocal = d.hwr_userlocal /\ e.set = d.set
  BY <1>1, <1>2, <1>3 DEF DockRecords
<1>5. DocksOk(e)
  BY <1>1, <1>4, ReadMarks DEF colour
<1> QED
  BY <1>4, <1>5 DEF e, SameUserLocal

LEMMA Cleared ==
    ASSUME NEW d, DocksOk(d)
    PROVE  DocksOk(clear_highlights(d)) /\ SameUserLocal(d, clear_highlights(d))
<1> DEFINE cleared == reg_highlighted(d) \cup cop0_highlighted(d)
           colour == [l \in Labels |-> IF l \in cleared THEN "normal" ELSE d.colour[l]]
           e == clear_highlights(d)
<1>1. d \in DockRecords
  BY DEF DocksOk
<1>2. e = [d EXCEPT !.colour = colour, !.marked = d.marked \ cleared, !.any = FALSE,
                    !.written = {}, !.seen = {}]
  BY Zenon DEF clear_highlights
<1>3. cleared = d.marked
  <2>1. d.marked \in SUBSET Labels
    BY <1>1 DEF DockRecords
  <2> QED
    BY <2>1 DEF DocksOk, reg_highlighted, cop0_highlighted, Labels
<1>4. \A l \in Labels \ {"pc"} : colour[l] = "normal"
  <2> HIDE DEF cleared
  <2> QED
    BY <1>3 DEF DocksOk
<1>5. colour \in [Labels -> {"normal", "updated", "read"}]
  BY <1>1 DEF DockRecords
<1> HIDE DEF colour, e, cleared
<1>6. /\ e \in DockRecords
      /\ e.value = d.value /\ e.text = d.text /\ e.colour = colour
      /\ e.marked = {} /\ e.written = {} /\ e.seen = {}
      /\ e.any = FALSE /\ e.hwr_userlocal = d.hwr_userlocal /\ e.set = d.set
  BY <1>1, <1>2, <1>3, <1>5 DEF DockRecords
<1>7. DocksOk(e)
  BY <1>4, <1>6 DEF DocksOk
<1> QED
  BY <1>6, <1>7 DEF e, SameUserLocal

Agreeing(d) == d.set => d.hwr_userlocal = d.value["UserLocal"]
DocksKept(d) == DocksOk(d) /\ Agreeing(d)

LEMMA StillAgreeing ==
    ASSUME NEW d, NEW e, DocksKept(d), DocksOk(e), SameUserLocal(d, e)
    PROVE  DocksKept(e)
BY DEF DocksKept, Agreeing, SameUserLocal

LEMMA Copies ==
    ASSUME NEW d, NEW e, DocksOk(e), SameUserLocal(d, e), d.hwr_userlocal = d.value["UserLocal"]
    PROVE  DocksKept(e)
BY DEF DocksKept, Agreeing, SameUserLocal

Copied(d, v) == [d EXCEPT !.hwr_userlocal = v, !.set = TRUE]

LEMMA UserLocalCopied ==
    ASSUME NEW d, DocksOk(d), NEW v \in SUBSET Bits
    PROVE  /\ DocksOk(Copied(d, v))
           /\ Copied(d, v).value = d.value /\ Copied(d, v).hwr_userlocal = v
<1> DEFINE e == [d EXCEPT !.hwr_userlocal = v, !.set = TRUE]
<1>1. d \in DockRecords
  BY DEF DocksOk
<1>2. /\ e \in DockRecords /\ e.value = d.value /\ e.text = d.text /\ e.colour = d.colour
      /\ e.marked = d.marked /\ e.any = d.any /\ e.written = d.written /\ e.seen = d.seen
      /\ e.hwr_userlocal = v
  BY <1>1 DEF DockRecords
<1> HIDE DEF e
<1>3. DocksOk(e)
  BY <1>2 DEF DocksOk
<1> QED
  BY <1>2, <1>3 DEF e, Copied

LEMMA DefaultWritten ==
    ASSUME NEW d, DocksOk(d), NEW r \in Cop0Names, NEW v \in SUBSET Bits
    PROVE  /\ DocksOk(write_cop0reg_default(d, r, v))
           /\ r # "UserLocal" => SameUserLocal(d, write_cop0reg_default(d, r, v))
           /\ r = "UserLocal" => write_cop0reg_default(d, r, v).value[r] = v
<1> DEFINE b == (v \cap write_mask[r]) \cup (d.value[r] \ write_mask[r])
<1>1. d.value[r] \in SUBSET Bits
  BY DEF DocksOk, DockRecords, Values
<1>2. b \in SUBSET Bits
  BY <1>1
<1>3. r = "UserLocal" => b = v
  <2>1. write_mask["UserLocal"] = Bits
    BY DEF write_mask, Cop0Names
  <2> QED
    BY <1>1, <2>1
<1> HIDE DEF b
<1>4. write_cop0reg_default(d, r, v) = set_cop0reg(d, r, b)
  BY DEF write_cop0reg_default, b
<1>5. DocksOk(set_cop0reg(d, r, b))
  BY <1>2, Cop0Written
<1>6. r # "UserLocal" => SameUserLocal(d, set_cop0reg(d, r, b))
  BY <1>2, Cop0Written
<1>7. set_cop0reg(d, r, b).value[r] = b
  BY <1>2, Cop0Written
<1> QED
  BY <1>3, <1>4, <1>5, <1>6, <1>7

LEMMA UserLocalWritten ==
    ASSUME NEW d, DocksOk(d), NEW v \in SUBSET Bits
    PROVE  DocksKept(write_cop0reg_user_local(d, v))
<1> DEFINE c == write_cop0reg_default(d, "UserLocal", v)
           e == Copied(c, v)
<1>1. DocksOk(c) /\ c.value["UserLocal"] = v
  BY NamesApart, DefaultWritten
<1> HIDE DEF c
<1>2. DocksOk(e) /\ e.value = c.value /\ e.hwr_userlocal = v
  BY <1>1, UserLocalCopied
<1> HIDE DEF e
<1>3. DocksOk(cop0reg_read(e, "UserLocal")) /\ SameUserLocal(e, cop0reg_read(e, "UserLocal"))
  BY <1>2, NamesApart, Cop0Read
<1>4. write_cop0reg_user_local(d, v) = cop0reg_read(e, "UserLocal")
  BY Zenon DEF write_cop0reg_user_local, e, c, Copied
<1> QED
  BY <1>1, <1>2, <1>3, <1>4, Copies

LEMMA UserLocalSet ==
    ASSUME NEW d, DocksOk(d), NEW v \in SUBSET Bits
    PROVE  DocksKept(set_c0_userlocal(d, v))
<1> DEFINE c == Copied(d, v)
           e == cop0reg_read(c, "UserLocal")
<1>1. DocksOk(c) /\ c.value = d.value /\ c.hwr_userlocal = v
  BY UserLocalCopied
<1> HIDE DEF c
<1>2. DocksOk(e) /\ SameUserLocal(c, e)
  BY <1>1, NamesApart, Cop0Read
<1>3. set_c0_userlocal(d, v) = IF v = d.value["UserLocal"] THEN e ELSE write_cop0reg_user_local(e, v)
  BY Zenon DEF set_c0_userlocal, c, Copied
<1> HIDE DEF e
<1>4. CASE v = d.value["UserLocal"]
  BY <1>1, <1>2, <1>3, <1>4, Copies
<1>5. CASE v # d.value["UserLocal"]
  BY <1>2, <1>3, <1>5, UserLocalWritten
<1> QED
  BY <1>4, <1>5

\* setting or clearing bits of a register that is not UserLocal
LEMMA BitsSet ==
    ASSUME NEW d, DocksKept(d), NEW r \in Cop0Names \ {"UserLocal"}, NEW b \in SUBSET Bits
    PROVE  DocksKept(set_cop0reg(d, r, b))
<1>1. DocksOk(d)
  BY DEF DocksKept
<1>2. DocksOk(set_cop0reg(d, r, b))
  BY <1>1, Cop0Written
<1>3. SameUserLocal(d, set_cop0reg(d, r, b))
  BY <1>1, Cop0Written
<1> QED
  BY <1>2, <1>3, StillAgreeing

LEMMA LineSet ==
    ASSUME NEW d, DocksKept(d), NEW irq \in {0, 7}, NEW active \in BOOLEAN
    PROVE  DocksKept(set_interrupt_signal(d, irq, active))
<1> DEFINE b == IF active THEN d.value["Cause"] \cup {8 + irq} ELSE d.value["Cause"] \ {8 + irq}
<1>1. "Cause" \in Cop0Names \ {"UserLocal"}
  BY DEF Cop0Names
<1>2. d.value["Cause"] \in SUBSET Bits
  BY <1>1 DEF DocksKept, DocksOk, DockRecords, Values
<1>3. 8 + irq \in Bits
  BY DEF Bits
<1>4. b \in SUBSET Bits
  BY <1>2, <1>3
<1>5. set_interrupt_signal(d, irq, active) = set_cop0reg(d, "Cause", b)
  BY DEF set_interrupt_signal
<1> HIDE DEF b
<1> QED
  BY <1>1, <1>4, <1>5, BitsSet

LEMMA Cop0Used ==
    ASSUME NEW d, DocksKept(d), NEW r \in Cop0Names, NEW v \in SUBSET Bits
    PROVE  DocksKept(write_cop0reg(d, r, v))
<1>1. ASSUME NEW e, DocksKept(e), r # "UserLocal"
      PROVE  DocksKept(write_cop0reg_default(e, r, v))
  <2>1. DocksOk(e)
    BY <1>1 DEF DocksKept
  <2>2. DocksOk(write_cop0reg_default(e, r, v))
    BY <2>1, DefaultWritten
  <2>3. SameUserLocal(e, write_cop0reg_default(e, r, v))
    BY <1>1, <2>1, DefaultWritten
  <2> QED
    BY <1>1, <2>2, <2>3, StillAgreeing
<1>2. CASE r \in {"Count", "Compare"}
  <2>1. DocksKept(set_interrupt_signal(d, 7, FALSE))
    BY LineSet
  <2> DEFINE e == set_interrupt_signal(d, 7, FALSE)
  <2>2. DocksKept(e)
    BY <2>1
  <2>3. write_cop0reg(d, r, v) = write_cop0reg_default(e, r, v)
    BY <1>2 DEF write_cop0reg
  <2> HIDE DEF e
  <2> QED
    BY <1>1, <1>2, <2>2, <2>3
<1>3. CASE r = "UserLocal"
  <2>1. write_cop0reg(d, r, v) = write_cop0reg_user_local(d, v)
    BY <1>3 DEF write_cop0reg
  <2> QED
    BY <2>1, UserLocalWritten DEF DocksKept
<1>4. CASE r \notin {"Count", "Compare", "UserLocal"}
  <2>1. write_cop0reg(d, r, v) = write_cop0reg_default(d, r, v)
    BY <1>4 DEF write_cop0reg
  <2> QED
    BY <1>1, <1>4, <2>1
<1> QED
  BY <1>2, <1>3, <1>4

\* one operation more
LEMMA OpCounted ==
    ASSUME NEW d, DocksKept(d), DocksOk(docks), DockStep(d)
    PROVE  DocksKept(docks')
<1>1. docks' = [d EXCEPT !.ops = docks.ops + 1]
  BY DEF DockStep
<1>2. d \in DockRecords /\ docks.ops + 1 \in Nat
  BY DEF DocksKept, DocksOk, DockRecords
<1> DEFINE e == docks'
<1>3. /\ e \in DockRecords /\ e.value = d.value /\ e.text = d.text /\ e.colour = d.colour
      /\ e.marked = d.marked /\ e.any = d.any /\ e.written = d.written /\ e.seen = d.seen
      /\ e.hwr_userlocal = d.hwr_userlocal /\ e.set = d.set
  BY <1>1, <1>2 DEF DockRecords
<1>4. DocksOk(e)
  BY <1>3 DEF DocksKept, DocksOk
<1> QED
  BY <1>3, <1>4 DEF DocksKept, Agreeing

LEMMA FreshValues ==
    ASSUME NEW entry \in Nat
    PROVE  NewValues \in Values /\ [NewValues EXCEPT !["pc"] = entry] \in Values
<1>1. \A l \in RegNames : RegReset[l] \in Nat
  BY DEF RegReset, PC_INIT, SP_INIT
<1>2. \A r \in Cop0Names : init_value[r] \in SUBSET Bits
  BY DEF init_value, Bits
<1>3. \A l \in Labels : NewValues[l] = IF l \in RegNames THEN RegReset[l] ELSE init_value[l]
  BY DEF NewValues
<1>4. \A l \in Labels : NewValues[l] \in Nat \cup SUBSET Bits
  BY <1>1, <1>2, <1>3 DEF Labels
<1>5. NewValues \in [Labels -> Nat \cup SUBSET Bits]
  BY <1>4 DEF NewValues
<1>6. \A r \in Cop0Names : NewValues[r] \in SUBSET Bits
  BY <1>2, <1>3, NamesApart
<1>7. "pc" \in Labels
  BY DEF Labels, RegNames
<1> DEFINE val == [NewValues EXCEPT !["pc"] = entry]
<1>8. val \in [Labels -> Nat \cup SUBSET Bits] /\ \A l \in Labels \ {"pc"} : val[l] = NewValues[l]
  BY <1>5, <1>7
<1> HIDE DEF val
<1>9. \A r \in Cop0Names : val[r] \in SUBSET Bits
  BY <1>6, <1>8, NamesApart
<1>10. val \in Values
  BY <1>8, <1>9 DEF Values
<1> QED
  BY <1>5, <1>6, <1>10 DEF Values, val

LEMMA DocksStarted == DockInit => DocksKept(docks)
<1> SUFFICES ASSUME DockInit PROVE DocksKept(docks)
  OBVIOUS
<1> DEFINE colour == [l \in Labels |-> "normal"]
<1>1. docks = [value |-> NewValues, text |-> NewValues, colour |-> colour,
              marked |-> {}, any |-> FALSE, hwr_userlocal |-> {31}, set |-> FALSE,
              written |-> {}, seen |-> {}, ops |-> 0]
  BY DEF DockInit, DockStart
<1>2. NewValues \in Values /\ {31} \in SUBSET Bits
  BY FreshValues DEF Bits
<1>3. colour \in [Labels -> {"normal", "updated", "read"}] /\ \A l \in Labels : colour[l] = "normal"
  OBVIOUS
<1> HIDE DEF colour
<1>4. docks \in DockRecords
  BY <1>1, <1>2, <1>3 DEF DockRecords
<1> QED
  BY <1>1, <1>3, <1>4 DEF DocksKept, DocksOk, Agreeing

LEMMA TickKeepsDocks ==
    ASSUME DocksKept(docks), DockTick
    PROVE  DocksKept(docks')
<1>1. DocksOk(docks)
  BY DEF DocksKept
<1>2. DocksKept(clear_highlights(docks))
  BY <1>1, Cleared, StillAgreeing
<1> QED
  BY <1>1, <1>2, OpCounted DEF DockTick

LEMMA RegWritten ==
    ASSUME NEW d, DocksKept(d), NEW l \in RegNames, NEW v \in Nat
    PROVE  DocksKept(write_reg(d, l, v))
<1> DEFINE val == [d.value EXCEPT ![l] = v]
           e == regs_changed([d EXCEPT !.value = val], {l})
<1>1. DocksOk(d) /\ d.value \in Values /\ l \in Labels
  BY NamesApart DEF DocksKept, DocksOk, DockRecords
<1>2. d.value \in [Labels -> Nat \cup SUBSET Bits] /\ \A q \in Cop0Names : d.value[q] \in SUBSET Bits
  BY <1>1 DEF Values
<1>3. val \in [Labels -> Nat \cup SUBSET Bits] /\ \A k \in Labels \ {l} : val[k] = d.value[k]
  BY <1>1, <1>2
<1>4. write_reg(d, l, v) = e
  BY Zenon DEF write_reg
<1> HIDE DEF val
<1>5. \A q \in Cop0Names : val[q] \in SUBSET Bits
  BY <1>2, <1>3, NamesApart
<1>6. val \in Values
  BY <1>3, <1>5 DEF Values
<1>7. {l} \in SUBSET RegNames
  OBVIOUS
<1>8. DocksOk(e) /\ SameUserLocal(d, e)
  BY <1>1, <1>3, <1>6, <1>7, RegsWritten
<1> HIDE DEF e
<1> QED
  BY <1>4, <1>8, StillAgreeing

LEMMA RegsReset ==
    ASSUME NEW d, DocksKept(d)
    PROVE  DocksKept(reset_registers(d))
<1> DEFINE val == [l \in Labels |-> IF l \in RegNames THEN RegReset[l] ELSE d.value[l]]
           e == regs_changed([d EXCEPT !.value = val], RegNames)
<1>1. DocksOk(d) /\ d.value \in Values
  BY DEF DocksKept, DocksOk, DockRecords
<1>2. d.value \in [Labels -> Nat \cup SUBSET Bits] /\ \A q \in Cop0Names : d.value[q] \in SUBSET Bits
  BY <1>1 DEF Values
<1>3. \A l \in RegNames : RegReset[l] \in Nat
  BY DEF RegReset, PC_INIT, SP_INIT
<1>4. val \in [Labels -> Nat \cup SUBSET Bits] /\ \A k \in Labels \ RegNames : val[k] = d.value[k]
  BY <1>2, <1>3
<1>5. reset_registers(d) = e
  BY Zenon DEF reset_registers
<1> HIDE DEF val
<1>6. \A q \in Cop0Names : val[q] \in SUBSET Bits
  BY <1>2, <1>4, NamesApart
<1>7. val \in Values
  BY <1>4, <1>6 DEF Values
<1>8. RegNames \in SUBSET RegNames
  OBVIOUS
<1>9. DocksOk(e) /\ SameUserLocal(d, e)
  BY <1>1, <1>4, <1>7, <1>8, RegsWritten
<1> HIDE DEF e
<1> QED
  BY <1>5, <1>9, StillAgreeing

LEMMA RestartKeepsDocks ==
    ASSUME DocksKept(docks), RegsRestarted
    PROVE  DocksKept(docks')
<1>1. DocksOk(docks)
  BY DEF DocksKept
<1> QED
  BY <1>1, RegsReset, OpCounted DEF RegsRestarted

LEMMA CauseUpdated ==
    ASSUME NEW d, DocksKept(d), NEW code \in {{}, {2}}, NEW slot \in BOOLEAN
    PROVE  DocksKept(update_execption_cause(d, code, slot))
<1> DEFINE b == ((d.value["Cause"] \ {0, 1, 2, 31}) \cup code) \cup (IF slot THEN {31} ELSE {})
<1>1. "Cause" \in Cop0Names \ {"UserLocal"}
  BY DEF Cop0Names
<1>2. d.value["Cause"] \in SUBSET Bits
  BY <1>1 DEF DocksKept, DocksOk, DockRecords, Values
<1>3. b \in SUBSET Bits
  BY <1>2 DEF Bits
<1>4. update_execption_cause(d, code, slot) = set_cop0reg(d, "Cause", b)
  BY DEF update_execption_cause
<1> HIDE DEF b
<1> QED
  BY <1>1, <1>3, <1>4, BitsSet

LEMMA ExlSet ==
    ASSUME NEW d, DocksKept(d), NEW v \in BOOLEAN
    PROVE  DocksKept(set_status_exl(d, v))
<1> DEFINE b == IF v THEN d.value["Status"] \cup {1} ELSE d.value["Status"] \ {1}
<1>1. "Status" \in Cop0Names \ {"UserLocal"}
  BY DEF Cop0Names
<1>2. d.value["Status"] \in SUBSET Bits
  BY <1>1 DEF DocksKept, DocksOk, DockRecords, Values
<1>3. b \in SUBSET Bits
  BY <1>2 DEF Bits
<1>4. set_status_exl(d, v) = set_cop0reg(d, "Status", b)
  BY DEF set_status_exl
<1> HIDE DEF b
<1> QED
  BY <1>1, <1>3, <1>4, BitsSet

LEMMA CountUpdated ==
    ASSUME NEW d, DocksKept(d), NEW count \in SUBSET Bits, NEW reached \in BOOLEAN
    PROVE  DocksKept(update_count_and_compare_irq(d, count, reached))
<1> DEFINE e == set_cop0reg(d, "Count", count)
<1>1. "Count" \in Cop0Names \ {"UserLocal"}
  BY DEF Cop0Names
<1>2. DocksKept(e)
  BY <1>1, BitsSet
<1>3. update_count_and_compare_irq(d, count, reached)
         = IF reached THEN set_interrupt_signal(e, 7, TRUE) ELSE e
  BY DEF update_count_and_compare_irq
<1> HIDE DEF e
<1>4. DocksKept(set_interrupt_signal(e, 7, TRUE))
  BY <1>2, LineSet
<1> QED
  BY <1>2, <1>3, <1>4

LEMMA UseKeepsDocks ==
    ASSUME DocksKept(docks), RegisterUse
    PROVE  DocksKept(docks')
<1>1. DocksOk(docks)
  BY DEF DocksKept
<1>2. \A v \in Cop0Values : v \in SUBSET Bits
  BY DocksAssumption DEF DocksAssumption
<1>3. SUFFICES \E d : DocksKept(d) /\ DockStep(d)
  BY <1>1, OpCounted
<1>4. CASE \E l \in RegNames : DockStep(write_reg(docks, l, 3))
  BY <1>4, RegWritten
<1>5. CASE \E l \in RegNames \ {"pc"} : DockStep(reg_read(docks, l))
  <2>1. PICK l \in RegNames \ {"pc"} : DockStep(reg_read(docks, l))
    BY <1>5
  <2>2. DocksKept(reg_read(docks, l))
    BY <1>1, RegRead, StillAgreeing
  <2> QED
    BY <2>1, <2>2
<1>6. CASE \E r \in Cop0Names, v \in Cop0Values : DockStep(write_cop0reg(docks, r, v))
  BY <1>2, <1>6, Cop0Used
<1>7. CASE \E r \in Cop0Names : DockStep(cop0reg_read(docks, r))
  <2>1. PICK r \in Cop0Names : DockStep(cop0reg_read(docks, r))
    BY <1>7
  <2>2. DocksKept(cop0reg_read(docks, r))
    BY <1>1, Cop0Read, StillAgreeing
  <2> QED
    BY <2>1, <2>2
<1>8. CASE \E active \in BOOLEAN : DockStep(set_interrupt_signal(docks, 0, active))
                                  \/ DockStep(set_status_exl(docks, active))
  BY <1>8, LineSet, ExlSet
<1>9. CASE \E code \in {{}, {2}}, slot \in BOOLEAN : DockStep(update_execption_cause(docks, code, slot))
  BY <1>9, CauseUpdated
<1>10. CASE \E v \in Cop0Values : DockStep(set_c0_userlocal(docks, v))
  BY <1>1, <1>2, <1>10, UserLocalSet
<1>11. CASE \E v \in Cop0Values, reached \in BOOLEAN :
               DockStep(update_count_and_compare_irq(docks, v, reached))
  BY <1>2, <1>11, CountUpdated
<1> QED
  BY <1>4, <1>5, <1>6, <1>7, <1>8, <1>9, <1>10, <1>11 DEF RegisterUse

\* a new machine with the colours of the one before it
ReplacedMachine(d, val) == [d EXCEPT !.value = val, !.hwr_userlocal = {31}, !.set = FALSE]

LEMMA MachineShown ==
    ASSUME NEW d, DocksOk(d), NEW val \in Values
    PROVE  DocksKept(setup_docks(ReplacedMachine(d, val)))
<1> DEFINE c == [d EXCEPT !.value = val, !.hwr_userlocal = {31}, !.set = FALSE]
           text == [l \in Labels |-> IF l \in RegNames THEN setup_registers(c)[l] ELSE setup_cop0(c)[l]]
           e == setup_docks(c)
<1>1. d \in DockRecords
  BY DEF DocksOk
<1>2. {31} \in SUBSET Bits
  BY DEF Bits
<1>3. /\ c \in DockRecords /\ c.value = val /\ c.colour = d.colour
      /\ c.marked = d.marked /\ c.any = d.any /\ c.set = FALSE
      /\ c.written = d.written /\ c.seen = d.seen
  BY <1>1, <1>2 DEF DockRecords
<1> HIDE DEF c
<1>4. text = val
  <2>1. \A l \in Labels : text[l] = val[l]
    BY <1>3 DEF setup_registers, setup_cop0, Labels
  <2>2. val \in [Labels -> Nat \cup SUBSET Bits]
    BY DEF Values
  <2> QED
    BY <2>1, <2>2
<1>5. e = [c EXCEPT !.text = text]
  BY Zenon DEF setup_docks
<1> HIDE DEF text, e
<1>6. /\ e \in DockRecords /\ e.value = val /\ e.text = text /\ e.colour = d.colour
      /\ e.marked = d.marked /\ e.any = d.any /\ e.set = FALSE
      /\ e.written = d.written /\ e.seen = d.seen
  BY <1>3, <1>4, <1>5 DEF DockRecords
<1>7. DocksOk(e)
  BY <1>4, <1>6 DEF DocksOk
<1>8. DocksKept(e)
  BY <1>6, <1>7 DEF DocksKept, Agreeing
<1> QED
  BY <1>8 DEF e, c, ReplacedMachine

LEMMA NewMachineKeepsDocks ==
    ASSUME DocksKept(docks), NewMachineShown
    PROVE  DocksKept(docks')
<1>1. DocksOk(docks)
  BY DEF DocksKept
<1>2. PICK entry \in {PC_INIT, 3} :
        DockStep(setup_docks([docks EXCEPT !.value = [NewValues EXCEPT !["pc"] = entry],
                                           !.hwr_userlocal = {31}, !.set = FALSE]))
  BY DEF NewMachineShown
<1> DEFINE val == [NewValues EXCEPT !["pc"] = entry]
           e == setup_docks(ReplacedMachine(docks, val))
<1>3. val \in Values
  BY FreshValues DEF PC_INIT
<1>4. DockStep(e)
  BY <1>2, Zenon DEF ReplacedMachine
<1> HIDE DEF val
<1>5. DocksKept(e)
  BY <1>1, <1>3, MachineShown
<1> HIDE DEF e
<1> QED
  BY <1>1, <1>4, <1>5, OpCounted

\* The docks of registers and of coprocessor 0 show what the machine holds, colour what the
\* current step wrote and read and nothing older, and the two copies of UserLocal agree once
\* it is written, over every order of register uses, ticks, restarts and changes of machines
\* (RegistersDock, Cop0Dock, Registers, Cop0State, Core::set_c0_userlocal).
THEOREM DocksShowMachine == DockSpec => []DocksConsistent
<1>1. DockInit => DocksKept(docks)
  BY DocksStarted
<1>2. DocksKept(docks) /\ [DockNext]_docks => DocksKept(docks')
  <2> SUFFICES ASSUME DocksKept(docks), [DockNext]_docks PROVE DocksKept(docks')
    OBVIOUS
  <2>1. CASE DockTick
    BY <2>1, TickKeepsDocks
  <2>2. CASE RegisterUse
    BY <2>2, UseKeepsDocks
  <2>3. CASE RegsRestarted
    BY <2>3, RestartKeepsDocks
  <2>4. CASE NewMachineShown
    BY <2>4, NewMachineKeepsDocks
  <2>5. CASE UNCHANGED docks
    BY <2>5
  <2> QED
    BY <2>1, <2>2, <2>3, <2>4, <2>5 DEF DockNext
<1>3. DocksKept(docks) => DocksConsistent
  BY DEF DocksKept, DocksOk, Agreeing, DocksConsistent, DocksMatch, UserLocalAgrees
<1>4. (DocksKept(docks))' <=> DocksKept(docks')
  OBVIOUS
<1> QED
  BY <1>1, <1>2, <1>3, <1>4, PTL DEF DockSpec

-----------------------------------------------------------------------------
(* The command line.                                                         *)

\* --fail-match, as the reporter takes it
LettersKnown == \A i \in 1 .. Len(opts.fail) : opts.fail[i] \subseteq FailAny

LEMMA FailExpected ==
    ASSUME opts \in CliOptions, LettersKnown
    PROVE  /\ expect_fail = IF opts.fail # <<>> THEN UNION ToSet(opts.fail)
                            ELSE IF opts.expect THEN FailAny ELSE {}
           /\ \A r : r \in UNION ToSet(opts.fail) <=> \E i \in 1 .. Len(opts.fail) : r \in opts.fail[i]
           /\ expect_fail \subseteq FailAny
<1>1. DOMAIN opts.fail = 1 .. Len(opts.fail)
  BY CliAssumption DEF CliAssumption
<1>2. \A r : r \in UNION ToSet(opts.fail) <=> \E i \in 1 .. Len(opts.fail) : r \in opts.fail[i]
  BY <1>1 DEF ToSet
<1>3. UNION ToSet(opts.fail) \subseteq FailAny
  BY <1>2 DEF LettersKnown
<1> QED
  BY <1>2, <1>3 DEF expect_fail

\* The exit status that an end of the given cause asks for.
StatusAsked(cause) ==
    LET asked == opts.expect \/ opts.fail # <<>>
        named(r) == opts.fail # <<>> => \E i \in 1 .. Len(opts.fail) : r \in opts.fail[i]
    IN  \/ cause = "stop"
        \/ cause = "exit" /\ ~(asked /\ (opts.fail # <<>> => UNION ToSet(opts.fail) # {}))
        \/ cause \in FailAny /\ asked /\ named(cause)

LEMMA ExitAsked ==
    ASSUME opts \in CliOptions, LettersKnown
    PROVE  /\ expect_fail # {} <=> ~StatusAsked("exit")
           /\ \A r \in FailAny \cup {"other"} : r \in expect_fail <=> StatusAsked(r)
           /\ StatusAsked("stop")
<1>1. /\ expect_fail = IF opts.fail # <<>> THEN UNION ToSet(opts.fail)
                       ELSE IF opts.expect THEN FailAny ELSE {}
      /\ \A r : r \in UNION ToSet(opts.fail) <=> \E i \in 1 .. Len(opts.fail) : r \in opts.fail[i]
      /\ expect_fail \subseteq FailAny
  BY FailExpected
<1>2. expect_fail # {} <=> ~StatusAsked("exit")
  BY <1>1 DEF StatusAsked, FailAny
<1>3. ASSUME NEW r \in FailAny \cup {"other"}
      PROVE  r \in expect_fail <=> StatusAsked(r)
  <2>1. r # "stop" /\ r # "exit"
    BY DEF FailAny
  <2>2. CASE r \in FailAny
    BY <1>1, <2>1, <2>2 DEF StatusAsked
  <2>3. CASE r \notin FailAny
    BY <1>1, <2>1, <2>3 DEF StatusAsked
  <2> QED
    BY <2>2, <2>3
<1> QED
  BY <1>2, <1>3 DEF StatusAsked

Causes == {"none", "stop", "exit", "other"} \cup FailAny

Usable(data) == data.enabled => data.sets > 0 /\ data.blocks > 0 /\ data.assoc > 0

\* The exit status, once there is one, and the configuration.
CliOk(c) ==
    /\ c \in [phase : {"start", "running", "ended"}, loop : BOOLEAN, request : {0, 1, 2, 134},
              cause : Causes, lost : BOOLEAN, config : {c.config}]
    /\ c.cause # "none" => (c.request = 0 <=> StatusAsked(c.cause))
    /\ Usable(c.config.data)

\* the loop is to be left, or the wish came too early
Leaves(c) == c.request # 2 \/ c.lost

LEMMA ExitKeeps ==
    ASSUME NEW c, CliOk(c), NEW code \in {0, 1}, NEW cause \in Causes \ {"none"},
           code = 0 <=> StatusAsked(cause)
    PROVE  CliOk(exit(c, code, cause)) /\ Leaves(exit(c, code, cause))
           /\ exit(c, code, cause).phase = c.phase
<1> DEFINE d == [c EXCEPT !.request = code, !.cause = cause]
           e == [c EXCEPT !.lost = TRUE]
<1>1. exit(c, code, cause) = IF c.loop THEN d ELSE e
  BY DEF exit
<1>2. /\ d \in [phase : {"start", "running", "ended"}, loop : BOOLEAN, request : {0, 1, 2, 134},
                cause : Causes, lost : BOOLEAN, config : {c.config}]
      /\ d.request = code /\ d.cause = cause /\ d.config = c.config /\ d.phase = c.phase
  BY DEF CliOk
<1>3. /\ e \in [phase : {"start", "running", "ended"}, loop : BOOLEAN, request : {0, 1, 2, 134},
                cause : Causes, lost : BOOLEAN, config : {c.config}]
      /\ e.request = c.request /\ e.cause = c.cause /\ e.config = c.config /\ e.phase = c.phase
      /\ e.lost
  BY DEF CliOk
<1> HIDE DEF d, e
<1>4. CliOk(d) /\ Leaves(d)
  BY <1>2 DEF CliOk, Leaves
<1>5. CliOk(e) /\ Leaves(e)
  BY <1>3 DEF CliOk, Leaves
<1> QED
  BY <1>1, <1>2, <1>3, <1>4, <1>5

LEMMA LoopKeeps ==
    ASSUME NEW c, CliOk(c)
    PROVE  CliOk(LoopRuns(c)) /\ (Leaves(LoopRuns(c)) <=> Leaves(c)) /\ LoopRuns(c).phase = c.phase
<1> DEFINE d == [c EXCEPT !.loop = TRUE]
<1>1. /\ d \in [phase : {"start", "running", "ended"}, loop : BOOLEAN, request : {0, 1, 2, 134},
                cause : Causes, lost : BOOLEAN, config : {c.config}]
      /\ d.request = c.request /\ d.cause = c.cause /\ d.config = c.config /\ d.phase = c.phase
      /\ d.lost = c.lost
  BY DEF CliOk
<1> HIDE DEF d
<1>2. CliOk(d) /\ (Leaves(d) <=> Leaves(c))
  BY <1>1 DEF CliOk, Leaves
<1> QED
  BY <1>1, <1>2 DEF LoopRuns, d

\* The reporter's slots.
LEMMA ReporterKeeps ==
    ASSUME opts \in CliOptions, LettersKnown, NEW c, CliOk(c)
    PROVE  /\ CliOk(machine_exception_reached(c)) /\ machine_exception_reached(c).phase = c.phase
           /\ CliOk(reporter_machine_exit(c)) /\ reporter_machine_exit(c).phase = c.phase
           /\ Leaves(reporter_machine_exit(c))
           /\ \A r \in FailAny \cup {"other"} :
                 /\ CliOk(reporter_machine_trap(c, r)) /\ reporter_machine_trap(c, r).phase = c.phase
                 /\ Leaves(reporter_machine_trap(c, r))
<1>1. /\ expect_fail # {} <=> ~StatusAsked("exit")
      /\ \A r \in FailAny \cup {"other"} : r \in expect_fail <=> StatusAsked(r)
      /\ StatusAsked("stop")
  BY ExitAsked
<1>2. CliOk(machine_exception_reached(c)) /\ machine_exception_reached(c).phase = c.phase
  BY <1>1, ExitKeeps DEF machine_exception_reached, Causes
<1> DEFINE code == IF expect_fail # {} THEN 1 ELSE 0
<1>3. code \in {0, 1} /\ (code = 0 <=> StatusAsked("exit")) /\ "exit" \in Causes \ {"none"}
  BY <1>1 DEF Causes
<1>4. reporter_machine_exit(c) = exit(c, code, "exit")
  BY DEF reporter_machine_exit
<1> HIDE DEF code
<1>5. /\ CliOk(reporter_machine_exit(c)) /\ reporter_machine_exit(c).phase = c.phase
      /\ Leaves(reporter_machine_exit(c))
  BY <1>3, <1>4, ExitKeeps
<1>6. ASSUME NEW r \in FailAny \cup {"other"}
      PROVE  /\ CliOk(reporter_machine_trap(c, r)) /\ reporter_machine_trap(c, r).phase = c.phase
             /\ Leaves(reporter_machine_trap(c, r))
  <2> DEFINE status == IF r \in expect_fail THEN 0 ELSE 1
  <2>1. status \in {0, 1} /\ (status = 0 <=> StatusAsked(r)) /\ r \in Causes \ {"none"}
    BY <1>1 DEF Causes, FailAny
  <2>2. reporter_machine_trap(c, r) = exit(c, status, r)
    BY DEF reporter_machine_trap
  <2> HIDE DEF status
  <2> QED
    BY <2>1, <2>2, ExitKeeps
<1> QED
  BY <1>2, <1>5, <1>6

\* The machine that is played.
LEMMA StatusKept ==
    ASSUME NEW m \in Machines, NEW st \in Stats
    PROVE  /\ set_status(m, st) \in Machines /\ set_status(m, st).timer = m.timer
           /\ set_status(m, st).stat = st
<1>1. CASE st = m.stat
  BY <1>1 DEF set_status
<1>2. CASE st # m.stat
  <2>1. /\ set_status(m, st) \in Machines
        /\ \A f \in DOMAIN m \ {"stat", "sig"} : set_status(m, st)[f] = m[f]
        /\ set_status(m, st).stat = st
    BY <1>2, StatusSet
  <2> QED
    BY <2>1 DEF Machines
<1> QED
  BY <1>1, <1>2

LEMMA SignalKept ==
    ASSUME NEW m \in Machines, NEW x \in Signals
    PROVE  /\ Emit(m, x) \in Machines /\ Emit(m, x).timer = m.timer
           /\ Emit(m, x).sig = Append(m.sig, x)
<1>1. Emit(m, x) \in Machines /\ \A f \in DOMAIN m \ {"sig"} : Emit(m, x)[f] = m[f]
  BY EmitKeeps
<1>2. Emit(m, x).timer = m.timer
  BY <1>1 DEF Machines
<1>3. Emit(m, x).sig = Append(m.sig, x)
  BY DEF Emit, Machines
<1> QED
  BY <1>1, <1>2, <1>3

LEMMA BeginKept ==
    ASSUME NEW m \in Machines, NEW skip \in BOOLEAN
    PROVE  step_begin(m, skip) \in Machines /\ step_begin(m, skip).timer = m.timer
<1>1. CASE CTL_GUARD(m)
  BY <1>1 DEF step_begin
<1>2. CASE ~CTL_GUARD(m)
  <2> DEFINE d == [m EXCEPT !.prev = m.stat, !.skip = skip, !.stepping = TRUE]
             e == set_status(d, "BUSY")
  <2>1. m.stat \in {"READY", "RUNNING"}
    BY <1>2 DEF CTL_GUARD, exited, Machines, Stats
  <2>2. d \in Machines /\ d.timer = m.timer
    BY <2>1 DEF Machines
  <2>3. step_begin(m, skip) = Emit(e, <<"tick">>)
    BY <1>2 DEF step_begin
  <2>4. "BUSY" \in Stats /\ <<"tick">> \in Signals
    BY DEF Stats, Signals
  <2> HIDE DEF d
  <2>5. e \in Machines /\ e.timer = m.timer
    BY <2>2, <2>4, StatusKept
  <2> HIDE DEF e
  <2> QED
    BY <2>3, <2>4, <2>5, SignalKept
<1> QED
  BY <1>1, <1>2

LEMMA PlayRuns ==
    ASSUME NEW m \in Machines, m.stat = "READY"
    PROVE  play(m) \in Machines /\ play(m).timer = TRUE
<1> DEFINE e == set_status(m, "RUNNING")
           d == [e EXCEPT !.timer = TRUE]
<1>1. "RUNNING" \in Stats
  BY DEF Stats
<1>2. e \in Machines
  BY <1>1, StatusKept
<1>3. play(m) = step_begin(d, TRUE)
  BY DEF play, CTL_GUARD, exited
<1> HIDE DEF e
<1>4. d \in Machines /\ d.timer = TRUE
  BY <1>2 DEF Machines
<1> HIDE DEF d
<1> QED
  BY <1>3, <1>4, BeginKept

Over(sig) == \E i \in DOMAIN sig : sig[i][1] = "program_exit"

LEMMA FinishKept ==
    ASSUME NEW m \in Machines
    PROVE  /\ step_finish(m) \in Machines
           /\ step_finish(m).timer = m.timer \/ Over(step_finish(m).sig)
<1> DEFINE d == [m EXCEPT !.stepping = FALSE]
           o == [d EXCEPT !.timer = FALSE]
           s == set_status(o, "EXIT")
           x == <<"program_exit">>
           e == IF PastEnd(m) THEN Emit(s, x)
                ELSE IF m.stat = "BUSY" THEN set_status(d, m.prev) ELSE d
           p == <<"post_tick">>
           r == Emit(e, p)
<1>1. step_finish(m) = r
  BY DEF step_finish
<1>2. d \in Machines /\ d.timer = m.timer /\ o \in Machines
  BY DEF Machines
<1>3. m.prev \in Stats /\ "EXIT" \in Stats /\ x \in Signals /\ p \in Signals
  BY DEF Machines, Stats, Signals
<1>a. x[1] = "program_exit"
  OBVIOUS
<1> HIDE DEF d, o, x, p
<1>4. s \in Machines
  BY <1>2, <1>3, StatusKept
<1>5. CASE PastEnd(m)
  <2>1. e = Emit(s, x)
    BY <1>5
  <2> HIDE DEF s, e
  <2>2. e \in Machines /\ e.sig = Append(s.sig, x)
    BY <1>3, <1>4, <2>1, SignalKept
  <2>3. r \in Machines /\ r.sig = Append(e.sig, p)
    BY <1>3, <2>2, SignalKept
  <2>4. s.sig \in Seq(Signals) /\ e.sig \in Seq(Signals)
    BY <1>4, <2>2 DEF Machines
  <2>5. Len(e.sig) = Len(s.sig) + 1 /\ e.sig[Len(s.sig) + 1] = x
    BY <1>3, <2>2, <2>4
  <2>6. Len(s.sig) + 1 \in DOMAIN r.sig /\ r.sig[Len(s.sig) + 1] = x
    BY <1>3, <2>3, <2>4, <2>5
  <2> HIDE DEF r
  <2>7. Over(r.sig)
    BY <1>a, <2>6 DEF Over
  <2> QED
    BY <1>1, <2>3, <2>7
<1>6. CASE ~PastEnd(m)
  <2>1. e \in Machines /\ e.timer = m.timer
    <3>1. CASE m.stat = "BUSY"
      BY <1>2, <1>3, <1>6, <3>1, StatusKept
    <3>2. CASE m.stat # "BUSY"
      BY <1>2, <1>6, <3>2
    <3> QED
      BY <3>1, <3>2
  <2> HIDE DEF e
  <2>2. r \in Machines /\ r.timer = e.timer
    BY <1>3, <2>1, SignalKept
  <2> QED
    BY <1>1, <2>1, <2>2
<1> QED
  BY <1>5, <1>6

LEMMA TrapKept ==
    ASSUME NEW m \in Machines
    PROVE  step_trapped(m) \in Machines
<1> DEFINE d == [m EXCEPT !.timer = FALSE, !.stepping = FALSE]
           e == set_status(d, "TRAPPED")
<1>1. d \in Machines
  BY DEF Machines
<1>2. step_trapped(m) = Emit(e, <<"program_trap">>)
  BY DEF step_trapped
<1>3. "TRAPPED" \in Stats /\ <<"program_trap">> \in Signals
  BY DEF Stats, Signals
<1> HIDE DEF d
<1>4. e \in Machines
  BY <1>1, <1>3, StatusKept
<1> HIDE DEF e
<1> QED
  BY <1>2, <1>3, <1>4, SignalKept

Handed(m) == [m EXCEPT !.sig = <<>>]

LEMMA HandedOver ==
    ASSUME NEW m \in Machines
    PROVE  Handed(m) \in Machines /\ Handed(m).timer = m.timer /\ Handed(m).sig = <<>>
<1>1. <<>> \in Seq(Signals)
  OBVIOUS
<1> QED
  BY <1>1 DEF Handed, Machines

\* A machine that runs has its timer, or the process is to end.
CliInv ==
    /\ opts \in CliOptions /\ CliOk(cli)
    /\ cli.phase = "start" => cli.cause = "none"
    /\ cli.phase = "running" =>
          /\ LettersKnown /\ cpu \in Machines /\ cpu.sig = <<>>
          /\ cpu.timer \/ Leaves(cli)

\* what an action that leaves the options alone has to show
LEMMA CliInvNext ==
    ASSUME CliInv, opts' = opts, CliOk(cli'), cli'.phase # "start",
           cli'.phase = "running" =>
              /\ LettersKnown /\ cpu' \in Machines /\ cpu'.sig = <<>>
              /\ cpu'.timer \/ Leaves(cli')
    PROVE  CliInv'
<1>1. CliOk(cli)'
  BY DEF CliOk, StatusAsked
<1>2. LettersKnown => LettersKnown'
  BY DEF LettersKnown
<1> QED
  BY <1>1, <1>2 DEF CliInv, Leaves

LEMMA CliStarted == CliInit => CliInv
<1> SUFFICES ASSUME CliInit PROVE CliInv
  OBVIOUS
<1>1. cli = [phase |-> "start", loop |-> FALSE, request |-> 2, cause |-> "none", lost |-> FALSE,
             config |-> DefaultConfig]
  BY DEF CliInit, CliStart
<1>2. ~DefaultConfig.data.enabled
  BY DEF DefaultConfig, DefaultCache
<1>3. CliOk(cli)
  BY <1>1, <1>2 DEF CliOk, Causes, Usable
<1> QED
  BY <1>1, <1>3 DEF CliInv, CliInit

LEMMA EndsKeeps ==
    ASSUME CliInv, NEW code \in {1, 134}, Ends(code), cli.phase = "start", UNCHANGED <<opts, cpu>>
    PROVE  CliInv'
<1> DEFINE d == [cli EXCEPT !.phase = "ended", !.request = code]
<1>1. cli' = d
  BY DEF Ends
<1>2. /\ d \in [phase : {"start", "running", "ended"}, loop : BOOLEAN, request : {0, 1, 2, 134},
                cause : Causes, lost : BOOLEAN, config : {cli.config}]
      /\ d.phase = "ended" /\ d.cause = cli.cause /\ d.config = cli.config
  BY DEF CliInv, CliOk
<1> HIDE DEF d
<1>3. CliOk(d)
  BY <1>2 DEF CliInv, CliOk
<1> QED
  BY <1>1, <1>2, <1>3, CliInvNext

LEMMA StartFailsKeeps ==
    ASSUME CliInv, StartFails
    PROVE  CliInv'
<1>1. \E code \in {1, 134} : Ends(code)
  BY DEF StartFails, ReportFails
<1> QED
  BY <1>1, EndsKeeps DEF StartFails

LEMMA CliStepKeeps ==
    ASSUME CliInv, CliStep
    PROVE  CliInv'
<1>1. PICK pc \in 0 .. EndPc, stop \in BOOLEAN :
         /\ cpu' = [step_finish(core_step(cpu, pc)) EXCEPT !.sig = <<>>]
         /\ cli' = LoopRuns(Reported(IF stop THEN machine_exception_reached(cli) ELSE cli,
                                     step_finish(core_step(cpu, pc))))
  BY DEF CliStep
<1> DEFINE c == core_step(cpu, pc)
           m == step_finish(c)
           d == IF stop THEN machine_exception_reached(cli) ELSE cli
           e == Reported(d, m)
<1>2. /\ cli.phase = "running" /\ opts' = opts /\ LettersKnown /\ cpu \in Machines
      /\ cpu.timer \/ Leaves(cli)
  BY DEF CliStep, CliInv
<1>3. c \in Machines /\ c.timer = cpu.timer
  <2> DEFINE parity == 1 - cpu.parity
  <2>1. parity \in {0, 1} /\ pc \in Pcs
    BY <1>2 DEF Machines, Pcs
  <2>2. c = [cpu EXCEPT !.pc = pc, !.parity = parity]
    BY DEF core_step
  <2> HIDE DEF parity, c
  <2> QED
    BY <1>2, <2>1, <2>2 DEF Machines
<1>a. cpu' = Handed(m) /\ cli' = LoopRuns(e)
  BY <1>1, Zenon DEF Handed
<1> HIDE DEF c
<1>4. m \in Machines /\ (m.timer = c.timer \/ Over(m.sig))
  BY <1>3, FinishKept
<1> HIDE DEF m
<1>5. cpu' \in Machines /\ cpu'.timer = m.timer /\ cpu'.sig = <<>>
  BY <1>4, <1>a, HandedOver
<1>6. CliOk(d) /\ d.phase = "running" /\ (Leaves(cli) => Leaves(d))
  <2>1. CASE stop
    <3>1. d = exit(cli, 0, "stop")
      BY <2>1 DEF machine_exception_reached
    <3>2. StatusAsked("stop") /\ "stop" \in Causes \ {"none"}
      BY DEF StatusAsked, Causes
    <3>3. 0 = 0 <=> StatusAsked("stop")
      BY <3>2
    <3>4. CliOk(exit(cli, 0, "stop")) /\ Leaves(exit(cli, 0, "stop")) /\ exit(cli, 0, "stop").phase = cli.phase
      BY <3>2, <3>3, ExitKeeps DEF CliInv
    <3> QED
      BY <1>2, <3>1, <3>4
  <2>2. CASE ~stop
    BY <1>2, <2>2 DEF CliInv
  <2> QED
    BY <2>1, <2>2
<1> HIDE DEF d
<1>7. CliOk(e) /\ e.phase = "running" /\ (Leaves(d) => Leaves(e)) /\ (Over(m.sig) => Leaves(e))
  <2>1. CASE Over(m.sig)
    <3>1. e = reporter_machine_exit(d)
      BY <2>1 DEF Reported, Over
    <3>2. CliOk(reporter_machine_exit(d)) /\ reporter_machine_exit(d).phase = d.phase
          /\ Leaves(reporter_machine_exit(d))
      BY <1>2, <1>6, ReporterKeeps DEF CliInv
    <3> QED
      BY <1>6, <3>1, <3>2
  <2>2. CASE ~Over(m.sig)
    <3>1. e = d
      BY <2>2 DEF Reported, Over
    <3> QED
      BY <1>6, <2>2, <3>1
  <2> QED
    BY <2>1, <2>2
<1> HIDE DEF e
<1>8. CliOk(cli') /\ (Leaves(cli') <=> Leaves(e)) /\ cli'.phase = "running"
  BY <1>7, <1>a, LoopKeeps
<1> QED
  BY <1>2, <1>3, <1>4, <1>5, <1>6, <1>7, <1>8, CliInvNext

LEMMA CliTrapKeeps ==
    ASSUME CliInv, CliTrap
    PROVE  CliInv'
<1>1. PICK reason \in FailAny \cup {"other"} :
         /\ cpu' = [step_trapped(cpu) EXCEPT !.sig = <<>>]
         /\ cli' = LoopRuns(reporter_machine_trap(cli, reason))
  BY DEF CliTrap
<1> DEFINE m == step_trapped(cpu)
           e == reporter_machine_trap(cli, reason)
<1>2. cli.phase = "running" /\ opts' = opts /\ LettersKnown /\ cpu \in Machines
  BY DEF CliTrap, CliInv
<1>3. m \in Machines
  BY <1>2, TrapKept
<1>4. cpu' = Handed(m) /\ cli' = LoopRuns(e)
  BY <1>1, Zenon DEF Handed
<1>5. CliOk(e) /\ e.phase = cli.phase /\ Leaves(e)
  BY <1>2, ReporterKeeps DEF CliInv
<1> HIDE DEF m, e
<1>6. cpu' \in Machines /\ cpu'.sig = <<>>
  BY <1>3, <1>4, HandedOver
<1>7. CliOk(cli') /\ Leaves(cli') /\ cli'.phase = "running"
  BY <1>2, <1>4, <1>5, LoopKeeps
<1> QED
  BY <1>2, <1>6, <1>7, CliInvNext

LEMMA CliLoopKeeps ==
    ASSUME CliInv, CliLoop
    PROVE  CliInv'
<1>1. cli.phase = "running" /\ opts' = opts /\ LettersKnown /\ cpu \in Machines
  BY DEF CliLoop, CliInv
<1>2. CASE cli' = [cli EXCEPT !.phase = "ended"] /\ UNCHANGED cpu
  <2> DEFINE d == [cli EXCEPT !.phase = "ended"]
  <2>1. /\ d \in [phase : {"start", "running", "ended"}, loop : BOOLEAN, request : {0, 1, 2, 134},
                  cause : Causes, lost : BOOLEAN, config : {cli.config}]
        /\ d.phase = "ended" /\ d.cause = cli.cause /\ d.config = cli.config
        /\ d.request = cli.request
    BY DEF CliInv, CliOk
  <2>2. cli' = d
    BY <1>2
  <2> HIDE DEF d
  <2>3. CliOk(d)
    BY <2>1 DEF CliInv, CliOk
  <2> QED
    BY <1>1, <2>1, <2>2, <2>3, CliInvNext
<1>3. CASE cpu.timer /\ cpu' = [step_timer(cpu) EXCEPT !.sig = <<>>] /\ UNCHANGED cli
  <2> DEFINE m == step_begin(cpu, FALSE)
  <2>1. m \in Machines /\ m.timer = cpu.timer
    BY <1>1, BeginKept
  <2>2. cpu' = Handed(m)
    BY <1>3, Zenon DEF Handed, step_timer
  <2> HIDE DEF m
  <2>3. cpu' \in Machines /\ cpu'.timer = m.timer /\ cpu'.sig = <<>>
    BY <2>1, <2>2, HandedOver
  <2> QED
    BY <1>1, <1>3, <2>1, <2>3, CliInvNext DEF CliInv
<1> QED
  BY <1>2, <1>3 DEF CliLoop

\* A size is never zero, whatever the piece was.
LEMMA SizesPositive ==
    ASSUME NEW c, c \in [enabled : BOOLEAN, sets : Nat, blocks : Nat, assoc : Nat,
                         replacement : {c.replacement}, write : {c.write}],
           NEW x \in Nat, NEW y \in Nat, NEW z \in Nat
    PROVE  LET d == SetCache(SetCache(SetCache(c, "sets", x), "blocks", y), "assoc", z)
           IN  /\ d.sets > 0 /\ d.blocks > 0 /\ d.assoc > 0
               /\ d \in [enabled : BOOLEAN, sets : Nat, blocks : Nat, assoc : Nat,
                         replacement : {c.replacement}, write : {c.write}]
<1> DEFINE C == [enabled : BOOLEAN, sets : Nat, blocks : Nat, assoc : Nat,
                 replacement : {c.replacement}, write : {c.write}]
           X == AtLeastOne(x)
           Y == AtLeastOne(y)
           Z == AtLeastOne(z)
           c1 == SetCache(c, "sets", x)
           c2 == SetCache(c1, "blocks", y)
           c3 == SetCache(c2, "assoc", z)
<1>1. X \in Nat /\ X > 0 /\ Y \in Nat /\ Y > 0 /\ Z \in Nat /\ Z > 0
  BY DEF AtLeastOne
<1>2. /\ c1 = [c EXCEPT !["sets"] = X] /\ c2 = [c1 EXCEPT !["blocks"] = Y]
      /\ c3 = [c2 EXCEPT !["assoc"] = Z]
  BY DEF SetCache
<1> HIDE DEF X, Y, Z, c1, c2, c3
<1>3. c1 \in C /\ c1.sets = X
  BY <1>1, <1>2
<1>4. c2 \in C /\ c2.sets = X /\ c2.blocks = Y
  BY <1>1, <1>2, <1>3
<1>5. c3 \in C /\ c3.sets = X /\ c3.blocks = Y /\ c3.assoc = Z
  BY <1>1, <1>2, <1>4
<1> QED
  BY <1>1, <1>5 DEF c1, c2, c3

Numbers(n) == n[1].n \in Nat /\ n[2].n \in Nat /\ n[3].n \in Nat

LEMMA CacheConfigured ==
    ASSUME NEW pieces \in Seq([word : STRING, n : Nat]), ~CacheBad(pieces)
    PROVE  Usable(configure_cache(DefaultCache, pieces))
<1> DEFINE n == CacheNumbers(pieces)
           P == [word : STRING, n : Nat]
           c == [DefaultCache EXCEPT !.enabled = TRUE]
           sized == SetCache(SetCache(SetCache(c, "sets", n[1].n), "blocks", n[2].n), "assoc", n[3].n)
           policy == IF IsNumber(pieces[1]) THEN sized
                     ELSE [sized EXCEPT !.replacement = CachePolicies[pieces[1].word]]
           written == IF Len(n) > 3 THEN [policy EXCEPT !.write = WriteNames[n[4].word]] ELSE policy
<1>1. configure_cache(DefaultCache, pieces) = IF pieces = <<>> THEN DefaultCache ELSE written
  BY Zenon DEF configure_cache
<1>2. CASE pieces = <<>>
  BY <1>1, <1>2 DEF Usable, DefaultCache
<1>3. CASE pieces # <<>>
  <2>1. n \in Seq(P) /\ Len(n) >= 3
    <3>1. Len(pieces) >= 3 /\ Len(n) >= 3
      <4>1. Len(pieces) >= 3
        <5>1. ~(Len(pieces) < 3) /\ Len(pieces) \in Nat
          BY <1>3 DEF CacheBad
        <5> QED
          BY <5>1
      <4>2. Len(n) \in Nat
        BY <1>3 DEF CacheNumbers
      <4>3. ~(Len(n) < 3)
        BY <1>3, Zenon DEF CacheBad
      <4> HIDE DEF n
      <4> QED
        BY <4>1, <4>2, <4>3
    <3>2. n \in Seq(P)
      BY <1>3 DEF CacheNumbers
    <3> QED
      BY <3>1, <3>2
  <2> HIDE DEF n
  <2>2. Numbers(n)
    <3> HIDE DEF P
    <3>1. n \in [1 .. Len(n) -> P] /\ Len(n) \in Nat
      BY <2>1
    <3>2. 1 \in 1 .. Len(n) /\ 2 \in 1 .. Len(n) /\ 3 \in 1 .. Len(n)
      BY <2>1, <3>1
    <3>3. n[1] \in P /\ n[2] \in P /\ n[3] \in P
      BY <3>1, <3>2
    <3> QED
      BY <3>3 DEF Numbers, P
  <2>3. c \in [enabled : BOOLEAN, sets : Nat, blocks : Nat, assoc : Nat,
               replacement : {c.replacement}, write : {c.write}]
    BY DEF DefaultCache
  <2> HIDE DEF c
  <2>4. /\ sized.sets > 0 /\ sized.blocks > 0 /\ sized.assoc > 0
        /\ sized \in [enabled : BOOLEAN, sets : Nat, blocks : Nat, assoc : Nat,
                      replacement : {c.replacement}, write : {c.write}]
    BY <2>2, <2>3, SizesPositive DEF Numbers
  <2> HIDE DEF sized
  <2>5. policy.sets = sized.sets /\ policy.blocks = sized.blocks /\ policy.assoc = sized.assoc
    BY <2>4
  <2>6. policy \in [enabled : BOOLEAN, sets : Nat, blocks : Nat, assoc : Nat,
                    replacement : {policy.replacement}, write : {c.write}]
    BY <2>4
  <2> HIDE DEF policy
  <2>7. written.sets = policy.sets /\ written.blocks = policy.blocks /\ written.assoc = policy.assoc
    BY <2>6
  <2> HIDE DEF written
  <2> QED
    BY <1>1, <1>3, <2>4, <2>5, <2>7 DEF Usable
<1> QED
  BY <1>2, <1>3

LEMMA StartKeeps ==
    ASSUME CliInv, Start
    PROVE  CliInv'
<1> DEFINE load == ~opts.asm
           new == NewMachine(1, load, "elf")
           m == play(new)
           d == [cli EXCEPT !.phase = "running", !.config = configure_machine]
<1>1. /\ opts \in CliOptions /\ opts' = opts /\ ~MachineBad /\ ~ReporterBad
      /\ cpu' = Handed(m) /\ cli' = d /\ cli.phase = "start"
  BY Zenon DEF Start, CliInv, Handed
<1>2. opts.dcache \in Seq([word : STRING, n : Nat]) /\ opts.asm \in BOOLEAN
  BY <1>1, CliAssumption DEF CliAssumption
<1>3. m \in Machines /\ m.timer = TRUE
  <2>1. <<>> \in Seq(Signals) /\ 1 \in Nat
    OBVIOUS
  <2>2. load \in BOOLEAN
    BY <1>2, Zenon
  <2> HIDE DEF load
  <2>3. new \in Machines /\ new.stat = "READY"
    BY <2>1, <2>2 DEF NewMachine, Machines, Stats, Pcs
  <2> HIDE DEF new
  <2> QED
    BY <2>3, PlayRuns
<1> HIDE DEF m
<1>4. cpu' \in Machines /\ cpu'.timer = TRUE /\ cpu'.sig = <<>>
  BY <1>1, <1>3, HandedOver
<1>5. LettersKnown
  BY <1>1 DEF ReporterBad, LettersKnown
<1>6. Usable(configure_machine.data)
  <2>a. CacheBad(opts.dcache) => MachineBad
    BY Zenon DEF MachineBad
  <2>1. ~CacheBad(opts.dcache)
    BY <1>1, <2>a, Zenon
  <2>2. Usable(configure_cache(DefaultCache, opts.dcache))
    BY <1>2, <2>1, CacheConfigured
  <2> DEFINE data == configure_cache(DefaultConfig.data, opts.dcache)
             hazard == IF opts.hazard = "" THEN DefaultConfig.hazard_unit
                       ELSE HazardUnitNamed[opts.hazard]
             pipelined == opts.pipelined
             slot == ~opts.no_delay_slot
  <2>3. configure_machine = [DefaultConfig EXCEPT !.pipelined = pipelined, !.delay_slot = slot,
                                                  !.hazard_unit = hazard, !.data = data]
    BY Zenon DEF configure_machine
  <2>4. data = configure_cache(DefaultCache, opts.dcache)
    BY DEF DefaultConfig
  <2> HIDE DEF data, hazard, pipelined, slot
  <2>5. configure_machine.data = data
    BY <2>3 DEF DefaultConfig
  <2> QED
    BY <2>2, <2>4, <2>5
<1>7. /\ d \in [phase : {"start", "running", "ended"}, loop : BOOLEAN, request : {0, 1, 2, 134},
                cause : Causes, lost : BOOLEAN, config : {configure_machine}]
      /\ d.phase = "running" /\ d.cause = cli.cause /\ d.config = configure_machine
      /\ d.request = cli.request
  BY DEF CliInv, CliOk
<1> HIDE DEF d
<1>8. CliOk(d)
  BY <1>6, <1>7 DEF CliInv, CliOk
<1> QED
  BY <1>1, <1>4, <1>5, <1>7, <1>8, CliInvNext

LEMMA ByteNumber ==
    ASSUME NEW n \in Int
    PROVE  n % 256 \in 0 .. 255
OBVIOUS

LEMMA EntryIn ==
    ASSUME NEW S, NEW seq \in Seq(S), NEW i \in 1 .. Len(seq)
    PROVE  seq[i] \in S
OBVIOUS

\* Whatever register the options name, in whatever way, its slot is connected once.
LEMMA OptionsTraced == CliInv => TracedOnce
<1> SUFFICES ASSUME CliInv, cli.phase = "start", ~TracerBad, ~TracerThrows
             PROVE  /\ \A r \in 0 .. 31 :
                         GpLines(r) = IF \E i \in 1 .. Len(opts.gps) :
                                            opts.gps[i].word = "*" \/ opts.gps[i].n % 256 = r
                                      THEN 1 ELSE 0
                    /\ HiLoLines(TRUE) = IF "hi" \in opts.trace THEN 1 ELSE 0
                    /\ HiLoLines(FALSE) = IF "lo" \in opts.trace THEN 1 ELSE 0
  BY DEF TracedOnce
<1>1. opts.gps \in Seq([word : STRING, n : Int])
  BY CliAssumption DEF CliAssumption, CliInv
<1> DEFINE I == 1 .. Len(opts.gps)
<1>2. ASSUME NEW i \in I
      PROVE  GpNumbers(opts.gps[i]) \subseteq 0 .. 255
  <2>1. opts.gps[i] \in [word : STRING, n : Int]
    BY <1>1, EntryIn
  <2>2. opts.gps[i].n % 256 \in 0 .. 255
    BY <2>1, ByteNumber
  <2> QED
    BY <2>2 DEF GpNumbers
<1> HIDE DEF I
<1>3. reg_gp \subseteq I \X (0 .. 255)
  <2>1. ASSUME NEW call \in reg_gp
        PROVE  call \in I \X (0 .. 255)
    <3>1. PICK i \in I : call \in {i} \X GpNumbers(opts.gps[i])
      BY DEF reg_gp, I
    <3> QED
      BY <1>2, <3>1
  <2> QED
    BY <2>1
<1>4. IsFiniteSet(reg_gp)
  <2>1. IsFiniteSet(I)
    <3>1. Len(opts.gps) \in Int /\ 1 \in Int
      BY <1>1
    <3> QED
      BY <3>1, FS_Interval DEF I
  <2>a. IsFiniteSet(0 .. 255)
    <3>1. 0 \in Int /\ 255 \in Int
      OBVIOUS
    <3> QED
      BY <3>1, FS_Interval
  <2>2. IsFiniteSet(I \X (0 .. 255))
    BY <2>1, <2>a, FS_Product
  <2> QED
    BY <1>3, <2>2, FS_Subset
<1>5. ASSUME NEW r
      PROVE  (\E call \in reg_gp : call[2] = r) <=> \E i \in I : r \in GpNumbers(opts.gps[i])
  <2>1. ASSUME NEW call \in reg_gp, call[2] = r
        PROVE  \E i \in I : r \in GpNumbers(opts.gps[i])
    <3>1. PICK i \in I : call \in {i} \X GpNumbers(opts.gps[i])
      BY <2>1 DEF reg_gp, I
    <3> QED
      BY <2>1, <3>1
  <2>2. ASSUME NEW i \in I, r \in GpNumbers(opts.gps[i])
        PROVE  \E call \in reg_gp : call[2] = r
    <3>1. <<i, r>> \in {i} \X GpNumbers(opts.gps[i])
      BY <2>2
    <3>2. <<i, r>> \in reg_gp
      BY <3>1 DEF reg_gp, I
    <3>3. <<i, r>>[2] = r
      OBVIOUS
    <3> QED
      BY <3>2, <3>3
  <2> QED
    BY <2>1, <2>2
<1>6. ASSUME NEW r \in 0 .. 31
      PROVE  (\E i \in I : r \in GpNumbers(opts.gps[i]))
                <=> \E i \in I : opts.gps[i].word = "*" \/ opts.gps[i].n % 256 = r
  <2>1. ASSUME NEW i \in I
        PROVE  r \in GpNumbers(opts.gps[i]) => opts.gps[i].word = "*" \/ opts.gps[i].n % 256 = r
    BY DEF GpNumbers
  <2>2. ASSUME NEW i \in I, opts.gps[i].word = "*"
        PROVE  r \in GpNumbers(opts.gps[i])
    BY <2>2 DEF GpNumbers
  <2>3. ASSUME NEW i \in I, opts.gps[i].word # "*", opts.gps[i].n % 256 = r
        PROVE  r \in GpNumbers(opts.gps[i])
    BY <2>3 DEF GpNumbers
  <2> QED
    BY <2>1, <2>2, <2>3
<1>7. ASSUME NEW r \in 0 .. 31
      PROVE  GpLines(r) = IF \E i \in I : r \in GpNumbers(opts.gps[i]) THEN 1 ELSE 0
  <2>1. GpLines(r) = IF \E call \in reg_gp : call[2] = r THEN CON(Cardinality(reg_gp)) ELSE 0
    BY DEF GpLines, configure_tracer
  <2>2. reg_gp # {} => Cardinality(reg_gp) \in Nat /\ Cardinality(reg_gp) > 0
    BY <1>4, FS_CardinalityType, FS_EmptySet
  <2>3. reg_gp # {} => CON(Cardinality(reg_gp)) = 1
    BY <2>2 DEF CON
  <2> QED
    BY <1>5, <2>1, <2>3
<1> DEFINE hi == "hi" \in opts.trace
           lo == "lo" \in opts.trace
           both == CON(Traced("hi") + Traced("lo"))
<1>8. /\ HiLoLines(TRUE) = IF (TRUE /\ hi) \/ (~TRUE /\ lo) THEN both ELSE 0
      /\ HiLoLines(FALSE) = IF (FALSE /\ hi) \/ (~FALSE /\ lo) THEN both ELSE 0
  BY Zenon DEF HiLoLines, configure_tracer
<1>9. hi \/ lo => both = 1
  BY DEF CON, Traced
<1> HIDE DEF hi, lo, both
<1>10. HiLoLines(TRUE) = (IF hi THEN 1 ELSE 0) /\ HiLoLines(FALSE) = (IF lo THEN 1 ELSE 0)
  BY <1>8, <1>9
<1> QED
  BY <1>6, <1>7, <1>10, Zenon DEF hi, lo, I

LEMMA OutputApart == CliInv => InputNotTruncated
<1> SUFFICES ASSUME CliInv, Len(opts.serin) = Len(opts.serout), opts.serin # <<>>
             PROVE  <<Last(opts.serin), "w">> \notin SerialOpened
  BY DEF InputNotTruncated
<1>1. opts.serin \in Seq(STRING) /\ opts.serout \in Seq(STRING)
  BY CliAssumption DEF CliAssumption, CliInv
<1> DEFINE n == Len(opts.serout)
<1>2. n \in 1 .. Len(opts.serin) /\ Last(opts.serin) = opts.serin[n] /\ Last(opts.serout) = opts.serout[n]
  BY <1>1 DEF Last
<1>3. CASE opts.serin[n] = opts.serout[n]
  BY <1>2, <1>3 DEF SerialOpened
<1>4. CASE opts.serin[n] # opts.serout[n]
  BY <1>2, <1>4 DEF SerialOpened
<1> QED
  BY <1>3, <1>4

LEMMA WordOf ==
    ASSUME NEW a \in Nat
    PROVE  /\ Aligned(a) \in Nat /\ Aligned(a) % 4 = 0 /\ Aligned(a) <= a
           /\ \A b \in Nat : a <= b => Aligned(a) <= Aligned(b)
BY DEF Aligned

LEMMA WordAt ==
    ASSUME NEW a \in Nat, NEW i \in Nat, a % 4 = 0
    PROVE  (a + (4 * i)) % 4 = 0
OBVIOUS

LEMMA WordsApart ==
    ASSUME NEW a \in Nat, NEW b \in Nat, a % 4 = 0, b % 4 = 0, a <= b
    PROVE  \E i \in Nat : b = a + (4 * i)
<1>1. (b - a) % 4 = 0
  OBVIOUS
<1>2. b = a + (4 * ((b - a) \div 4)) /\ (b - a) \div 4 \in Nat
  BY <1>1
<1> QED
  BY <1>2

\* as many words from one word on to another as the difference of their addresses says
LEMMA WordsCounted ==
    ASSUME NEW a \in Nat, NEW i \in Nat, a % 4 = 0
    PROVE  Cardinality({w \in Nat : w % 4 = 0 /\ a <= w /\ w <= a + (4 * i)}) = i + 1
<1> DEFINE W == {w \in Nat : w % 4 = 0 /\ a <= w /\ w <= a + (4 * i)}
           I == 1 .. (i + 1)
           f == [j \in I |-> a + (4 * (j - 1))]
<1>1. \A j \in I : f[j] = a + (4 * (j - 1)) /\ j - 1 \in Nat /\ j \in Nat /\ j <= i + 1
  OBVIOUS
<1>2. ASSUME NEW j \in I
      PROVE  f[j] \in W
  <2>1. j - 1 \in Nat /\ j - 1 <= i /\ f[j] = a + (4 * (j - 1))
    BY <1>1
  <2>2. f[j] % 4 = 0
    BY <2>1, WordAt
  <2> HIDE DEF f
  <2> QED
    BY <2>1, <2>2
<1>3. ASSUME NEW w \in W
      PROVE  \E j \in I : f[j] = w
  <2>1. PICK n \in Nat : w = a + (4 * n)
    BY WordsApart
  <2>2. n + 1 \in I /\ (n + 1) - 1 = n
    BY <2>1
  <2>3. f[n + 1] = w
    BY <1>1, <2>1, <2>2
  <2> QED
    BY <2>2, <2>3
<1>4. \A j, k \in I : f[j] = f[k] => j = k
  <2> SUFFICES ASSUME NEW j \in I, NEW k \in I, f[j] = f[k]
               PROVE  j = k
    OBVIOUS
  <2>1. a + (4 * (j - 1)) = a + (4 * (k - 1))
    BY <1>1
  <2> QED
    BY <1>1, <2>1
<1>5. f \in [I -> W]
  BY <1>2
<1>6. DOMAIN f = I
  OBVIOUS
<1> HIDE DEF f, W
<1>7. f \in Bijection(I, W)
  BY <1>3, <1>4, <1>5, <1>6 DEF Bijection, Injection, Surjection, IsInjective
<1>8. ExistsBijection(I, W)
  BY <1>7 DEF ExistsBijection
<1>9. IsFiniteSet(I) /\ Cardinality(I) = i + 1
  <2>1. 1 \in Int /\ i + 1 \in Int /\ ~(1 > i + 1)
    OBVIOUS
  <2> QED
    BY <2>1, FS_Interval
<1> HIDE DEF I
<1>10. Cardinality(W) = i + 1
  BY <1>8, <1>9, FS_Bijection
<1> QED
  BY <1>10 DEF W

LEMMA DumpLoads == CliInv => DumpComesBack
<1> SUFFICES ASSUME CliInv PROVE DumpComesBack
  OBVIOUS
<1> DEFINE s == opts.range.start
           n == opts.range.len
           A == Aligned(s)
           words == DumpedWords(s, n)
<1>1. s \in Nat /\ n \in Nat /\ MemBytes \in Nat
  BY CliAssumption DEF CliAssumption, CliInv
<1>2. A \in Nat /\ A % 4 = 0
  BY <1>1, WordOf
<1> HIDE DEF s, n
<1>3. \A w : w \in words <=> w \in 0 .. MemBytes - 1 /\ w % 4 = 0 /\ w >= A /\ w < s + n
  BY DEF DumpedWords
<1> HIDE DEF words
<1>4. ASSUME NEW b \in s .. s + n - 1, b < MemBytes
      PROVE  Aligned(b) \in words
  <2>1. b \in Nat /\ s <= b /\ b < s + n
    BY <1>1
  <2>2. Aligned(b) \in Nat /\ Aligned(b) % 4 = 0 /\ Aligned(b) <= b
    BY <2>1, WordOf
  <2>3. A <= Aligned(b)
    BY <1>1, <2>1, WordOf
  <2> DEFINE w == Aligned(b)
  <2> HIDE DEF w, A
  <2>4. w \in 0 .. MemBytes - 1 /\ w >= A /\ w < s + n
    BY <1>1, <1>2, <1>4, <2>1, <2>2, <2>3 DEF w
  <2> QED
    BY <1>3, <2>2, <2>4 DEF w
<1>5. ASSUME NEW a \in words
      PROVE  LoadedWord(A, Cardinality({w \in words : w <= a})) = a
  <2>1. a \in Nat /\ a < MemBytes /\ a % 4 = 0 /\ A <= a /\ a < s + n
    BY <1>1, <1>2, <1>3
  <2>2. PICK i \in Nat : a = A + (4 * i)
    BY <1>2, <2>1, WordsApart
  <2> DEFINE W == {w \in Nat : w % 4 = 0 /\ A <= w /\ w <= A + (4 * i)}
  <2>3. {w \in words : w <= a} = W
    <3> HIDE DEF A
    <3>1. ASSUME NEW w \in words, w <= a
          PROVE  w \in W
      BY <1>1, <1>2, <1>3, <2>2, <3>1
    <3>2. ASSUME NEW w \in W
          PROVE  w \in words /\ w <= a
      <4>1. w \in Nat /\ w % 4 = 0 /\ A <= w /\ w <= a
        BY <2>2
      <4> HIDE DEF W
      <4>2. w \in 0 .. MemBytes - 1 /\ w >= A /\ w < s + n
        BY <1>1, <1>2, <2>1, <4>1
      <4> QED
        BY <1>3, <4>1, <4>2
    <3> HIDE DEF W
    <3> QED
      BY <3>1, <3>2
  <2>4. Cardinality(W) = i + 1
    <3> HIDE DEF A
    <3> QED
      BY <1>2, WordsCounted
  <2> HIDE DEF W, A
  <2>5. LoadedWord(A, i + 1) = A + (4 * i)
    BY <1>2 DEF LoadedWord
  <2> QED
    BY <2>2, <2>3, <2>4, <2>5
<1>6. DumpComesBack <=>
         (cli.phase = "start" =>
            /\ \A b \in s .. s + n - 1 : b < MemBytes => Aligned(b) \in words
            /\ \A a \in words : LoadedWord(Aligned(s), Cardinality({w \in words : w <= a})) = a)
  BY Zenon DEF DumpComesBack, words, s, n
<1> HIDE DEF A
<1>7. A = Aligned(s)
  BY DEF A
<1> QED
  BY <1>4, <1>5, <1>6, <1>7

LEMMA EndsTruthfully == CliInv => ExitStatusTruthful /\ EndsUnlessFirstStep /\ CacheUsable
<1> SUFFICES ASSUME CliInv PROVE ExitStatusTruthful /\ EndsUnlessFirstStep /\ CacheUsable
  OBVIOUS
<1>1. ExitStatusTruthful
  BY DEF CliInv, CliOk, StatusAsked, ExitStatusTruthful
<1>2. EndsUnlessFirstStep
  BY DEF CliInv, Leaves, EndsUnlessFirstStep
<1>3. CacheUsable
  BY DEF CliInv, CliOk, Usable, CacheUsable
<1> QED
  BY <1>1, <1>2, <1>3

\* The process ends with the status that its options ask for, and waits forever only if the
\* program was over within the first step; a machine that runs has no cache of size zero; an
\* option repeated is traced once; a range dumped and loaded again comes back; and the output
\* of the serial port does not truncate its input (main.cpp, reporter.cpp, tracer.cpp).
THEOREM CommandLineKeepsWord == CliSpec => []CommandLineTruthful
<1>1. CliInit => CliInv
  BY CliStarted
<1>2. CliInv /\ [CliNext]_clivars => CliInv'
  <2> SUFFICES ASSUME CliInv, [CliNext]_clivars PROVE CliInv'
    OBVIOUS
  <2>1. CASE StartFails
    BY <2>1, StartFailsKeeps
  <2>2. CASE Start
    BY <2>2, StartKeeps
  <2>3. CASE CliStep
    BY <2>3, CliStepKeeps
  <2>4. CASE CliTrap
    BY <2>4, CliTrapKeeps
  <2>5. CASE CliLoop
    BY <2>5, CliLoopKeeps
  <2>6. CASE UNCHANGED clivars
    BY <2>6 DEF clivars, CliInv, CliOk, StatusAsked, LettersKnown, Leaves
  <2> QED
    BY <2>1, <2>2, <2>3, <2>4, <2>5, <2>6 DEF CliNext
<1>3. CliInv => CommandLineTruthful
  BY EndsTruthfully, OptionsTraced, DumpLoads, OutputApart DEF CommandLineTruthful
<1> QED
  BY <1>1, <1>2, <1>3, PTL DEF CliSpec

-----------------------------------------------------------------------------
(* The memory and the program view: division into rows and cells.            *)

LEMMA RowDivision ==
    ASSUME NEW a \in Nat, NEW b \in Nat \ {0}
    PROVE  /\ a \div b \in Nat
           /\ (a \div b) * b <= a
           /\ a < ((a \div b) * b) + b
  OBVIOUS

\* The row of an address is the one that holds it.
LEMMA RowUnique ==
    ASSUME NEW a \in Nat, NEW b \in Nat \ {0}, NEW q \in Nat, q * b <= a, a < (q * b) + b
    PROVE  a \div b = q
<1>1. SUFFICES ASSUME NEW p \in Nat, p * b <= a, a < (p * b) + b
               PROVE  p = q
  BY RowDivision
<1>2. CASE p > q
  <2>1. (p - q) * b >= b
    BY <1>2
  <2>2. (p - q) * b = (p * b) - (q * b)
    OBVIOUS
  <2> QED
    BY <1>1, <2>1, <2>2
<1>3. CASE p < q
  <2>1. (q - p) * b >= b
    BY <1>3
  <2>2. (q - p) * b = (q * b) - (p * b)
    OBVIOUS
  <2> QED
    BY <1>1, <2>1, <2>2
<1> QED
  BY <1>2, <1>3

LEMMA RowOrder ==
    ASSUME NEW p \in Nat, NEW q \in Nat, NEW b \in Nat \ {0}, p <= q
    PROVE  p * b <= q * b
<1>1. (q - p) * b >= 0 /\ (q - p) * b = (q * b) - (p * b)
  OBVIOUS
<1> QED
  BY <1>1

LEMMA CellDivision ==
    ASSUME NEW a \in Nat, NEW c \in {1, 2, 4}
    PROVE  /\ a % c \in 0 .. c - 1
           /\ a - (a % c) \in Nat /\ a - (a % c) <= a /\ (a - (a % c)) % c = 0
           /\ a - (a % 4) <= a - (a % c) /\ a < (a - (a % 4)) + 4
<1>1. CASE c = 1
  BY <1>1
<1>2. CASE c = 2
  BY <1>2
<1>3. CASE c = 4
  BY <1>3
<1> QED
  BY <1>1, <1>2, <1>3

\* Rows begin with a cell.
LEMMA RowsOfCells ==
    ASSUME NEW k \in Nat, NEW n \in Nat \ {0}, NEW c \in {1, 2, 4},
           NEW r \in Nat, r = n * c
    PROVE  /\ r # 0 /\ r >= c /\ r % c = 0
           /\ k * r \in Nat /\ (k * r) % c = 0
<1> DEFINE m == k * n
<1>1. m \in Nat /\ k * r = m * c
  OBVIOUS
<1> HIDE DEF m
<1>2. CASE c = 1
  BY <1>1, <1>2
<1>3. CASE c = 2
  BY <1>1, <1>3
<1>4. CASE c = 4
  BY <1>1, <1>4
<1> QED
  BY <1>2, <1>3, <1>4

LEMMA CellSums ==
    ASSUME NEW a \in Nat, NEW b \in Nat, NEW c \in {1, 2, 4}, a % c = 0, b % c = 0
    PROVE  (a + b) % c = 0 /\ (a >= b => (a - b) % c = 0)
           /\ (a < b => a + c <= b)
<1>1. CASE c = 1
  BY <1>1
<1>2. CASE c = 2
  BY <1>2
<1>3. CASE c = 4
  BY <1>3
<1> QED
  BY <1>1, <1>2, <1>3

-----------------------------------------------------------------------------
(* The memory and the program view: what holds of their rows.                *)

ViewRecords ==
    [kind : {"memory", "program"}, offset : Nat, cell : {1, 2, 4}, cells : Nat \ {0}, top : Nat,
     cur : Int, queued : BOOLEAN, saved : Nat, need_save : BOOLEAN, asked : Int, moves : Nat,
     follow : Stages \cup {"none"}, follow_addr : [Stages -> Nat], stage_addr : [Stages -> Int],
     stages_need_update : BOOLEAN, data : Nat, painted : [data : Nat, stages : [Stages -> Int]],
     checked : BOOLEAN]

RowsOk(v) ==
    /\ v.offset % v.cell = 0
    /\ v.cells \in CellCounts \cup {1}
    /\ v.kind = "program" => v.cell = 4 /\ v.cells = 1
    /\ v.kind = "memory" => v.need_save
    /\ v.top <= RowCount - Height
    /\ v.cur = NoAddr \/ v.cur \in 0 .. RowCount - 1

\* a saved address that leads back to the row at address t
LeadsTo(s, t) ==
    /\ t <= s
    /\ s - (s % 4) <= t \/ (t = 0 /\ \E cells \in CellCounts : s < 4 * cells)

Settled(v) ==
    ~v.queued =>
      /\ v.top = 0 => v.offset = 0 \/ (v.kind = "memory" /\ v.offset = RowBytes(v))
      /\ v.kind = "memory" => LeadsTo(v.saved, get_row_address(v, v.top))

PaintOk(v) == v.stages_need_update \/ v.painted.stages = v.stage_addr

\* where the cursor may be that shows address a
CursorShows(v, a) ==
    \/ v.cur # NoAddr /\ InRow(v, v.cur, a)
    \/ v.cur = NoAddr /\ (a - v.offset) \div RowBytes(v) = RowCount
    \/ /\ ~v.queued /\ v.kind = "memory" /\ v.offset = 0 /\ v.cur # NoAddr
       /\ InRow(v, v.cur + 1, a)

CheckedOk(v) == v.checked => v.painted = [data |-> v.data, stages |-> v.stage_addr]

AskedOk(v) == v.asked # NoAddr => v.asked \in Nat /\ CursorShows(v, v.asked)

GoodView(v) == v \in ViewRecords /\ RowsOk(v) /\ Settled(v) /\ PaintOk(v)

SoundView(v) == GoodView(v) /\ AskedOk(v) /\ CheckedOk(v)

ViewInv == SoundView(view)

LEMMA ViewBounds ==
    /\ RowCount \in Nat /\ RowCount >= 8 /\ Height \in Nat /\ Height >= 1
    /\ RowCount \div 2 \in Nat /\ RowCount \div 8 \in Nat
    /\ RowCount \div 2 >= 4 /\ RowCount \div 8 >= 1
    /\ (RowCount \div 2) + Height <= RowCount
    /\ (RowCount \div 8) + (RowCount \div 8) < RowCount
  BY ViewAssumption DEF ViewAssumption

\* The bytes of a row are some cells.
LEMMA RowBytesOk ==
    ASSUME NEW v \in ViewRecords, RowsOk(v)
    PROVE  /\ RowBytes(v) \in Nat \ {0} /\ RowBytes(v) % v.cell = 0 /\ RowBytes(v) >= v.cell
           /\ v.kind = "program" => RowBytes(v) = 4
           /\ \A k \in Nat : /\ get_row_address(v, k) \in Nat /\ get_row_address(v, k) % v.cell = 0
                             /\ (k * RowBytes(v)) \in Nat /\ (k * RowBytes(v)) % v.cell = 0
<1>1. v.cells \in Nat \ {0} /\ v.cell \in {1, 2, 4} /\ v.offset \in Nat
  BY DEF ViewRecords
<1>2. RowBytes(v) = v.cells * v.cell
  BY DEF RowBytes
<1>3. /\ RowBytes(v) \in Nat \ {0} /\ RowBytes(v) % v.cell = 0 /\ RowBytes(v) >= v.cell
      /\ \A k \in Nat : (k * RowBytes(v)) \in Nat /\ (k * RowBytes(v)) % v.cell = 0
  <2> DEFINE n == v.cells
             c == v.cell
             r == RowBytes(v)
  <2>1. n \in Nat \ {0} /\ c \in {1, 2, 4} /\ r = n * c /\ r \in Nat
    BY <1>1, <1>2
  <2> HIDE DEF n, c, r
  <2>2. r \in Nat \ {0} /\ r % c = 0 /\ r >= c
    BY <2>1, RowsOfCells
  <2>3. \A k \in Nat : (k * r) \in Nat /\ (k * r) % c = 0
    BY <2>1, RowsOfCells
  <2> QED
    BY <2>2, <2>3 DEF n, c, r
<1>4. v.kind = "program" => RowBytes(v) = 4
  BY <1>2 DEF RowsOk
<1>5. ASSUME NEW k \in Nat
      PROVE  /\ get_row_address(v, k) \in Nat /\ get_row_address(v, k) % v.cell = 0
             /\ (k * RowBytes(v)) \in Nat /\ (k * RowBytes(v)) % v.cell = 0
  <2>1. (k * RowBytes(v)) \in Nat /\ (k * RowBytes(v)) % v.cell = 0
    BY <1>3
  <2>2. get_row_address(v, k) = v.offset + (k * RowBytes(v))
    BY DEF get_row_address
  <2>3. v.offset % v.cell = 0
    BY DEF RowsOk
  <2>4. (v.offset + (k * RowBytes(v))) % v.cell = 0
    BY <1>1, <2>1, <2>3, CellSums
  <2> QED
    BY <1>1, <2>1, <2>2, <2>4
<1> QED
  BY <1>3, <1>4, <1>5

\* What adjustRowAndOffset does for a cell c, in numbers: r bytes per row, m rows above.
NumbersPlaced(c, r, m, o, d) ==
    /\ o \in Nat /\ o <= c
    /\ d \in 0 .. m
    /\ d # 0 => o + (d * r) = c
    /\ d = 0 => o = 0 /\ c < r
    /\ o = 0 \/ o = c - (d * r)

LEMMA OffsetOfCell ==
    ASSUME NEW c \in Nat, NEW r \in Nat \ {0}, NEW m \in Nat, m >= 1,
           NEW o, o = IF m * r <= c THEN c - (m * r)
                      ELSE IF c \div r = 0 THEN 0 ELSE c - ((c \div r) * r)
    PROVE  NumbersPlaced(c, r, m, o, (c - o) \div r)
<1> DEFINE q == c \div r
<1>1. q \in Nat /\ q * r <= c /\ c < (q * r) + r
  BY RowDivision
<1>2. CASE m * r <= c
  <2>1. o = c - (m * r) /\ c - o = m * r /\ m * r \in Nat
    BY <1>2
  <2>2. (m * r) \div r = m
    BY <2>1, RowUnique
  <2> QED
    BY <1>2, <2>1, <2>2 DEF NumbersPlaced
<1>3. CASE ~(m * r <= c) /\ q = 0
  <2>1. o = 0 /\ c - o = c
    BY <1>3
  <2> QED
    BY <1>1, <1>3, <2>1 DEF NumbersPlaced
<1>4. CASE ~(m * r <= c) /\ q # 0
  <2>1. o = c - (q * r)
    BY <1>4
  <2> HIDE DEF q
  <2>2. q * r \in Nat
    BY <1>1
  <2>3. c - o = q * r /\ o \in Nat /\ o <= c
    BY <1>1, <2>1, <2>2
  <2>4. (q * r) \div r = q
    BY <1>1, <2>2, RowUnique
  <2>5. q <= m
    <3>1. SUFFICES ASSUME m <= q PROVE FALSE
      BY <1>1
    <3>2. m * r <= q * r
      BY <1>1, <3>1, RowOrder
    <3> QED
      BY <1>1, <1>4, <2>2, <3>2
  <2>6. (c - o) \div r = q
    BY <2>3, <2>4
  <2>7. o + (q * r) = c
    BY <1>1, <2>1, <2>2
  <2> QED
    BY <1>1, <1>4, <2>1, <2>3, <2>5, <2>6, <2>7 DEF NumbersPlaced
<1> QED
  BY <1>2, <1>3, <1>4

\* adjustRowAndOffset puts the cell of an address at the beginning of a row of the first
\* half, or, in a view that begins at address 0, in the first row.
AddressPlaced(v, w, r, a) ==
    /\ w.offset \in Nat /\ w.offset % v.cell = 0
    /\ r \in Nat /\ r <= RowCount \div 2
    /\ r # 0 => get_row_address(w, r) = CellStart(v, a)
    /\ r = 0 => w.offset = 0 /\ CellStart(v, a) < RowBytes(v)
    /\ InRow(w, r, a)

LEMMA RowsAdjusted ==
    ASSUME NEW v \in ViewRecords, RowsOk(v), NEW a \in Nat
    PROVE  LET w == adjustRowAndOffset(v, a)
           IN  /\ w = [v EXCEPT !.offset = w.offset]
               /\ AddressPlaced(v, w, AdjustedRow(w, a), a)
<1> DEFINE c == CellStart(v, a)
           R == RowBytes(v)
           m == RowCount \div 2
           o == IF m * R <= c THEN c - (m * R)
                ELSE IF c \div R = 0 THEN 0 ELSE c - ((c \div R) * R)
           w == [v EXCEPT !.offset = o]
           r == (c - o) \div R
<1>1. /\ R \in Nat \ {0} /\ R % v.cell = 0 /\ R >= v.cell
      /\ \A k \in Nat : (k * R) \in Nat /\ (k * R) % v.cell = 0
  BY RowBytesOk
<1>2. v.cell \in {1, 2, 4}
  BY DEF ViewRecords
<1>3. c \in Nat /\ c <= a /\ c % v.cell = 0 /\ a < c + v.cell
  BY <1>2, CellDivision DEF CellStart
<1>4. m \in Nat /\ m >= 1 /\ m <= RowCount /\ RowCount \in Nat
  BY ViewBounds
<1>5. adjustRowAndOffset(v, a) = w
  BY DEF adjustRowAndOffset
<1>6. NumbersPlaced(c, R, m, o, r)
  <2> HIDE DEF m, R, c
  <2> QED
    BY <1>1, <1>3, <1>4, OffsetOfCell
<1>7. o % v.cell = 0
  <2> HIDE DEF o, r, c, R
  <2>1. CASE o = 0
    BY <1>2, <2>1
  <2>2. CASE o # 0
    <3>1. o = c - (r * R) /\ r \in Nat /\ c >= r * R
      BY <1>1, <1>6, <2>2 DEF NumbersPlaced
    <3>2. (r * R) \in Nat /\ (r * R) % v.cell = 0
      BY <1>1, <3>1
    <3> QED
      BY <1>2, <1>3, <3>1, <3>2, CellSums
  <2> QED
    BY <2>1, <2>2
<1> HIDE DEF o
<1>8. w.offset = o /\ RowBytes(w) = R /\ w.cell = v.cell
  BY DEF ViewRecords, RowBytes
<1>9. AdjustedRow(w, a) = r
  <2>1. CellStart(w, a) = c
    BY <1>8 DEF CellStart
  <2>2. get_row_for_address(w, c).row = r
    <3> HIDE DEF w, c, R, r
    <3>1. ~(c < w.offset) /\ ~((c - w.offset) \div RowBytes(w) > RowCount)
      BY <1>3, <1>4, <1>6, <1>8 DEF r, NumbersPlaced
    <3> QED
      BY <1>8, <3>1 DEF get_row_for_address, r
  <2> QED
    BY <2>1, <2>2 DEF AdjustedRow
<1>10. InRow(w, r, a)
  <2> HIDE DEF w, c, R, r
  <2>1. get_row_address(w, r) = o + (r * R)
    BY <1>8 DEF get_row_address, NumbersPlaced
  <2>2. CASE r = 0
    <3>1. o + (r * R) = 0
      BY <1>1, <1>6, <2>2 DEF NumbersPlaced
    <3>2. c + v.cell <= R
      BY <1>1, <1>2, <1>3, <1>6, <2>2, CellSums DEF NumbersPlaced
    <3> QED
      BY <1>1, <1>2, <1>3, <1>8, <2>1, <3>1, <3>2 DEF InRow
  <2>3. CASE r # 0
    <3>1. o + (r * R) = c
      BY <1>6, <2>3 DEF NumbersPlaced
    <3> QED
      BY <1>1, <1>2, <1>3, <1>8, <2>1, <3>1 DEF InRow
  <2> QED
    BY <2>2, <2>3
<1>11. r # 0 => get_row_address(w, r) = c
  <2> HIDE DEF w, c, R, r
  <2> QED
    BY <1>6, <1>8 DEF get_row_address, NumbersPlaced
<1>12. AddressPlaced(v, w, r, a)
  <2> HIDE DEF w, R, r, m
  <2>1. w.offset \in Nat /\ w.offset % v.cell = 0
    BY <1>6, <1>7, <1>8 DEF NumbersPlaced
  <2>2. r \in Nat /\ r <= RowCount \div 2
    BY <1>4, <1>6 DEF m, NumbersPlaced
  <2>3. r = 0 => w.offset = 0 /\ CellStart(v, a) < RowBytes(v)
    BY <1>6, <1>8 DEF R, NumbersPlaced
  <2> QED
    BY <1>10, <1>11, <2>1, <2>2, <2>3 DEF AddressPlaced
<1> QED
  BY <1>5, <1>8, <1>9, <1>12

-----------------------------------------------------------------------------
(* The memory and the program view: moving the cursor.                       *)

KeepsCells(v, w) == w.kind = v.kind /\ w.cell = v.cell /\ w.cells = v.cells

KeepsSaved(v, w) == w.saved = v.saved /\ w.need_save = v.need_save

KeepsUser(v, w) ==
    /\ w.follow = v.follow /\ w.follow_addr = v.follow_addr
    /\ w.asked = v.asked /\ w.moves = v.moves /\ w.checked = v.checked

KeepsPaint(v, w) ==
    /\ w.data = v.data /\ w.stage_addr = v.stage_addr
    /\ w.stages_need_update = v.stages_need_update /\ w.painted = v.painted

Painted(w) == w.painted = [data |-> w.data, stages |-> w.stage_addr]

\* w is v scrolled to row t
Scrolled(v, w, t) ==
    /\ w \in ViewRecords
    /\ KeepsCells(v, w) /\ KeepsSaved(v, w) /\ KeepsUser(v, w) /\ KeepsPaint(v, w)
    /\ w.offset = v.offset /\ w.cur = v.cur
    /\ w.top = t
    /\ w.queued <=> v.queued \/ t # v.top

LEMMA ScrollTo ==
    ASSUME NEW v \in ViewRecords, NEW t \in Nat
    PROVE  Scrolled(v, ScrolledTo(v, t), t)
<1> DEFINE q == v.queued \/ t # v.top
           w == [v EXCEPT !.top = t, !.queued = q]
<1>1. ScrolledTo(v, t) = w
  BY DEF ScrolledTo
<1>2. q \in BOOLEAN
  OBVIOUS
<1> HIDE DEF q
<1>3. w \in ViewRecords
  BY <1>2 DEF ViewRecords
<1>4. KeepsCells(v, w) /\ KeepsSaved(v, w) /\ KeepsUser(v, w) /\ KeepsPaint(v, w)
  BY DEF ViewRecords, KeepsCells, KeepsSaved, KeepsUser, KeepsPaint
<1>5. w.offset = v.offset /\ w.cur = v.cur /\ w.top = t
  BY DEF ViewRecords
<1>6. w.queued = q
  BY DEF ViewRecords
<1> HIDE DEF w
<1>7. w.queued <=> v.queued \/ t # v.top
  BY <1>6 DEF q
<1> QED
  BY <1>1, <1>3, <1>4, <1>5, <1>7 DEF Scrolled

LEMMA RowsStayOk ==
    ASSUME NEW v, NEW w, RowsOk(v), KeepsCells(v, w), w.need_save = v.need_save,
           w.offset = v.offset, w.top <= RowCount - Height,
           w.cur = NoAddr \/ w.cur \in 0 .. RowCount - 1
    PROVE  RowsOk(w)
  BY DEF RowsOk, KeepsCells

LEMMA SettledStays ==
    ASSUME NEW v, NEW w, Settled(v), KeepsCells(v, w), w.saved = v.saved, w.offset = v.offset,
           ~w.queued => ~v.queued /\ w.top = v.top
    PROVE  Settled(w)
<1>1. RowBytes(w) = RowBytes(v)
  BY DEF KeepsCells, RowBytes
<1>2. SUFFICES ASSUME ~w.queued
      PROVE  /\ w.top = 0 => w.offset = 0 \/ (w.kind = "memory" /\ w.offset = RowBytes(w))
             /\ w.kind = "memory" => LeadsTo(w.saved, get_row_address(w, w.top))
  BY DEF Settled
<1>3. get_row_address(w, w.top) = get_row_address(v, v.top)
  BY <1>1, <1>2 DEF get_row_address
<1> QED
  BY <1>1, <1>2, <1>3 DEF Settled, KeepsCells

\* w is v with the cursor in a row, or with none
CursorMoved(v, w, row) ==
    /\ w \in ViewRecords
    /\ KeepsCells(v, w) /\ KeepsSaved(v, w) /\ KeepsUser(v, w) /\ KeepsPaint(v, w)
    /\ w.offset = v.offset
    /\ w.cur = IF row \in 0 .. RowCount - 1 THEN row ELSE NoAddr
    /\ w.top <= RowCount - Height
    /\ w.queued \/ (~v.queued /\ w.top = v.top)
    /\ w.top # v.top => w.queued
    /\ v.queued => w.queued
    /\ row \in v.top .. v.top + Height - 1 => w.top = v.top

LEMMA SetCurrentIndex ==
    ASSUME NEW v \in ViewRecords, RowsOk(v), NEW row \in Int
    PROVE  CursorMoved(v, setCurrentIndex(v, row), row)
<1> USE DEF CursorMoved
<1>1. v.top \in Nat /\ v.top <= RowCount - Height /\ v.cur \in Int /\ v.queued \in BOOLEAN
  BY DEF ViewRecords, RowsOk
<1> DEFINE w == [v EXCEPT !.cur = row]
           none == [v EXCEPT !.cur = NoAddr]
<1>2. /\ w \in ViewRecords /\ none \in ViewRecords
      /\ w.cur = row /\ none.cur = NoAddr
      /\ w.top = v.top /\ none.top = v.top /\ w.queued = v.queued /\ none.queued = v.queued
      /\ w.offset = v.offset /\ none.offset = v.offset
  BY DEF ViewRecords, NoAddr
<1>3. /\ KeepsCells(v, w) /\ KeepsSaved(v, w) /\ KeepsUser(v, w) /\ KeepsPaint(v, w)
      /\ KeepsCells(v, none) /\ KeepsSaved(v, none) /\ KeepsUser(v, none) /\ KeepsPaint(v, none)
      /\ KeepsCells(v, v) /\ KeepsSaved(v, v) /\ KeepsUser(v, v) /\ KeepsPaint(v, v)
  BY DEF ViewRecords, KeepsCells, KeepsSaved, KeepsUser, KeepsPaint
<1>4. setCurrentIndex(v, row) =
        IF row \notin 0 .. RowCount - 1 THEN none
        ELSE IF row = v.cur THEN v
        ELSE IF row < v.top THEN ScrolledTo(w, row)
        ELSE IF row >= v.top + Height THEN ScrolledTo(w, row - Height + 1) ELSE w
  BY DEF setCurrentIndex
<1> HIDE DEF w, none
<1>5. ASSUME NEW t \in Nat, t <= RowCount - Height, t # v.top, row \in 0 .. RowCount - 1,
             row \notin v.top .. v.top + Height - 1
      PROVE  CursorMoved(v, ScrolledTo(w, t), row)
  <2>1. Scrolled(w, ScrolledTo(w, t), t)
    BY <1>2, ScrollTo
  <2> DEFINE x == ScrolledTo(w, t)
  <2> HIDE DEF x
  <2>2. /\ KeepsCells(v, x) /\ KeepsSaved(v, x) /\ KeepsUser(v, x) /\ KeepsPaint(v, x)
    BY <1>3, <2>1 DEF x, Scrolled, KeepsCells, KeepsSaved, KeepsUser, KeepsPaint
  <2>3. x \in ViewRecords /\ x.offset = v.offset /\ x.cur = row /\ x.top = t /\ x.queued
    BY <1>2, <1>5, <2>1 DEF x, Scrolled
  <2>4. CursorMoved(v, x, row)
    BY <1>5, <2>2, <2>3
  <2> QED
    BY <2>4 DEF x
<1>6. CASE row \notin 0 .. RowCount - 1
  BY <1>1, <1>2, <1>3, <1>4, <1>6
<1>7. CASE row \in 0 .. RowCount - 1 /\ row = v.cur
  BY <1>1, <1>2, <1>3, <1>4, <1>7
<1>8. CASE row \in 0 .. RowCount - 1 /\ row # v.cur /\ row < v.top
  <2>1. setCurrentIndex(v, row) = ScrolledTo(w, row)
    BY <1>4, <1>8
  <2>2. row \in Nat /\ row <= RowCount - Height /\ row \notin v.top .. v.top + Height - 1
    BY <1>1, <1>8, ViewBounds
  <2> QED
    BY <1>1, <1>5, <1>8, <2>1, <2>2
<1>9. CASE row \in 0 .. RowCount - 1 /\ row # v.cur /\ row >= v.top + Height
  <2>1. setCurrentIndex(v, row) = ScrolledTo(w, row - Height + 1)
    BY <1>1, <1>4, <1>9, ViewBounds
  <2>2. /\ row - Height + 1 \in Nat /\ row - Height + 1 <= RowCount - Height
        /\ row - Height + 1 # v.top /\ row \notin v.top .. v.top + Height - 1
    BY <1>1, <1>9, ViewBounds
  <2> QED
    BY <1>1, <1>5, <1>9, <2>1, <2>2
<1>10. CASE row \in 0 .. RowCount - 1 /\ row # v.cur /\ ~(row < v.top) /\ ~(row >= v.top + Height)
  BY <1>1, <1>2, <1>3, <1>4, <1>10
<1> QED
  BY <1>6, <1>7, <1>8, <1>9, <1>10

\* A moved cursor disturbs nothing else.
LEMMA CursorMovedKeeps ==
    ASSUME NEW v \in ViewRecords, NEW row \in Int, NEW w, CursorMoved(v, w, row)
    PROVE  /\ RowsOk(v) => RowsOk(w)
           /\ GoodView(v) => GoodView(w)
<1>1. KeepsCells(v, w) /\ KeepsSaved(v, w) /\ KeepsPaint(v, w) /\ w.offset = v.offset
  BY DEF CursorMoved
<1>2. w.top <= RowCount - Height /\ (w.cur = NoAddr \/ w.cur \in 0 .. RowCount - 1)
  BY DEF CursorMoved
<1>3. RowsOk(v) => RowsOk(w)
  BY <1>1, <1>2, RowsStayOk DEF KeepsSaved
<1>4. Settled(v) => Settled(w)
  <2>1. ~w.queued => ~v.queued /\ w.top = v.top
    BY DEF CursorMoved
  <2> QED
    BY <1>1, <2>1, SettledStays DEF KeepsSaved
<1>5. PaintOk(v) => PaintOk(w)
  BY <1>1 DEF PaintOk, KeepsPaint
<1> QED
  BY <1>3, <1>4, <1>5 DEF GoodView, CursorMoved

KeepsPlace(v, w) ==
    w.offset = v.offset /\ w.top = v.top /\ w.cur = v.cur /\ w.queued = v.queued

LEMMA GoodViewStays ==
    ASSUME NEW v, NEW w \in ViewRecords, GoodView(v), PaintOk(w),
           KeepsCells(v, w), KeepsPlace(v, w), KeepsSaved(v, w)
    PROVE  GoodView(w)
<1>1. RowsOk(w)
  BY RowsStayOk DEF GoodView, RowsOk, KeepsPlace, KeepsSaved
<1>2. Settled(w)
  BY SettledStays DEF GoodView, KeepsPlace, KeepsSaved
<1> QED
  BY <1>1, <1>2 DEF GoodView

\* w is v painted
Updated(v, w) ==
    /\ w \in ViewRecords
    /\ KeepsCells(v, w) /\ KeepsSaved(v, w) /\ KeepsUser(v, w) /\ KeepsPlace(v, w)
    /\ w.data = v.data /\ w.stage_addr = v.stage_addr
    /\ Painted(w)

LEMMA UpdateAll ==
    ASSUME NEW v \in ViewRecords
    PROVE  Updated(v, update_all(v)) /\ PaintOk(update_all(v))
<1> DEFINE p == [data |-> v.data, stages |-> v.stage_addr]
           w == [v EXCEPT !.painted = p, !.stages_need_update = FALSE]
<1>1. update_all(v) = w
  BY DEF update_all
<1>2. p \in [data : Nat, stages : [Stages -> Int]] /\ p.stages = v.stage_addr
  BY DEF ViewRecords
<1>3. p = [data |-> v.data, stages |-> v.stage_addr]
  OBVIOUS
<1> HIDE DEF p
<1>4. w \in ViewRecords
  BY <1>2 DEF ViewRecords
<1>5. KeepsCells(v, w) /\ KeepsSaved(v, w) /\ KeepsUser(v, w) /\ KeepsPlace(v, w)
  BY DEF ViewRecords, KeepsCells, KeepsSaved, KeepsUser, KeepsPlace
<1>6. w.data = v.data /\ w.stage_addr = v.stage_addr /\ w.painted = p
  BY DEF ViewRecords
<1> HIDE DEF w
<1> QED
  BY <1>1, <1>2, <1>3, <1>4, <1>5, <1>6 DEF Updated, Painted, PaintOk

LEMMA UpdateKeeps ==
    ASSUME NEW v, GoodView(v)
    PROVE  GoodView(update_all(v)) /\ Updated(v, update_all(v))
<1>1. v \in ViewRecords
  BY DEF GoodView
<1>2. Updated(v, update_all(v)) /\ PaintOk(update_all(v))
  BY <1>1, UpdateAll
<1> QED
  BY <1>2, GoodViewStays DEF Updated

\* w is v with address a kept, if it is to be
Kept(v, w, a) ==
    /\ w \in ViewRecords
    /\ KeepsCells(v, w) /\ KeepsUser(v, w) /\ KeepsPaint(v, w) /\ KeepsPlace(v, w)
    /\ v.need_save => w.saved = a
    /\ v.kind = "memory" => (v.need_save => w.need_save)

LEMMA SaveAddress ==
    ASSUME NEW v \in ViewRecords, NEW a \in Nat
    PROVE  Kept(v, addr0_save_change(v, a), a)
<1> DEFINE q == v.kind = "memory"
           w == [v EXCEPT !.saved = a, !.need_save = q]
<1>1. CASE v.need_save
  <2>1. addr0_save_change(v, a) = w
    BY <1>1 DEF addr0_save_change
  <2>2. q \in BOOLEAN
    OBVIOUS
  <2> HIDE DEF q
  <2>3. w \in ViewRecords
    BY <2>2 DEF ViewRecords
  <2>4. KeepsCells(v, w) /\ KeepsUser(v, w) /\ KeepsPaint(v, w) /\ KeepsPlace(v, w)
    BY DEF ViewRecords, KeepsCells, KeepsUser, KeepsPaint, KeepsPlace
  <2>5. w.saved = a /\ w.need_save = q
    BY DEF ViewRecords
  <2> HIDE DEF w
  <2>6. v.kind = "memory" => w.need_save
    BY <2>5 DEF q
  <2> QED
    BY <2>1, <2>3, <2>4, <2>5, <2>6 DEF Kept
<1>2. CASE ~v.need_save
  <2>1. addr0_save_change(v, a) = v
    BY <1>2 DEF addr0_save_change
  <2> QED
    BY <1>2, <2>1 DEF Kept, KeepsCells, KeepsUser, KeepsPaint, KeepsPlace
<1> QED
  BY <1>1, <1>2

-----------------------------------------------------------------------------
(* The memory and the program view: going to an address.                     *)

\* w is v gone to address a
WentTo(v, w, a) ==
    /\ GoodView(w)
    /\ KeepsCells(v, w) /\ KeepsUser(v, w)
    /\ w.data = v.data /\ w.stage_addr = v.stage_addr /\ Painted(w)
    /\ w.cur \in 0 .. RowCount - 1 /\ InRow(w, w.cur, a)

\* the same rows under another offset
OffsetMoved(v, w) ==
    /\ w \in ViewRecords
    /\ KeepsCells(v, w) /\ KeepsSaved(v, w) /\ KeepsUser(v, w) /\ KeepsPaint(v, w)
    /\ w.top = v.top /\ w.cur = v.cur /\ w.queued = v.queued

LEMMA RowsMoved ==
    ASSUME NEW v \in ViewRecords, RowsOk(v), NEW a \in Nat
    PROVE  LET w == adjustRowAndOffset(v, a)
           IN  /\ OffsetMoved(v, w) /\ RowsOk(w)
               /\ AddressPlaced(v, w, AdjustedRow(w, a), a)
<1> DEFINE w == adjustRowAndOffset(v, a)
           o == w.offset
<1>1. w = [v EXCEPT !.offset = o]
  BY RowsAdjusted
<1>2. AddressPlaced(v, w, AdjustedRow(w, a), a)
  BY RowsAdjusted
<1>3. o \in Nat /\ w.offset % v.cell = 0
  BY <1>2 DEF AddressPlaced
<1> HIDE DEF o, w
<1>4. w \in ViewRecords
  BY <1>1, <1>3 DEF ViewRecords
<1>5. /\ KeepsCells(v, w) /\ KeepsSaved(v, w) /\ KeepsUser(v, w) /\ KeepsPaint(v, w)
      /\ w.top = v.top /\ w.cur = v.cur /\ w.queued = v.queued
  BY <1>1 DEF ViewRecords, KeepsCells, KeepsSaved, KeepsUser, KeepsPaint
<1>6. RowsOk(w)
  BY <1>3, <1>5 DEF RowsOk, KeepsCells, KeepsSaved
<1> QED
  BY <1>2, <1>4, <1>5, <1>6 DEF w, OffsetMoved

LEMMA PositionedAtTop ==
    ASSUME NEW v \in ViewRecords, RowsOk(v), NEW r \in Nat, r <= RowCount \div 2
    PROVE  /\ PositionAtTop(v, r) = ScrolledTo(v, r)
           /\ Scrolled(v, ScrolledTo(v, r), r)
           /\ RowsOk(ScrolledTo(v, r))
<1>1. ~(r > RowCount - Height) /\ r <= RowCount - Height
  BY ViewBounds
<1>2. PositionAtTop(v, r) = ScrolledTo(v, r)
  BY <1>1 DEF PositionAtTop
<1>3. Scrolled(v, ScrolledTo(v, r), r)
  BY ScrollTo
<1>4. RowsOk(ScrolledTo(v, r))
  BY <1>1, <1>3, RowsStayOk DEF Scrolled, RowsOk, KeepsSaved
<1> QED
  BY <1>2, <1>3, <1>4

\* The address of the row of a cell leads back to it.
LEMMA CellLeadsBack ==
    ASSUME NEW v \in ViewRecords, RowsOk(v), NEW a \in Nat, NEW t \in Nat,
           t = CellStart(v, a) \/ (t = 0 /\ a < RowBytes(v))
    PROVE  LeadsTo(a, t)
<1>1. v.cell \in {1, 2, 4} /\ v.cells \in Nat \ {0} /\ v.cells \in CellCounts \cup {1}
  BY DEF ViewRecords, RowsOk
<1>2. CASE t = CellStart(v, a)
  BY <1>1, <1>2, CellDivision DEF CellStart, LeadsTo
<1>3. CASE t = 0 /\ a < RowBytes(v)
  <2>1. RowBytes(v) <= 4 * v.cells
    <3>1. RowBytes(v) = v.cells * v.cell
      BY DEF RowBytes
    <3>2. CASE v.cell = 1
      BY <1>1, <3>1, <3>2
    <3>3. CASE v.cell = 2
      BY <1>1, <3>1, <3>3
    <3>4. CASE v.cell = 4
      BY <1>1, <3>1, <3>4
    <3> QED
      BY <1>1, <3>2, <3>3, <3>4
  <2>2. a < 4 * v.cells
    BY <1>1, <1>3, <2>1, RowBytesOk
  <2>3. PICK cells \in CellCounts : cells \in Nat \ {0}
    BY ViewAssumption DEF ViewAssumption
  <2>4. \E n \in CellCounts : a < 4 * n
    <3>1. CASE v.cells \in CellCounts
      BY <2>2, <3>1
    <3>2. CASE v.cells = 1
      BY <2>2, <2>3, <3>2
    <3> QED
      BY <1>1, <3>1, <3>2
  <2> QED
    BY <1>3, <2>4 DEF LeadsTo
<1> QED
  BY <1>2, <1>3

LEMMA GoToAddressPriv ==
    ASSUME NEW v \in ViewRecords, RowsOk(v), NEW a \in Nat
    PROVE  WentTo(v, go_to_address_priv(v, a), a)
<1> DEFINE w == adjustRowAndOffset(v, a)
           r == AdjustedRow(w, a)
           p == ScrolledTo(w, r)
           c == setCurrentIndex(p, r)
           s == addr0_save_change(c, a)
           u == update_all(s)
<1>1. OffsetMoved(v, w) /\ RowsOk(w) /\ AddressPlaced(v, w, r, a)
  BY RowsMoved
<1>2. r \in Nat /\ r <= RowCount \div 2 /\ w \in ViewRecords
  BY <1>1 DEF AddressPlaced, OffsetMoved
<1> HIDE DEF w, r
<1>3. PositionAtTop(w, r) = p /\ Scrolled(w, p, r) /\ RowsOk(p)
  BY <1>1, <1>2, PositionedAtTop
<1>4. p \in ViewRecords
  BY <1>3 DEF Scrolled
<1>5. go_to_address_priv(v, a) = u
  BY <1>3 DEF go_to_address_priv, w, r
<1> HIDE DEF p
<1>6. CursorMoved(p, c, r)
  BY <1>2, <1>3, <1>4, SetCurrentIndex
<1> HIDE DEF c
<1>7. c \in ViewRecords
  BY <1>6 DEF CursorMoved
<1>8. RowsOk(c)
  BY <1>2, <1>3, <1>4, <1>6, CursorMovedKeeps
<1>9. Kept(c, s, a)
  BY <1>7, SaveAddress
<1> HIDE DEF s
<1>10. s \in ViewRecords
  BY <1>9 DEF Kept
<1>11. Updated(s, u) /\ PaintOk(u)
  BY <1>10, UpdateAll
<1> HIDE DEF u
<1>12. KeepsCells(v, u) /\ KeepsUser(v, u) /\ u.data = v.data /\ u.stage_addr = v.stage_addr
  <2>1. KeepsCells(v, p) /\ KeepsUser(v, p) /\ p.data = v.data /\ p.stage_addr = v.stage_addr
    BY <1>1, <1>3 DEF OffsetMoved, Scrolled, KeepsCells, KeepsUser, KeepsPaint
  <2>2. KeepsCells(v, c) /\ KeepsUser(v, c) /\ c.data = v.data /\ c.stage_addr = v.stage_addr
    BY <1>6, <2>1 DEF CursorMoved, KeepsCells, KeepsUser, KeepsPaint
  <2>3. KeepsCells(v, s) /\ KeepsUser(v, s) /\ s.data = v.data /\ s.stage_addr = v.stage_addr
    BY <1>9, <2>2 DEF Kept, KeepsCells, KeepsUser, KeepsPaint
  <2> QED
    BY <1>11, <2>3 DEF Updated, KeepsCells, KeepsUser
<1>13. u.offset = w.offset /\ u.top = r /\ u.cur = r /\ r \in 0 .. RowCount - 1
  <2>1. p.offset = w.offset /\ p.top = r
    BY <1>3 DEF Scrolled
  <2>2. r \in 0 .. RowCount - 1 /\ r \in p.top .. p.top + Height - 1
    BY <1>2, <2>1, ViewBounds
  <2>3. c.offset = w.offset /\ c.top = r /\ c.cur = r
    BY <1>6, <2>1, <2>2 DEF CursorMoved
  <2> QED
    BY <1>9, <1>11, <2>2, <2>3 DEF Kept, Updated, KeepsPlace
<1>14. RowsOk(s)
  <2>1. s.kind = "memory" => s.need_save
    BY <1>8, <1>9 DEF RowsOk, Kept, KeepsCells
  <2> QED
    BY <1>8, <1>9, <2>1 DEF RowsOk, Kept, KeepsCells, KeepsPlace
<1>15. RowsOk(u)
  BY <1>11, <1>14 DEF RowsOk, Updated, KeepsCells, KeepsPlace, KeepsSaved
<1>16. RowBytes(u) = RowBytes(w) /\ get_row_address(u, r) = get_row_address(w, r)
  <2>1. KeepsCells(w, u)
    BY <1>1, <1>12 DEF OffsetMoved, KeepsCells
  <2> QED
    BY <1>13, <2>1 DEF KeepsCells, RowBytes, get_row_address
<1>17. InRow(u, u.cur, a)
  BY <1>1, <1>13, <1>16 DEF AddressPlaced, InRow
<1>18. Settled(u)
  <2>1. u.top = 0 => u.offset = 0
    BY <1>1, <1>13 DEF AddressPlaced
  <2>2. u.kind = "memory" => u.saved = a
    BY <1>8, <1>9, <1>11 DEF RowsOk, Kept, Updated, KeepsCells, KeepsSaved
  <2>3. u \in ViewRecords
    BY <1>11 DEF Updated
  <2>4. CellStart(u, a) = CellStart(v, a) /\ RowBytes(u) = RowBytes(v)
    BY <1>12 DEF KeepsCells, CellStart, RowBytes
  <2>5. get_row_address(u, u.top) \in Nat
    BY <1>2, <1>13, <1>15, <2>3, RowBytesOk
  <2>6. CASE r = 0
    <3>1. w.offset = 0 /\ CellStart(v, a) < RowBytes(v)
      BY <1>1, <2>6 DEF AddressPlaced
    <3>2. get_row_address(u, u.top) = 0
      BY <1>13, <1>15, <2>3, <2>6, <3>1, RowBytesOk DEF get_row_address
    <3>3. a < RowBytes(u)
      BY <1>13, <1>15, <1>17, <2>3, <2>6, <3>2, RowBytesOk DEF InRow
    <3> QED
      BY <1>15, <2>1, <2>2, <2>3, <3>2, <3>3, CellLeadsBack DEF Settled
  <2>7. CASE r # 0
    <3>1. get_row_address(u, u.top) = CellStart(u, a)
      BY <1>1, <1>13, <1>16, <2>4, <2>7 DEF AddressPlaced
    <3> QED
      BY <1>15, <2>1, <2>2, <2>3, <2>5, <3>1, CellLeadsBack DEF Settled
  <2> QED
    BY <2>6, <2>7
<1>19. GoodView(u)
  BY <1>11, <1>15, <1>18 DEF GoodView, Updated
<1> QED
  BY <1>5, <1>11, <1>12, <1>13, <1>17, <1>19 DEF WentTo, Updated

\* w is v with the cursor brought to address a
Focused(v, w, a) ==
    /\ GoodView(w)
    /\ KeepsCells(v, w) /\ KeepsUser(v, w)
    /\ w.data = v.data /\ w.stage_addr = v.stage_addr
    /\ Painted(w) \/ KeepsPaint(v, w)
    /\ CursorShows(w, a)

\* The row of an address that is not above the first one.
LEMMA RowFound ==
    ASSUME NEW v \in ViewRecords, RowsOk(v), NEW a \in Nat, v.offset <= a
    PROVE  /\ (a - v.offset) \div RowBytes(v) \in Nat
           /\ InRow(v, (a - v.offset) \div RowBytes(v), a)
           /\ \A k \in Nat : InRow(v, k, a) => (a - v.offset) \div RowBytes(v) = k
<1> DEFINE d == a - v.offset
           R == RowBytes(v)
<1>1. d \in Nat /\ a = v.offset + d /\ v.offset \in Nat
  BY DEF ViewRecords
<1>2. R \in Nat \ {0} /\ \A k \in Nat : (k * R) \in Nat
  BY RowBytesOk
<1>3. ASSUME NEW k \in Nat
      PROVE  InRow(v, k, a) <=> (k * R <= d /\ d < (k * R) + R)
  <2>1. get_row_address(v, k) = v.offset + (k * R)
    BY DEF get_row_address
  <2> HIDE DEF d, R
  <2>2. (k * R) \in Nat
    BY <1>2
  <2>3. RowBytes(v) = R
    BY DEF R
  <2> QED
    BY <1>1, <1>2, <2>1, <2>2, <2>3 DEF InRow
<1> HIDE DEF d
<1>4. d \div R \in Nat /\ (d \div R) * R <= d /\ d < ((d \div R) * R) + R
  BY <1>1, <1>2, RowDivision
<1>5. InRow(v, d \div R, a)
  BY <1>3, <1>4
<1>6. ASSUME NEW k \in Nat, InRow(v, k, a)
      PROVE  d \div R = k
  <2>1. k * R <= d /\ d < (k * R) + R
    BY <1>3, <1>6
  <2> HIDE DEF R
  <2> QED
    BY <1>1, <1>2, <2>1, RowUnique
<1> QED
  BY <1>4, <1>5, <1>6 DEF d

LEMMA FocusAddress ==
    ASSUME NEW v, GoodView(v), NEW a \in Nat
    PROVE  Focused(v, focus_address(v, a), a)
<1>1. v \in ViewRecords /\ RowsOk(v) /\ v.offset \in Nat
  BY DEF GoodView, ViewRecords
<1>2. KeepsCells(v, v) /\ KeepsUser(v, v) /\ KeepsPaint(v, v)
  BY DEF KeepsCells, KeepsUser, KeepsPaint
<1>3. CASE get_row_for_address(v, a).found
  <2> DEFINE row == (a - v.offset) \div RowBytes(v)
             w == setCurrentIndex(v, row)
  <2>1. v.offset <= a /\ row <= RowCount /\ get_row_for_address(v, a) = [row |-> row, found |-> TRUE]
    <3>1. ~(a < v.offset)
      BY <1>3 DEF get_row_for_address
    <3>2. v.offset <= a
      BY <1>1, <3>1
    <3>3. row \in Nat
      BY <1>1, <3>2, RowFound
    <3>4. ~(row > RowCount)
      BY <1>3, <3>1 DEF get_row_for_address
    <3> QED
      BY <3>1, <3>2, <3>3, <3>4, ViewBounds DEF get_row_for_address
  <2>2. row \in Nat /\ InRow(v, row, a)
    BY <1>1, <2>1, RowFound
  <2>3. focus_address(v, a) = w
    BY <1>3, <2>1 DEF focus_address
  <2>4. CursorMoved(v, w, row)
    <3> HIDE DEF row
    <3> QED
      BY <1>1, <2>2, SetCurrentIndex
  <2>5. row = (a - v.offset) \div RowBytes(v)
    OBVIOUS
  <2> HIDE DEF row, w
  <2>6. GoodView(w)
    BY <1>1, <2>2, <2>4, CursorMovedKeeps
  <2>7. w.offset = v.offset /\ KeepsCells(v, w) /\ KeepsPaint(v, w) /\ KeepsUser(v, w)
    BY <2>4 DEF CursorMoved
  <2>8. RowBytes(w) = RowBytes(v) /\ \A k : get_row_address(w, k) = get_row_address(v, k)
    BY <2>7 DEF KeepsCells, RowBytes, get_row_address
  <2>9. CursorShows(w, a)
    <3>1. CASE row \in 0 .. RowCount - 1
      <4>1. w.cur = row /\ row # NoAddr
        BY <2>4, <3>1 DEF CursorMoved, NoAddr
      <4> QED
        BY <2>2, <2>8, <4>1 DEF CursorShows, InRow
    <3>2. CASE row = RowCount
      <4>1. w.cur = NoAddr
        BY <2>4, <3>2, ViewBounds DEF CursorMoved
      <4> QED
        BY <2>5, <2>7, <2>8, <3>2, <4>1 DEF CursorShows
    <3> QED
      BY <2>1, <2>2, <3>1, <3>2, ViewBounds
  <2> QED
    BY <2>3, <2>6, <2>7, <2>9 DEF Focused, KeepsPaint
<1>4. CASE ~get_row_for_address(v, a).found
  <2> DEFINE w == go_to_address_priv(v, a)
             row == (a - w.offset) \div RowBytes(w)
  <2>1. WentTo(v, w, a)
    BY <1>1, GoToAddressPriv
  <2>2. focus_address(v, a) = IF get_row_for_address(w, a).found
                              THEN setCurrentIndex(w, get_row_for_address(w, a).row) ELSE w
    BY <1>4 DEF focus_address
  <2> HIDE DEF w
  <2>3. w \in ViewRecords /\ RowsOk(w) /\ w.offset \in Nat
    BY <2>1 DEF WentTo, GoodView, ViewRecords
  <2>4. w.cur \in Nat /\ w.cur \in 0 .. RowCount - 1 /\ InRow(w, w.cur, a)
    BY <2>1, ViewBounds DEF WentTo
  <2>5. w.offset <= a
    BY <2>3, <2>4, RowBytesOk DEF InRow, get_row_address
  <2>6. row = w.cur
    BY <2>3, <2>4, <2>5, RowFound
  <2>7. get_row_for_address(w, a).row = w.cur
    <3>1. ~(a < w.offset) /\ ~(row > RowCount)
      BY <2>3, <2>4, <2>5, <2>6, ViewBounds
    <3> QED
      BY <2>6, <3>1 DEF get_row_for_address
  <2>8. setCurrentIndex(w, w.cur) = w
    BY <2>4 DEF setCurrentIndex
  <2>9. focus_address(v, a) = w
    BY <2>2, <2>7, <2>8
  <2> QED
    BY <2>1, <2>4, <2>9 DEF Focused, WentTo, CursorShows, NoAddr
<1> QED
  BY <1>3, <1>4

-----------------------------------------------------------------------------
(* The memory and the program view: the queued look at the scroll position.  *)

LEMMA CursorShowsStays ==
    ASSUME NEW v, NEW w, NEW a, CursorShows(v, a), KeepsCells(v, w), w.offset = v.offset,
           w.cur = v.cur, w.queued => v.queued
    PROVE  CursorShows(w, a)
<1>1. RowBytes(w) = RowBytes(v) /\ \A k : get_row_address(w, k) = get_row_address(v, k)
  BY DEF KeepsCells, RowBytes, get_row_address
<1>2. \A k : InRow(w, k, a) <=> InRow(v, k, a)
  BY <1>1 DEF InRow
<1> QED
  BY <1>1, <1>2 DEF CursorShows, KeepsCells

\* A view that rests is sound, whatever it kept before.
LEMMA RestingView ==
    ASSUME NEW v \in ViewRecords, RowsOk(v), PaintOk(v), CheckedOk(v), Rests(v),
           v.top = 0 /\ ~v.queued => v.offset = 0 \/ (v.kind = "memory" /\ v.offset = RowBytes(v)),
           v.cur # NoAddr => AskedOk(v)
    PROVE  ViewInv' /\ view'.moves = v.moves /\ view'.offset = v.offset /\ view'.cur = v.cur
           /\ KeepsCells(v, view')
<1> DEFINE t == get_row_address(v, v.top)
           w == addr0_save_change(v, t)
           asked == IF v.cur = NoAddr THEN NoAddr ELSE w.asked
           u == [w EXCEPT !.asked = asked]
<1>1. view' = u
  BY DEF Rests
<1>2. t \in Nat
  BY RowBytesOk DEF ViewRecords
<1> HIDE DEF t
<1>3. Kept(v, w, t)
  BY <1>2, SaveAddress
<1> HIDE DEF w
<1>4. w \in ViewRecords
  BY <1>3 DEF Kept
<1>5. asked \in Int
  BY <1>4 DEF ViewRecords, NoAddr
<1>6. asked = IF v.cur = NoAddr THEN NoAddr ELSE v.asked
  BY <1>3 DEF Kept, KeepsUser
<1> HIDE DEF asked
<1>7. u \in ViewRecords /\ u.asked = asked
  BY <1>4, <1>5 DEF ViewRecords
<1>8. /\ KeepsCells(w, u) /\ KeepsSaved(w, u) /\ KeepsPaint(w, u) /\ KeepsPlace(w, u)
      /\ u.moves = w.moves /\ u.checked = w.checked
  BY <1>4 DEF ViewRecords, KeepsCells, KeepsSaved, KeepsPaint, KeepsPlace
<1> HIDE DEF u
<1>9. /\ KeepsCells(v, u) /\ KeepsPaint(v, u) /\ KeepsPlace(v, u)
      /\ u.moves = v.moves /\ u.checked = v.checked
  BY <1>3, <1>8 DEF Kept, KeepsCells, KeepsUser, KeepsPaint, KeepsPlace
<1>10. RowsOk(u)
  <2>1. u.kind = "memory" => u.need_save
    BY <1>3, <1>8 DEF RowsOk, Kept, KeepsCells, KeepsSaved
  <2> QED
    BY <1>9, <2>1 DEF RowsOk, KeepsCells, KeepsPlace
<1>11. RowBytes(u) = RowBytes(v) /\ get_row_address(u, u.top) = t
  BY <1>9 DEF KeepsCells, KeepsPlace, RowBytes, get_row_address, t
<1>12. Settled(u)
  <2>1. u.kind = "memory" => u.saved = t
    BY <1>3, <1>8 DEF RowsOk, Kept, KeepsCells, KeepsSaved
  <2>2. LeadsTo(t, t)
    BY <1>2, CellDivision DEF LeadsTo
  <2> QED
    BY <1>9, <1>11, <2>1, <2>2 DEF Settled, KeepsCells, KeepsPlace
<1>13. PaintOk(u) /\ CheckedOk(u)
  BY <1>9 DEF PaintOk, CheckedOk, KeepsPaint
<1>14. AskedOk(u)
  <2>1. CASE v.cur = NoAddr
    BY <1>6, <1>7, <2>1 DEF AskedOk
  <2>2. CASE v.cur # NoAddr
    <3>1. u.asked = v.asked
      BY <1>6, <1>7, <2>2
    <3> QED
      BY <1>9, <2>2, <3>1, CursorShowsStays DEF AskedOk, KeepsPlace
  <2> QED
    BY <2>1, <2>2
<1>15. SoundView(u)
  BY <1>7, <1>10, <1>12, <1>13, <1>14 DEF SoundView, GoodView
<1> QED
  BY <1>1, <1>9, <1>15 DEF ViewInv, KeepsPlace

\* v is the view with the queued look taken
LEMMA LookTaken ==
    ASSUME ViewInv, view.queued, NEW v, v = [view EXCEPT !.queued = FALSE]
    PROVE  /\ v \in ViewRecords /\ RowsOk(v) /\ PaintOk(v) /\ CheckedOk(v)
           /\ ~v.queued /\ v.offset = view.offset /\ v.cur = view.cur /\ v.moves = view.moves
           /\ KeepsCells(view, v)
           /\ AskedOk(v)
           /\ v.cur # NoAddr /\ v.asked # NoAddr => v.asked \in Nat /\ InRow(v, v.cur, v.asked)
<1>1. view \in ViewRecords /\ RowsOk(view) /\ PaintOk(view) /\ CheckedOk(view) /\ AskedOk(view)
  BY DEF ViewInv, SoundView, GoodView
<1>2. v \in ViewRecords /\ ~v.queued
  BY <1>1 DEF ViewRecords
<1>3. /\ KeepsCells(view, v) /\ KeepsSaved(view, v) /\ KeepsUser(view, v) /\ KeepsPaint(view, v)
      /\ v.offset = view.offset /\ v.top = view.top /\ v.cur = view.cur
  BY <1>1 DEF ViewRecords, KeepsCells, KeepsSaved, KeepsUser, KeepsPaint
<1>4. RowsOk(v)
  BY <1>1, <1>3 DEF RowsOk, KeepsCells, KeepsSaved
<1>5. PaintOk(v) /\ CheckedOk(v)
  BY <1>1, <1>3 DEF PaintOk, CheckedOk, KeepsPaint, KeepsUser
<1>6. AskedOk(v)
  <2>1. v.asked = view.asked
    BY <1>3 DEF KeepsUser
  <2> QED
    BY <1>1, <1>2, <1>3, <2>1, CursorShowsStays DEF AskedOk
<1>7. v.moves = view.moves
  BY <1>3 DEF KeepsUser
<1>8. ASSUME v.cur # NoAddr, v.asked # NoAddr
      PROVE  v.asked \in Nat /\ InRow(v, v.cur, v.asked)
  <2>1. v.asked = view.asked /\ view.cur # NoAddr
    BY <1>3, <1>8 DEF KeepsUser
  <2>2. v.asked \in Nat /\ InRow(view, view.cur, v.asked)
    BY <1>1, <1>8, <2>1 DEF AskedOk, CursorShows
  <2> QED
    BY <1>3, <2>2 DEF InRow, get_row_address, RowBytes, KeepsCells
<1> QED
  BY <1>2, <1>3, <1>4, <1>5, <1>6, <1>7, <1>8

\* No row is left above the first one of a view whose top row stays.
LEMMA NothingAbove ==
    ASSUME NEW v \in ViewRecords, RowsOk(v), MoveTo(v) = {}, v.top = 0
    PROVE  v.offset = 0 \/ (v.kind = "memory" /\ v.offset = RowBytes(v))
<1> DEFINE R == RowBytes(v)
<1>1. R \in Nat \ {0} /\ v.offset \in Nat /\ v.kind \in {"memory", "program"}
  BY RowBytesOk DEF ViewRecords
<1>2. v.top < RowCount \div 8
  BY ViewBounds
<1>3. ~(v.offset < R /\ v.offset # 0)
  BY <1>2 DEF MoveTo
<1>4. ~RowsAbove(v)
  BY <1>2, <1>3 DEF MoveTo
<1>5. CASE v.kind = "memory"
  <2>1. ~(v.offset > R)
    BY <1>4, <1>5 DEF RowsAbove
  <2> HIDE DEF R
  <2>2. v.offset = 0 \/ v.offset = R
    BY <1>1, <1>3, <2>1
  <2> QED
    BY <1>5, <2>2 DEF R
<1>6. CASE v.kind = "program"
  <2>1. ~(v.offset >= R)
    BY <1>4, <1>6 DEF RowsAbove
  <2> HIDE DEF R
  <2> QED
    BY <1>1, <1>3, <2>1
<1> QED
  BY <1>1, <1>5, <1>6

\* The rows are moved to address 0, or to the one of the top row, which is not in the first.
LEMMA MovesTo ==
    ASSUME NEW v \in ViewRecords, RowsOk(v), NEW a \in MoveTo(v)
    PROVE  \/ a = 0 /\ v.top = 0 /\ v.offset < RowBytes(v) /\ v.offset # 0 /\ v.kind = "memory"
           \/ a = get_row_address(v, v.top) /\ a \in Nat /\ a >= RowBytes(v)
<1> DEFINE R == RowBytes(v)
           here == get_row_address(v, v.top)
<1>1. /\ R \in Nat \ {0} /\ v.offset \in Nat /\ v.top \in Nat /\ here \in Nat
      /\ v.top * R \in Nat /\ here = v.offset + (v.top * R)
  BY RowBytesOk DEF ViewRecords, get_row_address
<1>2. v.kind \in {"memory", "program"}
  BY DEF ViewRecords
<1>3. CASE v.top < RowCount \div 8 /\ v.top = 0 /\ v.offset < R /\ v.offset # 0
  <2>1. a = 0
    BY <1>3 DEF MoveTo
  <2>2. v.kind # "program"
    <3>1. SUFFICES ASSUME v.kind = "program" PROVE FALSE
      OBVIOUS
    <3>2. R = 4 /\ v.offset % 4 = 0
      BY <3>1, RowBytesOk DEF RowsOk
    <3>3. v.offset \in Nat /\ v.offset # 0 /\ v.offset < R
      BY <1>1, <1>3
    <3>4. v.offset < 4
      BY <3>2, <3>3
    <3> DEFINE o == v.offset
    <3>5. o \in Nat /\ o # 0 /\ o < 4 /\ o % 4 = 0
      BY <3>2, <3>3, <3>4
    <3> HIDE DEF o
    <3> QED
      BY <3>5
  <2> QED
    BY <1>2, <1>3, <2>1, <2>2
<1>4. CASE v.top < RowCount \div 8 /\ ~(v.top = 0 /\ v.offset < R /\ v.offset # 0)
  <2>1. a = here /\ RowsAbove(v)
    BY <1>4 DEF MoveTo
  <2>2. v.offset >= R
    <3> HIDE DEF R
    <3>1. v.kind = "memory" => v.offset > R
      BY <2>1 DEF RowsAbove, R
    <3>2. v.kind = "program" => v.offset >= R
      BY <2>1 DEF RowsAbove, R
    <3> QED
      BY <1>1, <1>2, <3>1, <3>2
  <2> HIDE DEF R, here
  <2>3. here >= R
    BY <1>1, <2>2
  <2> QED
    BY <1>1, <2>1, <2>3 DEF R, here
<1>5. CASE ~(v.top < RowCount \div 8)
  <2>1. a = here
    BY <1>5 DEF MoveTo
  <2>2. 1 <= v.top
    BY <1>1, <1>5, ViewBounds
  <2> HIDE DEF R, here
  <2>3. 1 * R <= v.top * R
    BY <1>1, <2>2, RowOrder
  <2>4. here >= R
    BY <1>1, <2>3
  <2> QED
    BY <1>1, <2>1, <2>4 DEF R, here
<1> QED
  BY <1>3, <1>4, <1>5

\* The rows begin at address 0: the cursor stays in its row.
LEMMA ZeroKeeps ==
    ASSUME NEW v \in ViewRecords, RowsOk(v), CheckedOk(v), AskedOk(v), ~v.queued,
           v.top = 0, v.offset < RowBytes(v), v.offset # 0, v.kind = "memory", MoveRows(v, 0)
    PROVE  /\ ViewInv'
           /\ view'.moves = v.moves /\ view'.cur = v.cur /\ view'.offset = 0
           /\ KeepsCells(v, view')
<1> DEFINE w == adjustRowAndOffset(v, 0)
           row == AdjustedRow(w, 0)
           p == PositionAtTop(w, row)
           there == IF v.cur = NoAddr THEN NoAddr ELSE v.cur + row - v.top
           c == setCurrentIndex(p, there)
           u == update_all(c)
<1>1. Rests(u)
  BY Zenon DEF MoveRows
<1>2. OffsetMoved(v, w) /\ RowsOk(w) /\ AddressPlaced(v, w, row, 0)
  BY RowsMoved
<1>3. v.cell \in {1, 2, 4} /\ v.cur \in Int /\ v.offset \in Nat
  BY DEF ViewRecords
<1> HIDE DEF w, row
<1>4. row = 0 /\ w.offset = 0
  <2>1. CellStart(v, 0) = 0
    BY <1>3, CellDivision DEF CellStart
  <2>2. row \in Nat /\ w.offset \in Nat /\ w \in ViewRecords
    BY <1>2 DEF AddressPlaced, OffsetMoved
  <2>3. SUFFICES ASSUME row # 0 PROVE FALSE
    BY <1>2 DEF AddressPlaced
  <2>4. w.offset + (row * RowBytes(w)) = 0
    BY <1>2, <2>1, <2>3 DEF AddressPlaced, get_row_address
  <2>5. RowBytes(w) \in Nat \ {0} /\ row * RowBytes(w) \in Nat
    BY <1>2, <2>2, RowBytesOk
  <2>6. 1 * RowBytes(w) <= row * RowBytes(w)
    BY <2>2, <2>3, <2>5, RowOrder
  <2> QED
    BY <2>2, <2>4, <2>5, <2>6
<1>5. w \in ViewRecords /\ 0 <= RowCount \div 2
  BY <1>2, ViewBounds DEF OffsetMoved
<1>6. p = ScrolledTo(w, 0) /\ Scrolled(w, p, 0) /\ RowsOk(p)
  BY <1>2, <1>4, <1>5, PositionedAtTop
<1> HIDE DEF p
<1>7. p \in ViewRecords /\ p.cur = v.cur /\ p.offset = 0 /\ p.top = 0 /\ ~p.queued
  BY <1>2, <1>4, <1>6 DEF Scrolled, OffsetMoved
<1>8. KeepsCells(v, p) /\ KeepsUser(v, p)
  BY <1>2, <1>6 DEF Scrolled, OffsetMoved, KeepsCells, KeepsUser
<1>9. there = v.cur
  BY <1>3, <1>4
<1> HIDE DEF there
<1>10. CursorMoved(p, c, v.cur)
  BY <1>3, <1>6, <1>7, <1>9, SetCurrentIndex
<1>11. c = p \/ (v.cur = NoAddr /\ c = [p EXCEPT !.cur = NoAddr])
  BY <1>7, <1>9 DEF setCurrentIndex, RowsOk
<1> HIDE DEF c
<1>12. c.queued = p.queued
  BY <1>7, <1>11 DEF ViewRecords
<1>13. c \in ViewRecords /\ c.cur = v.cur /\ c.offset = 0 /\ KeepsCells(v, c) /\ KeepsUser(v, c)
  <2>1. c \in ViewRecords /\ c.offset = 0 /\ KeepsCells(v, c) /\ KeepsUser(v, c)
    BY <1>7, <1>8, <1>10 DEF CursorMoved, KeepsCells, KeepsUser
  <2>2. v.cur = NoAddr \/ v.cur \in 0 .. RowCount - 1
    BY DEF RowsOk
  <2>3. c.cur = v.cur
    BY <1>10, <2>2 DEF CursorMoved, NoAddr
  <2> QED
    BY <2>1, <2>3
<1>14. RowsOk(c)
  BY <1>3, <1>6, <1>7, <1>10, CursorMovedKeeps
<1>15. Updated(c, u) /\ PaintOk(u)
  BY <1>13, UpdateAll
<1> HIDE DEF u
<1>16. /\ u \in ViewRecords /\ u.offset = 0 /\ u.cur = v.cur /\ ~u.queued
       /\ KeepsCells(v, u) /\ KeepsUser(v, u)
  BY <1>7, <1>12, <1>13, <1>15 DEF Updated, KeepsPlace, KeepsCells, KeepsUser
<1>17. RowsOk(u) /\ CheckedOk(u)
  BY <1>14, <1>15 DEF RowsOk, Updated, KeepsCells, KeepsSaved, KeepsPlace, CheckedOk, Painted
<1>18. u.cur # NoAddr => AskedOk(u)
  <2>1. SUFFICES ASSUME u.cur # NoAddr, u.asked # NoAddr
                 PROVE  u.asked \in Nat /\ CursorShows(u, u.asked)
    BY DEF AskedOk
  <2> DEFINE a == u.asked
  <2>2. a = v.asked /\ a \in Nat /\ v.cur # NoAddr /\ CursorShows(v, a)
    BY <1>16, <2>1 DEF AskedOk, KeepsUser
  <2> HIDE DEF a
  <2>3. InRow(v, v.cur, a)
    BY <1>3, <2>2 DEF CursorShows
  <2> DEFINE R == RowBytes(v)
             n == v.cur
  <2>4. n \in Nat /\ R \in Nat \ {0}
    BY <2>2, RowBytesOk, ViewBounds DEF RowsOk
  <2>5. v.offset + (n * R) <= a /\ a < v.offset + (n * R) + R
    BY <2>3 DEF InRow, get_row_address
  <2>6. RowBytes(u) = R /\ u.cur = n
    BY <1>16 DEF KeepsCells, RowBytes
  <2> HIDE DEF R, n
  <2>7. get_row_address(u, n) = n * R /\ get_row_address(u, n + 1) = (n * R) + R
    <3>1. (n + 1) * R = (n * R) + R /\ n * R \in Nat
      BY <2>4
    <3> QED
      BY <1>16, <2>4, <2>6, <3>1 DEF get_row_address
  <2>8. n * R \in Nat
    BY <2>4
  <2>9. v.offset < R
    BY DEF R
  <2>10. CASE a < (n * R) + R
    <3>1. InRow(u, n, a)
      BY <1>3, <2>2, <2>4, <2>5, <2>6, <2>7, <2>8, <2>10 DEF InRow
    <3> QED
      BY <2>1, <2>2, <2>6, <3>1 DEF CursorShows, a
  <2>11. CASE ~(a < (n * R) + R)
    <3>1. InRow(u, n + 1, a)
      BY <1>3, <2>2, <2>4, <2>5, <2>6, <2>7, <2>8, <2>9, <2>11 DEF InRow
    <3>2. u.kind = "memory"
      BY <1>16 DEF KeepsCells
    <3> QED
      BY <1>16, <2>1, <2>2, <2>6, <3>1, <3>2 DEF CursorShows, a
  <2> QED
    BY <2>10, <2>11
<1>19. /\ ViewInv' /\ view'.moves = u.moves /\ view'.offset = u.offset /\ view'.cur = u.cur
       /\ KeepsCells(u, view')
  BY <1>1, <1>15, <1>16, <1>17, <1>18, RestingView
<1> QED
  BY <1>16, <1>19 DEF KeepsCells, KeepsUser

\* The rows are moved by whole rows: the cursor keeps its address or leaves the rows.
LEMMA WholeRowsMoved ==
    ASSUME NEW o \in Nat, NEW p \in Nat, NEW r \in Nat, NEW t \in Nat, NEW n \in Nat,
           NEW b \in Nat \ {0}, p + (r * b) = o + (t * b)
    PROVE  p + ((n + r - t) * b) = o + (n * b)
<1>1. (n + r - t) * b = (n * b) + (r * b) - (t * b)
  OBVIOUS
<1>2. n * b \in Nat /\ r * b \in Nat /\ t * b \in Nat
  OBVIOUS
<1> QED
  BY <1>1, <1>2

LEMMA HereKeeps ==
    ASSUME NEW v \in ViewRecords, RowsOk(v), CheckedOk(v), ~v.queued,
           v.cur # NoAddr /\ v.asked # NoAddr => v.asked \in Nat /\ InRow(v, v.cur, v.asked),
           NEW a \in Nat, a = get_row_address(v, v.top), a >= RowBytes(v), MoveRows(v, a)
    PROVE  /\ ViewInv'
           /\ view'.moves = v.moves /\ KeepsCells(v, view')
           /\ v.cur # NoAddr /\ view'.cur # NoAddr =>
                get_row_address(view', view'.cur) = get_row_address(v, v.cur)
<1> DEFINE w == adjustRowAndOffset(v, a)
           row == AdjustedRow(w, a)
           p == PositionAtTop(w, row)
           there == IF v.cur = NoAddr THEN NoAddr ELSE v.cur + row - v.top
           c == setCurrentIndex(p, there)
           u == update_all(c)
           R == RowBytes(v)
<1>1. Rests(u)
  BY Zenon DEF MoveRows
<1>2. OffsetMoved(v, w) /\ RowsOk(w) /\ AddressPlaced(v, w, row, a)
  BY RowsMoved
<1>3. v.cell \in {1, 2, 4} /\ v.cur \in Int /\ v.offset \in Nat /\ v.top \in Nat
  BY DEF ViewRecords
<1>4. R \in Nat \ {0} /\ a % v.cell = 0
  BY <1>3, RowBytesOk
<1> HIDE DEF w, row
<1>5. row \in Nat /\ row # 0 /\ row <= RowCount \div 2 /\ w.offset \in Nat
  <2>1. CellStart(v, a) = a
    BY <1>3, <1>4, CellDivision DEF CellStart
  <2> QED
    BY <1>2, <1>4, <2>1 DEF AddressPlaced
<1>6. w.offset + (row * R) = v.offset + (v.top * R)
  <2>1. CellStart(v, a) = a
    BY <1>3, <1>4, CellDivision DEF CellStart
  <2>2. get_row_address(w, row) = a
    BY <1>2, <1>5, <2>1 DEF AddressPlaced
  <2>3. RowBytes(w) = R
    BY <1>2 DEF OffsetMoved, KeepsCells, RowBytes
  <2>4. get_row_address(w, row) = w.offset + (row * R)
    BY <2>3 DEF get_row_address
  <2>5. get_row_address(v, v.top) = v.offset + (v.top * R)
    BY DEF get_row_address
  <2> HIDE DEF R
  <2> QED
    BY <2>2, <2>4, <2>5
<1>7. p = ScrolledTo(w, row) /\ Scrolled(w, p, row) /\ RowsOk(p)
  BY <1>2, <1>5, PositionedAtTop DEF OffsetMoved
<1> HIDE DEF p
<1>8. /\ p \in ViewRecords /\ p.offset = w.offset /\ p.top = row
      /\ KeepsCells(v, p) /\ KeepsUser(v, p)
  BY <1>2, <1>7 DEF Scrolled, OffsetMoved, KeepsCells, KeepsUser
<1>9. there \in Int
  BY <1>3, <1>5 DEF NoAddr
<1>10. v.cur # NoAddr => v.cur \in Nat /\ there = v.cur + row - v.top
  BY ViewBounds DEF RowsOk
<1>11. v.cur = NoAddr => there = NoAddr
  OBVIOUS
<1> HIDE DEF there
<1>12. CursorMoved(p, c, there)
  BY <1>7, <1>8, <1>9, SetCurrentIndex
<1> HIDE DEF c
<1>13. c \in ViewRecords /\ c.offset = w.offset /\ KeepsCells(v, c) /\ KeepsUser(v, c)
  BY <1>8, <1>12 DEF CursorMoved, KeepsCells, KeepsUser
<1>14. RowsOk(c)
  BY <1>7, <1>8, <1>9, <1>12, CursorMovedKeeps
<1>15. c.cur = NoAddr \/ (c.cur = there /\ there \in Nat)
  BY <1>12, ViewBounds DEF CursorMoved
<1>16. ~c.queued => c.top # 0
  BY <1>5, <1>8, <1>12 DEF CursorMoved
<1>17. Updated(c, u) /\ PaintOk(u)
  BY <1>13, UpdateAll
<1> HIDE DEF u
<1>18. /\ u \in ViewRecords /\ u.offset = w.offset /\ u.cur = c.cur
       /\ KeepsCells(v, u) /\ KeepsUser(v, u) /\ (~u.queued => u.top # 0)
  BY <1>13, <1>16, <1>17 DEF Updated, KeepsPlace, KeepsCells, KeepsUser
<1>19. RowsOk(u) /\ CheckedOk(u)
  BY <1>14, <1>17 DEF RowsOk, Updated, KeepsCells, KeepsSaved, KeepsPlace, CheckedOk, Painted
<1>20. RowBytes(u) = R
  BY <1>18 DEF KeepsCells, RowBytes
<1>21. ASSUME u.cur # NoAddr
       PROVE  v.cur # NoAddr /\ get_row_address(u, u.cur) = get_row_address(v, v.cur)
  <2>1. u.cur = there /\ there \in Nat
    BY <1>15, <1>18, <1>21
  <2>2. v.cur # NoAddr
    BY <1>11, <2>1 DEF NoAddr
  <2> DEFINE n == v.cur
             t == v.top
             o == v.offset
             x == w.offset
  <2>3. n \in Nat /\ there = n + row - t
    BY <1>10, <2>2
  <2>4. t \in Nat /\ o \in Nat /\ x \in Nat /\ x + (row * R) = o + (t * R)
    BY <1>3, <1>5, <1>6
  <2>5. get_row_address(u, u.cur) = x + (there * R)
    BY <1>18, <1>20, <2>1 DEF get_row_address
  <2>6. get_row_address(v, v.cur) = o + (n * R)
    BY DEF get_row_address
  <2> HIDE DEF n, t, o, x, R
  <2>7. x + ((n + row - t) * R) = o + (n * R)
    BY <1>4, <1>5, <2>3, <2>4, WholeRowsMoved
  <2> QED
    BY <2>2, <2>3, <2>5, <2>6, <2>7
<1>22. u.cur # NoAddr => AskedOk(u)
  <2>1. SUFFICES ASSUME u.cur # NoAddr, u.asked # NoAddr
                 PROVE  u.asked \in Nat /\ CursorShows(u, u.asked)
    BY DEF AskedOk
  <2>2. u.asked = v.asked
    BY <1>18 DEF KeepsUser
  <2>3. u.asked \in Nat /\ InRow(v, v.cur, u.asked)
    BY <1>21, <2>1, <2>2
  <2>4. InRow(u, u.cur, u.asked)
    BY <1>20, <1>21, <2>1, <2>3 DEF InRow
  <2> QED
    BY <2>1, <2>3, <2>4 DEF CursorShows
<1>23. /\ ViewInv' /\ view'.moves = u.moves /\ view'.offset = u.offset /\ view'.cur = u.cur
       /\ KeepsCells(u, view')
  BY <1>1, <1>17, <1>18, <1>19, <1>22, RestingView
<1>24. get_row_address(view', view'.cur) = get_row_address(u, u.cur)
  BY <1>23 DEF get_row_address, RowBytes, KeepsCells
<1> QED
  BY <1>18, <1>21, <1>23, <1>24 DEF KeepsCells, KeepsUser

\* Scrolling takes the cursor to its address, or to one less than a row away.
CursorStays ==
    view'.moves = view.moves /\ view.cur # NoAddr /\ view'.cur # NoAddr =>
      LET d == get_row_address(view', view'.cur) - get_row_address(view, view.cur)
      IN  d < RowBytes(view) /\ -d < RowBytes(view)

LEMMA AdjustKeeps ==
    ASSUME ViewInv, adjust_scroll_pos_process
    PROVE  ViewInv' /\ CursorStays
<1> DEFINE v == [view EXCEPT !.queued = FALSE]
<1>1. view.queued /\ ((MoveTo(v) = {} /\ Rests(v)) \/ \E a \in MoveTo(v) : MoveRows(v, a))
  BY Zenon DEF adjust_scroll_pos_process
<1>2. /\ v \in ViewRecords /\ RowsOk(v) /\ PaintOk(v) /\ CheckedOk(v)
      /\ ~v.queued /\ v.offset = view.offset /\ v.cur = view.cur /\ v.moves = view.moves
      /\ KeepsCells(view, v)
      /\ AskedOk(v)
      /\ v.cur # NoAddr /\ v.asked # NoAddr => v.asked \in Nat /\ InRow(v, v.cur, v.asked)
  BY <1>1, LookTaken
<1> HIDE DEF v
<1> DEFINE R == RowBytes(view)
           n == view.cur
           o == view.offset
<1>3. R \in Nat \ {0} /\ o \in Nat /\ RowBytes(v) = R
  BY <1>2, RowBytesOk DEF ViewRecords, KeepsCells, RowBytes
<1>4. n # NoAddr => n \in Nat /\ n * R \in Nat
  BY <1>2, <1>3, ViewBounds DEF RowsOk
<1>5. get_row_address(view, view.cur) = o + (n * R)
  BY DEF get_row_address
<1>6. CASE MoveTo(v) = {} /\ Rests(v)
  <2>1. v.top = 0 => v.offset = 0 \/ (v.kind = "memory" /\ v.offset = RowBytes(v))
    BY <1>2, <1>6, NothingAbove
  <2>2. ViewInv' /\ view'.offset = v.offset /\ view'.cur = v.cur /\ KeepsCells(v, view')
    BY <1>2, <1>6, <2>1, RestingView
  <2>3. get_row_address(view', view'.cur) = o + (n * R)
    BY <1>2, <1>3, <2>2 DEF get_row_address, RowBytes, KeepsCells
  <2> HIDE DEF R, n, o
  <2>4. CursorStays
    BY <1>3, <1>4, <1>5, <2>3 DEF CursorStays, R, n
  <2> QED
    BY <2>2, <2>4
<1>7. CASE MoveRows(v, 0) /\ v.top = 0 /\ v.offset < RowBytes(v) /\ v.offset # 0 /\ v.kind = "memory"
  <2>1. /\ ViewInv' /\ view'.cur = v.cur /\ view'.offset = 0 /\ KeepsCells(v, view')
    BY <1>2, <1>7, ZeroKeeps
  <2>2. view'.cur = n /\ o < R
    BY <1>2, <1>3, <1>7, <2>1
  <2>3. get_row_address(view', view'.cur) = 0 + (n * R)
    BY <1>2, <1>3, <2>1, <2>2 DEF get_row_address, RowBytes, KeepsCells
  <2>4. RowBytes(view) = R
    OBVIOUS
  <2> HIDE DEF R, n, o
  <2>5. CursorStays
    <3>1. SUFFICES ASSUME n # NoAddr
                   PROVE  LET d == get_row_address(view', view'.cur) - get_row_address(view, view.cur)
                          IN  d < RowBytes(view) /\ -d < RowBytes(view)
      BY DEF CursorStays, n
    <3> QED
      BY <1>3, <1>4, <1>5, <2>2, <2>3, <2>4, <3>1
  <2> QED
    BY <2>1, <2>5
<1>8. ASSUME NEW a \in Nat, a = get_row_address(v, v.top), a >= RowBytes(v), MoveRows(v, a)
      PROVE  ViewInv' /\ CursorStays
  <2>1. /\ ViewInv' /\ KeepsCells(v, view')
        /\ v.cur # NoAddr /\ view'.cur # NoAddr =>
             get_row_address(view', view'.cur) = get_row_address(v, v.cur)
    BY <1>2, <1>8, HereKeeps
  <2>2. get_row_address(v, v.cur) = o + (n * R)
    BY <1>2, <1>3 DEF get_row_address
  <2>3. RowBytes(view) = R
    OBVIOUS
  <2>4. v.cur = n
    BY <1>2
  <2> HIDE DEF R, o
  <2>5. CursorStays
    <3>1. SUFFICES ASSUME n # NoAddr, view'.cur # NoAddr
                   PROVE  LET d == get_row_address(view', view'.cur) - get_row_address(view, view.cur)
                          IN  d < RowBytes(view) /\ -d < RowBytes(view)
      BY DEF CursorStays
    <3> HIDE DEF n
    <3>2. get_row_address(view', view'.cur) = o + (n * R)
      BY <2>1, <2>2, <2>4, <3>1
    <3> QED
      BY <1>3, <1>4, <1>5, <2>3, <3>1, <3>2
  <2> QED
    BY <2>1, <2>5
<1>9. ASSUME NEW a \in MoveTo(v), MoveRows(v, a)
      PROVE  ViewInv' /\ CursorStays
  <2>1. \/ a = 0 /\ v.top = 0 /\ v.offset < RowBytes(v) /\ v.offset # 0 /\ v.kind = "memory"
        \/ a = get_row_address(v, v.top) /\ a \in Nat /\ a >= RowBytes(v)
    BY <1>2, MovesTo
  <2> QED
    BY <1>7, <1>8, <1>9, <2>1
<1> QED
  BY <1>1, <1>6, <1>9

-----------------------------------------------------------------------------
(* The memory and the program view: the moves of the user and the machine.   *)

LEMMA MovedView ==
    ASSUME NEW v, GoodView(v), NEW asked, NEW checked \in BOOLEAN, Move(v, asked, checked),
           view.moves \in Nat,
           asked = NoAddr \/ (asked \in Nat /\ CursorShows(v, asked)), checked => Painted(v)
    PROVE  ViewInv'
<1> DEFINE m == view.moves + 1
           u == [v EXCEPT !.moves = m, !.asked = asked, !.checked = checked]
<1>1. view' = u
  BY DEF Move
<1>2. v \in ViewRecords /\ m \in Nat /\ asked \in Int
  BY DEF GoodView, NoAddr
<1> HIDE DEF m
<1>3. u \in ViewRecords /\ u.asked = asked /\ u.checked = checked
  BY <1>2 DEF ViewRecords
<1>4. KeepsCells(v, u) /\ KeepsSaved(v, u) /\ KeepsPlace(v, u) /\ KeepsPaint(v, u)
  BY <1>2 DEF ViewRecords, KeepsCells, KeepsSaved, KeepsPlace, KeepsPaint
<1> HIDE DEF u
<1>5. PaintOk(u)
  BY <1>4 DEF GoodView, PaintOk, KeepsPaint
<1>6. GoodView(u)
  BY <1>3, <1>4, <1>5, GoodViewStays
<1>7. AskedOk(u)
  BY <1>3, <1>4, CursorShowsStays DEF AskedOk, KeepsPlace
<1>8. CheckedOk(u)
  BY <1>3, <1>4 DEF CheckedOk, Painted, KeepsPaint
<1> QED
  BY <1>1, <1>6, <1>7, <1>8 DEF ViewInv, SoundView

\* Every step of the user or the machine is counted.
LEMMA MovesCounted ==
    ASSUME NEW v \in ViewRecords, NEW asked, NEW checked, Move(v, asked, checked),
           view.moves \in Nat
    PROVE  view'.moves # view.moves
  BY DEF Move, ViewRecords

Ready == ViewInv /\ view \in ViewRecords /\ GoodView(view) /\ RowsOk(view) /\ view.moves \in Nat

LEMMA ViewReady ==
    ASSUME ViewInv
    PROVE  Ready
  BY DEF ViewInv, SoundView, GoodView, ViewRecords, Ready

LEMMA ScrollKeeps ==
    ASSUME Ready, Scroll
    PROVE  ViewInv' /\ CursorStays
<1>1. PICK t \in 0 .. RowCount - Height : t # view.top /\ Move(ScrolledTo(view, t), NoAddr, FALSE)
  BY DEF Scroll
<1> DEFINE w == ScrolledTo(view, t)
<1>2. Scrolled(view, w, t)
  BY ViewBounds, ScrollTo DEF Ready
<1>3. Move(w, NoAddr, FALSE)
  BY <1>1
<1> HIDE DEF w
<1>4. w.queued /\ w \in ViewRecords
  BY <1>1, <1>2 DEF Scrolled
<1>5. RowsOk(w)
  BY <1>2, ViewBounds, RowsStayOk DEF Scrolled, Ready, RowsOk, KeepsSaved
<1>6. GoodView(w)
  BY <1>2, <1>4, <1>5 DEF GoodView, Settled, PaintOk, Scrolled, KeepsPaint, Ready
<1> QED
  BY <1>3, <1>4, <1>6, MovedView, MovesCounted DEF Ready, CursorStays

\* The user's addresses are kept whatever need_save was.
LEMMA GoToAddress ==
    ASSUME NEW v \in ViewRecords, RowsOk(v), NEW a \in Nat
    PROVE  WentTo(v, go_to_address(v, a), a)
<1> DEFINE w == [v EXCEPT !.need_save = TRUE]
<1>1. w \in ViewRecords
  BY DEF ViewRecords
<1>2. /\ KeepsCells(v, w) /\ KeepsUser(v, w) /\ KeepsPlace(v, w) /\ KeepsPaint(v, w)
      /\ w.need_save
  BY DEF ViewRecords, KeepsCells, KeepsUser, KeepsPlace, KeepsPaint
<1>3. go_to_address(v, a) = go_to_address_priv(w, a)
  BY DEF go_to_address
<1> HIDE DEF w
<1>4. RowsOk(w)
  BY <1>2 DEF RowsOk, KeepsCells, KeepsPlace
<1>5. WentTo(w, go_to_address_priv(w, a), a)
  BY <1>1, <1>4, GoToAddressPriv
<1> QED
  BY <1>2, <1>3, <1>5 DEF WentTo, KeepsCells, KeepsUser, KeepsPaint

LEMMA GoToKeeps ==
    ASSUME Ready, NEW a \in Targets, GoTo(a)
    PROVE  ViewInv' /\ CursorStays
<1> DEFINE w == go_to_address(view, a)
<1>1. a \in Nat
  BY ViewAssumption DEF ViewAssumption
<1>2. WentTo(view, w, a)
  BY <1>1, GoToAddress DEF Ready
<1>3. Move(w, a, FALSE)
  BY DEF GoTo
<1> HIDE DEF w
<1>4. GoodView(w) /\ w \in ViewRecords /\ CursorShows(w, a)
  BY <1>2, ViewBounds DEF WentTo, GoodView, CursorShows, NoAddr
<1> QED
  BY <1>1, <1>3, <1>4, MovedView, MovesCounted DEF Ready, CursorStays

LEMMA FocusKeeps ==
    ASSUME Ready, NEW a \in Targets, Focus(a)
    PROVE  ViewInv' /\ CursorStays
<1> DEFINE w == focus_address(view, a)
<1>1. a \in Nat
  BY ViewAssumption DEF ViewAssumption
<1>2. Focused(view, w, a)
  BY <1>1, FocusAddress DEF Ready
<1>3. Move(w, a, FALSE)
  BY DEF Focus
<1> HIDE DEF w
<1>4. GoodView(w) /\ w \in ViewRecords /\ CursorShows(w, a)
  BY <1>2 DEF Focused, GoodView
<1> QED
  BY <1>1, <1>3, <1>4, MovedView, MovesCounted DEF Ready, CursorStays

\* An address that leads back to a row leads back to the row of smaller cells.
LEMMA LeadsToCell ==
    ASSUME NEW s \in Nat, NEW t \in Nat, NEW c \in {1, 2, 4}, LeadsTo(s, t)
    PROVE  LeadsTo(s, t - (t % c))
<1>1. CASE s - (s % 4) <= t
  <2>1. s - (s % 4) <= t - (t % c)
    <3>1. CASE c = 1
      BY <1>1, <3>1
    <3>2. CASE c = 2
      BY <1>1, <3>2
    <3>3. CASE c = 4
      BY <1>1, <3>3
    <3> QED
      BY <3>1, <3>2, <3>3
  <2>2. t - (t % c) <= s
    BY CellDivision DEF LeadsTo
  <2> QED
    BY <2>1, <2>2 DEF LeadsTo
<1>2. CASE t = 0
  <2>1. t - (t % c) = 0
    BY <1>2, CellDivision
  <2> QED
    BY <1>2, <2>1
<1> QED
  BY <1>1, <1>2 DEF LeadsTo

\* It leads to the first row, if that has the row's address.
LEMMA LeadsToFirst ==
    ASSUME NEW v \in ViewRecords, RowsOk(v), v.cells \in CellCounts, NEW s \in Nat, NEW t \in Nat,
           LeadsTo(s, t), CellStart(v, t) < RowBytes(v)
    PROVE  LeadsTo(s, 0)
<1>1. v.cell \in {1, 2, 4} /\ v.cells \in Nat \ {0}
  BY DEF ViewRecords
<1>2. LeadsTo(s, CellStart(v, t))
  BY <1>1, LeadsToCell DEF CellStart
<1>3. RowBytes(v) \in Nat /\ RowBytes(v) <= 4 * v.cells
  <2>1. RowBytes(v) = v.cells * v.cell
    BY DEF RowBytes
  <2>2. CASE v.cell = 1
    BY <1>1, <2>1, <2>2
  <2>3. CASE v.cell = 2
    BY <1>1, <2>1, <2>3
  <2>4. CASE v.cell = 4
    BY <1>1, <2>1, <2>4
  <2> QED
    BY <1>1, <2>2, <2>3, <2>4
<1>4. CellStart(v, t) \in Nat
  BY <1>1, CellDivision DEF CellStart
<1> DEFINE x == CellStart(v, t)
           n == v.cells
           R == RowBytes(v)
<1>5. x < R /\ R <= 4 * n /\ n \in Nat /\ R \in Nat /\ x \in Nat
  BY <1>1, <1>3, <1>4
<1> HIDE DEF x, n, R
<1>6. CASE s - (s % 4) <= x
  <2>1. s - (s % 4) < 4 * n
    BY <1>5, <1>6
  <2>2. s < 4 * n
    BY <1>5, <2>1
  <2> QED
    BY <2>2 DEF LeadsTo, n
<1>7. CASE \E k \in CellCounts : s < 4 * k
  BY <1>7 DEF LeadsTo
<1> QED
  BY <1>2, <1>6, <1>7 DEF LeadsTo, x

\* w is v with other cells, or other rows, and no cursor
LEMMA CellsChanged ==
    ASSUME NEW v \in ViewRecords, NEW w \in ViewRecords, RowsOk(v), v.kind = "memory",
           w.kind = v.kind, w.need_save = v.need_save, w.top = v.top, w.cur = NoAddr,
           w.offset % w.cell = 0, w.cells \in CellCounts
    PROVE  RowsOk(w)
  BY DEF RowsOk

LEMMA CellSizeKeeps ==
    ASSUME Ready, NEW size \in {1, 2, 4}, NEW cells \in CellCounts, set_cell_size(size, cells)
    PROVE  ViewInv' /\ CursorStays
<1> DEFINE off == view.offset - (view.offset % size)
           w == [view EXCEPT !.cell = size, !.offset = off, !.cells = cells, !.cur = NoAddr]
           a == get_row_address(view, view.top)
           x == adjustRowAndOffset(w, a)
           row == AdjustedRow(x, a)
           p == PositionAtTop(x, row)
<1>1. view.kind = "memory" /\ Move(p, NoAddr, FALSE)
  BY DEF set_cell_size
<1>2. view \in ViewRecords /\ RowsOk(view) /\ GoodView(view) /\ view.moves \in Nat
  BY DEF Ready
<1>3. off \in Nat /\ off % size = 0
  BY <1>2, CellDivision DEF ViewRecords
<1>4. cells \in Nat \ {0} /\ NoAddr \in Int
  BY ViewAssumption DEF ViewAssumption, NoAddr
<1> HIDE DEF off
<1>5. w \in ViewRecords
  BY <1>2, <1>3, <1>4 DEF ViewRecords
<1>6. /\ w.cell = size /\ w.offset = off /\ w.cells = cells /\ w.cur = NoAddr
      /\ w.kind = view.kind /\ w.top = view.top /\ w.queued = view.queued
      /\ KeepsSaved(view, w) /\ KeepsPaint(view, w)
  BY <1>2 DEF ViewRecords, KeepsSaved, KeepsPaint
<1> HIDE DEF w
<1>7. RowsOk(w)
  BY <1>1, <1>2, <1>3, <1>5, <1>6, CellsChanged DEF KeepsSaved
<1>8. a \in Nat
  BY <1>2, RowBytesOk DEF ViewRecords
<1>9. a = get_row_address(view, view.top)
  OBVIOUS
<1> HIDE DEF a
<1>10. OffsetMoved(w, x) /\ RowsOk(x) /\ AddressPlaced(w, x, row, a)
  BY <1>5, <1>7, <1>8, RowsMoved
<1> HIDE DEF x, row
<1>11. row \in Nat /\ row <= RowCount \div 2 /\ x \in ViewRecords
  BY <1>10 DEF AddressPlaced, OffsetMoved
<1>12. p = ScrolledTo(x, row) /\ Scrolled(x, p, row) /\ RowsOk(p)
  BY <1>10, <1>11, PositionedAtTop
<1> HIDE DEF p
<1>13. /\ p \in ViewRecords /\ p.offset = x.offset /\ p.top = row
       /\ p.queued <=> (view.queued \/ row # view.top)
       /\ KeepsCells(w, p) /\ KeepsSaved(view, p) /\ KeepsPaint(view, p)
  BY <1>6, <1>10, <1>12 DEF Scrolled, OffsetMoved, KeepsCells, KeepsSaved, KeepsPaint
<1>14. p.kind = "memory" /\ p.cells \in CellCounts
  BY <1>1, <1>6, <1>13 DEF KeepsCells
<1>15. Settled(p)
  <2>1. SUFFICES ASSUME ~p.queued
        PROVE  (p.top = 0 => p.offset = 0) /\ LeadsTo(p.saved, get_row_address(p, p.top))
    BY <1>14 DEF Settled
  <2>2. p.top = 0 => p.offset = 0
    BY <1>10, <1>13 DEF AddressPlaced
  <2>3. LeadsTo(view.saved, a)
    BY <1>1, <1>2, <1>9, <1>13, <2>1 DEF GoodView, Settled
  <2>4. p.saved = view.saved /\ p.saved \in Nat
    BY <1>13 DEF KeepsSaved, ViewRecords
  <2>5. CellStart(p, a) = CellStart(w, a) /\ RowBytes(p) = RowBytes(w) /\ RowBytes(p) = RowBytes(x)
    BY <1>10, <1>13 DEF OffsetMoved, KeepsCells, CellStart, RowBytes
  <2>6. p.cell \in {1, 2, 4}
    BY <1>13 DEF ViewRecords
  <2>7. CASE row = 0
    <3>1. CellStart(p, a) < RowBytes(p)
      BY <1>10, <2>5, <2>7 DEF AddressPlaced
    <3>2. LeadsTo(p.saved, 0)
      BY <1>8, <1>12, <1>13, <1>14, <2>3, <2>4, <3>1, LeadsToFirst
    <3>3. get_row_address(p, p.top) = 0
      BY <1>12, <1>13, <2>2, <2>7, RowBytesOk DEF get_row_address
    <3> QED
      BY <2>2, <3>2, <3>3
  <2>8. CASE row # 0
    <3>1. get_row_address(p, p.top) = CellStart(p, a)
      BY <1>10, <1>13, <2>5, <2>8 DEF AddressPlaced, get_row_address
    <3>2. LeadsTo(p.saved, CellStart(p, a))
      BY <1>8, <2>3, <2>4, <2>6, LeadsToCell DEF CellStart
    <3> QED
      BY <2>2, <3>1, <3>2
  <2> QED
    BY <2>7, <2>8
<1>16. PaintOk(p)
  BY <1>2, <1>13 DEF GoodView, PaintOk, KeepsPaint
<1>17. GoodView(p)
  BY <1>12, <1>13, <1>15, <1>16 DEF GoodView
<1> QED
  BY <1>1, <1>2, <1>13, <1>17, MovedView, MovesCounted DEF CursorStays

LEMMA ResizeKeeps ==
    ASSUME Ready, NEW cells \in CellCounts, resizeEvent(cells)
    PROVE  ViewInv' /\ CursorStays
<1> DEFINE none == [view EXCEPT !.cells = cells, !.cur = NoAddr]
           w == IF cells = view.cells THEN view ELSE none
           a == get_row_address(view, view.top)
           u == go_to_address(w, a)
<1>1. (view.kind = "program" => cells = view.cells) /\ Move(u, NoAddr, FALSE)
  BY DEF resizeEvent
<1>2. view \in ViewRecords /\ RowsOk(view) /\ view.moves \in Nat
  BY DEF Ready
<1>3. a \in Nat
  BY <1>2, RowBytesOk DEF ViewRecords
<1>4. cells \in Nat \ {0} /\ NoAddr \in Int
  BY ViewAssumption DEF ViewAssumption, NoAddr
<1>5. w \in ViewRecords /\ RowsOk(w)
  <2>1. CASE cells = view.cells
    BY <1>2, <2>1
  <2>2. CASE cells # view.cells
    <3>1. w = none
      BY <2>2
    <3>2. none \in ViewRecords
      BY <1>2, <1>4 DEF ViewRecords
    <3>3. /\ none.kind = view.kind /\ none.need_save = view.need_save /\ none.top = view.top
          /\ none.cur = NoAddr /\ none.offset = view.offset /\ none.cell = view.cell
          /\ none.cells = cells
      BY <1>2 DEF ViewRecords
    <3> HIDE DEF none
    <3>4. view.kind = "memory"
      BY <1>1, <1>2, <2>2 DEF ViewRecords
    <3>5. none.offset % none.cell = 0
      BY <1>2, <3>3 DEF RowsOk
    <3>6. RowsOk(none)
      BY <1>2, <3>2, <3>3, <3>4, <3>5, CellsChanged
    <3> HIDE DEF w
    <3> QED
      BY <3>1, <3>2, <3>6
  <2> QED
    BY <2>1, <2>2
<1> HIDE DEF w, a
<1>6. WentTo(w, u, a)
  BY <1>3, <1>5, GoToAddress
<1> HIDE DEF u
<1>7. GoodView(u) /\ u \in ViewRecords
  BY <1>6 DEF WentTo, GoodView
<1> QED
  BY <1>1, <1>2, <1>7, MovedView, MovesCounted DEF CursorStays

LEMMA AccessKeeps ==
    ASSUME Ready, cached_access
    PROVE  ViewInv' /\ CursorStays
<1>1. Move(update_all(view), NoAddr, TRUE)
  BY DEF cached_access
<1>2. GoodView(update_all(view)) /\ Updated(view, update_all(view))
  BY UpdateKeeps DEF Ready
<1> QED
  BY <1>1, <1>2, MovedView, MovesCounted DEF Ready, CursorStays, Updated

LEMMA SetDataKeeps ==
    ASSUME Ready, setData
    PROVE  ViewInv' /\ CursorStays
<1> DEFINE d == view.data + 1
           w == [view EXCEPT !.data = d]
<1>1. Move(w, NoAddr, FALSE)
  BY DEF setData
<1>2. view \in ViewRecords /\ GoodView(view) /\ view.moves \in Nat
  BY DEF Ready
<1>3. d \in Nat
  BY <1>2 DEF ViewRecords
<1> HIDE DEF d
<1>4. w \in ViewRecords
  BY <1>2, <1>3 DEF ViewRecords
<1>5. /\ KeepsCells(view, w) /\ KeepsPlace(view, w) /\ KeepsSaved(view, w)
      /\ w.stages_need_update = view.stages_need_update /\ w.painted = view.painted
      /\ w.stage_addr = view.stage_addr
  BY <1>2 DEF ViewRecords, KeepsCells, KeepsPlace, KeepsSaved
<1> HIDE DEF w
<1>6. PaintOk(w)
  BY <1>2, <1>5 DEF GoodView, PaintOk
<1>7. GoodView(w)
  BY <1>2, <1>4, <1>5, <1>6, GoodViewStays
<1> QED
  BY <1>1, <1>2, <1>4, <1>7, MovedView, MovesCounted DEF CursorStays

\* The followed stage's address has the cursor.
Follows(v, w) ==
    /\ GoodView(w)
    /\ KeepsUser(v, w)
    /\ Painted(w) \/ KeepsPaint(v, w)
    /\ Followed(w) = NoAddr \/ (Followed(w) \in Nat /\ CursorShows(w, Followed(w)))

LEMMA UpdateFollowPosition ==
    ASSUME NEW v, GoodView(v)
    PROVE  Follows(v, update_follow_position(v))
<1>1. CASE v.follow = "none"
  <2>1. update_follow_position(v) = v
    BY <1>1 DEF update_follow_position
  <2> QED
    BY <1>1, <2>1 DEF Follows, KeepsUser, KeepsPaint, Followed
<1>2. CASE v.follow # "none"
  <2> DEFINE a == v.follow_addr[v.follow]
             w == focus_address(v, a)
  <2>1. update_follow_position(v) = w
    BY <1>2 DEF update_follow_position
  <2>2. a \in Nat
    <3>1. v.follow \in Stages /\ v.follow_addr \in [Stages -> Nat]
      BY <1>2 DEF GoodView, ViewRecords
    <3> QED
      BY <3>1
  <2>3. a = v.follow_addr[v.follow]
    OBVIOUS
  <2> HIDE DEF a
  <2>4. Focused(v, w, a)
    BY <2>2, FocusAddress
  <2> HIDE DEF w
  <2>5. Followed(w) = a
    BY <1>2, <2>3, <2>4 DEF Focused, KeepsUser, Followed
  <2> QED
    BY <2>1, <2>2, <2>4, <2>5 DEF Focused, Follows
<1> QED
  BY <1>1, <1>2

LEMMA CheckForUpdates ==
    ASSUME NEW v, GoodView(v)
    PROVE  LET u == check_for_updates(v)
           IN  GoodView(u) /\ Painted(u) /\ KeepsPlace(v, u) /\ KeepsCells(v, u) /\ KeepsUser(v, u)
<1>1. CASE v.stages_need_update \/ v.painted.data # v.data
  <2>1. check_for_updates(v) = update_all(v)
    BY <1>1 DEF check_for_updates
  <2>2. GoodView(update_all(v)) /\ Updated(v, update_all(v))
    BY UpdateKeeps
  <2> QED
    BY <2>1, <2>2 DEF Updated
<1>2. CASE ~(v.stages_need_update \/ v.painted.data # v.data)
  <2>1. check_for_updates(v) = v
    BY <1>2 DEF check_for_updates
  <2>2. v.painted.data = v.data /\ v.painted.stages = v.stage_addr
    BY <1>2 DEF GoodView, PaintOk
  <2>3. v.painted \in [data : Nat, stages : [Stages -> Int]]
    BY DEF GoodView, ViewRecords
  <2>4. v.painted = [data |-> v.data, stages |-> v.stage_addr]
    BY <2>2, <2>3
  <2>5. Painted(v)
    BY <2>4 DEF Painted
  <2> QED
    BY <2>1, <2>5 DEF KeepsPlace, KeepsCells, KeepsUser
<1> QED
  BY <1>1, <1>2

LEMMA CheckedFollows ==
    ASSUME NEW v, NEW w, Follows(v, w)
    PROVE  LET u == check_for_updates(w)
           IN  /\ GoodView(u) /\ Painted(u)
               /\ Followed(w) = NoAddr \/ (Followed(w) \in Nat /\ CursorShows(u, Followed(w)))
<1> DEFINE u == check_for_updates(w)
<1>1. GoodView(w)
  BY DEF Follows
<1>2. GoodView(u) /\ Painted(u) /\ KeepsPlace(w, u) /\ KeepsCells(w, u)
  BY <1>1, CheckForUpdates
<1> HIDE DEF u
<1>3. Followed(w) # NoAddr => Followed(w) \in Nat /\ CursorShows(u, Followed(w))
  BY <1>2, CursorShowsStays DEF Follows, KeepsPlace
<1> QED
  BY <1>2, <1>3 DEF u

LEMMA SetFollowKeeps ==
    ASSUME Ready, NEW s \in Stages \cup {"none"}, set_follow_inst(s)
    PROVE  ViewInv' /\ CursorStays
<1> DEFINE v == [view EXCEPT !.follow = s]
           w == update_follow_position(v)
<1>1. Move(w, Followed(w), FALSE)
  BY DEF set_follow_inst
<1>2. view \in ViewRecords /\ GoodView(view) /\ view.moves \in Nat
  BY DEF Ready
<1>3. v \in ViewRecords
  BY <1>2 DEF ViewRecords
<1>4. KeepsCells(view, v) /\ KeepsPlace(view, v) /\ KeepsSaved(view, v) /\ KeepsPaint(view, v)
  BY <1>2 DEF ViewRecords, KeepsCells, KeepsPlace, KeepsSaved, KeepsPaint
<1> HIDE DEF v
<1>5. GoodView(v)
  BY <1>2, <1>3, <1>4, GoodViewStays DEF GoodView, PaintOk, KeepsPaint
<1>6. Follows(v, w)
  BY <1>5, UpdateFollowPosition
<1> HIDE DEF w
<1>7. w \in ViewRecords
  BY <1>6 DEF Follows, GoodView
<1> QED
  BY <1>1, <1>2, <1>6, <1>7, MovedView, MovesCounted DEF CursorStays, Follows

LEMMA TickKeeps ==
    ASSUME Ready, NEW addr \in [Stages -> {NoAddr, 4, 400}], NEW changed \in {0, 1},
           Tick(addr, changed)
    PROVE  ViewInv' /\ CursorStays
<1>1. view \in ViewRecords /\ GoodView(view) /\ view.moves \in Nat
  BY DEF Ready
<1> DEFINE d == view.data + changed
<1>2. d \in Nat
  BY <1>1 DEF ViewRecords
<1>3. CASE view.kind = "memory"
  <2> DEFINE w == [view EXCEPT !.data = d]
             u == check_for_updates(w)
  <2>1. Move(u, NoAddr, TRUE)
    BY <1>3 DEF Tick
  <2> HIDE DEF d
  <2>2. w \in ViewRecords
    BY <1>1, <1>2 DEF ViewRecords
  <2>3. /\ KeepsCells(view, w) /\ KeepsPlace(view, w) /\ KeepsSaved(view, w)
        /\ w.stages_need_update = view.stages_need_update /\ w.painted = view.painted
        /\ w.stage_addr = view.stage_addr
    BY <1>1 DEF ViewRecords, KeepsCells, KeepsPlace, KeepsSaved
  <2> HIDE DEF w
  <2>4. GoodView(w)
    BY <1>1, <2>2, <2>3, GoodViewStays DEF GoodView, PaintOk
  <2>5. GoodView(u) /\ Painted(u)
    BY <2>4, CheckForUpdates
  <2> HIDE DEF u
  <2>6. u \in ViewRecords
    BY <2>5 DEF GoodView
  <2> QED
    BY <1>1, <2>1, <2>5, <2>6, MovedView, MovesCounted DEF CursorStays
<1>4. CASE view.kind # "memory"
  <2> DEFINE f == [s \in Stages |-> IF addr[s] = NoAddr THEN view.follow_addr[s] ELSE addr[s]]
             n == view.stages_need_update \/ addr # view.stage_addr
             v == [view EXCEPT !.data = d, !.follow_addr = f, !.stage_addr = addr,
                               !.stages_need_update = n]
             w == update_follow_position(v)
             u == check_for_updates(w)
  <2>1. Move(u, Followed(u), TRUE)
    BY <1>4 DEF Tick
  <2>2. f \in [Stages -> Nat] /\ addr \in [Stages -> Int] /\ n \in BOOLEAN
    <3>1. view.follow_addr \in [Stages -> Nat]
      BY <1>1 DEF ViewRecords
    <3>2. ASSUME NEW s \in Stages
          PROVE  (IF addr[s] = NoAddr THEN view.follow_addr[s] ELSE addr[s]) \in Nat
      BY <3>1, <3>2
    <3>3. addr \in [Stages -> Int]
      BY DEF NoAddr
    <3> QED
      BY <3>2, <3>3
  <2>3. n = (view.stages_need_update \/ addr # view.stage_addr)
    OBVIOUS
  <2> HIDE DEF f, n, d
  <2>4. v \in ViewRecords
    BY <1>1, <1>2, <2>2 DEF ViewRecords
  <2>5. /\ KeepsCells(view, v) /\ KeepsPlace(view, v) /\ KeepsSaved(view, v)
        /\ v.stages_need_update = n /\ v.painted = view.painted /\ v.stage_addr = addr
    BY <1>1 DEF ViewRecords, KeepsCells, KeepsPlace, KeepsSaved
  <2> HIDE DEF v
  <2>6. PaintOk(v)
    BY <1>1, <2>3, <2>5 DEF GoodView, PaintOk
  <2>7. GoodView(v)
    BY <1>1, <2>4, <2>5, <2>6, GoodViewStays
  <2>8. Follows(v, w)
    BY <2>7, UpdateFollowPosition
  <2> HIDE DEF w
  <2>9. /\ GoodView(u) /\ Painted(u)
        /\ Followed(w) = NoAddr \/ (Followed(w) \in Nat /\ CursorShows(u, Followed(w)))
    BY <2>8, CheckedFollows
  <2>10. KeepsUser(w, u)
    BY <2>8, CheckForUpdates DEF Follows
  <2> HIDE DEF u
  <2>11. Followed(u) = Followed(w) /\ u \in ViewRecords
    BY <2>9, <2>10 DEF Followed, KeepsUser, GoodView
  <2> QED
    BY <1>1, <2>1, <2>9, <2>11, MovedView, MovesCounted DEF CursorStays
<1> QED
  BY <1>3, <1>4

LEMMA SetupKeeps ==
    ASSUME Ready, NEW pc \in Nat, setup(pc)
    PROVE  ViewInv' /\ CursorStays
<1>1. view \in ViewRecords /\ GoodView(view) /\ view.moves \in Nat
  BY DEF Ready
<1>2. CASE view.kind = "memory"
  <2>1. Move(update_all(view), NoAddr, TRUE)
    BY <1>2 DEF setup
  <2>2. GoodView(update_all(view)) /\ Updated(view, update_all(view))
    BY <1>1, UpdateKeeps
  <2> QED
    BY <1>1, <2>1, <2>2, MovedView, MovesCounted DEF CursorStays, Updated
<1>3. CASE view.kind # "memory"
  <2> DEFINE blank == [s \in Stages |-> NoAddr]
             b == [view EXCEPT !.stage_addr = blank]
             p == update_all(b)
             f == [s \in Stages |-> pc]
             v == [p EXCEPT !.follow_addr = f]
             w == update_follow_position(v)
  <2>1. Move(w, Followed(w), TRUE)
    BY <1>3 DEF setup
  <2>2. blank \in [Stages -> Int] /\ f \in [Stages -> Nat]
    BY DEF NoAddr
  <2> HIDE DEF blank, f
  <2>3. b \in ViewRecords
    BY <1>1, <2>2 DEF ViewRecords
  <2>4. KeepsCells(view, b) /\ KeepsPlace(view, b) /\ KeepsSaved(view, b)
    BY <1>1 DEF ViewRecords, KeepsCells, KeepsPlace, KeepsSaved
  <2> HIDE DEF b
  <2>5. Updated(b, p) /\ PaintOk(p)
    BY <2>3, UpdateAll
  <2> HIDE DEF p
  <2>6. p \in ViewRecords /\ Painted(p)
    BY <2>5 DEF Updated
  <2>7. v \in ViewRecords
    BY <2>2, <2>6 DEF ViewRecords
  <2>8. KeepsCells(p, v) /\ KeepsPlace(p, v) /\ KeepsSaved(p, v) /\ KeepsPaint(p, v)
    BY <2>6 DEF ViewRecords, KeepsCells, KeepsPlace, KeepsSaved, KeepsPaint
  <2> HIDE DEF v
  <2>9. KeepsCells(view, v) /\ KeepsPlace(view, v) /\ KeepsSaved(view, v)
    BY <2>4, <2>5, <2>8 DEF Updated, KeepsCells, KeepsPlace, KeepsSaved
  <2>10. PaintOk(v) /\ Painted(v)
    BY <2>5, <2>6, <2>8 DEF PaintOk, Painted, KeepsPaint
  <2>11. GoodView(v)
    BY <1>1, <2>7, <2>9, <2>10, GoodViewStays
  <2>12. Follows(v, w)
    BY <2>11, UpdateFollowPosition
  <2> HIDE DEF w
  <2>13. Painted(w) /\ w \in ViewRecords
    BY <2>10, <2>12 DEF Follows, Painted, KeepsPaint, GoodView
  <2> QED
    BY <1>1, <2>1, <2>12, <2>13, MovedView, MovesCounted DEF CursorStays, Follows
<1> QED
  BY <1>2, <1>3

\* A new view shows address 0.
LEMMA ViewStarts ==
    ASSUME NEW kind \in {"memory", "program"}
    PROVE  SoundView(ViewStart(kind)) /\ ViewStart(kind).kind = kind
<1> DEFINE none == [s \in Stages |-> NoAddr]
           zero == [s \in Stages |-> 0]
           p == [data |-> 0, stages |-> none]
           m == kind = "memory"
           v == [kind |-> kind, offset |-> 0, cell |-> 4, cells |-> 1, top |-> 0, cur |-> NoAddr,
                 queued |-> FALSE, saved |-> 0, need_save |-> m, asked |-> NoAddr, moves |-> 0,
                 follow |-> "none", follow_addr |-> zero, stage_addr |-> none,
                 stages_need_update |-> FALSE, data |-> 0, painted |-> p, checked |-> TRUE]
<1>1. ViewStart(kind) = v
  BY DEF ViewStart
<1>2. none \in [Stages -> Int] /\ zero \in [Stages -> Nat] /\ m \in BOOLEAN
  BY DEF NoAddr
<1>3. m <=> kind = "memory"
  OBVIOUS
<1> HIDE DEF none, zero, m
<1>4. p \in [data : Nat, stages : [Stages -> Int]]
  BY <1>2
<1>5. p.stages = none /\ p = [data |-> 0, stages |-> none]
  OBVIOUS
<1> HIDE DEF p
<1>6. v \in ViewRecords
  BY <1>2, <1>4 DEF ViewRecords, NoAddr
<1>7. RowsOk(v)
  <2>1. v.offset % v.cell = 0
    OBVIOUS
  <2> QED
    BY <1>3, <2>1, ViewBounds DEF RowsOk
<1>8. Settled(v)
  <2>1. get_row_address(v, v.top) = 0
    BY <1>6, <1>7, RowBytesOk DEF get_row_address
  <2>2. LeadsTo(0, 0)
    BY CellDivision DEF LeadsTo
  <2> QED
    BY <2>1, <2>2 DEF Settled
<1>9. PaintOk(v) /\ AskedOk(v) /\ CheckedOk(v)
  BY <1>5 DEF PaintOk, AskedOk, CheckedOk
<1> QED
  BY <1>1, <1>6, <1>7, <1>8, <1>9 DEF SoundView, GoodView

LEMMA ResumeKeeps ==
    ASSUME Ready, Resume
    PROVE  ViewInv' /\ CursorStays
<1> DEFINE b == ViewStart(view.kind)
           m == view.moves
           v == [b EXCEPT !.moves = m]
           a == view.saved
           u == go_to_address(v, a)
<1>1. view \in ViewRecords /\ m \in Nat /\ a \in Nat /\ view.kind \in {"memory", "program"}
  BY DEF Ready, ViewRecords
<1>2. GoodView(b) /\ b \in ViewRecords
  BY <1>1, ViewStarts DEF SoundView, GoodView
<1>3. IF a = 0 THEN Move(v, NoAddr, FALSE) ELSE Move(u, a, FALSE)
  <2>1. Move(IF a = 0 THEN v ELSE u, IF a = 0 THEN NoAddr ELSE a, FALSE)
    BY DEF Resume
  <2> HIDE DEF a, u, v
  <2> QED
    BY <2>1
<1>4. view.moves = m
  OBVIOUS
<1> HIDE DEF m, b, a
<1>5. v \in ViewRecords
  BY <1>1, <1>2 DEF ViewRecords
<1>6. KeepsCells(b, v) /\ KeepsPlace(b, v) /\ KeepsSaved(b, v) /\ KeepsPaint(b, v)
  BY <1>2 DEF ViewRecords, KeepsCells, KeepsPlace, KeepsSaved, KeepsPaint
<1> HIDE DEF v
<1>7. GoodView(v)
  BY <1>2, <1>5, <1>6, GoodViewStays DEF GoodView, PaintOk, KeepsPaint
<1>8. WentTo(v, u, a)
  BY <1>1, <1>5, <1>7, GoToAddress DEF GoodView
<1> HIDE DEF u
<1>9. GoodView(u) /\ u \in ViewRecords /\ CursorShows(u, a)
  BY <1>8, ViewBounds DEF WentTo, GoodView, CursorShows, NoAddr
<1>10. CASE a = 0
  BY <1>1, <1>3, <1>4, <1>5, <1>7, <1>10, MovedView, MovesCounted DEF CursorStays
<1>11. CASE a # 0
  BY <1>1, <1>3, <1>4, <1>9, <1>11, MovedView, MovesCounted DEF CursorStays
<1> QED
  BY <1>10, <1>11

LEMMA ViewSteps ==
    ASSUME ViewInv, ViewNext
    PROVE  ViewInv' /\ CursorStays
<1>1. Ready
  BY ViewReady
<1>2. CASE adjust_scroll_pos_process
  BY <1>2, AdjustKeeps
<1>3. CASE Scroll
  BY <1>1, <1>3, ScrollKeeps
<1>4. CASE \E a \in Targets : GoTo(a) \/ Focus(a)
  BY <1>1, <1>4, GoToKeeps, FocusKeeps
<1>5. CASE \E size \in {1, 2, 4}, cells \in CellCounts : set_cell_size(size, cells)
  BY <1>1, <1>5, CellSizeKeeps
<1>6. CASE \E cells \in CellCounts : resizeEvent(cells)
  BY <1>1, <1>6, ResizeKeeps
<1>7. CASE cached_access \/ setData
  BY <1>1, <1>7, AccessKeeps, SetDataKeeps
<1>8. CASE \E s \in Stages \cup {"none"} : set_follow_inst(s)
  BY <1>1, <1>8, SetFollowKeeps
<1>9. CASE \E addr \in [Stages -> {NoAddr, 4, 400}], changed \in {0, 1} : Tick(addr, changed)
  BY <1>1, <1>9, TickKeeps
<1>10. CASE setup(52)
  BY <1>1, <1>10, SetupKeeps
<1>11. CASE Resume
  BY <1>1, <1>11, ResumeKeeps
<1> QED
  BY <1>2, <1>3, <1>4, <1>5, <1>6, <1>7, <1>8, <1>9, <1>10, <1>11 DEF ViewNext

LEMMA ConsistentView == ViewInv => ViewConsistent
<1> SUFFICES ASSUME ViewInv PROVE ViewConsistent
  OBVIOUS
<1>1. view \in ViewRecords /\ RowsOk(view) /\ Settled(view) /\ AskedOk(view) /\ CheckedOk(view)
  BY DEF ViewInv, SoundView, GoodView
<1>2. AskedAddressHasCursor
  BY <1>1 DEF AskedOk, CursorShows, AskedAddressHasCursor
<1>3. TopReachesZero
  BY <1>1 DEF Settled, TopReachesZero
<1>4. TopRemembered
  <2> SUFFICES ASSUME view.kind = "memory", ~view.queued
               PROVE  LET d == view.saved - get_row_address(view, view.top)
                      IN  d >= 0 /\ \E cells \in CellCounts : d < 4 * cells
    BY DEF TopRemembered
  <2> DEFINE s == view.saved
             t == get_row_address(view, view.top)
  <2>1. LeadsTo(s, t)
    BY <1>1 DEF Settled
  <2>2. s \in Nat /\ t \in Nat
    BY <1>1, RowBytesOk DEF ViewRecords
  <2> HIDE DEF s, t
  <2>3. PICK n \in CellCounts : n \in Nat \ {0}
    BY ViewAssumption DEF ViewAssumption
  <2>4. s - (s % 4) <= t => s - t < 4
    BY <2>2
  <2>5. s - (s % 4) <= t => s - t < 4 * n
    BY <2>2, <2>3, <2>4
  <2>6. s - t >= 0
    BY <2>1, <2>2 DEF LeadsTo
  <2>7. \E cells \in CellCounts : s - t < 4 * cells
    <3>1. CASE s - (s % 4) <= t
      BY <2>3, <2>5, <3>1
    <3>2. ASSUME t = 0, NEW k \in CellCounts, s < 4 * k
          PROVE  s - t < 4 * k
      BY <2>2, <3>2
    <3> QED
      BY <2>1, <3>1, <3>2 DEF LeadsTo
  <2> QED
    BY <2>6, <2>7 DEF s, t
<1>5. PaintedAfterTick
  BY <1>1 DEF CheckedOk, PaintedAfterTick
<1> QED
  BY <1>2, <1>3, <1>4, <1>5 DEF ViewConsistent

LEMMA ViewInit_Inv == ViewInit => ViewInv
<1>1. ViewInit => \E kind \in {"memory", "program"} : view = ViewStart(kind)
  BY DEF ViewInit
<1> QED
  BY <1>1, ViewStarts DEF ViewInv

LEMMA ViewStutters ==
    ASSUME ViewInv, UNCHANGED view
    PROVE  ViewInv'
  BY DEF ViewInv

\* The memory and the program view show the address that was asked for, can be scrolled to
\* address 0, keep the address of their top row, and paint what they show, whatever the size
\* of a cell, the rows and the addresses (memorymodel.cpp, programmodel.cpp, their views).
THEOREM ViewsShowAddresses == ViewSpec => []ViewConsistent
<1>1. ViewInv /\ [ViewNext]_view => ViewInv'
  BY ViewSteps, ViewStutters
<1> QED
  BY <1>1, ViewInit_Inv, ConsistentView, PTL DEF ViewSpec

\* Moving the rows under the view leaves the cursor at its address, or less than a row away
\* (adjust_scroll_pos_process).
THEOREM CursorStaysPut == ViewSpec => CursorKept
<1>1. ViewInv /\ [ViewNext]_view => ViewInv'
  BY ViewSteps, ViewStutters
<1>2. ViewInv /\ [ViewNext]_view =>
        [(view'.moves = view.moves /\ view.cur # NoAddr /\ view'.cur # NoAddr) =>
           LET d == get_row_address(view', view'.cur) - get_row_address(view, view.cur)
           IN  d < RowBytes(view) /\ -d < RowBytes(view)]_view
  BY ViewSteps DEF CursorStays
<1> QED
  BY <1>1, <1>2, ViewInit_Inv, PTL DEF ViewSpec, CursorKept

\* Views and docks live beside each other in the window; together they show the machine and
\* what was asked of them, whatever each of them does (MainWindow, MemoryTableView,
\* ProgramTableView, RegistersDock, Cop0Dock).
THEOREM ViewsStayConsistent == ViewSpec /\ DockSpec => []ViewsConsistent
<1>1. ViewConsistent /\ DocksConsistent => ViewsConsistent
  BY DEF ViewsConsistent
<1> QED
  BY <1>1, ViewsShowAddresses, DocksShowMachine, PTL

-----------------------------------------------------------------------------
(* The New machine dialog: configurations.                                   *)

Caches ==
    [enabled : BOOLEAN, sets : Nat, blocks : Nat, assoc : Nat,
     replacement : Policies \cup {"RAND"}, write : WritePolicies \cup {"THROUGH_NOALLOC"}]

Configs ==
    [pipelined : BOOLEAN, delay_slot : BOOLEAN, hazard_unit : {"NONE", "STALL", "STALL_FORWARD"},
     read : Nat, write : Nat, burst : Nat, osemu : [OsFlags -> BOOLEAN], fs_root : {"", "p"},
     reset_at_compile : BOOLEAN, elf : {"", "p"}, program : Caches, data : Caches]

\* g has the fields of c, as the getters return them
GetterFields(c, g) ==
    /\ g.pipelined = c.pipelined
    /\ g.delay_slot = (c.pipelined \/ c.delay_slot)
    /\ g.hazard_unit = IF c.pipelined THEN c.hazard_unit ELSE "NONE"
    /\ g.read = AtLeastOne(c.read) /\ g.write = AtLeastOne(c.write) /\ g.burst = c.burst
    /\ g.osemu = c.osemu /\ g.fs_root = c.fs_root /\ g.reset_at_compile = c.reset_at_compile
    /\ g.elf = c.elf /\ g.program = c.program /\ g.data = c.data

LEMMA GettersRead ==
    ASSUME NEW c \in Configs
    PROVE  Getters(c) \in Configs /\ GetterFields(c, Getters(c))
<1> DEFINE ds == c.pipelined \/ c.delay_slot
           hu == IF c.pipelined THEN c.hazard_unit ELSE "NONE"
           rd == AtLeastOne(c.read)
           wr == AtLeastOne(c.write)
           g == [c EXCEPT !.delay_slot = ds, !.hazard_unit = hu, !.read = rd, !.write = wr]
<1>1. Getters(c) = g
  BY DEF Getters
<1>2. /\ ds \in BOOLEAN /\ hu \in {"NONE", "STALL", "STALL_FORWARD"}
      /\ rd \in Nat /\ wr \in Nat
  BY DEF Configs, AtLeastOne
<1>3. /\ ds = (c.pipelined \/ c.delay_slot)
      /\ hu = IF c.pipelined THEN c.hazard_unit ELSE "NONE"
      /\ rd = AtLeastOne(c.read) /\ wr = AtLeastOne(c.write)
  OBVIOUS
<1> HIDE DEF ds, hu, rd, wr
<1>4. g \in Configs
  BY <1>2 DEF Configs
<1>5. /\ g.delay_slot = ds /\ g.hazard_unit = hu /\ g.read = rd /\ g.write = wr
      /\ g.pipelined = c.pipelined /\ g.burst = c.burst /\ g.osemu = c.osemu
      /\ g.fs_root = c.fs_root /\ g.reset_at_compile = c.reset_at_compile
      /\ g.elf = c.elf /\ g.program = c.program /\ g.data = c.data
  BY DEF Configs
<1> HIDE DEF g
<1> QED
  BY <1>1, <1>3, <1>4, <1>5 DEF GetterFields

ConfigNames ==
    {"pipelined", "delay_slot", "hazard_unit", "read", "write", "burst", "osemu",
     "fs_root", "reset_at_compile", "elf", "program", "data"}

\* Configurations with equal fields are equal.
SameFields(c, g) ==
    /\ g.pipelined = c.pipelined /\ g.delay_slot = c.delay_slot /\ g.hazard_unit = c.hazard_unit
    /\ g.read = c.read /\ g.write = c.write /\ g.burst = c.burst
    /\ g.osemu = c.osemu /\ g.fs_root = c.fs_root /\ g.reset_at_compile = c.reset_at_compile
    /\ g.elf = c.elf /\ g.program = c.program /\ g.data = c.data

LEMMA SameConfig ==
    ASSUME NEW c \in Configs, NEW g \in Configs, SameFields(c, g)
    PROVE  g = c
<1>1. DOMAIN c = ConfigNames /\ DOMAIN g = ConfigNames
  BY DEF Configs, ConfigNames
<1>2. c = [f \in DOMAIN c |-> c[f]] /\ g = [f \in DOMAIN g |-> g[f]]
  BY DEF Configs
<1>3. \A f \in ConfigNames : g[f] = c[f]
  BY DEF SameFields, ConfigNames
<1> QED
  BY <1>1, <1>2, <1>3

\* What the getters return is returned again.
LEMMA GettersTwice ==
    ASSUME NEW c \in Configs
    PROVE  Getters(Getters(c)) = Getters(c)
<1> DEFINE g == Getters(c)
           h == Getters(g)
<1>1. g \in Configs /\ GetterFields(c, g)
  BY GettersRead
<1> HIDE DEF g
<1>2. h \in Configs /\ GetterFields(g, h)
  BY <1>1, GettersRead
<1> HIDE DEF h
<1>3. AtLeastOne(g.read) = g.read /\ AtLeastOne(g.write) = g.write
  <2>1. c.read \in Nat /\ c.write \in Nat
    BY DEF Configs
  <2> QED
    BY <1>1, <2>1 DEF GetterFields, AtLeastOne
<1>4. g.pipelined \in BOOLEAN /\ g.delay_slot \in BOOLEAN /\ c.pipelined \in BOOLEAN
  BY <1>1 DEF Configs
<1>5. h.delay_slot = g.delay_slot
  BY <1>1, <1>2, <1>4 DEF GetterFields
<1>6. h.hazard_unit = g.hazard_unit
  BY <1>1, <1>2 DEF GetterFields
<1>7. SameFields(g, h)
  BY <1>2, <1>3, <1>5, <1>6 DEF GetterFields, SameFields
<1>8. h = g
  BY <1>1, <1>2, <1>7, SameConfig
<1> QED
  BY <1>8 DEF h, g

\* The memory times and caches of a preset, and what it says of the core.
Applied(c, p) ==
    /\ c.pipelined = (p \in {3, 4})
    /\ p = 3 => c.hazard_unit = "NONE"
    /\ p = 4 => c.hazard_unit = "STALL_FORWARD"
    /\ p \in {1, 2} => c.delay_slot
    /\ AtLeastOne(c.read) = 10 /\ AtLeastOne(c.write) = 10 /\ c.burst = 0
    /\ CachePreset(c.program, p) = c.program /\ CachePreset(c.data, p) = c.data

LEMMA CachePresetOk ==
    ASSUME NEW c \in Caches, NEW p \in 1 .. 4
    PROVE  /\ CachePreset(c, p) \in Caches
           /\ CachePreset(CachePreset(c, p), p) = CachePreset(c, p)
<1>1. CASE p \in {2, 4}
  BY <1>1 DEF Caches, CachePreset
<1>2. CASE p \notin {2, 4}
  <2> DEFINE x == [c EXCEPT !.enabled = FALSE]
  <2>1. x \in Caches /\ x.enabled = FALSE
    BY DEF Caches
  <2>2. [x EXCEPT !.enabled = FALSE] = x
    BY <2>1 DEF Caches
  <2> QED
    BY <1>2, <2>1, <2>2 DEF CachePreset
<1> QED
  BY <1>1, <1>2

\* x has the fields of c with preset p
PresetFields(c, x, p) ==
    /\ x.pipelined = (p \in {3, 4})
    /\ x.delay_slot = (p \in {1, 2} \/ c.delay_slot)
    /\ x.hazard_unit = IF p = 3 THEN "NONE" ELSE IF p = 4 THEN "STALL_FORWARD" ELSE c.hazard_unit
    /\ x.read = 10 /\ x.write = 10 /\ x.burst = 0
    /\ x.osemu = c.osemu /\ x.fs_root = c.fs_root /\ x.reset_at_compile = c.reset_at_compile
    /\ x.elf = c.elf
    /\ x.program = CachePreset(c.program, p) /\ x.data = CachePreset(c.data, p)

LEMMA PresetSets ==
    ASSUME NEW c \in Configs, NEW p \in 1 .. 4
    PROVE  /\ preset(c, p) \in Configs
           /\ PresetFields(c, preset(c, p), p)
<1> DEFINE pi == p \in {3, 4}
           ds == p \in {1, 2} \/ c.delay_slot
           hu == IF p = 3 THEN "NONE" ELSE IF p = 4 THEN "STALL_FORWARD" ELSE c.hazard_unit
           pr == CachePreset(c.program, p)
           da == CachePreset(c.data, p)
           x == [c EXCEPT !.pipelined = pi, !.delay_slot = ds, !.hazard_unit = hu,
                          !.read = 10, !.write = 10, !.burst = 0, !.program = pr, !.data = da]
<1>1. preset(c, p) = x
  <2>1. DefaultConfig.read = 10 /\ DefaultConfig.write = 10 /\ DefaultConfig.burst = 0
    BY DEF DefaultConfig
  <2>2. ds = IF p \in {1, 2} THEN TRUE ELSE c.delay_slot
    BY DEF Configs
  <2> HIDE DEF ds
  <2> QED
    BY <2>1, <2>2 DEF preset
<1>2. c.program \in Caches /\ c.data \in Caches
  BY DEF Configs
<1>3. pr \in Caches /\ da \in Caches
  BY <1>2, CachePresetOk
<1>4. pi \in BOOLEAN /\ ds \in BOOLEAN /\ hu \in {"NONE", "STALL", "STALL_FORWARD"}
  <2>1. c.delay_slot \in BOOLEAN /\ c.hazard_unit \in {"NONE", "STALL", "STALL_FORWARD"}
    BY DEF Configs
  <2>2. pi \in BOOLEAN
    OBVIOUS
  <2>3. ds \in BOOLEAN
    BY <2>1
  <2>4. hu \in {"NONE", "STALL", "STALL_FORWARD"}
    BY <2>1
  <2> QED
    BY <2>2, <2>3, <2>4
<1>5. /\ pi = (p \in {3, 4})
      /\ ds = (p \in {1, 2} \/ c.delay_slot)
      /\ hu = IF p = 3 THEN "NONE" ELSE IF p = 4 THEN "STALL_FORWARD" ELSE c.hazard_unit
      /\ pr = CachePreset(c.program, p) /\ da = CachePreset(c.data, p)
  OBVIOUS
<1> HIDE DEF pi, ds, hu, pr, da
<1>6. x \in Configs
  BY <1>3, <1>4 DEF Configs
<1>7. /\ x.pipelined = pi /\ x.delay_slot = ds /\ x.hazard_unit = hu
      /\ x.read = 10 /\ x.write = 10 /\ x.burst = 0
      /\ x.osemu = c.osemu /\ x.fs_root = c.fs_root /\ x.reset_at_compile = c.reset_at_compile
      /\ x.elf = c.elf /\ x.program = pr /\ x.data = da
  BY DEF Configs
<1> HIDE DEF x
<1>8. PresetFields(c, x, p)
  BY <1>5, <1>7 DEF PresetFields
<1> QED
  BY <1>1, <1>6, <1>8

\* A preset is applied if choosing it again would change nothing.
LEMMA AppliedPreset ==
    ASSUME NEW c \in Configs, NEW p \in 1 .. 4
    PROVE  Applied(c, p) => Getters(preset(c, p)) = Getters(c)
<1> SUFFICES ASSUME Applied(c, p)
             PROVE  Getters(preset(c, p)) = Getters(c)
  OBVIOUS
<1> DEFINE x == preset(c, p)
           g == Getters(c)
           h == Getters(x)
<1>1. x \in Configs /\ PresetFields(c, x, p)
  BY PresetSets
<1> HIDE DEF x
<1>2. g \in Configs /\ GetterFields(c, g)
  BY GettersRead
<1>3. h \in Configs /\ GetterFields(x, h)
  BY <1>1, GettersRead
<1> HIDE DEF g, h
<1>4. h.pipelined = g.pipelined /\ x.pipelined = c.pipelined
  BY <1>1, <1>2, <1>3 DEF Applied, PresetFields, GetterFields
<1>5. h.delay_slot = g.delay_slot
  <2>1. x.delay_slot = c.delay_slot
    <3>1. c.delay_slot \in BOOLEAN /\ x.delay_slot \in BOOLEAN
      BY <1>1 DEF Configs
    <3>2. x.delay_slot <=> c.delay_slot
      BY <1>1 DEF Applied, PresetFields
    <3> QED
      BY <3>1, <3>2
  <2> QED
    BY <1>2, <1>3, <1>4, <2>1 DEF GetterFields
<1>6. h.hazard_unit = g.hazard_unit
  <2>1. x.pipelined => p = 3 \/ p = 4
    BY <1>4 DEF Applied
  <2>2. x.pipelined => x.hazard_unit = c.hazard_unit
    BY <1>1, <2>1 DEF Applied, PresetFields
  <2> QED
    BY <1>2, <1>3, <1>4, <2>2 DEF GetterFields
<1>7. h.read = g.read /\ h.write = g.write /\ h.burst = g.burst
  BY <1>1, <1>2, <1>3 DEF Applied, PresetFields, GetterFields, AtLeastOne
<1>8. h.program = g.program /\ h.data = g.data
  BY <1>1, <1>2, <1>3 DEF Applied, PresetFields, GetterFields
<1>9. SameFields(g, h)
  BY <1>1, <1>2, <1>3, <1>4, <1>5, <1>6, <1>7, <1>8 DEF GetterFields, PresetFields, SameFields
<1> QED
  BY <1>2, <1>3, <1>9, SameConfig DEF g, h, x

LEMMA PresetApplies ==
    ASSUME NEW c \in Configs, NEW p \in 1 .. 4
    PROVE  Applied(preset(c, p), p)
<1> DEFINE x == preset(c, p)
<1>1. x \in Configs /\ PresetFields(c, x, p)
  BY PresetSets
<1> HIDE DEF x
<1>2. c.program \in Caches /\ c.data \in Caches
  BY DEF Configs
<1>3. CachePreset(x.program, p) = x.program /\ CachePreset(x.data, p) = x.data
  BY <1>1, <1>2, CachePresetOk DEF PresetFields
<1>4. x.read = 10 /\ x.write = 10 /\ AtLeastOne(10) = 10
  BY <1>1 DEF PresetFields, AtLeastOne
<1>5. p \in {1, 2} => x.delay_slot
  BY <1>1 DEF PresetFields
<1>6. (p = 3 => x.hazard_unit = "NONE") /\ (p = 4 => x.hazard_unit = "STALL_FORWARD")
  BY <1>1 DEF PresetFields
<1>7. x.pipelined = (p \in {3, 4}) /\ x.burst = 0
  BY <1>1 DEF PresetFields
<1> HIDE DEF x
<1>8. Applied(x, p)
  BY <1>3, <1>4, <1>5, <1>6, <1>7 DEF Applied
<1> QED
  BY <1>8 DEF x

\* The settings keep a preset applied.
LEMMA GettersApplied ==
    ASSUME NEW c \in Configs, NEW p \in 1 .. 4, Applied(c, p)
    PROVE  Applied(Getters(c), p)
<1> DEFINE g == Getters(c)
<1>1. g \in Configs /\ GetterFields(c, g)
  BY GettersRead
<1> HIDE DEF g
<1>2. c.pipelined \in BOOLEAN /\ c.delay_slot \in BOOLEAN
  BY DEF Configs
<1>3. g.delay_slot \/ p \in {3, 4}
  BY <1>1, <1>2 DEF Applied, GetterFields
<1>4. p \in {3, 4} => g.hazard_unit = c.hazard_unit
  BY <1>1 DEF Applied, GetterFields
<1>5. AtLeastOne(g.read) = 10 /\ AtLeastOne(g.write) = 10
  BY <1>1 DEF Applied, GetterFields, AtLeastOne
<1>6. g.pipelined = c.pipelined /\ g.burst = c.burst /\ g.program = c.program /\ g.data = c.data
  BY <1>1 DEF GetterFields
<1> QED
  BY <1>3, <1>4, <1>5, <1>6 DEF Applied, g

-----------------------------------------------------------------------------
(* The New machine dialog: what its handlers do to widgets and configuration. *)

Uis ==
    [preset : 0 .. 4, pipelined : BOOLEAN, delay_slot : BOOLEAN, hazard_unit : BOOLEAN,
     hazard_radio : {"STALL", "STALL_FORWARD"}, read : Nat, write : Nat, burst : Nat,
     osemu : [OsFlags -> BOOLEAN], fs_root : {"", "p"}, reset_at_compile : BOOLEAN,
     elf : {"", "p"}, program : Caches, data : Caches,
     delay_slot_enabled : BOOLEAN, hazard_unit_enabled : BOOLEAN]

UiNames ==
    {"preset", "pipelined", "delay_slot", "hazard_unit", "hazard_radio", "read", "write", "burst",
     "osemu", "fs_root", "reset_at_compile", "elf", "program", "data",
     "delay_slot_enabled", "hazard_unit_enabled"}

Dlgs == [config : Configs, ui : Uis]

\* u shows a configuration whose getters return g
ShownBy(g, u) ==
    /\ u.pipelined = g.pipelined /\ u.delay_slot = g.delay_slot
    /\ u.hazard_unit = (g.hazard_unit # "NONE")
    /\ u.hazard_unit => u.hazard_radio = g.hazard_unit
    /\ u.read = g.read /\ u.write = g.write /\ u.burst = g.burst
    /\ u.osemu = g.osemu /\ u.fs_root = g.fs_root /\ u.reset_at_compile = g.reset_at_compile
    /\ u.elf = g.elf /\ u.program = g.program /\ u.data = g.data
    /\ u.delay_slot_enabled = ~g.pipelined

\* s is d after a spin box was set to the configuration's time
TimeSet(d, t, s) ==
    /\ s \in Dlgs /\ s.config = d.config
    /\ s.ui[t] = Getters(d.config)[t]
    /\ \A f \in UiNames \ {t} : s.ui[f] = d.ui[f]

\* Setting a spin box to what the configuration has runs no handler.
LEMMA SetTimeShows ==
    ASSUME NEW d \in Dlgs, NEW t \in MemTimes
    PROVE  TimeSet(d, t, SetTime(d, t))
<1> DEFINE g == Getters(d.config)
           u == [d.ui EXCEPT ![t] = g[t]]
           w == TimeShown(d, t, g[t])
<1>1. d.config \in Configs /\ d.ui \in Uis
  BY DEF Dlgs
<1>2. g[t] \in Nat
  BY <1>1, GettersRead DEF Configs, MemTimes
<1>3. SetTime(d, t) = w
  <2>1. w.config = d.config
    BY DEF Dlgs, TimeShown
  <2>2. ~TimeChanges(w, t, g[t])
    BY <2>1 DEF TimeChanges
  <2> DEFINE on == d.ui[t] # g[t] /\ TimeChanges(w, t, g[t])
             x == [w EXCEPT !.config = [@ EXCEPT ![t] = g[t]], !.ui = [@ EXCEPT !.preset = 0]]
  <2>3. SetTime(d, t) = IF on THEN x ELSE w
    BY Zenon DEF SetTime
  <2>4. ~on
    BY <2>2
  <2> HIDE DEF on, x, w
  <2> QED
    BY <2>3, <2>4
<1>4. t \in UiNames
  BY DEF MemTimes, UiNames
<1>6. u \in Uis /\ u[t] = g[t] /\ \A f \in UiNames \ {t} : u[f] = d.ui[f]
  <2>1. CASE t = "read"
    BY <1>1, <1>2, <2>1 DEF Uis, UiNames
  <2>2. CASE t = "write"
    BY <1>1, <1>2, <2>2 DEF Uis, UiNames
  <2>3. CASE t = "burst"
    BY <1>1, <1>2, <2>3 DEF Uis, UiNames
  <2> QED
    BY <2>1, <2>2, <2>3 DEF MemTimes
<1> HIDE DEF u, g
<1>7. w \in Dlgs /\ w.config = d.config /\ w.ui = u
  BY <1>1, <1>6 DEF Dlgs, TimeShown, u
<1> HIDE DEF w
<1> QED
  BY <1>3, <1>6, <1>7 DEF TimeSet, g

\* s is d after the dialog was brought up to date
GuiUpdated(d, s) ==
    /\ s \in Dlgs /\ s.config = d.config /\ s.ui.preset = d.ui.preset
    /\ ShownBy(Getters(d.config), s.ui)

\* u shows of g all but the times, the caches and the operating system options
CoreShown(g, u) ==
    /\ u.pipelined = g.pipelined /\ u.delay_slot = g.delay_slot
    /\ u.hazard_unit = (g.hazard_unit # "NONE")
    /\ u.hazard_unit => u.hazard_radio = g.hazard_unit
    /\ u.reset_at_compile = g.reset_at_compile /\ u.elf = g.elf

LEMMA GuiShowsConfig ==
    ASSUME NEW d \in Dlgs
    PROVE  GuiUpdated(d, config_gui(d))
<1> DEFINE g == Getters(d.config)
           hu == g.hazard_unit # "NONE"
           hr == IF g.hazard_unit = "NONE" THEN d.ui.hazard_radio ELSE g.hazard_unit
           u == [d.ui EXCEPT !.elf = g.elf, !.reset_at_compile = g.reset_at_compile,
                             !.pipelined = g.pipelined, !.delay_slot = g.delay_slot,
                             !.hazard_unit = hu, !.hazard_radio = hr]
           core == [d EXCEPT !.ui = u]
<1>1. d.config \in Configs /\ d.ui \in Uis
  BY DEF Dlgs
<1>2. g \in Configs
  BY <1>1, GettersRead
<1>3. core \in Dlgs /\ core.config = d.config /\ core.ui.preset = d.ui.preset /\ CoreShown(g, core.ui)
  <2> HIDE DEF g
  <2>1. hu \in BOOLEAN /\ hr \in {"STALL", "STALL_FORWARD"}
    BY <1>1, <1>2 DEF Configs, Uis
  <2>2. hu = (g.hazard_unit # "NONE") /\ (hu => hr = g.hazard_unit)
    OBVIOUS
  <2> HIDE DEF hu, hr
  <2>3. u \in Uis
    BY <1>1, <1>2, <2>1 DEF Uis, Configs
  <2>4. /\ u.preset = d.ui.preset /\ u.elf = g.elf /\ u.reset_at_compile = g.reset_at_compile
        /\ u.pipelined = g.pipelined /\ u.delay_slot = g.delay_slot
        /\ u.hazard_unit = hu /\ u.hazard_radio = hr
    BY <1>1 DEF Uis
  <2> HIDE DEF u
  <2>5. CoreShown(g, u)
    BY <2>2, <2>4 DEF CoreShown
  <2>6. core \in Dlgs /\ core.config = d.config /\ core.ui = u
    BY <1>1, <2>3 DEF Dlgs
  <2> HIDE DEF core
  <2> QED
    BY <2>4, <2>5, <2>6
<1> HIDE DEF u, hu, hr
<1> DEFINE r == SetTime(core, "read")
           w == SetTime(r, "write")
           m == SetTime(w, "burst")
           h == Getters(m.config)
           v == [m.ui EXCEPT !.program = h.program, !.data = h.data, !.osemu = h.osemu,
                             !.fs_root = h.fs_root, !.delay_slot_enabled = ~h.pipelined,
                             !.hazard_unit_enabled = h.pipelined]
           s == [m EXCEPT !.ui = v]
<1>4. config_gui(d) = s
  BY Zenon DEF config_gui, core, u, hu, hr
<1> HIDE DEF core
<1>5. /\ m \in Dlgs /\ m.config = d.config /\ m.ui.preset = d.ui.preset /\ CoreShown(g, m.ui)
      /\ m.ui.read = g.read /\ m.ui.write = g.write /\ m.ui.burst = g.burst
  <2>1. TimeSet(core, "read", r)
    BY <1>3, SetTimeShows DEF MemTimes
  <2> HIDE DEF r
  <2>2. r \in Dlgs /\ r.config = d.config /\ r.ui.preset = d.ui.preset /\ CoreShown(g, r.ui)
        /\ r.ui.read = g.read
    BY <1>3, <2>1 DEF TimeSet, CoreShown, UiNames
  <2>3. TimeSet(r, "write", w)
    BY <2>2, SetTimeShows DEF MemTimes
  <2> HIDE DEF w
  <2>4. w \in Dlgs /\ w.config = d.config /\ w.ui.preset = d.ui.preset /\ CoreShown(g, w.ui)
        /\ w.ui.read = g.read /\ w.ui.write = g.write
    BY <2>2, <2>3 DEF TimeSet, CoreShown, UiNames
  <2>5. TimeSet(w, "burst", m)
    BY <2>4, SetTimeShows DEF MemTimes
  <2> HIDE DEF m
  <2> QED
    BY <2>4, <2>5 DEF TimeSet, CoreShown, UiNames
<1>6. h = g
  BY <1>5
<1> HIDE DEF g, h, m
<1>7. /\ v \in Uis
      /\ v.program = g.program /\ v.data = g.data /\ v.osemu = g.osemu
      /\ v.fs_root = g.fs_root /\ v.delay_slot_enabled = ~g.pipelined
  <2>1. (~g.pipelined) \in BOOLEAN /\ g.pipelined \in BOOLEAN
    BY <1>2 DEF Configs
  <2>2. g.program \in Caches /\ g.data \in Caches /\ g.osemu \in [OsFlags -> BOOLEAN] /\ g.fs_root \in {"", "p"}
    BY <1>2 DEF Configs
  <2>3. m.ui \in Uis
    BY <1>5 DEF Dlgs
  <2> DEFINE ng == ~g.pipelined
             gp == g.pipelined
  <2>4. v = [m.ui EXCEPT !.program = g.program, !.data = g.data, !.osemu = g.osemu,
                         !.fs_root = g.fs_root, !.delay_slot_enabled = ng,
                         !.hazard_unit_enabled = gp]
    BY <1>6
  <2>5. ng \in BOOLEAN /\ gp \in BOOLEAN /\ ng = ~g.pipelined
    BY <2>1
  <2> HIDE DEF v, ng, gp
  <2>6. v \in Uis
    BY <2>2, <2>3, <2>4, <2>5 DEF Uis
  <2>7. /\ v.program = g.program /\ v.data = g.data /\ v.osemu = g.osemu
        /\ v.fs_root = g.fs_root /\ v.delay_slot_enabled = ng
    BY <2>3, <2>4 DEF Uis
  <2> QED
    BY <2>5, <2>6, <2>7
<1>8. /\ v.preset = m.ui.preset /\ CoreShown(g, v)
      /\ v.read = m.ui.read /\ v.write = m.ui.write /\ v.burst = m.ui.burst
  BY <1>5 DEF CoreShown, Dlgs, Uis
<1> HIDE DEF v
<1>9. s \in Dlgs /\ s.config = d.config /\ s.ui = v
  BY <1>5, <1>7 DEF Dlgs
<1> HIDE DEF s
<1>10. ShownBy(g, v)
  BY <1>5, <1>7, <1>8 DEF ShownBy, CoreShown
<1> QED
  BY <1>4, <1>5, <1>8, <1>9, <1>10 DEF GuiUpdated, g

LEMMA PresetMarked ==
    ASSUME NEW u \in Uis, NEW p \in 0 .. 4
    PROVE  LET x == [u EXCEPT !.preset = p]
           IN  /\ x \in Uis /\ x.preset = p
               /\ \A f \in UiNames \ {"preset"} : x[f] = u[f]
<1> DEFINE x == [u EXCEPT !.preset = p]
<1>1. x \in Uis
  BY DEF Uis
<1>2. x.preset = p
  BY DEF Uis
<1>3. \A f \in UiNames \ {"preset"} : x[f] = u[f]
  BY DEF Uis, UiNames
<1> QED
  BY <1>1, <1>2, <1>3

\* Custom is chosen: no handler runs but the left preset's, which sees Custom.
LEMMA CustomChosen ==
    ASSUME NEW d \in Dlgs
    PROVE  LET s == CheckPreset(d, 0)
           IN  /\ s \in Dlgs /\ s.config = d.config /\ s.ui.preset = 0
               /\ \A g \in Configs : ShownBy(g, d.ui) => ShownBy(g, s.ui)
<1> DEFINE s == CheckPreset(d, 0)
           u == [d.ui EXCEPT !.preset = 0]
           left == [d EXCEPT !.ui.preset = 0]
<1>1. d.config \in Configs /\ d.ui \in Uis
  BY DEF Dlgs
<1>2. /\ u \in Uis /\ u.preset = 0
      /\ \A g \in Configs : ShownBy(g, d.ui) => ShownBy(g, u)
  <2>1. 0 \in 0 .. 4
    OBVIOUS
  <2>2. u \in Uis /\ u.preset = 0 /\ \A f \in UiNames \ {"preset"} : u[f] = d.ui[f]
    BY <1>1, <2>1, PresetMarked
  <2> HIDE DEF u
  <2> QED
    BY <2>2 DEF ShownBy, UiNames
<1>3. left = [d EXCEPT !.ui = u]
  BY <1>1 DEF Dlgs
<1> HIDE DEF u
<1>4. left \in Dlgs /\ left.config = d.config /\ left.ui = u
  BY <1>1, <1>2, <1>3 DEF Dlgs
<1>5. CASE d.ui.preset = 0
  <2>1. s = d
    BY <1>5 DEF CheckPreset
  <2> QED
    BY <1>1, <1>5, <2>1
<1>6. CASE d.ui.preset # 0
  <2>1. set_preset(left) = left
    BY <1>2, <1>4 DEF set_preset
  <2>2. s = set_preset(left)
    BY <1>6 DEF CheckPreset
  <2> HIDE DEF s, left
  <2> QED
    BY <1>2, <1>4, <2>1, <2>2 DEF s
<1> QED
  BY <1>5, <1>6

\* s shows what d.config is with preset p
PresetShown(d, p, s) ==
    /\ s \in Dlgs /\ s.config = preset(d.config, p) /\ s.ui.preset = p
    /\ ShownBy(Getters(s.config), s.ui)

LEMMA SetPreset ==
    ASSUME NEW d \in Dlgs, d.ui.preset # 0
    PROVE  PresetShown(d, d.ui.preset, set_preset(d))
<1> DEFINE p == d.ui.preset
           x == [d EXCEPT !.config = preset(@, p)]
<1>1. d.config \in Configs /\ d.ui \in Uis
  BY DEF Dlgs
<1>2. p \in 1 .. 4
  <2>1. d.ui.preset \in 0 .. 4
    BY <1>1 DEF Uis
  <2> QED
    BY <2>1
<1>3. preset(d.config, p) \in Configs
  BY <1>1, <1>2, PresetSets
<1>4. x \in Dlgs /\ x.config = preset(d.config, p) /\ x.ui = d.ui
  BY <1>1, <1>3 DEF Dlgs
<1>5. set_preset(d) = config_gui(x)
  BY DEF set_preset
<1> HIDE DEF x
<1>6. GuiUpdated(x, config_gui(x))
  BY <1>4, GuiShowsConfig
<1> QED
  BY <1>4, <1>5, <1>6 DEF GuiUpdated, PresetShown

\* A preset is chosen: it is applied, and shown, and changes nothing that was its own.
PresetChosen(d, p, s) ==
    /\ s \in Dlgs /\ s.ui.preset = p /\ Applied(s.config, p)
    /\ ShownBy(Getters(s.config), s.ui)
    /\ Applied(d.config, p) => Getters(s.config) = Getters(d.config)

LEMMA PresetIsChosen ==
    ASSUME NEW d \in Dlgs, NEW p \in 1 .. 4, d.ui.preset # p
    PROVE  PresetChosen(d, p, CheckPreset(d, p))
<1> DEFINE s == CheckPreset(d, p)
           u == [d.ui EXCEPT !.preset = p]
           left == [d EXCEPT !.ui.preset = p]
           then == IF d.ui.preset = 0 THEN left ELSE set_preset(left)
<1>1. d.config \in Configs /\ d.ui \in Uis
  BY DEF Dlgs
<1>2. u \in Uis /\ u.preset = p
  <2>1. p \in 0 .. 4
    OBVIOUS
  <2> QED
    BY <1>1, <2>1, PresetMarked
<1>3. left = [d EXCEPT !.ui = u]
  BY <1>1 DEF Dlgs
<1> HIDE DEF u
<1>4. left \in Dlgs /\ left.config = d.config /\ left.ui.preset = p
  BY <1>1, <1>2, <1>3 DEF Dlgs
<1> HIDE DEF left
<1>5. /\ then \in Dlgs /\ then.ui.preset = p
      /\ then.config = d.config \/ then.config = preset(d.config, p)
  <2>1. CASE d.ui.preset = 0
    BY <1>4, <2>1
  <2>2. CASE d.ui.preset # 0
    <3>1. PresetShown(left, left.ui.preset, set_preset(left))
      BY <1>4, SetPreset
    <3> QED
      BY <1>4, <2>2, <3>1 DEF PresetShown
  <2> QED
    BY <2>1, <2>2
<1>6. s = set_preset(then)
  BY DEF CheckPreset, left
<1> HIDE DEF then, s
<1>7. PresetShown(then, then.ui.preset, set_preset(then))
  BY <1>5, SetPreset
<1>8. PresetShown(then, p, s)
  BY <1>5, <1>6, <1>7
<1>9. then.config \in Configs
  BY <1>5 DEF Dlgs
<1>10. Applied(s.config, p)
  BY <1>8, <1>9, PresetApplies DEF PresetShown
<1>11. Applied(d.config, p) => Getters(s.config) = Getters(d.config)
  <2> SUFFICES ASSUME Applied(d.config, p)
               PROVE  Getters(s.config) = Getters(d.config)
    OBVIOUS
  <2>1. Getters(preset(d.config, p)) = Getters(d.config)
    BY <1>1, AppliedPreset
  <2>2. Applied(preset(d.config, p), p)
    BY <1>1, PresetApplies
  <2>3. Applied(then.config, p) /\ Getters(then.config) = Getters(d.config)
    BY <1>5, <2>1, <2>2
  <2>4. Getters(preset(then.config, p)) = Getters(then.config)
    BY <1>9, <2>3, AppliedPreset
  <2> QED
    BY <1>8, <2>3, <2>4 DEF PresetShown
<1> QED
  BY <1>8, <1>10, <1>11 DEF PresetShown, PresetChosen, s

\* A change that belongs to no preset leaves Custom chosen and everything shown.
LEMMA CustomShown ==
    ASSUME NEW d \in Dlgs
    PROVE  LET s == switch2custom(d)
           IN  /\ s \in Dlgs /\ s.config = d.config /\ s.ui.preset = 0
               /\ ShownBy(Getters(s.config), s.ui)
<1> DEFINE c == CheckPreset(d, 0)
           s == switch2custom(d)
<1>1. c \in Dlgs /\ c.config = d.config /\ c.ui.preset = 0
  BY CustomChosen
<1>2. s = config_gui(c)
  BY DEF switch2custom
<1> HIDE DEF c, s
<1>3. GuiUpdated(c, config_gui(c))
  BY <1>1, GuiShowsConfig
<1> QED
  BY <1>1, <1>2, <1>3 DEF GuiUpdated, s

AppliedIf(c, p) == p # 0 => Applied(c, p)

StoredSettings == [config : Configs, preset : 0 .. 4]

\* The stored settings are loaded: the same configuration, as its readers see it.
SettingsShown(s, d) ==
    /\ d \in Dlgs /\ ShownBy(Getters(d.config), d.ui)
    /\ d.ui.preset = s.preset /\ AppliedIf(d.config, s.preset)
    /\ Getters(d.config) = Getters(s.config)

LEMMA SettingsLoaded ==
    ASSUME NEW d \in Dlgs, NEW s \in StoredSettings, AppliedIf(s.config, s.preset)
    PROVE  SettingsShown(s, load_settings(d, s))
<1> DEFINE fresh == [d EXCEPT !.config = s.config]
           c == preset(s.config, s.preset)
           next == [fresh EXCEPT !.config = preset(@, s.preset)]
           chosen == IF s.preset = 0 THEN CheckPreset(fresh, 0) ELSE CheckPreset(next, s.preset)
           l == load_settings(d, s)
<1>1. d.config \in Configs /\ d.ui \in Uis
  BY DEF Dlgs
<1>2. s.config \in Configs /\ s.preset \in 0 .. 4
  BY DEF StoredSettings
<1>3. fresh \in Dlgs /\ fresh.config = s.config
  BY <1>1, <1>2 DEF Dlgs
<1>4. l = config_gui(chosen)
  BY DEF load_settings
<1>5. /\ chosen \in Dlgs /\ chosen.ui.preset = s.preset /\ AppliedIf(chosen.config, s.preset)
      /\ Getters(chosen.config) = Getters(s.config)
  <2>1. CASE s.preset = 0
    <3> HIDE DEF fresh
    <3>1. chosen = CheckPreset(fresh, 0)
      BY <2>1
    <3> HIDE DEF chosen
    <3> QED
      BY <1>3, <2>1, <3>1, CustomChosen DEF AppliedIf
  <2>2. CASE s.preset # 0
    <3>1. s.preset \in 1 .. 4
      BY <1>2, <2>2
    <3>2. c \in Configs /\ Applied(c, s.preset) /\ Getters(c) = Getters(s.config)
      BY <1>2, <2>2, <3>1, PresetSets, PresetApplies, AppliedPreset DEF AppliedIf
    <3>3. next = [fresh EXCEPT !.config = c]
      BY <1>3
    <3>4. chosen = CheckPreset(next, s.preset)
      BY <2>2
    <3> HIDE DEF c, fresh, next, chosen
    <3>5. next \in Dlgs /\ next.config = c
      BY <1>3, <3>2, <3>3 DEF Dlgs
    <3>6. CASE next.ui.preset = s.preset
      <4>1. chosen = next
        BY <3>4, <3>6 DEF CheckPreset
      <4> QED
        BY <3>2, <3>5, <3>6, <4>1 DEF AppliedIf
    <3>7. CASE next.ui.preset # s.preset
      <4>1. PresetChosen(next, s.preset, chosen)
        BY <3>1, <3>4, <3>5, <3>7, PresetIsChosen
      <4> QED
        BY <3>2, <3>5, <4>1 DEF PresetChosen, AppliedIf
    <3> QED
      BY <3>6, <3>7
  <2> QED
    BY <2>1, <2>2
<1> HIDE DEF chosen, l
<1>6. GuiUpdated(chosen, config_gui(chosen))
  BY <1>5, GuiShowsConfig
<1> QED
  BY <1>4, <1>5, <1>6 DEF GuiUpdated, SettingsShown, l

\* The dialog between two events: p is the preset the user picked.
GoodDlg(d, p) ==
    /\ d \in Dlgs /\ ShownBy(Getters(d.config), d.ui)
    /\ d.ui.preset = p /\ AppliedIf(d.config, p)

\* The settings hold what the machine m was created from.
StoredFor(m, s) == m \in Configs /\ Getters(s.config) = Getters(m)

\* Inductive: what is shown is applied and stored, and the settings are the machine's.
DlgInv ==
    /\ GoodDlg(dlg, picked) /\ visible \in BOOLEAN
    /\ settings \in StoredSettings /\ AppliedIf(settings.config, settings.preset)
    /\ created # NoConfig => StoredFor(created, settings)
    /\ ~visible => StoredFor(created, settings) /\ Getters(dlg.config) = Getters(created)

LEMMA ChangeKeeps ==
    ASSUME NEW d, NEW p, GoodDlg(d, p), DlgInv, Change(d, p)
    PROVE  DlgInv'
<1>1. /\ dlg' = d /\ picked' = p /\ visible /\ visible' = visible
      /\ settings' = settings /\ created' = created
  BY DEF Change
<1>2. GoodDlg(dlg', picked')
  BY <1>1
<1>3. created' # NoConfig => StoredFor(created', settings')
  BY <1>1 DEF DlgInv
<1>4. settings' \in StoredSettings /\ AppliedIf(settings'.config, settings'.preset)
  BY <1>1 DEF DlgInv
<1> QED
  BY <1>1, <1>2, <1>3, <1>4 DEF DlgInv

\* A change that switches to Custom, whatever it wrote before.
LEMMA CustomChangeKeeps ==
    ASSUME NEW d \in Dlgs, DlgInv, Change(switch2custom(d), 0)
    PROVE  DlgInv'
<1> DEFINE s == switch2custom(d)
<1>1. GoodDlg(s, 0)
  BY CustomShown DEF GoodDlg, AppliedIf
<1> HIDE DEF s
<1>2. Change(s, 0)
  BY DEF s
<1> QED
  BY <1>1, <1>2, ChangeKeeps

LEMMA PresetChoiceKeeps ==
    ASSUME NEW p \in 0 .. 4, DlgInv, ChoosePreset(p)
    PROVE  DlgInv'
<1> DEFINE s == CheckPreset(dlg, p)
<1>1. Change(s, p) /\ p # dlg.ui.preset
  BY DEF ChoosePreset
<1>2. dlg \in Dlgs /\ dlg.config \in Configs
  BY DEF DlgInv, GoodDlg, Dlgs
<1>3. GoodDlg(s, p)
  <2>1. CASE p = 0
    <3>1. s = CheckPreset(dlg, 0)
      BY <2>1
    <3> HIDE DEF s
    <3>2. /\ s \in Dlgs /\ s.config = dlg.config /\ s.ui.preset = 0
          /\ \A g \in Configs : ShownBy(g, dlg.ui) => ShownBy(g, s.ui)
      BY <1>2, <3>1, CustomChosen
    <3>3. Getters(dlg.config) \in Configs /\ ShownBy(Getters(dlg.config), dlg.ui)
      BY <1>2, GettersRead DEF DlgInv, GoodDlg
    <3> QED
      BY <2>1, <3>2, <3>3 DEF GoodDlg, AppliedIf
  <2>2. CASE p # 0
    <3>1. PresetChosen(dlg, p, s)
      BY <1>1, <1>2, <2>2, PresetIsChosen
    <3> QED
      BY <3>1 DEF PresetChosen, GoodDlg, AppliedIf
  <2> QED
    BY <2>1, <2>2
<1> HIDE DEF s
<1> QED
  BY <1>1, <1>3, ChangeKeeps

LEMMA PipelinedKeeps ==
    ASSUME DlgInv, pipelined_change
    PROVE  DlgInv'
<1> DEFINE on == ~dlg.ui.pipelined
           u == [dlg.ui EXCEPT !.pipelined = on]
           c == [dlg.config EXCEPT !.pipelined = on]
           d == [dlg EXCEPT !.ui.pipelined = ~@, !.config.pipelined = ~dlg.ui.pipelined]
<1>1. dlg \in Dlgs /\ dlg.config \in Configs /\ dlg.ui \in Uis
  BY DEF DlgInv, GoodDlg, Dlgs
<1>2. d = [dlg EXCEPT !.ui = u, !.config = c]
  BY <1>1 DEF Dlgs
<1>3. on \in BOOLEAN
  OBVIOUS
<1> HIDE DEF on
<1>4. u \in Uis /\ c \in Configs
  BY <1>1, <1>3 DEF Uis, Configs
<1>5. d \in Dlgs
  <2> HIDE DEF u, c, d
  <2> QED
    BY <1>1, <1>2, <1>4 DEF Dlgs
<1>6. Change(switch2custom(d), 0)
  BY DEF pipelined_change
<1> HIDE DEF d
<1> QED
  BY <1>5, <1>6, CustomChangeKeeps

LEMMA DelaySlotKeeps ==
    ASSUME DlgInv, delay_slot_change
    PROVE  DlgInv'
<1> DEFINE on == ~dlg.ui.delay_slot
           u == [dlg.ui EXCEPT !.delay_slot = on]
           c == [dlg.config EXCEPT !.delay_slot = on]
           d == [dlg EXCEPT !.ui.delay_slot = ~@, !.config.delay_slot = ~dlg.ui.delay_slot]
<1>1. dlg \in Dlgs /\ dlg.config \in Configs /\ dlg.ui \in Uis
  BY DEF DlgInv, GoodDlg, Dlgs
<1>2. d = [dlg EXCEPT !.ui = u, !.config = c]
  BY <1>1 DEF Dlgs
<1>3. on \in BOOLEAN
  OBVIOUS
<1> HIDE DEF on
<1>4. u \in Uis /\ c \in Configs
  BY <1>1, <1>3 DEF Uis, Configs
<1>5. d \in Dlgs
  <2> HIDE DEF u, c, d
  <2> QED
    BY <1>1, <1>2, <1>4 DEF Dlgs
<1>6. Change(switch2custom(d), 0)
  BY DEF delay_slot_change
<1> HIDE DEF d
<1> QED
  BY <1>5, <1>6, CustomChangeKeeps

LEMMA HazardUnitKeeps ==
    ASSUME DlgInv, hazard_unit_change
    PROVE  DlgInv'
<1>1. PICK on \in BOOLEAN, radio \in {"STALL", "STALL_FORWARD"} :
        Change(switch2custom([dlg EXCEPT !.ui.hazard_unit = on, !.ui.hazard_radio = radio,
                                    !.config.hazard_unit = IF on THEN radio ELSE "NONE"]), 0)
  BY DEF hazard_unit_change
<1> DEFINE unit == IF on THEN radio ELSE "NONE"
           u == [dlg.ui EXCEPT !.hazard_unit = on, !.hazard_radio = radio]
           c == [dlg.config EXCEPT !.hazard_unit = unit]
           d == [dlg EXCEPT !.ui.hazard_unit = on, !.ui.hazard_radio = radio,
                            !.config.hazard_unit = unit]
<1>2. dlg \in Dlgs /\ dlg.config \in Configs /\ dlg.ui \in Uis
  BY DEF DlgInv, GoodDlg, Dlgs
<1>3. unit \in {"NONE", "STALL", "STALL_FORWARD"}
  OBVIOUS
<1>4. Change(switch2custom(d), 0)
  BY <1>1
<1> HIDE DEF unit
<1>5. d = [dlg EXCEPT !.ui = u, !.config = c]
  BY <1>2 DEF Dlgs, Uis
<1>6. u \in Uis /\ c \in Configs
  BY <1>2, <1>3 DEF Uis, Configs
<1> HIDE DEF u, c, d
<1>7. d \in Dlgs
  BY <1>2, <1>5, <1>6 DEF Dlgs
<1> QED
  BY <1>4, <1>7, CustomChangeKeeps

LEMMA TimeKeeps ==
    ASSUME NEW t \in MemTimes, NEW v \in Times, DlgInv, TimeEdited(t, v)
    PROVE  DlgInv'
<1> DEFINE edited == TimeShown(dlg, t, v)
           u == [dlg.ui EXCEPT ![t] = v]
           c == [dlg.config EXCEPT ![t] = v]
           d == [edited EXCEPT !.config[t] = v]
<1>1. dlg \in Dlgs /\ dlg.config \in Configs /\ dlg.ui \in Uis
  BY DEF DlgInv, GoodDlg, Dlgs
<1>2. v \in Nat
  BY DialogAssumption DEF DialogAssumption
<1>3. u \in Uis /\ c \in Configs
  <2>1. CASE t = "read"
    BY <1>1, <1>2, <2>1 DEF Uis, Configs
  <2>2. CASE t = "write"
    BY <1>1, <1>2, <2>2 DEF Uis, Configs
  <2>3. CASE t = "burst"
    BY <1>1, <1>2, <2>3 DEF Uis, Configs
  <2> QED
    BY <2>1, <2>2, <2>3 DEF MemTimes
<1>4. edited \in Dlgs /\ edited.config = dlg.config
  <2> HIDE DEF c
  <2>1. edited = [dlg EXCEPT !.ui = u]
    BY DEF TimeShown
  <2> HIDE DEF u, edited
  <2> QED
    BY <1>1, <1>3, <2>1 DEF Dlgs
<1>5. TimeChanges(edited, t, v)
  <2>1. Getters(dlg.config)[t] = dlg.ui[t]
    BY DEF DlgInv, GoodDlg, ShownBy, MemTimes
  <2>2. v # dlg.ui[t]
    BY DEF TimeEdited
  <2> QED
    BY <1>4, <2>1, <2>2 DEF TimeChanges
<1>6. mem_time_change(edited, t, v) = switch2custom(d)
  <2> HIDE DEF edited
  <2> QED
    BY <1>5 DEF mem_time_change
<1>7. Change(switch2custom(d), 0)
  BY <1>6 DEF TimeEdited
<1>8. d = [edited EXCEPT !.config = c]
  BY <1>4
<1> HIDE DEF edited, c, d
<1>9. d \in Dlgs
  BY <1>3, <1>4, <1>8 DEF Dlgs
<1> QED
  BY <1>7, <1>9, CustomChangeKeeps

\* The fields that no preset sets and no getter changes.
PlainFields == {"osemu", "fs_root", "reset_at_compile", "elf"}

\* y is x with field f holding v
FieldSet(x, names, f, v, y) == y[f] = v /\ \A n \in names \ {f} : y[n] = x[n]

LEMMA PlainEditKeeps ==
    ASSUME NEW f \in PlainFields, NEW v, NEW d \in Dlgs, DlgInv, Change(d, picked),
           FieldSet(dlg.ui, UiNames, f, v, d.ui), FieldSet(dlg.config, ConfigNames, f, v, d.config)
    PROVE  DlgInv'
<1> DEFINE g == Getters(dlg.config)
           h == Getters(d.config)
<1>1. dlg.config \in Configs /\ d.config \in Configs
  BY DEF DlgInv, GoodDlg, Dlgs
<1>2. GetterFields(dlg.config, g) /\ GetterFields(d.config, h)
  BY <1>1, GettersRead
<1> HIDE DEF g, h
<1>3. /\ d.config.pipelined = dlg.config.pipelined /\ d.config.delay_slot = dlg.config.delay_slot
      /\ d.config.hazard_unit = dlg.config.hazard_unit
      /\ d.config.read = dlg.config.read /\ d.config.write = dlg.config.write
      /\ d.config.burst = dlg.config.burst
      /\ d.config.program = dlg.config.program /\ d.config.data = dlg.config.data
  BY DEF FieldSet, ConfigNames, PlainFields
<1>4. /\ h.pipelined = g.pipelined /\ h.delay_slot = g.delay_slot
      /\ h.hazard_unit = g.hazard_unit
      /\ h.read = g.read /\ h.write = g.write /\ h.burst = g.burst
      /\ h.program = g.program /\ h.data = g.data
  BY <1>2, <1>3 DEF GetterFields
<1>5. \A n \in UiNames \ PlainFields : d.ui[n] = dlg.ui[n]
  BY DEF FieldSet
<1>6. ShownBy(g, dlg.ui)
  BY DEF DlgInv, GoodDlg, g
<1>7. \A n \in PlainFields : d.ui[n] = h[n]
  <2>1. \A n \in PlainFields : dlg.ui[n] = dlg.config[n] /\ h[n] = d.config[n]
    BY <1>2, <1>6 DEF GetterFields, ShownBy, PlainFields
  <2>2. \A n \in PlainFields : n \in UiNames /\ n \in ConfigNames
    BY DEF PlainFields, UiNames, ConfigNames
  <2> HIDE DEF PlainFields, UiNames, ConfigNames
  <2> QED
    BY <2>1, <2>2 DEF FieldSet
<1>8. ShownBy(h, d.ui)
  <2>1. /\ d.ui.pipelined = g.pipelined /\ d.ui.delay_slot = g.delay_slot
        /\ d.ui.hazard_unit = (g.hazard_unit # "NONE")
        /\ d.ui.hazard_unit => d.ui.hazard_radio = g.hazard_unit
        /\ d.ui.read = g.read /\ d.ui.write = g.write /\ d.ui.burst = g.burst
        /\ d.ui.program = g.program /\ d.ui.data = g.data
        /\ d.ui.delay_slot_enabled = ~g.pipelined
    BY <1>5, <1>6 DEF ShownBy, UiNames, PlainFields
  <2>2. /\ d.ui.osemu = h.osemu /\ d.ui.fs_root = h.fs_root
        /\ d.ui.reset_at_compile = h.reset_at_compile /\ d.ui.elf = h.elf
    BY <1>7 DEF PlainFields
  <2> QED
    BY <1>4, <2>1, <2>2 DEF ShownBy
<1>9. d.ui.preset = picked
  BY <1>5 DEF UiNames, PlainFields, DlgInv, GoodDlg
<1>10. AppliedIf(d.config, picked)
  BY <1>3 DEF AppliedIf, Applied, DlgInv, GoodDlg
<1>11. GoodDlg(d, picked)
  BY <1>8, <1>9, <1>10 DEF GoodDlg, h
<1> QED
  BY <1>11, ChangeKeeps

LEMMA OsemuKeeps ==
    ASSUME NEW f \in OsFlags, DlgInv, osemu_change(f)
    PROVE  DlgInv'
<1> DEFINE on == ~dlg.ui.osemu[f]
           v == [dlg.ui.osemu EXCEPT ![f] = on]
           u == [dlg.ui EXCEPT !.osemu = v]
           c == [dlg.config EXCEPT !.osemu = v]
           d == [dlg EXCEPT !.ui.osemu[f] = ~@, !.config.osemu[f] = ~dlg.ui.osemu[f]]
<1>1. dlg \in Dlgs /\ dlg.config \in Configs /\ dlg.ui \in Uis
  BY DEF DlgInv, GoodDlg, Dlgs
<1>2. dlg.ui.osemu = dlg.config.osemu /\ dlg.ui.osemu \in [OsFlags -> BOOLEAN]
  <2>1. Getters(dlg.config).osemu = dlg.config.osemu
    BY <1>1, GettersRead DEF GetterFields
  <2>2. dlg.ui.osemu = Getters(dlg.config).osemu
    BY DEF DlgInv, GoodDlg, ShownBy
  <2> QED
    BY <1>1, <2>1, <2>2 DEF Uis
<1>3. d = [dlg EXCEPT !.ui = u, !.config = c]
  BY <1>1, <1>2 DEF Dlgs, Uis, Configs
<1>4. v \in [OsFlags -> BOOLEAN]
  <2>1. on \in BOOLEAN
    OBVIOUS
  <2> HIDE DEF on
  <2> QED
    BY <1>2, <2>1
<1> HIDE DEF v
<1>5. u \in Uis /\ c \in Configs
  BY <1>1, <1>4 DEF Uis, Configs
<1>6. FieldSet(dlg.ui, UiNames, "osemu", v, u) /\ FieldSet(dlg.config, ConfigNames, "osemu", v, c)
  BY <1>1 DEF FieldSet, UiNames, ConfigNames, Uis, Configs
<1>7. Change(d, picked)
  BY DEF osemu_change
<1> HIDE DEF u, c, d
<1>8. d \in Dlgs /\ d.ui = u /\ d.config = c
  BY <1>1, <1>3, <1>5 DEF Dlgs
<1> QED
  BY <1>6, <1>7, <1>8, PlainEditKeeps DEF PlainFields

LEMMA ResetAtCompileKeeps ==
    ASSUME DlgInv, reset_at_compile_change
    PROVE  DlgInv'
<1> DEFINE on == ~dlg.ui.reset_at_compile
           u == [dlg.ui EXCEPT !.reset_at_compile = on]
           c == [dlg.config EXCEPT !.reset_at_compile = on]
           d == [dlg EXCEPT !.ui.reset_at_compile = ~@,
                            !.config.reset_at_compile = ~dlg.ui.reset_at_compile]
<1>1. dlg \in Dlgs /\ dlg.config \in Configs /\ dlg.ui \in Uis
  BY DEF DlgInv, GoodDlg, Dlgs
<1>2. d = [dlg EXCEPT !.ui = u, !.config = c]
  BY <1>1 DEF Dlgs
<1>3. on \in BOOLEAN
  OBVIOUS
<1>4. Change(d, picked)
  BY DEF reset_at_compile_change
<1> HIDE DEF on, d
<1>5. u \in Uis /\ c \in Configs
  BY <1>1, <1>3 DEF Uis, Configs
<1>6. /\ FieldSet(dlg.ui, UiNames, "reset_at_compile", on, u)
      /\ FieldSet(dlg.config, ConfigNames, "reset_at_compile", on, c)
  BY <1>1 DEF FieldSet, UiNames, ConfigNames, Uis, Configs
<1> HIDE DEF u, c
<1>7. d \in Dlgs /\ d.ui = u /\ d.config = c
  BY <1>1, <1>2, <1>5 DEF Dlgs
<1> QED
  BY <1>4, <1>6, <1>7, PlainEditKeeps DEF PlainFields

LEMMA PathKeeps ==
    ASSUME NEW f \in {"elf", "fs_root"}, NEW path \in {"", "p"}, DlgInv, PathChange(f, path)
    PROVE  DlgInv'
<1> DEFINE u == [dlg.ui EXCEPT ![f] = path]
           c == [dlg.config EXCEPT ![f] = path]
           d == [dlg EXCEPT !.ui[f] = path, !.config[f] = path]
<1>1. dlg \in Dlgs /\ dlg.config \in Configs /\ dlg.ui \in Uis
  BY DEF DlgInv, GoodDlg, Dlgs
<1>2. d = [dlg EXCEPT !.ui = u, !.config = c]
  BY <1>1 DEF Dlgs
<1>3. Change(d, picked)
  BY DEF PathChange
<1> HIDE DEF d
<1>4. /\ u \in Uis /\ c \in Configs
      /\ FieldSet(dlg.ui, UiNames, f, path, u) /\ FieldSet(dlg.config, ConfigNames, f, path, c)
  <2>1. CASE f = "elf"
    BY <1>1, <2>1 DEF FieldSet, UiNames, ConfigNames, Uis, Configs
  <2>2. CASE f = "fs_root"
    BY <1>1, <2>2 DEF FieldSet, UiNames, ConfigNames, Uis, Configs
  <2> QED
    BY <2>1, <2>2
<1> HIDE DEF u, c
<1>5. d \in Dlgs /\ d.ui = u /\ d.config = c
  BY <1>1, <1>2, <1>4 DEF Dlgs
<1> QED
  BY <1>3, <1>4, <1>5, PlainEditKeeps DEF PlainFields

LEMMA CacheKeeps ==
    ASSUME NEW cache \in {"program", "data"}, NEW f \in CacheFields, NEW v \in CacheValues(f),
           DlgInv, CacheEdited(cache, f, v)
    PROVE  DlgInv'
<1> DEFINE new == SetCache(dlg.config[cache], f, v)
           c == [dlg.config EXCEPT ![cache] = new]
           d == [dlg EXCEPT !.config[cache] = SetCache(@, f, v)]
<1>1. dlg \in Dlgs /\ dlg.config \in Configs /\ dlg.ui \in Uis
  BY DEF DlgInv, GoodDlg, Dlgs
<1>2. dlg.config[cache] \in Caches
  BY <1>1 DEF Configs
<1>3. new \in Caches
  <2> DEFINE old == dlg.config[cache]
             x == IF f \in {"sets", "blocks", "assoc"} THEN AtLeastOne(v) ELSE v
  <2>1. new = [old EXCEPT ![f] = x]
    BY DEF SetCache
  <2>2. old \in Caches
    BY <1>2
  <2>3. CASE f = "enabled"
    BY <2>1, <2>2, <2>3 DEF Caches, CacheValues
  <2>4. CASE f = "replacement"
    BY <2>1, <2>2, <2>4 DEF Caches, CacheValues
  <2>5. CASE f = "write"
    BY <2>1, <2>2, <2>5 DEF Caches, CacheValues
  <2>6. CASE f \in {"sets", "blocks", "assoc"}
    <3>1. v \in Nat
      BY <2>6, DialogAssumption DEF DialogAssumption, CacheValues
    <3>2. x \in Nat
      BY <2>6, <3>1 DEF AtLeastOne
    <3> HIDE DEF x, old, new
    <3> QED
      BY <2>1, <2>2, <2>6, <3>2 DEF Caches
  <2> QED
    BY <2>3, <2>4, <2>5, <2>6 DEF CacheFields
<1>4. d = [dlg EXCEPT !.config = c]
  BY <1>1 DEF Dlgs
<1>5. Change(switch2custom(d), 0)
  BY DEF CacheEdited
<1> HIDE DEF new, d
<1>6. c \in Configs
  <2>1. CASE cache = "program"
    BY <1>1, <1>3, <2>1 DEF Configs
  <2>2. CASE cache = "data"
    BY <1>1, <1>3, <2>2 DEF Configs
  <2> QED
    BY <2>1, <2>2
<1> HIDE DEF c
<1>7. d \in Dlgs
  BY <1>1, <1>4, <1>6 DEF Dlgs
<1> QED
  BY <1>5, <1>7, CustomChangeKeeps

\* The dialog is closed with settings that are the machine's.
LEMMA CloseKeeps ==
    ASSUME NEW s \in StoredSettings, NEW m, AppliedIf(s.config, s.preset), StoredFor(m, s),
           dlg \in Dlgs, Close(s), settings' = s, created' = m
    PROVE  DlgInv'
<1> DEFINE d == load_settings(dlg, s)
<1>1. SettingsShown(s, d)
  BY SettingsLoaded
<1> HIDE DEF d
<1>2. dlg' = d /\ visible' = FALSE /\ picked' = s.preset
  BY DEF Close, d
<1>3. GoodDlg(dlg', picked')
  BY <1>1, <1>2 DEF SettingsShown, GoodDlg
<1>4. Getters(dlg'.config) = Getters(created')
  BY <1>1, <1>2 DEF SettingsShown, StoredFor
<1> QED
  BY <1>2, <1>3, <1>4 DEF DlgInv

LEMMA CreateKeeps ==
    ASSUME DlgInv, create
    PROVE  DlgInv'
<1> DEFINE c == Getters(dlg.config)
           s == [config |-> c, preset |-> dlg.ui.preset]
<1>1. dlg \in Dlgs /\ dlg.config \in Configs /\ dlg.ui \in Uis
  BY DEF DlgInv, GoodDlg, Dlgs
<1>2. dlg.ui.preset \in 0 .. 4
  BY <1>1 DEF Uis
<1>3. c \in Configs /\ Getters(c) = c
  BY <1>1, GettersRead, GettersTwice
<1>4. Close(s) /\ settings' = s /\ created' = dlg.config
  BY DEF create, store
<1>5. AppliedIf(c, dlg.ui.preset)
  <2>1. AppliedIf(dlg.config, dlg.ui.preset)
    BY DEF DlgInv, GoodDlg
  <2> QED
    BY <1>1, <1>2, <2>1, GettersApplied DEF AppliedIf
<1>6. s \in StoredSettings /\ s.config = c /\ s.preset = dlg.ui.preset
  <2> HIDE DEF c
  <2> QED
    BY <1>2, <1>3 DEF StoredSettings
<1>7. StoredFor(dlg.config, s)
  BY <1>1, <1>3, <1>6 DEF StoredFor
<1> HIDE DEF s, c
<1> QED
  BY <1>1, <1>4, <1>5, <1>6, <1>7, CloseKeeps

LEMMA CancelKeeps ==
    ASSUME DlgInv, cancel
    PROVE  DlgInv'
<1>1. Close(settings) /\ settings' = settings /\ created' = created /\ created # NoConfig
  BY DEF cancel
<1>2. /\ dlg \in Dlgs /\ settings \in StoredSettings
      /\ AppliedIf(settings.config, settings.preset) /\ StoredFor(created, settings)
  BY <1>1 DEF DlgInv, GoodDlg
<1> QED
  BY <1>1, <1>2, CloseKeeps

LEMMA DlgReloadKeeps ==
    ASSUME DlgInv, reload
    PROVE  DlgInv'
<1>1. /\ dlg' = dlg /\ settings' = settings /\ picked' = picked
      /\ ~visible /\ visible' = visible /\ created' = Getters(created)
  BY DEF reload, CopyOf
<1>2. StoredFor(created, settings) /\ Getters(dlg.config) = Getters(created)
  BY <1>1 DEF DlgInv
<1>3. created' \in Configs /\ Getters(created') = Getters(created)
  BY <1>1, <1>2, GettersRead, GettersTwice DEF StoredFor
<1>4. StoredFor(created', settings') /\ Getters(dlg'.config) = Getters(created')
  BY <1>1, <1>2, <1>3 DEF StoredFor
<1>5. GoodDlg(dlg', picked')
  BY <1>1 DEF DlgInv
<1> QED
  BY <1>1, <1>4, <1>5 DEF DlgInv

LEMMA DialogStep ==
    ASSUME DlgInv, [DlgNext]_dlgvars
    PROVE  DlgInv'
<1>1. CASE \E p \in 0 .. 4 : ChoosePreset(p)
  BY <1>1, PresetChoiceKeeps
<1>2. CASE pipelined_change
  BY <1>2, PipelinedKeeps
<1>3. CASE delay_slot_change
  BY <1>3, DelaySlotKeeps
<1>4. CASE hazard_unit_change
  BY <1>4, HazardUnitKeeps
<1>5. CASE \E t \in MemTimes, v \in Times : (t = "burst" \/ v > 0) /\ TimeEdited(t, v)
  BY <1>5, TimeKeeps
<1>6. CASE \E f \in OsFlags : osemu_change(f)
  BY <1>6, OsemuKeeps
<1>7. CASE reset_at_compile_change
  BY <1>7, ResetAtCompileKeeps
<1>8. CASE \E field \in {"elf", "fs_root"}, path \in {"", "p"} : PathChange(field, path)
  BY <1>8, PathKeeps
<1>9. CASE \E cache \in {"program", "data"}, field \in CacheFields :
             \E v \in CacheValues(field) : CacheEdited(cache, field, v)
  BY <1>9, CacheKeeps
<1>10. CASE create
  BY <1>10, CreateKeeps
<1>11. CASE cancel
  BY <1>11, CancelKeeps
<1>12. CASE reload
  BY <1>12, DlgReloadKeeps
<1>13. CASE new_machine
  <2>1. /\ dlg' = dlg /\ settings' = settings /\ picked' = picked /\ created' = created
        /\ visible' = TRUE
    BY <1>13 DEF new_machine
  <2>2. GoodDlg(dlg', picked') /\ settings' \in StoredSettings
        /\ AppliedIf(settings'.config, settings'.preset)
        /\ (created' # NoConfig => StoredFor(created', settings'))
    BY <2>1 DEF DlgInv
  <2> QED
    BY <2>1, <2>2 DEF DlgInv
<1>14. CASE UNCHANGED dlgvars
  <2>1. /\ dlg' = dlg /\ settings' = settings /\ picked' = picked /\ created' = created
        /\ visible' = visible
    BY <1>14 DEF dlgvars
  <2>2. GoodDlg(dlg', picked') /\ settings' \in StoredSettings
        /\ AppliedIf(settings'.config, settings'.preset)
        /\ (created' # NoConfig => StoredFor(created', settings'))
    BY <2>1 DEF DlgInv
  <2>3. ~visible' => StoredFor(created', settings') /\ Getters(dlg'.config) = Getters(created')
    BY <2>1 DEF DlgInv
  <2> QED
    BY <2>1, <2>2, <2>3 DEF DlgInv
<1> QED
  BY <1>1, <1>2, <1>3, <1>4, <1>5, <1>6, <1>7, <1>8, <1>9, <1>10, <1>11, <1>12, <1>13, <1>14
     DEF DlgNext

LEMMA DialogStarts ==
    ASSUME DlgInit
    PROVE  DlgInv
<1> DEFINE form == [config |-> DefaultConfig, ui |-> UiForm]
           s == [config |-> DefaultConfig, preset |-> 1]
<1>1. DefaultCache \in Caches
  BY DEF DefaultCache, Caches
<1>2. DefaultConfig \in Configs
  <2>1. [f \in OsFlags |-> TRUE] \in [OsFlags -> BOOLEAN]
    OBVIOUS
  <2> QED
    BY <1>1, <2>1 DEF DefaultConfig, Configs
<1>3. UiForm \in Uis
  <2>1. [f \in OsFlags |-> FALSE] \in [OsFlags -> BOOLEAN]
    OBVIOUS
  <2>2. 0 \in 0 .. 4
    OBVIOUS
  <2> QED
    BY <1>1, <2>1, <2>2 DEF UiForm, Uis
<1>4. Applied(DefaultConfig, 1)
  <2>1. CachePreset(DefaultCache, 1) = DefaultCache
    <3>1. CachePreset(DefaultCache, 1) = [DefaultCache EXCEPT !.enabled = FALSE]
      BY DEF CachePreset
    <3> QED
      BY <3>1 DEF DefaultCache
  <2>2. /\ DefaultConfig.pipelined = FALSE /\ DefaultConfig.delay_slot = TRUE
        /\ DefaultConfig.read = 10 /\ DefaultConfig.write = 10 /\ DefaultConfig.burst = 0
        /\ DefaultConfig.program = DefaultCache /\ DefaultConfig.data = DefaultCache
    BY Zenon DEF DefaultConfig
  <2>3. DefaultConfig.pipelined = (1 \in {3, 4})
    <3>1. (1 \in {3, 4}) = FALSE
      OBVIOUS
    <3> QED
      BY <2>2, <3>1, Zenon
  <2>4. AtLeastOne(10) = 10
    BY DEF AtLeastOne
  <2> QED
    BY <2>1, <2>2, <2>3, <2>4 DEF Applied
<1>5. form \in Dlgs
  BY <1>2, <1>3 DEF Dlgs
<1>6. s \in StoredSettings /\ s.config = DefaultConfig /\ s.preset = 1
  BY <1>2 DEF StoredSettings
<1>7. AppliedIf(s.config, s.preset)
  BY <1>4, <1>6 DEF AppliedIf
<1>8. /\ settings = s /\ dlg = load_settings(form, s)
      /\ visible = TRUE /\ created = NoConfig /\ picked = 1
  BY DEF DlgInit
<1> HIDE DEF form, s
<1>9. SettingsShown(s, dlg)
  BY <1>5, <1>6, <1>7, <1>8, SettingsLoaded
<1>10. GoodDlg(dlg, picked)
  BY <1>6, <1>8, <1>9 DEF SettingsShown, GoodDlg
<1> QED
  BY <1>6, <1>7, <1>8, <1>10 DEF DlgInv

LEMMA DlgInvConsistent ==
    ASSUME DlgInv
    PROVE  DialogConsistent
<1> DEFINE g == Getters(dlg.config)
           p == dlg.ui.preset
<1>1. dlg \in Dlgs /\ dlg.config \in Configs /\ dlg.ui \in Uis
  BY DEF DlgInv, GoodDlg, Dlgs
<1>2. g \in Configs /\ ShownBy(g, dlg.ui)
  BY <1>1, GettersRead DEF DlgInv, GoodDlg
<1>3. DialogShowsConfig
  <2> HIDE DEF g
  <2>1. DOMAIN g = ConfigNames
    BY <1>2 DEF Configs, ConfigNames
  <2>2. \A f \in ConfigNames \ {"hazard_unit"} : dlg.ui[f] = g[f]
    BY <1>2 DEF ShownBy, ConfigNames
  <2>3. /\ dlg.ui.hazard_unit = (g.hazard_unit # "NONE")
        /\ dlg.ui.hazard_unit => dlg.ui.hazard_radio = g.hazard_unit
        /\ dlg.ui.delay_slot_enabled = ~g.pipelined
    BY <1>2 DEF ShownBy
  <2> HIDE DEF ConfigNames
  <2> QED
    BY <2>1, <2>2, <2>3 DEF DialogShowsConfig, g
<1>4. PresetFollowsUser
  BY DEF DlgInv, GoodDlg, PresetFollowsUser
<1>5. PresetApplied
  <2> SUFFICES ASSUME p # 0
               PROVE  Getters(preset(dlg.config, p)) = Getters(dlg.config)
    BY DEF PresetApplied
  <2>1. p \in 0 .. 4
    BY <1>1 DEF Uis
  <2>2. p \in 1 .. 4
    BY <2>1
  <2>3. Applied(dlg.config, p)
    BY DEF DlgInv, GoodDlg, AppliedIf
  <2> QED
    BY <1>1, <2>2, <2>3, AppliedPreset
<1>6. StoredMachineComesBack
  BY DEF DlgInv, StoredMachineComesBack
<1> QED
  BY <1>3, <1>4, <1>5, <1>6 DEF DialogConsistent

\* After every order of changes, presets, starts, cancels and reloads the widgets show the
\* configuration, the chosen preset is the user's and is applied, and a closed dialog holds
\* the configuration of the last machine, for all times, cache sizes and policies (newdialog.cpp).
THEOREM DialogStaysConsistent == DlgSpec => []DialogConsistent
<1>1. DlgInit => DlgInv
  BY DialogStarts
<1>2. DlgInv /\ [DlgNext]_dlgvars => DlgInv'
  BY DialogStep
<1>3. DlgInv => DialogConsistent
  BY DlgInvConsistent
<1> QED
  BY <1>1, <1>2, <1>3, PTL DEF DlgSpec
=============================================================================
