------------------------------ MODULE TableView -------------------------------
(***************************************************************************)
(* The memory and the program view (memorymodel.cpp, memorytableview.cpp,   *)
(* programmodel.cpp, programtableview.cpp, programdock.cpp).  A view has a   *)
(* fixed number of rows, a window on the address space that is moved when   *)
(* the user scrolls near an end.  Moving it scrolls the view, which queues  *)
(* the next look at the scroll position.  The program view is the view with *)
(* one word per row; it follows a pipeline stage and marks all of them.     *)
(***************************************************************************)
EXTENDS Integers

CONSTANTS RowCount,      \* rows of a model, 750 in the code
          Height,        \* rows seen at once
          CellCounts,    \* cells per row the width of the memory view allows
          Targets,       \* addresses asked for
          Stages,        \* the pipeline stages shown
          MaxMoves

\* any view shows at most half of its rows
ViewAssumption ==
    /\ RowCount \in Nat /\ RowCount >= 8
    /\ Height \in 1 .. (RowCount \div 2)
    /\ CellCounts \subseteq Nat \ {0} /\ CellCounts # {}
    /\ Targets \subseteq Nat

ASSUME ViewAssumption

VARIABLE view

NoAddr == -1             \* STAGEADDR_NONE, and no row or address

\* cur is the row of the cursor; saved the address kept in the settings; data counts
\* changes of memory and cache; painted is what update_all saw
ViewStart(kind) ==
    [kind |-> kind, offset |-> 0, cell |-> 4, cells |-> 1, top |-> 0, cur |-> NoAddr,
     queued |-> FALSE, saved |-> 0, need_save |-> kind = "memory", asked |-> NoAddr, moves |-> 0,
     follow |-> "none", follow_addr |-> [s \in Stages |-> 0],
     stage_addr |-> [s \in Stages |-> NoAddr], stages_need_update |-> FALSE, data |-> 0,
     painted |-> [data |-> 0, stages |-> [s \in Stages |-> NoAddr]], checked |-> TRUE]

ViewInit == view \in {ViewStart("memory"), ViewStart("program")}

-----------------------------------------------------------------------------
(* The models.                                                               *)

RowBytes(v) == v.cells * v.cell
CellStart(v, a) == a - (a % v.cell)

get_row_address(v, row) == v.offset + row * RowBytes(v)

\* a bug: an address above the first row is not noticed
RowUnchecked(v, a) ==
    LET row == (a - v.offset) \div RowBytes(v)
    IN  IF row > RowCount THEN [row |-> RowCount, found |-> FALSE] ELSE [row |-> row, found |-> TRUE]

\* the row after the last one counts as found
get_row_for_address(v, a) ==
    LET row == (a - v.offset) \div RowBytes(v)
    IN  IF a < v.offset THEN [row |-> NoAddr, found |-> FALSE]
        ELSE IF row > RowCount THEN [row |-> RowCount, found |-> FALSE]
        ELSE [row |-> row, found |-> TRUE]

\* the address goes to the middle row, or to its row counted from address 0
adjustRowAndOffset(v, address) ==
    LET a == CellStart(v, address)
        diff == (RowCount \div 2) * RowBytes(v)
        row == a \div RowBytes(v)
    IN  [v EXCEPT !.offset = IF diff <= a THEN a - diff
                             ELSE IF row = 0 THEN 0 ELSE a - row * RowBytes(v)]

AdjustedRow(v, address) == get_row_for_address(v, CellStart(v, address)).row

update_all(v) == [v EXCEPT !.painted = [data |-> v.data, stages |-> v.stage_addr],
                           !.stages_need_update = FALSE]

\* a bug: only the counters are looked at
CheckCounters(v) == IF v.painted.data # v.data THEN update_all(v) ELSE v

check_for_updates(v) ==
    IF v.stages_need_update \/ v.painted.data # v.data THEN update_all(v) ELSE v

-----------------------------------------------------------------------------
(* The table view of Qt: the scroll bar signals a change of its value, and a *)
(* new cursor is scrolled into view.  An index outside the rows is no cursor. *)

\* adjust_scroll_pos_check
ScrolledTo(v, t) == [v EXCEPT !.top = t, !.queued = @ \/ t # v.top]

PositionAtTop(v, row) == ScrolledTo(v, IF row > RowCount - Height THEN RowCount - Height ELSE row)

setCurrentIndex(v, row) ==
    LET w == [v EXCEPT !.cur = row]
    IN  IF row \notin 0 .. RowCount - 1 THEN [v EXCEPT !.cur = NoAddr]
        ELSE IF row = v.cur THEN v
        ELSE IF row < v.top THEN ScrolledTo(w, row)
        ELSE IF row >= v.top + Height THEN ScrolledTo(w, row - Height + 1) ELSE w

-----------------------------------------------------------------------------
(* The views.                                                                *)

\* the program view saves an address once after the user chose one
addr0_save_change(v, a) ==
    IF v.need_save THEN [v EXCEPT !.saved = a, !.need_save = v.kind = "memory"] ELSE v

go_to_address_priv(v, a) ==
    LET w == adjustRowAndOffset(v, a)
        row == AdjustedRow(w, a)
    IN  update_all(addr0_save_change(setCurrentIndex(PositionAtTop(w, row), row), a))

go_to_address(v, a) == go_to_address_priv([v EXCEPT !.need_save = TRUE], a)

focus_address(v, a) ==
    LET w == IF get_row_for_address(v, a).found THEN v ELSE go_to_address_priv(v, a)
        there == get_row_for_address(w, a)
    IN  IF there.found THEN setCurrentIndex(w, there.row) ELSE w

\* a bug: the test of the memory view in the program view
BeyondStrictly(v) == v.offset > RowBytes(v)

\* there are rows above the first: the memory view misses the case of exactly one
RowsAbove(v) == IF v.kind = "memory" THEN v.offset > RowBytes(v) ELSE v.offset >= RowBytes(v)

\* the address the rows are moved to, when the top row is near an end
MoveTo(v) ==
    LET here == {get_row_address(v, v.top)}
    IN  IF v.top < RowCount \div 8
        THEN IF v.top = 0 /\ v.offset < RowBytes(v) /\ v.offset # 0 THEN {0}
             ELSE IF RowsAbove(v) THEN here ELSE {}
        ELSE IF v.top > RowCount - (RowCount \div 8) THEN here ELSE {}

\* a bug: the address is not kept
RestsUnsaved(v) == view' = [v EXCEPT !.asked = IF v.cur = NoAddr THEN NoAddr ELSE @]

\* a bug: the flag of the queued call is set again
RestsQueued(v) == view' = [v EXCEPT !.queued = TRUE, !.saved = get_row_address(v, v.top),
                                    !.asked = IF v.cur = NoAddr THEN NoAddr ELSE @]

\* the address of the top row is kept; a cursor that left the rows has nothing to show
Rests(v) == \E w \in {addr0_save_change(v, get_row_address(v, v.top))} :
               view' = [w EXCEPT !.asked = IF v.cur = NoAddr THEN NoAddr ELSE @]

\* a bug: the cursor stays in its row
MoveUnderCursor(v, a) ==
    \E w \in {adjustRowAndOffset(v, a)} : Rests(update_all(PositionAtTop(w, AdjustedRow(w, a))))

MoveRows(v, a) ==
    \E w \in {adjustRowAndOffset(v, a)} : \E row \in {AdjustedRow(w, a)} :
       \E scrolled \in {PositionAtTop(w, row)} :
       \E there \in {IF v.cur = NoAddr THEN NoAddr ELSE v.cur + row - v.top} :
          Rests(update_all(setCurrentIndex(scrolled, there)))

adjust_scroll_pos_process ==
    /\ view.queued
    /\ \E v \in {[view EXCEPT !.queued = FALSE]} :
         \/ MoveTo(v) = {} /\ Rests(v)
         \/ \E a \in MoveTo(v) : MoveRows(v, a)

-----------------------------------------------------------------------------
(* The user, and the machine.                                                *)

\* one move; asked is the address the view has to show after it
Move(v, asked, checked) ==
    /\ view.moves < MaxMoves
    /\ \E w \in {v} :
         view' = [w EXCEPT !.moves = view.moves + 1, !.asked = asked, !.checked = checked]

Scroll == \E t \in {0, view.top - 1, view.top + 1, RowCount - Height} \cap (0 .. RowCount - Height) :
             t # view.top /\ Move(ScrolledTo(view, t), NoAddr, FALSE)

GoTo(a) == Move(go_to_address(view, a), a, FALSE)

Focus(a) == Move(focus_address(view, a), a, FALSE)

\* a reset model has no cursor
set_cell_size(size, cells) ==
    LET w == [view EXCEPT !.cell = size, !.offset = @ - (@ % size), !.cells = cells, !.cur = NoAddr]
        top == get_row_address(view, view.top)
        v == adjustRowAndOffset(w, top)
    IN  /\ view.kind = "memory" /\ size # view.cell
        /\ Move(PositionAtTop(v, AdjustedRow(v, top)), NoAddr, FALSE)

resizeEvent(cells) ==
    LET w == IF cells = view.cells THEN view ELSE [view EXCEPT !.cells = cells, !.cur = NoAddr]
    IN  /\ view.kind = "program" => cells = view.cells
        /\ Move(go_to_address(w, get_row_address(view, view.top)), NoAddr, FALSE)

cached_access == view.kind = "memory" /\ Move(update_all(view), NoAddr, TRUE)

\* setData writes to memory and leaves painting to the next tick
setData == Move([view EXCEPT !.data = @ + 1], NoAddr, FALSE)

update_follow_position(v) ==
    IF v.follow = "none" THEN v ELSE focus_address(v, v.follow_addr[v.follow])

Followed(v) == IF v.follow = "none" THEN NoAddr ELSE v.follow_addr[v.follow]

set_follow_inst(s) ==
    /\ view.kind = "program" /\ s # view.follow
    /\ \E v \in {update_follow_position([view EXCEPT !.follow = s])} : Move(v, Followed(v), FALSE)

\* fetch_inst_addr and its like: the addresses of all stages, one after the other,
\* then post_tick
Tick(addr, changed) ==
    LET v == [view EXCEPT
                !.data = @ + changed,
                !.follow_addr = [s \in Stages |-> IF addr[s] = NoAddr THEN @[s] ELSE addr[s]],
                !.stage_addr = addr,
                !.stages_need_update = @ \/ addr # view.stage_addr]
    IN  IF view.kind = "memory"
        THEN Move(check_for_updates([view EXCEPT !.data = @ + changed]), NoAddr, TRUE)
        ELSE \E w \in {check_for_updates(update_follow_position(v))} : Move(w, Followed(w), TRUE)

\* a new machine; the program view goes to its pc
setup(pc) ==
    LET v == update_all([view EXCEPT !.stage_addr = [s \in Stages |-> NoAddr]])
    IN  IF view.kind = "memory" THEN Move(update_all(view), NoAddr, TRUE)
        ELSE \E w \in {update_follow_position([v EXCEPT !.follow_addr = [s \in Stages |-> pc]])} :
                Move(w, Followed(w), TRUE)

\* the program is started again: the saved address is gone to
Resume == Move(IF view.saved = 0 THEN [ViewStart(view.kind) EXCEPT !.moves = view.moves]
               ELSE go_to_address([ViewStart(view.kind) EXCEPT !.moves = view.moves], view.saved),
               IF view.saved = 0 THEN NoAddr ELSE view.saved, FALSE)

ViewNext == \/ adjust_scroll_pos_process
            \/ Scroll
            \/ \E a \in Targets : GoTo(a) \/ Focus(a)
            \/ \E size \in {1, 2, 4}, cells \in CellCounts : set_cell_size(size, cells)
            \/ \E cells \in CellCounts : resizeEvent(cells)
            \/ cached_access \/ setData
            \/ \E s \in Stages \cup {"none"} : set_follow_inst(s)
            \/ \E addr \in [Stages -> {NoAddr, 4, 400}], changed \in {0, 1} : Tick(addr, changed)
            \/ setup(52)
            \/ Resume

ViewSpec == ViewInit /\ [][ViewNext]_view

-----------------------------------------------------------------------------

\* the bytes of a row
InRow(v, row, a) == get_row_address(v, row) <= a /\ a < get_row_address(v, row) + RowBytes(v)

\* The cursor is on the address that was asked for, or on the one of the followed stage,
\* whatever the rows showed before, but for two cases.  The address one row behind the last
\* gets no cursor: get_row_for_address takes it for found.  And if the rows begin with a part
\* of the memory view's first row, adjust_scroll_pos_process takes them to address 0 under
\* the cursor, which is then one row above the address (memorymodel.h, programmodel.h).
AskedAddressHasCursor ==
    LET asked == view.asked
    IN  asked # NoAddr =>
          \/ view.cur # NoAddr /\ InRow(view, view.cur, asked)
          \/ view.cur = NoAddr /\ (asked - view.offset) \div RowBytes(view) = RowCount
          \/ /\ view.kind = "memory" /\ view.offset = 0 /\ view.cur # NoAddr
             /\ InRow(view, view.cur + 1, asked)

\* Scrolling up reaches address 0: no row is left above the first once the view is at its
\* top and has settled.  The memory view leaves one row out of reach (memorytableview.cpp
\* tests > where programtableview.cpp tests >=).
TopReachesZero ==
    ~view.queued /\ view.top = 0 =>
        view.offset = 0 \/ (view.kind = "memory" /\ view.offset = RowBytes(view))

\* A view that has settled kept the address of its top row in the settings, where the next
\* session goes to, or one after it by less than a row (MemoryTableView::addr0_save_change).
TopRemembered ==
    view.kind = "memory" /\ ~view.queued =>
        LET d == view.saved - get_row_address(view, view.top)
        IN  d >= 0 /\ \E cells \in CellCounts : d < 4 * cells

\* After a tick everything painted is up to date: cells, and the marks of the stages.
PaintedAfterTick ==
    view.checked => view.painted = [data |-> view.data, stages |-> view.stage_addr]

\* Moving the rows does not move the cursor to another address, by a row or more; a cursor
\* that leaves the rows is lost (adjust_scroll_pos_process).
CursorKept ==
    [][(view'.moves = view.moves /\ view.cur # NoAddr /\ view'.cur # NoAddr) =>
         LET d == get_row_address(view', view'.cur) - get_row_address(view, view.cur)
         IN  d < RowBytes(view) /\ -d < RowBytes(view)]_view

\* The view comes to rest although every adjustment scrolls and so asks for another one.
ScrollSettles == view.queued ~> ~view.queued

\* A view shows the address that was asked for, can be scrolled to the first one, and
\* paints and remembers what it shows (memorymodel.cpp, programmodel.cpp and their views).
ViewConsistent == AskedAddressHasCursor /\ TopReachesZero /\ TopRemembered /\ PaintedAfterTick

\* The rows come to rest and take the cursor along (adjust_scroll_pos_process).
ViewSettles == CursorKept /\ ScrollSettles
=============================================================================
