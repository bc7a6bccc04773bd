--------------------------- MODULE SourceEditors -----------------------------
(***************************************************************************)
(* The source editors of the main window (mainwindow.cpp, srceditor.cpp,    *)
(* savechangeddialog.cpp): tabs behind the Core tab, files on disk reached  *)
(* by several names, saving with failures, and the questions asked when an  *)
(* editor or the window is closed or a build is started.  A text is the     *)
(* number of the edit that produced it; 0 is what a file held at first.     *)
(***************************************************************************)
EXTENDS Naturals, Sequences, SequencesExt, FiniteSets

CONSTANTS FileNames,       \* names a user can give to a file
          Example,         \* the name of an example: a resource, never written
          Canon,           \* [FileNames -> files]: canonicalFilePath of a name
          MaxEditors, MaxEdits

NoName == ""            \* the name of an editor that was never saved

\* A new editor has no name, and an example cannot be written to.
EditorsAssumption == /\ {MaxEditors, MaxEdits} \subseteq Nat
                     /\ NoName \notin FileNames \cup {Example}
                     /\ Example \notin FileNames
ASSUME EditorsAssumption

VARIABLES tabs,            \* the editors in the order of their tabs; tab 0 is the Core view
          shown,           \* the editor of the current tab, 0 for the Core view
          current_srceditor,
          ed,              \* [editor -> its document and its file]
          disk,            \* [file -> its text], NoFile if there is none
          openSrcFiles,    \* the setting
          question,        \* the modal question being asked
          answer,          \* what the user answered last
          edits, stray     \* number of edits; whether a name changed without a save

edvars == <<tabs, shown, current_srceditor, ed, disk, openSrcFiles, question, answer, edits, stray>>

Editors == 1 .. MaxEditors
NoFile  == MaxEdits + 1
None    == [kind |-> "none"]
Closed  == [kind |-> "closed"]

OpenEditors == ToSet(tabs)
NewEditor == [file |-> NoName, saveAsRequired |-> TRUE, modified |-> FALSE, text |-> 0]

Files   == {Canon[n] : n \in FileNames}

Exists(name, dsk) == name \in FileNames /\ dsk[Canon[name]] # NoFile

EdInit == /\ tabs = <<>> /\ shown = 0 /\ current_srceditor = 0
          /\ ed = [e \in Editors |-> NewEditor]
          /\ disk \in [Files -> {0, NoFile}]
          /\ openSrcFiles = <<>> /\ question = None /\ answer = None
          /\ edits = 0 /\ stray = FALSE

-----------------------------------------------------------------------------
(* Helpers of the handlers.                                                  *)

\* what s holds at the positions of P, in the order of s
Picked(s, P) ==
    LET picked[k \in 0 .. Len(s)] ==
            IF k = 0 THEN <<>>
            ELSE IF k \in P THEN Append(picked[k - 1], s[k]) ELSE picked[k - 1]
    IN  picked[Len(s)]

\* the file of each tab, and those that have a name
NamesOf(ts, es) == [i \in 1 .. Len(ts) |-> es[ts[i]].file]
FilesOf(ts, es) == Picked(NamesOf(ts, es), {i \in 1 .. Len(ts) : es[ts[i]].file # NoName})

\* a bug: only names are compared
CompareNames(f, g, dsk) == IF f = g THEN 1 ELSE 0

compare_filenames(f, g, dsk) ==
    IF Exists(f, dsk) /\ Exists(g, dsk) /\ Canon[f] = Canon[g] THEN 2 ELSE IF f = g THEN 1 ELSE 0

\* the editor of the best match, the current one before the others; 0 if there is none
EditorFor(name, es, dsk) ==
    LET match(e) == compare_filenames(name, es[e].file, dsk)
        best == {e \in OpenEditors : match(e) > 0 /\ \A f \in OpenEditors : match(e) >= match(f)}
    IN  IF current_srceditor \in best THEN current_srceditor
        ELSE IF best = {} THEN 0
        ELSE tabs[CHOOSE i \in 1 .. Len(tabs) :
                     tabs[i] \in best /\ \A j \in 1 .. i - 1 : tabs[j] \notin best]

source_editor_for_file(name) == EditorFor(name, ed, disk)

modified_file_list(report_unnamed) ==
    Picked(NamesOf(tabs, ed), {i \in 1 .. Len(tabs) :
        ed[tabs[i]].modified /\ (report_unnamed \/ ed[tabs[i]].file # NoName)})

setFileName(d, name) == [d EXCEPT !.file = name, !.saveAsRequired = name \in {NoName, Example}]

\* saveFile: the name sticks even if the file could not be written
saveFile(d, name, ok) ==
    IF name = NoName THEN d ELSE [setFileName(d, name) EXCEPT !.modified = @ /\ ~ok]

\* only the file of a name the user can write to is written
Written(dsk, d, name, ok) ==
    IF ok /\ name \in FileNames THEN [dsk EXCEPT ![Canon[name]] = d.text] ELSE dsk

Writable(name, ok) == ok => name \in FileNames

\* setCurrentWidget, and central_tab_changed after it
Show(e) == /\ shown' = e
           /\ current_srceditor' = IF e # 0 THEN e ELSE current_srceditor

add_src_editor_to_tabs(e, d) ==
    /\ tabs' = Append(tabs, e)
    /\ ed' = [ed EXCEPT ![e] = d]
    /\ Show(e)

\* a bug: the list is made before the tabs change
ListedBefore == openSrcFiles' = FilesOf(tabs, ed') /\ stray' = FALSE

update_open_file_list == openSrcFiles' = FilesOf(tabs', ed') /\ stray' = FALSE

\* loadFile of a file that can be read
loadFile(name) ==
    setFileName([NewEditor EXCEPT !.text = IF name = Example THEN 0 ELSE disk[Canon[name]]], name)

\* no question is asked; the last answer is forgotten
Idle == question = None /\ answer' = None

-----------------------------------------------------------------------------

\* the user selects a tab
central_tab_changed(e) == /\ Idle /\ e # shown /\ Show(e)
                          /\ UNCHANGED <<tabs, ed, disk, openSrcFiles, question, edits, stray>>

Edit == /\ Idle /\ shown # 0 /\ edits < MaxEdits
        /\ edits' = edits + 1
        /\ ed' = [ed EXCEPT ![shown].text = edits + 1, ![shown].modified = TRUE]
        /\ UNCHANGED <<tabs, shown, current_srceditor, disk, openSrcFiles, question, stray>>

Opens(e, d) == /\ add_src_editor_to_tabs(e, d)
               /\ update_open_file_list
               /\ UNCHANGED <<disk, question, edits>>

FreeEditor == CHOOSE e \in Editors : e \notin OpenEditors

new_source == /\ Idle /\ Len(tabs) < MaxEditors
              /\ Opens(FreeEditor, NewEditor)

example_source == /\ Idle /\ Len(tabs) < MaxEditors
                  /\ Opens(FreeEditor, loadFile(Example))

\* open_source and message_selected: the editor that has the file, or a new one
OpenFile(name) ==
    /\ Idle
    /\ \E e \in {source_editor_for_file(name)} :
         \/ /\ e # 0 /\ Show(e)
            /\ UNCHANGED <<tabs, ed, disk, openSrcFiles, question, edits, stray>>
         \/ e = 0 /\ Exists(name, disk) /\ Len(tabs) < MaxEditors /\ Opens(FreeEditor, loadFile(name))

\* save_source_as, for the editor e that is current: the user names a file or cancels;
\* a failed write keeps the list of open files as it was
SaveAs(e, name, ok) ==
    /\ Writable(name, ok)
    /\ ed' = [ed EXCEPT ![e] = saveFile(@, name, ok)]
    /\ disk' = Written(disk, ed[e], name, ok)
    /\ openSrcFiles' = IF ok THEN FilesOf(tabs, ed') ELSE openSrcFiles
    /\ stray' = ~ok

save_source_as(name, ok) ==
    /\ Idle /\ current_srceditor # 0
    /\ SaveAs(current_srceditor, name, ok)
    /\ UNCHANGED <<tabs, shown, current_srceditor, question, edits>>

save_source(ok) ==
    /\ Idle /\ current_srceditor # 0
    /\ \E d \in {ed[current_srceditor]} :
         /\ ~d.saveAsRequired
         /\ Writable(d.file, ok)
         /\ ed' = [ed EXCEPT ![current_srceditor] = saveFile(d, d.file, ok)]
         /\ disk' = Written(disk, d, d.file, ok)
    /\ UNCHANGED <<tabs, shown, current_srceditor, openSrcFiles, question, edits, stray>>

-----------------------------------------------------------------------------
(* Closing an editor.                                                        *)

\* the tab shown once the shown tab is removed: the next one, or the one before
AfterRemoval(e) ==
    LET i == CHOOSE i \in 1 .. Len(tabs) : tabs[i] = e
    IN  IF shown # e THEN shown
        ELSE IF i < Len(tabs) THEN tabs[i + 1] ELSE IF i > 1 THEN tabs[i - 1] ELSE 0

\* a bug: the current editor is forgotten after the next tab was shown
CloseForgets(e, es) ==
    /\ tabs' = Picked(tabs, {i \in 1 .. Len(tabs) : tabs[i] # e})
    /\ shown' = AfterRemoval(e)
    /\ current_srceditor' = 0
    /\ ed' = [es EXCEPT ![e] = NewEditor]
    /\ update_open_file_list

close_source(e, es) ==
    /\ tabs' = Picked(tabs, {i \in 1 .. Len(tabs) : tabs[i] # e})
    /\ shown' = AfterRemoval(e)
    /\ current_srceditor' = IF shown = e THEN AfterRemoval(e) ELSE 0
    /\ ed' = [es EXCEPT ![e] = NewEditor]
    /\ update_open_file_list

close_source_check ==
    /\ Idle /\ current_srceditor # 0
    /\ IF ed[current_srceditor].modified
       THEN /\ question' = [kind |-> "close"]
            /\ UNCHANGED <<tabs, shown, current_srceditor, ed, openSrcFiles, stray>>
       ELSE close_source(current_srceditor, ed) /\ UNCHANGED question
    /\ UNCHANGED <<disk, edits>>

Answered(a) == question' = None /\ answer' = a

close_source_decided ==
    /\ question.kind = "close"
    /\ \E d \in {ed[current_srceditor]} :
       \/ /\ d.saveAsRequired       \* Save: a name is asked for, and the editor stays open
          /\ Answered(None)
          /\ \/ UNCHANGED <<ed, disk, openSrcFiles, stray>>
             \/ \E name \in FileNames, ok \in BOOLEAN : SaveAs(current_srceditor, name, ok)
          /\ UNCHANGED <<tabs, shown, current_srceditor>>
       \/ /\ ~d.saveAsRequired      \* Save: the editor is closed, even if the write failed
          /\ \E ok \in BOOLEAN :
               /\ Answered([kind |-> "save", failed |-> ~ok])
               /\ disk' = Written(disk, d, d.file, ok)
               /\ close_source(current_srceditor,
                               [ed EXCEPT ![current_srceditor] = saveFile(d, d.file, ok)])
       \/ /\ Answered([kind |-> "discard"])
          /\ close_source(current_srceditor, ed)
          /\ UNCHANGED disk
       \/ /\ Answered(None)
          /\ UNCHANGED <<tabs, shown, current_srceditor, ed, disk, openSrcFiles, stray>>
    /\ UNCHANGED edits

-----------------------------------------------------------------------------
(* Closing the window, and building: SaveChnagedDialog.                      *)

closeEvent ==
    /\ Idle
    /\ question' = IF modified_file_list(TRUE) = <<>> THEN Closed
                   ELSE [kind |-> "exit", rows |-> modified_file_list(TRUE)]
    /\ UNCHANGED <<tabs, shown, current_srceditor, ed, disk, openSrcFiles, edits, stray>>

build_check == /\ Idle
               /\ modified_file_list(FALSE) # <<>>
               /\ question' = [kind |-> "build", rows |-> modified_file_list(FALSE)]
               /\ UNCHANGED <<tabs, shown, current_srceditor, ed, disk, openSrcFiles, edits, stray>>

\* the rows ticked when Save was pressed; Ignore is the same with none
Ticked == {Picked(question.rows, T) : T \in SUBSET (1 .. Len(question.rows))}

\* saveFile for one name, failing for the editors in Bad; an editor that needs a name is
\* left out where skip says so
SaveOne(st, name, Bad, skip) ==
    LET e == EditorFor(name, st.ed, st.disk)
        d == st.ed[e]
        ok == e \notin Bad /\ d.file \in FileNames
    IN  IF skip /\ d.saveAsRequired THEN [st EXCEPT !.unnamed = TRUE]
        ELSE [ed |-> [st.ed EXCEPT ![e] = saveFile(d, d.file, ok)],
              disk |-> Written(st.disk, d, d.file, ok),
              unnamed |-> st.unnamed,
              failed |-> IF ok THEN st.failed ELSE st.failed \cup {e}]

\* each name in turn
SaveAll(names, Bad, skip) ==
    LET saved[k \in 0 .. Len(names)] ==
            IF k = 0 THEN [ed |-> ed, disk |-> disk, unnamed |-> FALSE, failed |-> {}]
            ELSE SaveOne(saved[k - 1], names[k], Bad, skip)
    IN  saved[Len(names)]

SaveChangedCancel ==
    /\ question.kind \in {"exit", "build"}
    /\ Answered(None)
    /\ UNCHANGED <<tabs, shown, current_srceditor, ed, disk, openSrcFiles, edits, stray>>

\* the first tab whose editor needs a name, modified or not
FirstUnnamed(es) == tabs[CHOOSE i \in 1 .. Len(tabs) :
                            /\ es[tabs[i]].saveAsRequired
                            /\ \A j \in 1 .. i - 1 : ~es[tabs[j]].saveAsRequired]

\* a bug: the window closes although a file has yet to be named
ExitUnnamed(names, Bad) ==
    \E st \in {SaveAll(names, Bad, TRUE)} :
       /\ answer' = [kind |-> "exit", names |-> ToSet(names), failed |-> st.failed]
       /\ ed' = st.ed /\ disk' = st.disk /\ question' = Closed
       /\ UNCHANGED <<shown, current_srceditor, openSrcFiles, stray>>

save_exit_or_ignore(names, Bad) ==
    \E st \in {SaveAll(names, Bad, TRUE)} :
       /\ answer' = [kind |-> "exit", names |-> ToSet(names), failed |-> st.failed]
       /\ IF ~st.unnamed
          THEN /\ ed' = st.ed /\ disk' = st.disk /\ question' = Closed
               /\ UNCHANGED <<shown, current_srceditor, openSrcFiles, stray>>
          ELSE /\ question' = None
               /\ \E e \in {FirstUnnamed(st.ed)} :
                    /\ Show(e)
                    /\ \/ ed' = st.ed /\ disk' = st.disk /\ UNCHANGED <<openSrcFiles, stray>>
                       \/ \E name \in FileNames, ok \in BOOLEAN :
                            /\ ed' = [st.ed EXCEPT ![e] = saveFile(@, name, ok)]
                            /\ disk' = Written(st.disk, st.ed[e], name, ok)
                            /\ openSrcFiles' = IF ok THEN FilesOf(tabs, ed') ELSE openSrcFiles
                            /\ stray' = ~ok

ExitDecided == /\ question.kind = "exit"
               /\ \E names \in Ticked, Bad \in SUBSET OpenEditors : save_exit_or_ignore(names, Bad)
               /\ UNCHANGED <<tabs, edits>>

\* an editor of an example is saved too, which fails, and is still nameless afterwards
build_execute_with_save ==
    /\ question.kind = "build"
    /\ \E names \in Ticked, Bad \in SUBSET OpenEditors :
         \E st \in {SaveAll(names, Bad, FALSE)} :
           /\ ed' = st.ed /\ disk' = st.disk
           /\ Answered(None)
    /\ UNCHANGED <<tabs, shown, current_srceditor, openSrcFiles, edits, stray>>

\* the program is started again: the files of the last session that can be read are
\* opened in order
Restored == Picked(openSrcFiles, {i \in 1 .. Len(openSrcFiles) :
                                    openSrcFiles[i] = Example \/ Exists(openSrcFiles[i], disk)})

Restart == /\ question = Closed
           /\ \E names \in {Restored} :
                /\ tabs' = [i \in 1 .. Len(names) |-> i]
                /\ ed' = [e \in Editors |->
                            IF e <= Len(names) THEN loadFile(names[e]) ELSE NewEditor]
                /\ shown' = Len(names) /\ current_srceditor' = Len(names)
                /\ stray' = (FilesOf(tabs', ed') # openSrcFiles)
           /\ Answered(None)
           /\ UNCHANGED <<disk, openSrcFiles, edits>>

EdNext == \/ \E e \in OpenEditors \cup {0} : central_tab_changed(e)
          \/ Edit \/ new_source \/ example_source
          \/ \E name \in FileNames \cup {Example} : OpenFile(name)
          \/ \E name \in FileNames, ok \in BOOLEAN : save_source_as(name, ok)
          \/ \E ok \in BOOLEAN : save_source(ok)
          \/ close_source_check \/ close_source_decided
          \/ closeEvent \/ build_check \/ SaveChangedCancel
          \/ ExitDecided \/ build_execute_with_save \/ Restart

EdSpec == EdInit /\ [][EdNext]_edvars

\* process_file of an included file: an open editor's text goes before the file's
IncludedText(name) ==
    LET e == source_editor_for_file(name)
    IN  IF e # 0 THEN ed[e].text ELSE IF Exists(name, disk) THEN disk[Canon[name]] ELSE NoFile

-----------------------------------------------------------------------------

\* Save, Close and Compile act on the editor the user looks at: an editor that is shown
\* is the current one, and the current one is always an open tab (central_tab_changed,
\* close_source, tab_widget_destroyed).
ShownEditorIsCurrent ==
    question # Closed =>
        /\ shown # 0 => current_srceditor = shown
        /\ current_srceditor \in OpenEditors \cup {0}
        /\ question.kind = "close" => current_srceditor # 0

\* no other editor would write to the same file
Alone(e, f) == \A o \in OpenEditors \ {e} :
                  /\ ed[o].file # f
                  /\ {f, ed[o].file} \subseteq FileNames => Canon[f] # Canon[ed[o].file]

\* Unsaved edits disappear with a closed editor or window only if the user discarded them
\* or left the file out, if writing the file failed, or if two editors hold the same file
\* (close_source_decided, save_exit_or_ignore).
NoEditLost ==
    [][\A e \in OpenEditors :
          ed[e].modified /\ question # Closed /\ (question' = Closed \/ e \notin ToSet(tabs'))
              => \/ ed[e].file \in FileNames /\ disk'[Canon[ed[e].file]] = ed[e].text
                 \/ answer'.kind = "discard"
                 \/ answer'.kind = "save" /\ answer'.failed
                 \/ answer'.kind = "exit" /\ (ed[e].file \notin answer'.names \/ e \in answer'.failed)
                 \/ ~Alone(e, ed[e].file)]_edvars

\* A source that includes a file gets what the open editor of that file shows, under
\* whichever name, and not what was last saved (SimpleAsmWithEditorCheck::process_file).
IncludesShownText ==
    question # Closed =>
        \A name \in FileNames, e \in OpenEditors :
            /\ \/ name = ed[e].file
               \/ Exists(name, disk) /\ ed[e].file \in FileNames /\ Canon[name] = Canon[ed[e].file]
            /\ Alone(e, name)
            => IncludedText(name) = ed[e].text

\* The next session opens the files of this one: the setting lists the tabs' files, unless
\* a write to a new name failed or a listed file was gone (update_open_file_list).
SessionListMatches == question # Closed /\ ~stray => openSrcFiles = FilesOf(tabs, ed)

\* The window, the session and the assembler agree on the open editors (mainwindow.cpp).
EditorsConsistent == ShownEditorIsCurrent /\ IncludesShownText /\ SessionListMatches
=============================================================================
