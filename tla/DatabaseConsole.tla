-------------------------- MODULE DatabaseConsole --------------------------
(***************************************************************************)
(* The database console (apps/web/src/app/phpmyadmin/page.tsx): a tree of  *)
(* the databases, the overview of the current one, and the structure, the  *)
(* rows and the other objects of what is selected.  sel is <<currentDb,    *)
(* selectedTable>>; every change is sent for the selection on screen.      *)
(* The tree counts as up to date when it names the objects that exist, its *)
(* row counts aside; sorting, filters and exports change no state here.    *)
(***************************************************************************)
EXTENDS PanelPage

CONSTANTS
  Dbs,      \* databases of the server, the system's left out
  Tables

\* "entities": the tabs of routines, events, triggers and views.
Tabs == {"structure", "browse", "sql", "import", "operations", "privileges", "entities"}

Panes == {Pane("tree", 0, TRUE), Pane("details", 1, FALSE), Pane("structure", 2, FALSE),
          Pane("browse", 2, FALSE), Pane("aux", 1, TRUE), Pane("privileges", 0, TRUE)}

Overview == tab = "structure" /\ sel[2] = ""
TableChosen == sel[2] # ""

\* The panes on screen that are presented as the selection's; a browse tab
\* left without a table still shows the rows of the last one, and before the
\* first answer of the tree the page has no database to present.
Shown == IF sel[1] = "" THEN {} ELSE
  {"tree", "details"}
  \cup (IF tab = "structure" /\ TableChosen THEN {"structure"} ELSE {})
  \cup (IF tab = "browse" /\ TableChosen THEN {"browse"} ELSE {})
  \cup (IF tab = "entities" THEN {"aux"} ELSE {})
  \cup (IF tab = "privileges" THEN {"privileges"} ELSE {})

-----------------------------------------------------------------------------
(* The effects: what is fetched when the tab or the selection changes.     *)
TreeEffect(s) == IF s[1] # sel[1] THEN {"tree"} ELSE {}
DbEffect(t, s) ==
  IF s[1] = "" \/ (s[1] = sel[1] /\ t = tab) THEN {}
  ELSE {"details", "aux"} \cup (IF t = "privileges" THEN {"privileges"} ELSE {})
TableEffect(t, s) ==
  IF (s = sel /\ t = tab) \/ t \notin {"structure", "browse"} THEN {} ELSE {t}
Effects(t, s) == TreeEffect(s) \cup DbEffect(t, s) \cup TableEffect(t, s)

Go(t, s) == Acts /\ Look(t, s, Effects(t, s))

\* fetchTree opens the first database when none is.
fetchTree == \E d \in Dbs : sel[1] = "" /\ Look(tab, <<d, "">>, Effects(tab, <<d, "">>))

handleSwitchDb(d) == d # sel[1] /\ Go(tab, <<d, "">>)
handleOpenTableBrowse(d, u) == Go("browse", <<d, u>>)
handleOpenTableStructure(d, u) == Go("structure", <<d, u>>)

-----------------------------------------------------------------------------
(* The handlers that change the server.                                    *)
Catalog == {"tree", "details"}
OfTable == {"structure", "browse"}

\* Any statement: what it changes is unknown, and only what is listed is fetched.
handleExecuteSql ==
  Flagged(Change({p.name : p \in Panes}, Catalog \cup OfTable), "query")

\* Another database of the tree, or if there is none one of the system's.
nextDb(d) == IF Dbs \ {d} # {} THEN CHOOSE e \in Dbs : e # d ELSE "mysql"
\* A call that brings no data is taken for a drop that worked.
handleDropDatabase(d) ==
  [Leading(Change({"tree"}, {"tree"}), "same",
           IF d = sel[1] THEN <<nextDb(d), "">> ELSE <<"same", "same">>)
     EXCEPT !.goesOn = {"done", "lost", "failed"}]
dropCurrentDb == sel[1] \in Dbs /\ Does(handleDropDatabase(sel[1]))

handleDeleteRow == Change({"browse", "details"}, {"browse", "details"})
handleSubmitEditRow == Change({"browse"}, {"browse"})
handleSubmitInsertRow == Change({"browse", "details"}, {"browse", "details"})
handleDropColumn == Change(OfTable, OfTable)
handleAddColumnSubmit == Change(OfTable, OfTable)
handleModifyColumnSubmit == Change(OfTable, OfTable)
handleDropIndex == Change({"structure"}, {"structure"})
handleAddIndexSubmit == Change({"structure"}, {"structure"})

\* Rename fetches the structure and the rows of the old name.
TableRename(u) ==
  Leading(Change(Catalog \cup OfTable, Catalog \cup OfTable), "same", <<"same", u>>)
TableDrop ==
  Leading(Change(Catalog \cup OfTable, Catalog), "structure", <<"same", "">>)
\* Truncate, copy, collation and the maintenance statements.
TableChange == Change(Catalog \cup OfTable, Catalog \cup OfTable)
handleTableOperation ==
  {Flagged(h, "op") : h \in {TableDrop, TableChange} \cup {TableRename(u) : u \in Tables}}

handleStartImport ==
  Flagged(Change({p.name : p \in Panes}, Catalog), "import")
handleCreateDatabase(d) == Leading(Change({"tree"}, {"tree"}), "same", <<d, "">>)
handleCreateTable(u) == Leading(Change(Catalog, Catalog), "structure", <<"same", u>>)
handleCreateRoutine == Change({"aux", "tree"}, {"aux", "tree"})
handleDropRoutine == Change({"aux", "tree"}, {"aux", "tree"})
handleCreateEvent == Change({"aux", "tree"}, {"aux", "tree"})
handleDropEvent == Change({"aux", "tree"}, {"aux", "tree"})
handleCreateTrigger == Change({"aux", "tree"}, {"aux", "tree"})
handleDropTrigger == Change({"aux", "tree"}, {"aux", "tree"})

\* Statements run through handleExecuteSql, followed by what the caller fetches.
handleOptimizeAllTables == Also(Change({}, {}), {"details"})
handleRepairAllTables == Also(Change({}, {}), {"details"})
handleEmptySelectedTables == Also(Change({"details"} \cup OfTable, Catalog), {"details"})
handleDropSelectedTables == Also(Change(Catalog \cup OfTable, Catalog), Catalog)
EmptyPill == Also(Change({"details"} \cup OfTable, Catalog), {"details"})
DropPill == Also(Change(Catalog \cup OfTable, Catalog), Catalog)
DropView == Also(Change({"aux", "tree"}, Catalog), {"aux"})
DropUser == Also(Change({"privileges"}, Catalog), {"privileges"})
AddUser == Change({"privileges"}, {"privileges"})

-----------------------------------------------------------------------------
(* The regions of the page: what can be done where.                        *)
\* A form of tab t, which cannot be left while it is open.
Form(t, h) == tab = t /\ In("form", h)

Header ==
  \/ \E d \in Dbs : handleSwitchDb(d)
  \/ Open("createTable")
  \/ Does(handleOptimizeAllTables)
  \/ Does(handleRepairAllTables)
  \/ Acts /\ Look(tab, sel, Catalog \cup OfTable)

TabBar == \E t \in Tabs : (t = "browse" => TableChosen) /\ t # tab /\ Go(t, sel)

DropZone == Go("import", sel)

TreeHeader == (Acts /\ Look(tab, sel, {"tree"})) \/ Open("createDb")

TreeDatabases ==
  /\ Filled("tree")
  /\ \E d \in Dbs :
       handleSwitchDb(d) \/ Does(handleDropDatabase(d))

TreeEntries ==
  /\ Filled("tree")
  /\ \/ Open("createTable")
     \/ \E d \in Dbs, u \in Tables :
          handleOpenTableBrowse(d, u) \/ handleOpenTableStructure(d, u)
     \/ \E d \in Dbs : Go("entities", IF d = sel[1] THEN sel ELSE <<d, "">>)

StructureTab ==
  /\ tab = "structure" /\ TableChosen
  /\ \/ handleOpenTableBrowse(sel[1], sel[2])
     \/ Open("form")
     \/ /\ Filled("structure")
        /\ \/ Open("form")
           \/ Does(handleDropColumn) \/ Does(handleDropIndex)

OverviewTab ==
  /\ Overview
  /\ \/ Open("createTable")
     \/ Does(handleOptimizeAllTables)
     \/ dropCurrentDb

BatchBar ==
  /\ Overview
  /\ \/ Does(handleOptimizeAllTables)
     \/ Does(handleEmptySelectedTables) \/ Does(handleDropSelectedTables)

TableList ==
  Overview /\ Filled("details") /\ \E u \in Tables : handleOpenTableBrowse(sel[1], u)
TablePills ==
  /\ Overview /\ Filled("details")
  /\ \/ \E u \in Tables : handleOpenTableStructure(sel[1], u)
     \/ Go("sql", sel)
     \/ Does(EmptyPill) \/ Does(DropPill)

BrowseTab ==
  /\ tab = "browse"
  /\ \/ Open("form")
     \/ handleOpenTableStructure(sel[1], sel[2])
     \/ Filled("browse") /\ (Open("form") \/ Does(handleDeleteRow))

\* Search, limit, sort and paging fetch, and the effect on them fetches again.
RowsFetched == tab = "browse" /\ Acts /\ Look(tab, sel, {"browse"})

SqlTab == tab = "sql" /\ Does(handleExecuteSql)
ImportTab == tab = "import" /\ Does(handleStartImport)

CollationCard == tab = "operations" /\ Does(Flagged(TableChange, "op"))
TableCards ==
  tab = "operations" /\ TableChosen /\ \E h \in handleTableOperation : Does(h)
DangerZone ==
  /\ tab = "operations"
  /\ dropCurrentDb

RoutinesTab ==
  /\ tab = "entities"
  /\ Open("form") \/ Go("sql", sel) \/ (Filled("aux") /\ Does(handleDropRoutine))
EventsTab == tab = "entities" /\ (Open("form") \/ (Filled("aux") /\ Does(handleDropEvent)))
TriggersTab ==
  tab = "entities" /\ (Open("form") \/ (Filled("aux") /\ Does(handleDropTrigger)))
ViewsTab ==
  /\ tab = "entities" /\ Filled("aux")
  /\ Does(DropView) \/ \E u \in Tables : handleOpenTableBrowse(sel[1], u)
PrivilegesTab ==
  tab = "privileges" /\ (Open("form") \/ (Filled("privileges") /\ Does(DropUser)))

CreateDatabaseModal == \E d \in Dbs : In("createDb", handleCreateDatabase(d))
CreateTableModal == \E u \in Tables : In("createTable", handleCreateTable(u))
InsertRowModal == Form("browse", handleSubmitInsertRow)
EditRowModal == Form("browse", handleSubmitEditRow)
AddColumnModal == Form("structure", handleAddColumnSubmit)
ModifyColumnModal == Form("structure", handleModifyColumnSubmit)
AddIndexModal == Form("structure", handleAddIndexSubmit)
AddRoutineModal == Form("entities", handleCreateRoutine)
AddEventModal == Form("entities", handleCreateEvent)
AddTriggerModal == Form("entities", handleCreateTrigger)
AddUserModal == Form("privileges", AddUser)

-----------------------------------------------------------------------------
\* The database may be named in the address.
Opens == \E p \in Panes, d \in Dbs \cup {""} :
  Mount("console", p, "structure", <<d, "">>, {"tree", "details", "aux"})

Acting ==
  \/ fetchTree
  \/ Header \/ TabBar \/ DropZone \/ TreeHeader \/ TreeDatabases
  \/ TreeEntries
  \/ StructureTab \/ OverviewTab \/ BatchBar \/ TableList \/ TablePills
  \/ BrowseTab \/ RowsFetched \/ SqlTab \/ ImportTab 
  \/ CollationCard \/ TableCards \/ DangerZone
  \/ RoutinesTab \/ EventsTab \/ TriggersTab \/ ViewsTab \/ PrivilegesTab
  \/ CreateDatabaseModal \/ CreateTableModal \/ InsertRowModal \/ EditRowModal
  \/ AddColumnModal \/ ModifyColumnModal \/ AddIndexModal
  \/ AddRoutineModal \/ AddEventModal \/ AddTriggerModal \/ AddUserModal
=============================================================================
