------------------------------ MODULE FilesPage ------------------------------
(***************************************************************************)
(* The file manager (apps/web/src/app/files/page.tsx).  The page is at a   *)
(* folder, which the answer to a listing sets: the last answer wins.       *)
(* sel[1] is that folder, or for the editor's text the file being edited.  *)
(* Search results, previews, previews' panels, clipboard and undo texts,   *)
(* sorting and downloads are left out; so are favourites and labels, which *)
(* only fetch again.                                                       *)
(***************************************************************************)
EXTENDS PanelPage

CONSTANTS
  Folders,
  Files,
  Default   \* the folder the page starts in

Panes == {Leader(Pane("listing", 1, TRUE)), Pane("trash", 0, TRUE), Pane("domains", 0, TRUE),
          Shutting(Pane("content", 1, TRUE), "editor")}
Tabs == {"files", "trash"}

Shown == (IF tab = "files" THEN {"listing"} ELSE {"trash"}) \cup {"domains"}
         \cup (IF modal = "editor" THEN {"content"} ELSE {})

\* Entering or leaving the trash fetches what is entered.
Effects(t, s) == IF t = tab THEN {} ELSE IF t = "files" THEN {"listing"} ELSE {"trash"}

\* A listing of folder d, whichever folder the page is at.
ListingOf(d) == Asked({"listing"}, <<d, "">>, FALSE)
Entry(f) == IF eye.name = "content" THEN <<f, "">> ELSE sel

\* Leaving the trash fetches the folder the page is still at, too.
fetchDirectory(d) == Acts /\ Ask("files", sel, ListingOf(d) \o Asked(Effects("files", sel), sel, FALSE))
fetchTrash ==
  Acts /\ Ask("trash", sel, Asked({"trash"}, sel, FALSE) \o Asked(Effects("trash", sel), sel, FALSE))
navigateTo == \E d \in Folders : fetchDirectory(d)
here == IF eye.name = "listing" THEN sel[1] ELSE Default
navigateUp == fetchDirectory(Default)

\* A new domain makes a new fetchDirectory, and the effect on it runs: the
\* folder the page is still at is fetched after the domain's own.
DomainEffect(t) == Asked(IF t = "files" THEN {"listing"} ELSE {"trash"}, sel, FALSE)
switchDomain ==
  \E d \in Folders : Acts /\ Ask("files", sel, ListingOf(d) \o DomainEffect("files"))
onDomainChange == Acts /\ Ask(tab, sel, DomainEffect(tab))

-----------------------------------------------------------------------------
(* The handlers.  Each fetches the folder the page was at when it started. *)
ThenFiles(h) == Leading(h, "files", <<"same", "same">>)
ThenTrash(h) == Leading(h, "trash", <<"same", "same">>)
InFolder == ThenFiles(Change({"listing"}, {"listing"}))

openFileEditor(f) == OpenFor("editor", Entry(f), {"content"}, {"content"})
handleItemClick == navigateTo \/ \E f \in Files : openFileEditor(f)
\* The button is not held back while the file is being fetched.
handleSaveContent ==
  Staying(ThenFiles(Patching(Change({"content", "listing"}, {"listing"}), {"content"})))
handleMoveToTrash == Following(ThenFiles(Change({"listing", "trash"}, {"listing"})), {"listing"})
handlePaste == InFolder
handleDropOnFolder == {InFolder, handleMoveToTrash}
undo == Unchecked(InFolder)
handleUploadFiles == Unchecked(InFolder)
\* A retried upload fetches nothing when it is through.
onRetry == Forgetting(Change({"listing"}, {}))
handleFixWebPermissions == Flagged(Unchecked(InFolder), "fix")
onDuplicate == InFolder
\* A file that is not in the list is fetched before the editor opens.
handleOpenQuickConfigFile ==
  \E f \in Files :
    \/ openFileEditor(f)
    \/ Acts /\ Ask(tab, sel, [i \in DOMAIN Asked({"content"}, <<f, "">>, FALSE) |->
                                [Fetch(<<f, "">>, FALSE) EXCEPT !.leads = "editor"]])
createFile == Flagged(InFolder, "create")
rename == InFolder
chmod == Flagged(InFolder, "chmod")
extract == Flagged(InFolder, "extract")
archive == Flagged(InFolder, "archive")
restore ==
  Flagged(Following(ThenTrash(Change({"listing", "trash"}, {"trash"})), {"trash"}), "restore")
emptyTrash == Flagged(Following(ThenTrash(Change({"trash"}, {"trash"})), {"trash"}), "empty")
moveCopy == Flagged(InFolder, "moveCopy")
\* Deleting the folder the page is in leads out of it, whatever the answer.
deleteFolder == {handleMoveToTrash, Visiting(handleMoveToTrash, Default)}

-----------------------------------------------------------------------------
(* The regions of the page.                                                *)
Sidebar ==
  \/ navigateTo \/ onDomainChange \/ fetchTrash
  \/ (\E h \in handleDropOnFolder : Does(h)) \/ Open("deleteFolder")

Toolbar ==
  \/ switchDomain
  \/ tab = "files" /\ (Open("create") \/ Does(handleUploadFiles))
  \/ tab = "trash" /\ Loaded("trash") /\ Open("emptyTrash")

Refresh == IF tab = "trash" THEN fetchTrash ELSE fetchDirectory(here)

FileHub ==
  /\ tab = "files"
  /\ switchDomain \/ navigateTo \/ handleOpenQuickConfigFile \/ Does(handleFixWebPermissions)

PathBar == (tab = "files" /\ navigateUp) \/ navigateTo

BulkBar ==
  /\ tab = "files" /\ Loaded("listing")
  /\ \/ Does(handlePaste) \/ Does(handleMoveToTrash)
     \/ \E f \in Files : openFileEditor(f)
     \/ \E m \in {"extract", "archive", "chmod", "moveCopy"} : Open(m)

UndoBanner == Does(undo)
DropTarget == Does(handleUploadFiles)

TrashView == tab = "trash" /\ Filled("trash") /\ Open("restore")

ListView ==
  /\ tab = "files" /\ Filled("listing")
  /\ \/ handleItemClick \/ Open("chmod") \/ Open("rename")
     \/ Does(handleMoveToTrash) \/ \E h \in handleDropOnFolder : Does(h)
GridView == tab = "files" /\ Filled("listing") /\ (handleItemClick \/ Does(handleMoveToTrash))

PreviewPanel ==
  \/ \E f \in Files : openFileEditor(f)
  \/ Does(handleMoveToTrash) \/ Open("chmod") \/ Open("rename")

ContextMenu ==
  \/ handleItemClick \/ Open("rename") \/ Does(onDuplicate) \/ Open("archive")
  \/ Open("extract") \/ Does(handleMoveToTrash) \/ Open("chmod")

UploadDrawer == Does(onRetry)

Editor == In("editor", handleSaveContent)
CreateModal == In("create", createFile)
RenameModal == In("rename", rename)
PermModal == In("chmod", chmod)
ExtractModal == In("extract", extract)
ArchiveModal == In("archive", archive)
TrashModals == In("restore", restore) \/ In("emptyTrash", emptyTrash)
MoveCopyModal == In("moveCopy", moveCopy)
\* It closes at once.
FolderDeleteModal == \E h \in deleteFolder : In("deleteFolder", h)

-----------------------------------------------------------------------------
\* The folder may be named in the address, but the first listing is the
\* default folder's; a domain in the address has the effect run again.
Opens ==
  \E p \in Panes, d \in Folders, twice \in BOOLEAN :
    LET s == IF p.name = "listing" THEN <<d, "">> ELSE <<"", "">>
        first == IF p.name = "listing" THEN ListingOf(Default) ELSE <<>> IN
    /\ eye = p /\ page = "files" /\ tab = "files" /\ sel = s /\ modal = "none" /\ copy = Empty
    /\ changes = [n \in Slots |-> Idle]
    /\ queue = first \o (IF twice THEN ListingOf(d) ELSE <<>>) \o Asked({"domains"}, s, FALSE)
    /\ busy = (queue # <<>>)

Acting ==
  \/ Sidebar \/ Toolbar \/ Refresh \/ FileHub \/ PathBar \/ BulkBar \/ UndoBanner \/ DropTarget
  \/ TrashView \/ ListView \/ GridView \/ PreviewPanel \/ ContextMenu \/ UploadDrawer
  \/ Editor \/ CreateModal \/ RenameModal \/ PermModal \/ ExtractModal \/ ArchiveModal
  \/ TrashModals \/ MoveCopyModal \/ FolderDeleteModal
=============================================================================
