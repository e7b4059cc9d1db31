------------------------------ MODULE Interface ------------------------------
(***************************************************************************)
(* The terminal interface of internal/tui/tui.go: one goroutine takes keys *)
(* and messages one at a time (model.Update), and every command it starts  *)
(* runs beside it and answers with a message, in no particular order.      *)
(*                                                                         *)
(* The interface shows what it last listed of the encrypted cache, which   *)
(* saves and synchronizations change behind it; VaultSync is about what    *)
(* those do to the cache, this module about what they do to a user in the  *)
(* middle of a dialog.  A revision is reduced to what the dialogs change;  *)
(* what another device does comes with a synchronization.                  *)
(*                                                                         *)
(* The screens of sessions, activity and export, and what only changes how *)
(* something is shown (revealing, copying, typing), are left out.  What is *)
(* typed into a form or a search is settled when it is entered.            *)
(***************************************************************************)
EXTENDS Integers, Sequences, FiniteSets, SequencesExt

CONSTANTS
    Items,       \* the item UUIDs, in their order
    Slots,       \* bound on the user's commands at a time, for model checking
    Errands      \* what a user sets out to do: the cache at first, the keys, the
                 \* import file, whether there is a server and, for model
                 \* checking, bounds on revisions, failures and what others do

ASSUME InterfaceAssumption ==
    /\ Items \subseteq Nat \ {0}
    /\ IsFiniteSet(Items) /\ IsFiniteSet(Slots)
    /\ \A e \in Errands : {e.revisions, e.failures, e.others} \subseteq Nat

VARIABLES
    errand,   \* the errand of this behaviour
    revs,     \* the revisions in the cache
    minted,   \* how many revisions have been made
    jobs,     \* the command in each slot, then its answer
    ui,       \* the model of the interface
    asked,    \* what the last warning of each kind was raised about
    failures, \* commands that failed so far
    others    \* what another device did so far

vars == <<errand, revs, minted, jobs, ui, asked, failures, others>>

Ids(R)   == {r.id : r \in R}
Of(R, i) == {r \in R : r.item = i}
Heads(R) == {r \in R : \A q \in R : r.id \notin q.parents}

Revision ==
    [id : Nat, item : Nat, kind : {"login", "note", "folder", "generic"},
     parents : SUBSET Nat, text : Int, folder : Nat, favorite : BOOLEAN, past : BOOLEAN,
     state : {"live", "trashed", "purged"}]

\* The cache at first is one that QueueMutation and synchronizations can have made.
ASSUME ErrandsAssumption ==
    \A e \in Errands :
        /\ e.cache \subseteq Revision /\ e.file \in Seq(Revision)
        /\ IsFiniteSet(e.cache) /\ Ids(e.cache) = 1 .. Cardinality(e.cache)
        /\ \A r, q \in e.cache :
            /\ r.id = q.id => r = q
            /\ r.item = q.item /\ r.parents = {} /\ q.parents = {} => r = q
        /\ \A r \in e.cache : r.parents \subseteq Ids(Of(e.cache, r.item))

NoFilter == [folder |-> "all", folderId |-> 0, favorites |-> FALSE, query |-> 0]

-----------------------------------------------------------------------------
(* What is listed *)

\* The members of a set of numbers, in their order.
InOrder(K) ==
    [j \in 1 .. Cardinality(K) |-> CHOOSE k \in K : Cardinality({i \in K : i < k}) = j - 1]

\* The entries of a list that pass a test.
Only(list, Passes(_)) ==
    LET at == InOrder({k \in DOMAIN list : Passes(list[k])}) IN
    [j \in DOMAIN at |-> list[at[j]]]

\* openItemGroups: an item with all its versions; it shows the first that was
\* not deleted for good.
Group(R, i) ==
    LET heads    == Heads(Of(R, i))
        ids      == InOrder(Ids(heads))
        versions == [k \in DOMAIN ids |-> CHOOSE r \in heads : r.id = ids[k]]
        kept     == Only(versions, LAMBDA r : r.state # "purged")
    IN  [item     |-> i,
         shown    |-> IF kept = <<>> THEN versions[1] ELSE kept[1],
         versions |-> IF Len(versions) > 1 THEN versions ELSE <<>>]

Groups(R, I) ==
    LET order == InOrder(I) IN [k \in DOMAIN order |-> Group(R, order[k])]

\* ItemHeads and TrashHeads
Listed(R)  == Groups(R, {i \in Items : \E r \in Heads(Of(R, i)) : r.state = "live"})
Trashed(R) == Groups(R, {i \in Items : /\ \E r \in Heads(Of(R, i)) : r.state = "trashed"
                                       /\ \A r \in Heads(Of(R, i)) : r.state # "live"})

Folders(u)     == Only(u.records, LAMBDA g : g.shown.kind = "folder")
FolderIds(u)   == {g.item : g \in ToSet(Folders(u))}
InConflict(g)  == g.versions # <<>>
Alternatives(g)     == IF InConflict(g) THEN ToSet(g.versions) ELSE {g.shown}

\* recordFolderID and recordIsFavorite: any version counts.
FolderOf(g) ==
    LET in == Only(g.versions, LAMBDA r : r.folder # 0) IN
    IF ~InConflict(g) THEN g.shown.folder ELSE IF in = <<>> THEN 0 ELSE in[1].folder
Favorite(g) == \E r \in Alternatives(g) : r.favorite

\* visibleItems; a search finds a text.
Visible(u) ==
    Only(u.records, LAMBDA g :
        /\ g.shown.kind # "folder"
        /\ u.filter.query # 0 => g.shown.text = u.filter.query
        /\ u.filter.favorites => Favorite(g)
        /\ CASE u.filter.folder = "all"     -> TRUE
             [] u.filter.folder = "unfiled" -> FolderOf(g) = 0
             [] OTHER                       -> FolderOf(g) = u.filter.folderId)

InRange(n, seq) == IF n > Len(seq) THEN 1 ELSE n

Shown_AnyPosition(u, records) == [u EXCEPT !.records = records]

\* setRecords: the selections are positions, and only brought back into range.
Shown(u, records) ==
    LET at == [u EXCEPT !.records = records]
        v  == IF u.filter.folder = "one" /\ u.filter.folderId \notin FolderIds(at)
              THEN [at EXCEPT !.filter.folder = "unfiled", !.filter.folderId = 0] ELSE at
    IN  [v EXCEPT !.item = InRange(@, Visible(v)), !.folder = InRange(@, Folders(v))]

-----------------------------------------------------------------------------
(* Commands *)

Idle == [at |-> "idle"]

Free(slots) == {s \in slots : jobs[s] = Idle}

\* A synchronization starts only when none was started, or one has answered.
Background == {"opening", "polling"}

Run(slots, job) ==
    /\ Free(slots) # {}
    /\ jobs' = [jobs EXCEPT ![CHOOSE s \in Free(slots) : TRUE] = job]
    /\ UNCHANGED minted

\* NewItemID: UUIDs no revision, form, preview or command has.
NewItems(n) ==
    LET taken == {r.item : r \in revs} \cup {ui.form.item}
                 \cup {r.item : r \in ToSet(ui.import.records)}
                 \cup {r.item : r \in UNION {ToSet(jobs[s].todo) :
                                             s \in {s \in Slots : jobs[s].at = "save"}}}
                 \cup {r.item : r \in UNION {ToSet(jobs[s].records) :
                                             s \in {s \in Slots : jobs[s].at = "previewed"}}}
    IN  IF Cardinality(Items \ taken) < n THEN {}
        ELSE {SubSeq(InOrder(Items \ taken), 1, n)}

\* saveItems: the revisions one after another.  Their UUIDs are new.
SaveAll(records) ==
    /\ Free(Slots) # {}
    /\ minted + Len(records) <= errand.revisions
    /\ minted' = minted + Len(records)
    /\ jobs' = [jobs EXCEPT ![CHOOSE s \in Free(Slots) : TRUE] =
            [at   |-> "save",
             todo |-> [k \in DOMAIN records |-> [records[k] EXCEPT !.id = minted + k]]]]

NoCommand == UNCHANGED <<jobs, minted>>

QueueMutation_RootAgain(r) ==
    r.parents \subseteq Ids(Of(revs, r.item))

\* QueueMutation: an item is new, or its parents are known.
QueueMutation(r) ==
    IF r.parents = {} THEN Of(revs, r.item) = {}
    ELSE r.parents \subseteq Ids(Of(revs, r.item))

\* What another device may have done by the time of a synchronization: an edit,
\* a deletion, an edit that did not know of the last one, a new login or folder.
Theirs ==
    LET kept == {h \in Heads(revs) : h.state # "purged"} IN
    {[h EXCEPT !.parents = {h.id}, !.text = 3 - @, !.state = "live"]         : h \in kept}
    \cup {[h EXCEPT !.parents = {h.id}, !.state = "trashed"] : h \in kept}
    \cup {[h EXCEPT !.text = 3 - @, !.state = "live"] :
             h \in {r \in kept : r.parents # {}}}
    \cup UNION {{[h EXCEPT !.item = i[1], !.parents = {}] :
                    h \in {r \in kept : r.kind \in {"login", "folder"}}} : i \in NewItems(1)}

\* Synchronization, bringing at most one of those; then the list.  Either may
\* fail.
SyncAndList(s, done) ==
    \/ \E more \in {{}} \cup
            (IF errand.online /\ others < errand.others /\ minted < errand.revisions
             THEN {{[r EXCEPT !.id = minted + 1]} : r \in Theirs} ELSE {}) :
        /\ revs' = revs \cup more
        /\ minted' = minted + Cardinality(more)
        /\ others' = others + Cardinality(more)
        /\ jobs' = [jobs EXCEPT ![s] = [at |-> done, records |-> Listed(revs \cup more)]]
        /\ UNCHANGED failures
    \/ /\ failures < errand.failures
       /\ failures' = failures + 1
       /\ \E records \in {Listed(revs), <<>>} :
            jobs' = [jobs EXCEPT ![s] = [at |-> done, records |-> records]]
       /\ UNCHANGED <<revs, minted, others>>

\* One record of a save; the first that fails ends it.
SaveOne(s) ==
    /\ jobs[s].at = "save"
    /\ jobs[s].todo # <<>>
    /\ LET r == Head(jobs[s].todo) IN
        \/ /\ QueueMutation(r)
           /\ revs' = (IF r.state = "purged" THEN revs \ Of(revs, r.item) ELSE revs) \cup {r}
           /\ jobs' = [jobs EXCEPT ![s].todo = Tail(@)]
           /\ UNCHANGED failures
        \/ /\ \/ ~QueueMutation(r) /\ UNCHANGED failures
              \/ failures < errand.failures /\ failures' = failures + 1
           /\ jobs' = [jobs EXCEPT ![s] = [at |-> "saveFailed"]]
           /\ UNCHANGED revs
    /\ UNCHANGED <<errand, minted, ui, asked, others>>

\* The rest of saveItems.
SavedAll(s) ==
    /\ jobs[s].at = "save"
    /\ jobs[s].todo = <<>>
    /\ SyncAndList(s, "saved")
    /\ UNCHANGED <<errand, ui, asked>>

SyncItems(s) ==
    /\ jobs[s].at = "sync"
    /\ SyncAndList(s, "synced")
    /\ UNCHANGED <<errand, ui, asked>>

\* loadItems, loadTrash, previewImport and checkPwnedPassword
Load(s) ==
    /\ \/ /\ jobs[s].at = "list"
          /\ jobs' = [jobs EXCEPT ![s] = [at |-> "listed", records |-> Listed(revs)]]
       \/ /\ jobs[s].at = "trash"
          /\ jobs' = [jobs EXCEPT ![s] = [at |-> "trashListed", records |-> Trashed(revs)]]
       \/ /\ jobs[s].at = "preview"
          /\ \E items \in NewItems(Len(errand.file)), errors \in BOOLEAN :
                jobs' = [jobs EXCEPT ![s] =
                    [at      |-> "previewed",
                     errors  |-> errors,
                     records |-> [k \in DOMAIN items |->
                                     [errand.file[k] EXCEPT !.item = items[k]]]]]
       \/ /\ jobs[s].at = "check"
          /\ jobs' = [jobs EXCEPT ![s].at = "checked"]
    /\ UNCHANGED <<errand, revs, minted, ui, asked, failures, others>>

LoadFails(s) ==
    /\ jobs[s].at \in {"list", "trash", "preview"}
    /\ failures < errand.failures
    /\ failures' = failures + 1
    /\ jobs' = [jobs EXCEPT ![s] =
           IF jobs[s].at = "preview" THEN [at |-> "previewFailed"] ELSE Idle]
    /\ UNCHANGED <<errand, revs, minted, ui, asked, others>>

-----------------------------------------------------------------------------
(* Keys *)

\* A form: what will be saved, but for what is typed.
NewForm(kind, item) ==
    [id |-> 0, item |-> item, kind |-> kind, parents |-> {}, text |-> 0, folder |-> 0,
     favorite |-> FALSE, past |-> FALSE, state |-> "live"]

Forms == {"loginForm", "noteForm", "folderForm"}

\* What no screen shows is forgotten: opening the screen sets it anew.
Settled(u) ==
    [u EXCEPT !.form = IF u.show \cap (Forms \cup {"totpForm"}) = {}
                       THEN NewForm("login", 0) ELSE @,
              !.move = IF "move" \in u.show THEN @ ELSE 0,
              !.conflict = IF u.show \cap {"item", "folderConflict"} = {} THEN 1 ELSE @]

\* Who is given the keys, in this order.
Dialogs == <<"left", "generator", "import", "totpForm", "loginForm", "noteForm",
             "folderForm", "move", "history", "search">>
Focus ==
    LET open == {k \in DOMAIN Dialogs : Dialogs[k] \in ui.show} IN
    IF open = {} THEN "main"
    ELSE Dialogs[CHOOSE k \in open : \A j \in open : k <= j]

Press(k, focus) == k \in errand.keys /\ Focus = focus
Open(what)      == ui.show \cap what # {}
Become(u)       == ui' = Settled(u) /\ UNCHANGED <<errand, revs, failures, others>>
Quietly(u)      == Become(u) /\ NoCommand /\ UNCHANGED asked
Leave           == /\ Become([ui EXCEPT !.show = {"left"}])
                   /\ jobs' = [s \in DOMAIN jobs |-> Idle]
                   /\ UNCHANGED <<minted, asked>>
Saving(records) == SaveAll(records) /\ Become([ui EXCEPT !.saving = TRUE])

Selected    == Visible(ui)[ui.item]
HasSelected == ui.item \in DOMAIN Visible(ui)
AtFolder    == Folders(ui)[ui.folder]
HasFolder   == ui.folder \in DOMAIN Folders(ui)
InTrash     == ui.trash[ui.trashed]
HasTrash    == ui.trashed \in DOMAIN ui.trash

\* The detail view of an item that is not in conflict.
InItem  == Open({"item"}) /\ HasSelected /\ ~InConflict(Selected)
InLogin == InItem /\ Selected.shown.kind = "login"

\* No other screen but the vault's list.
InVault == ~Open({"item", "trash", "folders"})

\* breachCheckID: one no answer under way carries.
FreshCheck ==
    CHOOSE n \in 0 .. Cardinality(Slots) :
        \A s \in Slots : jobs[s].at \in {"check", "checked"} => jobs[s].id # n

\* clearBreachCheck
NoCheck == [id |-> FreshCheck, loading |-> FALSE, result |-> 0]

\* What is saved of a record descends from the version shown.
ChildOf(g) == [g.shown EXCEPT !.parents = {g.shown.id}]

updateOrganization(g, folder, favorite) ==
    [ChildOf(g) EXCEPT !.folder = folder, !.favorite = favorite]

deleteItem(g)  == [ChildOf(g) EXCEPT !.state = "trashed"]
restoreItem(g) == [ChildOf(g) EXCEPT !.state = "live"]
purgeItem(g)   == [ChildOf(g) EXCEPT !.state = "purged"]

\* A version, descending from all.
resolveConflict(g) ==
    LET v == g.versions IN
    [v[IF ui.conflict \in DOMAIN v THEN ui.conflict ELSE 1] EXCEPT !.parents = Ids(ToSet(v))]

KeyEnter ==
    /\ Press("enter", "main")
    /\ CASE Open({"folderConflict"}) /\ HasFolder ->
              IF InConflict(AtFolder)
              THEN Saving(<<resolveConflict(AtFolder)>>) /\ UNCHANGED asked
              ELSE Quietly(ui)
         [] ~Open({"folderConflict"}) /\ Open({"folders"}) /\ HasFolder ->
              IF InConflict(AtFolder)
              THEN Quietly([ui EXCEPT !.show = (@ \ {"folders"}) \cup {"folderConflict"},
                                      !.conflict = 1])
              ELSE Quietly([ui EXCEPT !.filter.folder = "one",
                                      !.filter.folderId = AtFolder.item,
                                      !.item = 1,
                                      !.show = @ \ {"folders"},
                                      !.confirm = @ \ {"folder"}])
         [] OTHER ->
              /\ HasSelected
              /\ IF Open({"item"})
                 THEN InConflict(Selected) /\ Saving(<<resolveConflict(Selected)>>)
                      /\ UNCHANGED asked
                 ELSE ~Open({"trash"})
                      /\ Quietly([ui EXCEPT !.show = @ \cup {"item"}, !.conflict = 1,
                                            !.check = NoCheck])

EditForm(g)  == [ChildOf(g) EXCEPT !.id = 0, !.state = "live"]
MergeForm(g) == [resolveConflict(g) EXCEPT !.id = 0, !.state = "live"]

FormOf(kind) == CASE kind = "note" -> "noteForm" [] kind = "folder" -> "folderForm"
                  [] OTHER -> "loginForm"

Fill(form, gone) ==
    Quietly([ui EXCEPT !.show = (@ \ gone) \cup {FormOf(form.kind)}, !.form = form,
                       !.saving = FALSE])

KeyNew ==
    \E items \in NewItems(1) :
        \/ /\ Press("c", "main") /\ ~InItem
           /\ \/ Open({"folders"}) /\ Fill(NewForm("folder", items[1]), {})
              \/ /\ InVault
                 /\ Quietly([ui EXCEPT !.show = @ \cup {"loginForm"},
                                       !.form = NewForm("login", items[1]),
                                       !.saving = FALSE, !.check = NoCheck])
        \/ Press("n", "main") /\ InVault /\ Fill(NewForm("note", items[1]), {})

KeyEdit ==
    /\ Press("e", "main")
    /\ IF Open({"folders"}) /\ HasFolder
       THEN ~InConflict(AtFolder) /\ Fill(EditForm(AtFolder), {})
       ELSE /\ HasSelected /\ ~InConflict(Selected) /\ Selected.shown.kind # "generic"
            /\ Fill(EditForm(Selected), {"item"})

KeyMerge ==
    /\ Press("m", "main")
    /\ IF Open({"folderConflict"}) /\ HasFolder
       THEN InConflict(AtFolder) /\ Fill(MergeForm(AtFolder), {"folderConflict"})
       ELSE /\ Open({"item"}) /\ HasSelected /\ InConflict(Selected)
            /\ Selected.shown.kind # "generic"
            /\ Fill(MergeForm(Selected), {"item"})

\* A form is not left, nor entered again, while a save runs.
LeaveForm(form, to) ==
    /\ Press("esc", form) /\ ~ui.saving
    /\ Quietly([ui EXCEPT !.show = (@ \ {form}) \cup to])

EnterForm(form, record) ==
    /\ Press("enter", form) /\ ~ui.saving
    /\ Saving(<<record>>) /\ UNCHANGED asked

\* A login keeps the password that is replaced (RotateLoginPassword).
KeyInLoginForm ==
    \/ LeaveForm("loginForm", {})
    \/ \E text \in 1 .. 2 :
        EnterForm("loginForm", [ui.form EXCEPT
            !.text = text, !.past = @ \/ ui.form.text \notin {0, text}])

KeyInNoteForm ==
    \/ LeaveForm("noteForm", {})
    \/ \E text \in 1 .. 2 : EnterForm("noteForm", [ui.form EXCEPT !.text = text])

KeyInFolderForm ==
    \/ LeaveForm("folderForm", {})
    \/ \E text \in 1 .. 2 : EnterForm("folderForm", [ui.form EXCEPT !.text = text])

KeyInTOTPForm == LeaveForm("totpForm", {"item"}) \/ EnterForm("totpForm", ui.form)

recordsForFolderRemoval_FolderFirst(folder, listed) ==
    <<deleteItem(folder)>> \o
    [k \in DOMAIN listed |-> updateOrganization(listed[k], 0, Favorite(listed[k]))]

\* The items first, the folder last.
recordsForFolderRemoval(folder, listed) ==
    [k \in DOMAIN listed |-> updateOrganization(listed[k], 0, Favorite(listed[k]))]
    \o <<deleteItem(folder)>>

KeyDelete ==
    /\ Press("d", "main")
    /\ IF Open({"folders"}) /\ HasFolder
       THEN /\ ~InConflict(AtFolder)
            /\ LET listed == Only(ui.records, LAMBDA g :
                                 g.shown.kind # "folder" /\ FolderOf(g) = AtFolder.item)
                   all == recordsForFolderRemoval(AtFolder, listed)
               IN  \/ /\ "folder" \notin ui.confirm
                      /\ Become([ui EXCEPT !.confirm = @ \cup {"folder"}])
                      /\ asked' = [asked EXCEPT !.folder = AtFolder.item]
                      /\ NoCommand
                   \/ /\ "folder" \in ui.confirm
                      /\ \E g \in ToSet(listed) : InConflict(g)
                      /\ Quietly([ui EXCEPT !.confirm = @ \ {"folder"}])
                   \/ /\ "folder" \in ui.confirm
                      /\ \A g \in ToSet(listed) : ~InConflict(g)
                      /\ Saving(all)
                      /\ asked' = [asked EXCEPT
                             !.removal = [saved |-> minted + 1 .. minted + Len(all),
                                          left  |-> {g.shown.id : g \in ToSet(listed)}]]
       ELSE /\ InItem /\ Selected.shown.state = "live"
            /\ Saving(<<deleteItem(Selected)>>)
            /\ UNCHANGED asked

KeyFavorite ==
    /\ Press("f", "main")
    /\ IF InItem
       THEN /\ Saving(<<updateOrganization(Selected, FolderOf(Selected), ~Favorite(Selected))>>)
            /\ UNCHANGED asked
       ELSE /\ ~Open({"folders", "trash", "folderConflict"})
            /\ Quietly([ui EXCEPT !.filter.favorites = ~@, !.item = 1])

KeyOrganize ==
    /\ Press("o", "main")
    /\ IF InItem
       THEN LET at == {k \in DOMAIN Folders(ui) : Folders(ui)[k].item = FolderOf(Selected)}
            IN  Quietly([ui EXCEPT !.show = @ \cup {"move"},
                                   !.move = IF at = {} THEN 0 ELSE CHOOSE k \in at : TRUE])
       ELSE /\ ~Open({"trash", "folderConflict"})
            /\ Quietly([ui EXCEPT !.show = (@ \ {"item"}) \cup {"folders"},
                                  !.confirm = @ \ {"folder"}])

KeyFilter ==
    \E k \in {"a", "u"} :
        /\ Press(k, "main") /\ Open({"folders"})
        /\ Quietly([ui EXCEPT !.filter.folder = IF k = "a" THEN "all" ELSE "unfiled",
                              !.filter.folderId = 0,
                              !.item = 1,
                              !.show = @ \ {"folders"},
                              !.confirm = @ \ {"folder"}])

\* updateMoveFolder.  The folder chosen is one of those listed now: the program
\* ends when there are fewer.
KeyInMove ==
    \/ /\ Press("esc", "move")
       /\ Quietly([ui EXCEPT !.show = @ \ {"move"}])
    \/ /\ Press("j", "move") /\ ui.move < Len(Folders(ui))
       /\ Quietly([ui EXCEPT !.move = @ + 1])
    \/ /\ Press("k", "move") /\ ui.move > 0
       /\ Quietly([ui EXCEPT !.move = @ - 1])
    \/ /\ Press("enter", "move")
       /\ CASE ~HasSelected -> Quietly([ui EXCEPT !.show = @ \ {"move"}])
            [] HasSelected /\ ui.move > Len(Folders(ui)) -> Leave
            [] OTHER ->
                 LET to == IF ui.move = 0 THEN 0 ELSE Folders(ui)[ui.move].item IN
                 IF to = FolderOf(Selected)
                 THEN Quietly([ui EXCEPT !.show = @ \ {"move"}])
                 ELSE /\ Saving(<<updateOrganization(Selected, to, Favorite(Selected))>>)
                      /\ UNCHANGED asked

KeyTime ==
    /\ Press("t", "main")
    /\ IF InLogin
       THEN Quietly([ui EXCEPT !.show = (@ \ {"item"}) \cup {"totpForm"},
                               !.form = [ChildOf(Selected) EXCEPT !.id = 0],
                               !.saving = FALSE])
       ELSE /\ ~Open({"item", "folders", "folderConflict"})
            /\ Run(Slots, [at |-> "trash"])
            /\ Become([ui EXCEPT !.show = @ \cup {"trash"}, !.confirm = @ \ {"purge"}])
            /\ UNCHANGED asked

KeyPurge ==
    /\ Press("x", "main") /\ Open({"trash"}) /\ HasTrash
    /\ IF "purge" \notin ui.confirm
       THEN /\ Become([ui EXCEPT !.confirm = @ \cup {"purge"}])
            /\ asked' = [asked EXCEPT !.purge = InTrash.item]
            /\ NoCommand
       ELSE Saving(<<purgeItem(InTrash)>>) /\ UNCHANGED asked

KeyRestore ==
    /\ Press("r", "main")
    /\ IF Open({"trash"}) /\ HasTrash
       THEN Saving(<<restoreItem(InTrash)>>) /\ UNCHANGED asked
       ELSE Run(Slots, [at |-> "list"]) /\ Become(ui) /\ UNCHANGED asked

KeySearch ==
    /\ Press("/", "main") /\ InVault /\ ~Open({"folderConflict"})
    /\ Quietly([ui EXCEPT !.show = @ \cup {"search"}, !.filter.query = 0, !.item = 1])

KeyInSearch ==
    \/ \E text \in 1 .. 2 :
        /\ Press("/", "search")
        /\ Quietly([ui EXCEPT !.filter.query = text, !.item = 1])
    \/ /\ Press("enter", "search")
       /\ Quietly([ui EXCEPT !.show = @ \ {"search"}])
    \/ /\ Press("esc", "search")
       /\ Quietly([ui EXCEPT !.show = @ \ {"search"}, !.filter.query = 0, !.item = 1])

KeyHistory ==
    /\ Press("h", "main") /\ InLogin
    /\ Quietly([ui EXCEPT !.show = @ \cup {"history"}, !.confirm = @ \ {"history"}])

\* updatePasswordHistory.  A generic item that a list puts at the position has a Login
\* by value, which is empty: it is a login without a past.
KeyInHistory ==
    \E k \in {"esc", "v", "x"} :
        /\ Press(k, "history") /\ ~ui.saving
        /\ CASE ~HasSelected \/ Selected.shown.kind = "note" ->
                  Quietly([ui EXCEPT !.show = @ \ {"history"}])
             [] HasSelected /\ Selected.shown.kind # "note" /\ k # "x" ->
                  Quietly([ui EXCEPT !.show = @ \ ({"history"} \cup
                                                   IF k = "v" THEN {"item"} ELSE {}),
                                     !.confirm = @ \ {"history"}])
             [] OTHER ->
                  /\ Selected.shown.past
                  /\ IF "history" \notin ui.confirm
                     THEN Quietly([ui EXCEPT !.confirm = @ \cup {"history"}])
                     ELSE /\ Saving(<<[ChildOf(Selected) EXCEPT !.past = FALSE]>>)
                          /\ UNCHANGED asked

Check(text) ==
    /\ ~ui.check.loading
    /\ Run(Slots, [at |-> "check", id |-> FreshCheck, of |-> text])
    /\ Become([ui EXCEPT !.check = [id |-> FreshCheck, loading |-> TRUE, result |-> 0]])
    /\ UNCHANGED asked

KeyBreach == Press("b", "main") /\ InLogin /\ Check(Selected.shown.text)

KeyGenerator ==
    /\ Press("g", "main") /\ InVault /\ ~Open({"folderConflict"})
    /\ Quietly([ui EXCEPT !.show = @ \cup {"generator"}, !.generated = 0,
                          !.check = NoCheck])

\* From the settings to a password; none is drawn twice in a row.
KeyInGenerator ==
    \/ \E password \in (1 .. 2) \ {ui.generated} :
        /\ Press(IF ui.generated = 0 THEN "enter" ELSE "g", "generator")
        /\ Quietly([ui EXCEPT !.generated = password, !.check = NoCheck])
    \/ /\ Press("b", "generator") /\ ui.generated # 0
       /\ Check(ui.generated)
    \/ /\ Press("esc", "generator")
       /\ Quietly([ui EXCEPT !.show = @ \ {"generator"}, !.generated = 0,
                             !.check = NoCheck])

NoImport == [loading |-> FALSE, previewed |-> FALSE, errors |-> FALSE, records |-> <<>>]

KeyImport ==
    /\ Press("i", "main") /\ InVault /\ ~Open({"folderConflict"})
    /\ Quietly([ui EXCEPT !.show = @ \cup {"import"}, !.import = NoImport])

KeyInImport ==
    \/ /\ Press("esc", "import")
       /\ Quietly([ui EXCEPT !.show = @ \ {"import"}, !.import = NoImport])
    \/ /\ Press("enter", "import") /\ ~ui.saving /\ ~ui.import.loading
       /\ ~ui.import.previewed
       /\ Run(Slots, [at |-> "preview"])
       /\ Become([ui EXCEPT !.import.loading = TRUE]) /\ UNCHANGED asked
    \/ /\ Press("y", "import") /\ ~ui.saving /\ ~ui.import.loading
       /\ ui.import.previewed /\ ~ui.import.errors
       /\ Saving(ui.import.records) /\ UNCHANGED asked

KeyVault ==
    /\ Press("v", "main")
    /\ Quietly([ui EXCEPT !.show = {}, !.confirm = {}, !.conflict = 1, !.filter.query = 0,
                          !.check = NoCheck])

Down ==
    IF Open({"folderConflict"}) /\ HasFolder /\ ui.conflict < Len(AtFolder.versions)
    THEN [ui EXCEPT !.conflict = @ + 1]
    ELSE IF Open({"folders"}) /\ ui.folder < Len(Folders(ui))
    THEN [ui EXCEPT !.folder = @ + 1, !.confirm = @ \ {"folder"}]
    ELSE IF Open({"item"})
    THEN IF HasSelected /\ ui.conflict < Len(Selected.versions)
         THEN [ui EXCEPT !.conflict = @ + 1] ELSE ui
    ELSE IF Open({"trash"}) /\ ui.trashed < Len(ui.trash)
    THEN [ui EXCEPT !.trashed = @ + 1, !.confirm = @ \ {"purge"}]
    ELSE IF ~Open({"folders"}) /\ ui.item < Len(Visible(ui))
    THEN [ui EXCEPT !.item = @ + 1] ELSE ui

Up ==
    IF Open({"folderConflict"}) /\ ui.conflict > 1
    THEN [ui EXCEPT !.conflict = @ - 1]
    ELSE IF Open({"folders"}) /\ ui.folder > 1
    THEN [ui EXCEPT !.folder = @ - 1, !.confirm = @ \ {"folder"}]
    ELSE IF Open({"item"}) /\ ui.conflict > 1
    THEN [ui EXCEPT !.conflict = @ - 1]
    ELSE IF Open({"trash"}) /\ ui.trashed > 1
    THEN [ui EXCEPT !.trashed = @ - 1, !.confirm = @ \ {"purge"}]
    ELSE IF ~Open({"item", "folders"}) /\ ui.item > 1
    THEN [ui EXCEPT !.item = @ - 1] ELSE ui

KeyMoveCursor ==
    \/ Press("j", "main") /\ Quietly(Down)
    \/ Press("k", "main") /\ Quietly(Up)

KeySync ==
    /\ Press("y", "main") /\ errand.online /\ ~ui.syncing
    /\ Run(Background, [at |-> "sync"])
    /\ Become([ui EXCEPT !.syncing = TRUE]) /\ UNCHANGED asked

\* Commands under way end with the program.
KeyQuit == Press("q", "main") /\ Leave

PeriodicSync ==
    /\ errand.online /\ ~ui.syncing /\ "left" \notin ui.show
    /\ Run(Background, [at |-> "sync"])
    /\ Become([ui EXCEPT !.syncing = TRUE]) /\ UNCHANGED asked

-----------------------------------------------------------------------------
(* Messages *)

TrashShown_StillConfirmed(u, records) ==
    [u EXCEPT !.trash = records, !.trashed = InRange(@, records)]

\* trashMsg
TrashShown(u, records) ==
    [u EXCEPT !.trash = records, !.trashed = InRange(@, records),
              !.confirm = @ \ {"purge"}]

\* itemSavedMsg; the folders, the trash warning and the TOTP form stay.
AfterSave(u) ==
    [u EXCEPT !.show     = @ \ (Forms \cup {"item", "trash", "move", "folderConflict",
                                            "history", "import"}),
              !.confirm  = @ \ {"folder", "history"},
              !.conflict = 1,
              !.check    = NoCheck,
              !.import   = NoImport,
              !.saving   = FALSE]

\* syncResultMsg; every dialog stays as it is.
AfterSync(u) ==
    [u EXCEPT !.syncing = FALSE, !.conflict = 1]

Answered_AnyCheck(u, m) ==
    [u EXCEPT !.check = [id |-> @.id, loading |-> FALSE, result |-> m.of]]

\* breachCheckMsg
Answered(u, m) ==
    IF m.id # u.check.id THEN u
    ELSE [u EXCEPT !.check = [id |-> @.id, loading |-> FALSE, result |-> m.of]]

Updated(u, m) ==
    CASE m.at = "listed" ->
            [Shown(u, m.records) EXCEPT !.show = @ \ (Forms \cup {"totpForm"}),
                                        !.conflict = 1, !.saving = FALSE]
      [] m.at = "trashListed" -> TrashShown(u, m.records)
      [] m.at = "saved"       -> AfterSave(Shown(u, m.records))
      [] m.at = "synced"      -> AfterSync(Shown(u, m.records))
      [] m.at = "saveFailed"  -> [u EXCEPT !.saving = FALSE]
      [] m.at = "checked"     -> Answered(u, m)
      [] m.at = "previewFailed" -> [u EXCEPT !.import = NoImport]
      [] m.at = "previewed"   ->
            [u EXCEPT !.import = [loading |-> FALSE, previewed |-> TRUE,
                                  errors |-> m.errors, records |-> m.records]]

Deliver(s) ==
    /\ jobs[s].at \in {"listed", "trashListed", "saved", "synced", "saveFailed",
                       "checked", "previewed", "previewFailed"}
    /\ ui' = Settled(Updated(ui, jobs[s]))
    /\ jobs' = [jobs EXCEPT ![s] = Idle]
    /\ UNCHANGED <<errand, revs, minted, asked, failures, others>>

-----------------------------------------------------------------------------
Init ==
    /\ errand \in Errands
    /\ revs = errand.cache
    /\ minted = Cardinality(revs)
    /\ jobs = [s \in Slots \cup Background |->
                 IF errand.online /\ s = "opening" THEN [at |-> "sync"] ELSE Idle]
    /\ ui = [show |-> {}, records |-> Listed(revs), trash |-> <<>>, item |-> 1,
             folder |-> 1, trashed |-> 1, conflict |-> 1, move |-> 0,
             form |-> NewForm("login", 0), confirm |-> {}, saving |-> FALSE,
             syncing |-> FALSE, filter |-> NoFilter, import |-> NoImport,
             check |-> NoCheck, generated |-> 0]
    /\ asked = [purge |-> 0, folder |-> 0, removal |-> [saved |-> {}, left |-> {}]]
    /\ failures = 0
    /\ others = 0

Key ==
    \/ KeyEnter \/ KeyNew \/ KeyEdit \/ KeyMerge \/ KeyDelete \/ KeyFavorite
    \/ KeyOrganize \/ KeyFilter \/ KeyTime \/ KeyPurge \/ KeyRestore \/ KeySearch
    \/ KeyHistory \/ KeyBreach \/ KeyGenerator \/ KeyImport \/ KeyVault
    \/ KeyMoveCursor \/ KeySync \/ KeyQuit

KeyInDialog ==
    \/ KeyInLoginForm \/ KeyInNoteForm \/ KeyInFolderForm \/ KeyInTOTPForm
    \/ KeyInMove \/ KeyInSearch \/ KeyInHistory \/ KeyInGenerator \/ KeyInImport

Command(s) == SaveOne(s) \/ SavedAll(s) \/ SyncItems(s)
              \/ Load(s) \/ LoadFails(s) \/ Deliver(s)

Next == Key \/ KeyInDialog \/ PeriodicSync \/ \E s \in Slots \cup Background : Command(s)

Spec == Init /\ [][Next]_vars

-----------------------------------------------------------------------------
(* Properties *)

\* What the keys act on is there: a selection is an entry of what is listed, or
\* the first of nothing, whatever a save or a synchronization lists anew under
\* whatever filter (setRecords, trashMsg and the keys that filter).
SelectionsStand ==
    /\ ui.item = 1 \/ HasSelected
    /\ ui.folder = 1 \/ HasFolder
    /\ ui.trashed = 1 \/ HasTrash
    /\ ui.show \subseteq ToSet(Dialogs) \cup {"item", "trash", "folders", "folderConflict"}
    /\ DOMAIN jobs = Slots \cup Background

\* The second x deletes for good what the first warned of: lists of the trash
\* that arrive in between withdraw the warning (case "x", trashMsg).
PurgeIsConfirmed ==
    "purge" \in ui.confirm => HasTrash /\ InTrash.item = asked.purge

\* A folder is not in the trash while a version that was listed in it still has
\* no successor outside, wherever the save was interrupted
\* (recordsForFolderRemoval, saveItems).
RemovalMovesItemsFirst ==
    (\E r \in revs : r.kind = "folder" /\ r.id \in asked.removal.saved) =>
        \A l \in asked.removal.left \cap Ids(revs) : \E q \in revs : l \in q.parents

\* No item is created twice: a form or an import that is entered again while its
\* save runs, or after another save's answer unlocked it, is refused
\* (itemSaving, QueueMutation).
OneRootPerItem ==
    \A r, q \in revs : r.item = q.item /\ r.parents = {} /\ q.parents = {} => r = q

\* The breach result beside a generated password is that password's, though
\* answers come late and the password was drawn anew (breachCheckID).
BreachResultIsCurrent ==
    Open({"generator"}) /\ ui.check.result # 0 => ui.check.result = ui.generated

\* The second d removes the folder the first warned of.
FolderWarningStands ==
    "folder" \in ui.confirm => HasFolder /\ AtFolder.item = asked.folder

=============================================================================
