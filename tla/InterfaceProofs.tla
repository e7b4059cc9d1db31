--------------------------- MODULE InterfaceProofs ---------------------------
(***************************************************************************)
(* Proofs about Interface, for any items, slots and errands.               *)
(*                                                                         *)
(* Two dialogs wait for a second thing to happen while answers of commands *)
(* arrive: the warning before an item is deleted for good waits for a      *)
(* second key, the generator for the breach check of its password.  Most   *)
(* steps are calm: they disturb neither.  The invariant says of the others *)
(* what makes them safe: no answer under way carries the generator's check *)
(* with another password.                                                  *)
(*                                                                         *)
(* The rest is about what the interface lists and the cache behind it.     *)
(* Every step is one of five: a key, which saves at most; the removal of a *)
(* folder; a revision stored; an answer found, perhaps with a revision     *)
(* brought; an answer shown.  Under them the selections stand, a revision  *)
(* has a number that no save still carries and parents of its item, and    *)
(* for each version that a removal listed, a successor is in the cache or  *)
(* ahead of the folder in the save.                                        *)
(***************************************************************************)
EXTENDS Interface, FiniteSetTheorems, FunctionTheorems, TLAPS

Fields == {"show", "records", "trash", "item", "folder", "trashed", "conflict", "move",
           "form", "confirm", "saving", "syncing", "filter", "import", "check",
           "generated"}

IsCheck(job) == job.at \in {"check", "checked"}

\* What is said of the state before it is said what is in it.
Shape ==
    /\ DOMAIN ui = Fields
    /\ DOMAIN asked = {"purge", "folder", "removal"}
    /\ DOMAIN jobs = Slots \cup Background
    /\ \A s \in DOMAIN jobs :
        /\ "at" \in DOMAIN jobs[s]
        /\ IsCheck(jobs[s]) => s \in Slots /\ DOMAIN jobs[s] = {"at", "id", "of"}

\* The answer that will be taken for the generator's check is about its password.
AnswersAreCurrent ==
    "generator" \in ui.show =>
        \A s \in DOMAIN jobs :
            IsCheck(jobs[s]) /\ jobs[s].id = ui.check.id => jobs[s].of = ui.generated

CheckInv == Shape /\ AnswersAreCurrent /\ BreachResultIsCurrent

-----------------------------------------------------------------------------
(* Calm steps *)

\* No new breach check is started.
NoNewCheck ==
    /\ DOMAIN jobs' = DOMAIN jobs
    /\ \A s \in DOMAIN jobs :
        /\ "at" \in DOMAIN jobs'[s]
        /\ IsCheck(jobs'[s]) =>
            /\ IsCheck(jobs[s])
            /\ DOMAIN jobs'[s] = DOMAIN jobs[s]
            /\ jobs'[s].id = jobs[s].id
            /\ jobs'[s].of = jobs[s].of

\* The generator is not opened, nor its password or its check changed, or the
\* check is forgotten.
CalmGenerator(u) ==
    \/ /\ u.check = ui.check
       /\ u.generated = ui.generated
       /\ "generator" \in u.show => "generator" \in ui.show
    \/ "generator" \notin u.show
    \/ u.check = NoCheck

\* The trash and the item chosen in it stay, or the warning is withdrawn.
CalmTrash(u) ==
    "purge" \in u.confirm =>
        /\ "purge" \in ui.confirm
        /\ u.trash = ui.trash
        /\ u.trashed = ui.trashed

CalmAsked == DOMAIN asked' = DOMAIN asked /\ asked'.purge = asked.purge

Calm(u) == DOMAIN u = Fields /\ CalmGenerator(u) /\ CalmTrash(u)

CalmStep == NoNewCheck /\ CalmAsked /\ Calm(ui')

\* The screens that are settled leave the rest of the interface as it is.
LEMMA SettledKeeps ==
    ASSUME NEW u, DOMAIN u = Fields
    PROVE  /\ DOMAIN Settled(u) = Fields
           /\ \A f \in Fields \ {"form", "move", "conflict"} : Settled(u)[f] = u[f]
BY DEF Settled, Fields

\* To become what is calm is calm.
LEMMA SettlesCalm ==
    ASSUME NEW u, Calm(u)
    PROVE  Calm(Settled(u))
<1> DEFINE v == Settled(u)
<1>1. DOMAIN v = Fields /\ \A f \in Fields \ {"form", "move", "conflict"} : v[f] = u[f]
    BY SettledKeeps DEF Calm
<1>2. /\ v.check = u.check /\ v.generated = u.generated /\ v.show = u.show
      /\ v.confirm = u.confirm /\ v.trash = u.trash /\ v.trashed = u.trashed
    BY <1>1 DEF Fields
<1> HIDE DEF v
<1>3. Calm(v)
    BY <1>1, <1>2 DEF Calm, CalmGenerator, CalmTrash
<1> QED
    BY <1>3 DEF v

LEMMA BecomesCalm ==
    ASSUME NEW u, Calm(u), Become(u)
    PROVE  Calm(ui')
BY SettlesCalm DEF Become

\* Nothing is started.
LEMMA NothingStarted ==
    ASSUME Shape, UNCHANGED jobs
    PROVE  NoNewCheck
BY DEF Shape, NoNewCheck

\* A job that is no check.
LEMMA OtherJob ==
    ASSUME Shape, NEW s \in DOMAIN jobs, NEW job, "at" \in DOMAIN job, ~IsCheck(job),
           jobs' = [jobs EXCEPT ![s] = job]
    PROVE  NoNewCheck
BY DEF Shape, NoNewCheck

LEMMA RunsOther ==
    ASSUME Shape, NEW slots, slots \subseteq DOMAIN jobs, NEW job, Run(slots, job),
           "at" \in DOMAIN job, ~IsCheck(job)
    PROVE  NoNewCheck
<1>1. (CHOOSE s \in Free(slots) : TRUE) \in DOMAIN jobs
    BY DEF Run, Free
<1> QED
    BY <1>1, OtherJob DEF Run

\* Keys that only change what is shown.
LEMMA QuietIsCalm ==
    ASSUME Shape, NEW u, Calm(u), Quietly(u)
    PROVE  CalmStep
<1>1. NoNewCheck
    BY NothingStarted DEF Quietly, NoCommand
<1>2. Calm(ui')
    BY BecomesCalm DEF Quietly
<1> QED
    BY <1>1, <1>2 DEF CalmStep, CalmAsked, Quietly

\* Keys that save.
LEMMA SavingIsCalm ==
    ASSUME Shape, NEW records, Saving(records)
    PROVE  NoNewCheck /\ Calm(ui')
<1>1. NoNewCheck
    <2> DEFINE s == CHOOSE s \in Free(Slots) : TRUE
               job == [at |-> "save", todo |-> [k \in DOMAIN records |->
                                                   [records[k] EXCEPT !.id = minted + k]]]
    <2>1. s \in DOMAIN jobs
        BY DEF Saving, SaveAll, Free, Shape
    <2>2. jobs' = [jobs EXCEPT ![s] = job]
        BY DEF Saving, SaveAll
    <2>3. "at" \in DOMAIN job /\ ~IsCheck(job)
        BY DEF IsCheck
    <2> QED
        BY <2>1, <2>2, <2>3, OtherJob
<1>2. Calm(ui')
    <2>1. Calm([ui EXCEPT !.saving = TRUE])
        BY DEF Calm, CalmGenerator, CalmTrash, Shape, Fields
    <2> QED
        BY <2>1, BecomesCalm DEF Saving
<1> QED
    BY <1>1, <1>2

\* To leave the program, or the screen of a save that ended it.
LEMMA LeavingIsCalm ==
    ASSUME Shape, Leave
    PROVE  CalmStep
<1>1. NoNewCheck
    BY DEF Leave, NoNewCheck, IsCheck, Idle
<1>2. Calm([ui EXCEPT !.show = {"left"}])
    BY DEF Calm, CalmGenerator, CalmTrash, Shape, Fields
<1> QED
    BY <1>1, <1>2, BecomesCalm DEF CalmStep, CalmAsked, Leave

-----------------------------------------------------------------------------
(* Who is given the keys *)

\* While the generator is open it is given the keys, unless the program has ended.
LEMMA GeneratorHasFocus ==
    "generator" \in ui.show => Focus \in {"left", "generator"}
<1> SUFFICES ASSUME "generator" \in ui.show PROVE Focus \in {"left", "generator"}
    OBVIOUS
<1> DEFINE open == {k \in DOMAIN Dialogs : Dialogs[k] \in ui.show}
           least == CHOOSE k \in open : \A j \in open : k <= j
<1>1. /\ DOMAIN Dialogs = 1 .. 10
      /\ Dialogs[1] = "left" /\ Dialogs[2] = "generator"
    BY DEF Dialogs
<1>2. 2 \in open /\ open \subseteq 1 .. 10
    BY <1>1
<1>3. \E k \in {1, 2} \cap open : \A j \in open : k <= j
    <2>1. CASE 1 \in open
        BY <2>1, <1>2
    <2>2. CASE 1 \notin open
        BY <2>2, <1>2
    <2> QED
        BY <2>1, <2>2
<1>4. least \in open /\ \A j \in open : least <= j
    BY <1>3
<1>5. least \in {1, 2}
    BY <1>4, <1>2
<1>6. Focus = Dialogs[least]
    BY <1>2 DEF Focus
<1> QED
    BY <1>1, <1>5, <1>6

LEMMA GeneratorClosed ==
    ASSUME NEW k, NEW focus, focus \notin {"left", "generator"}, Press(k, focus)
    PROVE  "generator" \notin ui.show
BY GeneratorHasFocus DEF Press

-----------------------------------------------------------------------------
(* Keys *)

\* A form is no generator.
LEMMA FillIsCalm ==
    ASSUME Shape, NEW form, NEW gone, Fill(form, gone), "generator" \notin ui.show
    PROVE  CalmStep
<1> DEFINE u == [ui EXCEPT !.show = (@ \ gone) \cup {FormOf(form.kind)}, !.form = form,
                           !.saving = FALSE]
<1>1. FormOf(form.kind) \in Forms
    BY DEF FormOf, Forms
<1>2. Calm(u)
    BY <1>1 DEF Calm, CalmGenerator, CalmTrash, Shape, Fields, Forms
<1>3. Quietly(u)
    BY DEF Fill
<1> QED
    BY <1>2, <1>3, QuietIsCalm

LEMMA EnterIsCalm == ASSUME Shape, KeyEnter PROVE CalmStep
<1>0. "generator" \notin ui.show
    BY GeneratorClosed DEF KeyEnter
<1>1. CASE \E records : Saving(records) /\ UNCHANGED asked
    BY <1>1, SavingIsCalm DEF CalmStep, CalmAsked
<1>2. CASE Quietly(ui)
    <2>1. Calm(ui)
        BY DEF Calm, CalmGenerator, CalmTrash, Shape
    <2> QED
        BY <2>1, <1>2, QuietIsCalm
<1>3. CASE Quietly([ui EXCEPT !.show = (@ \ {"folders"}) \cup {"folderConflict"},
                              !.conflict = 1])
    <2>1. Calm([ui EXCEPT !.show = (@ \ {"folders"}) \cup {"folderConflict"},
                          !.conflict = 1])
        BY DEF Calm, CalmGenerator, CalmTrash, Shape, Fields
    <2> QED
        BY <2>1, <1>3, QuietIsCalm
<1>4. CASE Quietly([ui EXCEPT !.filter.folder = "one", !.filter.folderId = AtFolder.item,
                              !.item = 1, !.show = @ \ {"folders"},
                              !.confirm = @ \ {"folder"}])
    <2>1. Calm([ui EXCEPT !.filter.folder = "one", !.filter.folderId = AtFolder.item,
                          !.item = 1, !.show = @ \ {"folders"},
                          !.confirm = @ \ {"folder"}])
        BY DEF Calm, CalmGenerator, CalmTrash, Shape, Fields
    <2> QED
        BY <2>1, <1>4, QuietIsCalm
<1>5. CASE Quietly([ui EXCEPT !.show = @ \cup {"item"}, !.conflict = 1, !.check = NoCheck])
    <2>1. Calm([ui EXCEPT !.show = @ \cup {"item"}, !.conflict = 1, !.check = NoCheck])
        BY DEF Calm, CalmGenerator, CalmTrash, Shape, Fields
    <2> QED
        BY <2>1, <1>5, QuietIsCalm
<1> QED
    BY Zenon, <1>1, <1>2, <1>3, <1>4, <1>5 DEF KeyEnter

LEMMA NewIsCalm == ASSUME Shape, KeyNew PROVE CalmStep
<1>0. "generator" \notin ui.show
    BY GeneratorClosed DEF KeyNew
<1>1. CASE \E form : Fill(form, {})
    BY <1>0, <1>1, FillIsCalm
<1>2. CASE \E form : Quietly([ui EXCEPT !.show = @ \cup {"loginForm"}, !.form = form,
                                        !.saving = FALSE, !.check = NoCheck])
    <2>1. PICK form : Quietly([ui EXCEPT !.show = @ \cup {"loginForm"}, !.form = form,
                                         !.saving = FALSE, !.check = NoCheck])
        BY <1>2
    <2>2. Calm([ui EXCEPT !.show = @ \cup {"loginForm"}, !.form = form,
                          !.saving = FALSE, !.check = NoCheck])
        BY DEF Calm, CalmGenerator, CalmTrash, Shape, Fields
    <2> QED
        BY <2>1, <2>2, QuietIsCalm
<1> QED
    BY Zenon, <1>1, <1>2 DEF KeyNew

LEMMA EditIsCalm == ASSUME Shape, KeyEdit \/ KeyMerge PROVE CalmStep
<1>0. "generator" \notin ui.show
    BY GeneratorClosed DEF KeyEdit, KeyMerge
<1>1. \E form, gone : Fill(form, gone)
    BY Zenon DEF KeyEdit, KeyMerge
<1> QED
    BY <1>0, <1>1, FillIsCalm

LEMMA FormKeysAreCalm ==
    ASSUME Shape,
           KeyInLoginForm \/ KeyInNoteForm \/ KeyInFolderForm \/ KeyInTOTPForm
    PROVE  CalmStep
<1>1. CASE \E record : Saving(record) /\ UNCHANGED asked
    BY <1>1, SavingIsCalm DEF CalmStep, CalmAsked
<1>2. CASE \E form \in Forms \cup {"totpForm"}, to \in {{}, {"item"}} : LeaveForm(form, to)
    <2>1. PICK form \in Forms \cup {"totpForm"}, to \in {{}, {"item"}} : LeaveForm(form, to)
        BY <1>2
    <2>2. Calm([ui EXCEPT !.show = (@ \ {form}) \cup to])
        BY DEF Calm, CalmGenerator, CalmTrash, Shape, Fields
    <2>3. Quietly([ui EXCEPT !.show = (@ \ {form}) \cup to])
        BY <2>1 DEF LeaveForm
    <2> QED
        BY <2>2, <2>3, QuietIsCalm
<1>3. \/ \E record : Saving(record) /\ UNCHANGED asked
      \/ LeaveForm("loginForm", {}) \/ LeaveForm("noteForm", {})
      \/ LeaveForm("folderForm", {}) \/ LeaveForm("totpForm", {"item"})
    BY Zenon DEF KeyInLoginForm, KeyInNoteForm, KeyInFolderForm, KeyInTOTPForm, EnterForm
<1> QED
    BY <1>1, <1>2, <1>3 DEF Forms

LEMMA DeleteIsCalm == ASSUME Shape, KeyDelete PROVE CalmStep
<1>1. CASE \E records : Saving(records) /\ CalmAsked
    BY <1>1, SavingIsCalm DEF CalmStep
<1>2. CASE /\ Become([ui EXCEPT !.confirm = @ \cup {"folder"}])
           /\ CalmAsked /\ NoCommand
    <2>1. Calm([ui EXCEPT !.confirm = @ \cup {"folder"}])
        BY DEF Calm, CalmGenerator, CalmTrash, Shape, Fields
    <2>2. Calm(ui')
        BY <1>2, <2>1, BecomesCalm
    <2> QED
        BY <1>2, <2>2, NothingStarted DEF CalmStep, NoCommand
<1>3. CASE Quietly([ui EXCEPT !.confirm = @ \ {"folder"}])
    <2>1. Calm([ui EXCEPT !.confirm = @ \ {"folder"}])
        BY DEF Calm, CalmGenerator, CalmTrash, Shape, Fields
    <2> QED
        BY <2>1, <1>3, QuietIsCalm
<1>4. ASSUME NEW x, asked' = [asked EXCEPT !.folder = x] PROVE CalmAsked
    BY <1>4 DEF CalmAsked, Shape
<1>5. ASSUME NEW x, asked' = [asked EXCEPT !.removal = x] PROVE CalmAsked
    BY <1>5 DEF CalmAsked, Shape
<1>6. ASSUME UNCHANGED asked PROVE CalmAsked
    BY <1>6 DEF CalmAsked
<1> QED
    BY Zenon, <1>1, <1>2, <1>3, <1>4, <1>5, <1>6 DEF KeyDelete

LEMMA FavoriteIsCalm == ASSUME Shape, KeyFavorite PROVE CalmStep
<1>1. CASE \E records : Saving(records) /\ UNCHANGED asked
    BY <1>1, SavingIsCalm DEF CalmStep, CalmAsked
<1>2. CASE Quietly([ui EXCEPT !.filter.favorites = ~@, !.item = 1])
    <2>1. Calm([ui EXCEPT !.filter.favorites = ~@, !.item = 1])
        BY DEF Calm, CalmGenerator, CalmTrash, Shape, Fields
    <2> QED
        BY <2>1, <1>2, QuietIsCalm
<1> QED
    BY Zenon, <1>1, <1>2 DEF KeyFavorite

LEMMA OrganizeIsCalm == ASSUME Shape, KeyOrganize PROVE CalmStep
<1>1. CASE \E k : Quietly([ui EXCEPT !.show = @ \cup {"move"}, !.move = k])
    <2>1. PICK k : Quietly([ui EXCEPT !.show = @ \cup {"move"}, !.move = k])
        BY <1>1
    <2>2. Calm([ui EXCEPT !.show = @ \cup {"move"}, !.move = k])
        BY DEF Calm, CalmGenerator, CalmTrash, Shape, Fields
    <2> QED
        BY <2>1, <2>2, QuietIsCalm
<1>2. CASE Quietly([ui EXCEPT !.show = (@ \ {"item"}) \cup {"folders"},
                              !.confirm = @ \ {"folder"}])
    <2>1. Calm([ui EXCEPT !.show = (@ \ {"item"}) \cup {"folders"},
                          !.confirm = @ \ {"folder"}])
        BY DEF Calm, CalmGenerator, CalmTrash, Shape, Fields
    <2> QED
        BY <2>1, <1>2, QuietIsCalm
<1> QED
    BY Zenon, <1>1, <1>2 DEF KeyOrganize

LEMMA FilterIsCalm == ASSUME Shape, KeyFilter PROVE CalmStep
<1>1. PICK f : Quietly([ui EXCEPT !.filter.folder = f, !.filter.folderId = 0, !.item = 1,
                                  !.show = @ \ {"folders"}, !.confirm = @ \ {"folder"}])
    BY Zenon DEF KeyFilter
<1>2. Calm([ui EXCEPT !.filter.folder = f, !.filter.folderId = 0, !.item = 1,
                      !.show = @ \ {"folders"}, !.confirm = @ \ {"folder"}])
    BY DEF Calm, CalmGenerator, CalmTrash, Shape, Fields
<1> QED
    BY <1>1, <1>2, QuietIsCalm

LEMMA MoveKeysAreCalm == ASSUME Shape, KeyInMove PROVE CalmStep
<1>1. CASE \E records : Saving(records) /\ UNCHANGED asked
    BY <1>1, SavingIsCalm DEF CalmStep, CalmAsked
<1>2. CASE Leave
    BY <1>2, LeavingIsCalm
<1>3. CASE Quietly([ui EXCEPT !.show = @ \ {"move"}])
    <2>1. Calm([ui EXCEPT !.show = @ \ {"move"}])
        BY DEF Calm, CalmGenerator, CalmTrash, Shape, Fields
    <2> QED
        BY <2>1, <1>3, QuietIsCalm
<1>4. CASE \E k : Quietly([ui EXCEPT !.move = k])
    <2>1. PICK k : Quietly([ui EXCEPT !.move = k])
        BY <1>4
    <2>2. Calm([ui EXCEPT !.move = k])
        BY DEF Calm, CalmGenerator, CalmTrash, Shape, Fields
    <2> QED
        BY <2>1, <2>2, QuietIsCalm
<1>5. \/ \E records : Saving(records) /\ UNCHANGED asked
      \/ Leave
      \/ Quietly([ui EXCEPT !.show = @ \ {"move"}])
      \/ Quietly([ui EXCEPT !.move = ui.move + 1])
      \/ Quietly([ui EXCEPT !.move = ui.move - 1])
    BY Zenon DEF KeyInMove
<1> QED
    BY <1>1, <1>2, <1>3, <1>4, <1>5

LEMMA TimeIsCalm == ASSUME Shape, KeyTime PROVE CalmStep
<1>1. CASE \E form : Quietly([ui EXCEPT !.show = (@ \ {"item"}) \cup {"totpForm"},
                                        !.form = form, !.saving = FALSE])
    <2>1. PICK form : Quietly([ui EXCEPT !.show = (@ \ {"item"}) \cup {"totpForm"},
                                         !.form = form, !.saving = FALSE])
        BY <1>1
    <2>2. Calm([ui EXCEPT !.show = (@ \ {"item"}) \cup {"totpForm"},
                          !.form = form, !.saving = FALSE])
        BY DEF Calm, CalmGenerator, CalmTrash, Shape, Fields
    <2> QED
        BY <2>1, <2>2, QuietIsCalm
<1>2. CASE /\ Run(Slots, [at |-> "trash"]) /\ UNCHANGED asked
           /\ Become([ui EXCEPT !.show = @ \cup {"trash"}, !.confirm = @ \ {"purge"}])
    <2>1. NoNewCheck
        BY <1>2, RunsOther DEF Shape, IsCheck
    <2>2. Calm([ui EXCEPT !.show = @ \cup {"trash"}, !.confirm = @ \ {"purge"}])
        BY DEF Calm, CalmGenerator, CalmTrash, Shape, Fields
    <2> QED
        BY <1>2, <2>1, <2>2, BecomesCalm DEF CalmStep, CalmAsked
<1> QED
    BY Zenon, <1>1, <1>2 DEF KeyTime

LEMMA RestoreIsCalm == ASSUME Shape, KeyRestore PROVE CalmStep
<1>1. CASE \E records : Saving(records) /\ UNCHANGED asked
    BY <1>1, SavingIsCalm DEF CalmStep, CalmAsked
<1>2. CASE Run(Slots, [at |-> "list"]) /\ Become(ui) /\ UNCHANGED asked
    <2>1. NoNewCheck
        BY <1>2, RunsOther DEF Shape, IsCheck
    <2>2. Calm(ui)
        BY DEF Calm, CalmGenerator, CalmTrash, Shape
    <2> QED
        BY <1>2, <2>1, <2>2, BecomesCalm DEF CalmStep, CalmAsked
<1> QED
    BY Zenon, <1>1, <1>2 DEF KeyRestore

LEMMA SearchIsCalm == ASSUME Shape, KeySearch \/ KeyInSearch PROVE CalmStep
<1>1. CASE Quietly([ui EXCEPT !.show = @ \cup {"search"}, !.filter.query = 0, !.item = 1])
    <2>1. Calm([ui EXCEPT !.show = @ \cup {"search"}, !.filter.query = 0, !.item = 1])
        BY DEF Calm, CalmGenerator, CalmTrash, Shape, Fields
    <2> QED
        BY <2>1, <1>1, QuietIsCalm
<1>2. CASE \E text : Quietly([ui EXCEPT !.filter.query = text, !.item = 1])
    <2>1. PICK text : Quietly([ui EXCEPT !.filter.query = text, !.item = 1])
        BY <1>2
    <2>2. Calm([ui EXCEPT !.filter.query = text, !.item = 1])
        BY DEF Calm, CalmGenerator, CalmTrash, Shape, Fields
    <2> QED
        BY <2>1, <2>2, QuietIsCalm
<1>3. CASE Quietly([ui EXCEPT !.show = @ \ {"search"}])
    <2>1. Calm([ui EXCEPT !.show = @ \ {"search"}])
        BY DEF Calm, CalmGenerator, CalmTrash, Shape, Fields
    <2> QED
        BY <2>1, <1>3, QuietIsCalm
<1>4. CASE Quietly([ui EXCEPT !.show = @ \ {"search"}, !.filter.query = 0, !.item = 1])
    <2>1. Calm([ui EXCEPT !.show = @ \ {"search"}, !.filter.query = 0, !.item = 1])
        BY DEF Calm, CalmGenerator, CalmTrash, Shape, Fields
    <2> QED
        BY <2>1, <1>4, QuietIsCalm
<1> QED
    BY Zenon, <1>1, <1>2, <1>3, <1>4 DEF KeySearch, KeyInSearch

LEMMA HistoryIsCalm == ASSUME Shape, KeyHistory \/ KeyInHistory PROVE CalmStep
<1>1. CASE \E records : Saving(records) /\ UNCHANGED asked
    BY <1>1, SavingIsCalm DEF CalmStep, CalmAsked
<1>2. CASE Quietly([ui EXCEPT !.show = @ \cup {"history"}, !.confirm = @ \ {"history"}])
    <2>1. Calm([ui EXCEPT !.show = @ \cup {"history"}, !.confirm = @ \ {"history"}])
        BY DEF Calm, CalmGenerator, CalmTrash, Shape, Fields
    <2> QED
        BY <2>1, <1>2, QuietIsCalm
<1>3. CASE Quietly([ui EXCEPT !.show = @ \ {"history"}])
    <2>1. Calm([ui EXCEPT !.show = @ \ {"history"}])
        BY DEF Calm, CalmGenerator, CalmTrash, Shape, Fields
    <2> QED
        BY <2>1, <1>3, QuietIsCalm
<1>4. CASE \E gone : Quietly([ui EXCEPT !.show = @ \ ({"history"} \cup gone), !.confirm = @ \ {"history"}])
    <2>1. PICK gone : Quietly([ui EXCEPT !.show = @ \ ({"history"} \cup gone), !.confirm = @ \ {"history"}])
        BY <1>4
    <2>2. Calm([ui EXCEPT !.show = @ \ ({"history"} \cup gone), !.confirm = @ \ {"history"}])
        BY DEF Calm, CalmGenerator, CalmTrash, Shape, Fields
    <2> QED
        BY <2>1, <2>2, QuietIsCalm
<1>5. CASE Quietly([ui EXCEPT !.confirm = @ \cup {"history"}])
    <2>1. Calm([ui EXCEPT !.confirm = @ \cup {"history"}])
        BY DEF Calm, CalmGenerator, CalmTrash, Shape, Fields
    <2> QED
        BY <2>1, <1>5, QuietIsCalm
<1>6. KeyInHistory =>
        \/ \E records : Saving(records) /\ UNCHANGED asked
        \/ Quietly([ui EXCEPT !.show = @ \ {"history"}])
        \/ \E gone : Quietly([ui EXCEPT !.show = @ \ ({"history"} \cup gone), !.confirm = @ \ {"history"}])
        \/ Quietly([ui EXCEPT !.confirm = @ \cup {"history"}])
    BY Zenon DEF KeyInHistory
<1> QED
    BY Zenon, <1>1, <1>2, <1>3, <1>4, <1>5, <1>6 DEF KeyHistory

LEMMA ImportIsCalm == ASSUME Shape, KeyImport \/ KeyInImport PROVE CalmStep
<1>1. CASE \E records : Saving(records) /\ UNCHANGED asked
    BY <1>1, SavingIsCalm DEF CalmStep, CalmAsked
<1>2. CASE Quietly([ui EXCEPT !.show = @ \cup {"import"}, !.import = NoImport])
    <2>1. Calm([ui EXCEPT !.show = @ \cup {"import"}, !.import = NoImport])
        BY DEF Calm, CalmGenerator, CalmTrash, Shape, Fields
    <2> QED
        BY <2>1, <1>2, QuietIsCalm
<1>3. CASE Quietly([ui EXCEPT !.show = @ \ {"import"}, !.import = NoImport])
    <2>1. Calm([ui EXCEPT !.show = @ \ {"import"}, !.import = NoImport])
        BY DEF Calm, CalmGenerator, CalmTrash, Shape, Fields
    <2> QED
        BY <2>1, <1>3, QuietIsCalm
<1>4. CASE /\ Run(Slots, [at |-> "preview"]) /\ UNCHANGED asked
           /\ Become([ui EXCEPT !.import.loading = TRUE])
    <2>1. NoNewCheck
        BY <1>4, RunsOther DEF Shape, IsCheck
    <2>2. Calm([ui EXCEPT !.import.loading = TRUE])
        BY DEF Calm, CalmGenerator, CalmTrash, Shape, Fields
    <2> QED
        BY <1>4, <2>1, <2>2, BecomesCalm DEF CalmStep, CalmAsked
<1> QED
    BY Zenon, <1>1, <1>2, <1>3, <1>4 DEF KeyImport, KeyInImport

LEMMA VaultIsCalm == ASSUME Shape, KeyVault PROVE CalmStep
<1>1. Calm([ui EXCEPT !.show = {}, !.confirm = {}, !.conflict = 1, !.filter.query = 0,
                          !.check = NoCheck])
    BY DEF Calm, CalmGenerator, CalmTrash, Shape, Fields
<1> QED
    BY <1>1, QuietIsCalm DEF KeyVault

\* The cursor of the trash moves without the warning.
LEMMA CursorIsCalm == ASSUME Shape, KeyMoveCursor PROVE CalmStep
<1>1. Calm(Down)
    BY DEF Down, Calm, CalmGenerator, CalmTrash, Shape, Fields
<1>2. Calm(Up)
    BY DEF Up, Calm, CalmGenerator, CalmTrash, Shape, Fields
<1> QED
    BY <1>1, <1>2, QuietIsCalm DEF KeyMoveCursor

LEMMA SyncIsCalm == ASSUME Shape, KeySync \/ PeriodicSync PROVE CalmStep
<1>1. /\ Run(Background, [at |-> "sync"]) /\ UNCHANGED asked
      /\ Become([ui EXCEPT !.syncing = TRUE])
    BY DEF KeySync, PeriodicSync
<1>2. NoNewCheck
    BY <1>1, RunsOther DEF Shape, IsCheck
<1>3. Calm([ui EXCEPT !.syncing = TRUE])
    BY DEF Calm, CalmGenerator, CalmTrash, Shape, Fields
<1> QED
    BY <1>1, <1>2, <1>3, BecomesCalm DEF CalmStep, CalmAsked

LEMMA QuitIsCalm == ASSUME Shape, KeyQuit PROVE CalmStep
BY LeavingIsCalm DEF KeyQuit

\* The generator opens, draws and closes with no check.
LEMMA GeneratorIsCalm ==
    ASSUME Shape, KeyGenerator \/ KeyInGenerator
    PROVE  CalmStep \/ (Check(ui.generated) /\ Press("b", "generator"))
<1>1. CASE Quietly([ui EXCEPT !.show = @ \cup {"generator"}, !.generated = 0,
                          !.check = NoCheck])
    <2>1. Calm([ui EXCEPT !.show = @ \cup {"generator"}, !.generated = 0,
                          !.check = NoCheck])
        BY DEF Calm, CalmGenerator, CalmTrash, Shape, Fields
    <2> QED
        BY <2>1, <1>1, QuietIsCalm
<1>2. CASE \E password : Quietly([ui EXCEPT !.generated = password, !.check = NoCheck])
    <2>1. PICK password : Quietly([ui EXCEPT !.generated = password, !.check = NoCheck])
        BY <1>2
    <2>2. Calm([ui EXCEPT !.generated = password, !.check = NoCheck])
        BY DEF Calm, CalmGenerator, CalmTrash, Shape, Fields
    <2> QED
        BY <2>1, <2>2, QuietIsCalm
<1>3. CASE Quietly([ui EXCEPT !.show = @ \ {"generator"}, !.generated = 0,
                             !.check = NoCheck])
    <2>1. Calm([ui EXCEPT !.show = @ \ {"generator"}, !.generated = 0,
                             !.check = NoCheck])
        BY DEF Calm, CalmGenerator, CalmTrash, Shape, Fields
    <2> QED
        BY <2>1, <1>3, QuietIsCalm
<1> QED
    BY Zenon, <1>1, <1>2, <1>3 DEF KeyGenerator, KeyInGenerator

-----------------------------------------------------------------------------
(* Commands *)

\* Commands change neither the interface nor what it has asked; none is a breach
\* check but that which answers.
LEMMA CommandIsCalm ==
    ASSUME Shape, NEW s \in DOMAIN jobs,
           SaveOne(s) \/ SavedAll(s) \/ SyncItems(s) \/ Load(s) \/ LoadFails(s)
    PROVE  CalmStep
<1>1. UNCHANGED <<ui, asked>>
    BY DEF SaveOne, SavedAll, SyncItems, Load, LoadFails
<1>2. NoNewCheck
    <2>1. CASE SaveOne(s)
        <3>1. CASE jobs' = [jobs EXCEPT ![s].todo = Tail(@)]
            <4>1. /\ "at" \in DOMAIN [jobs[s] EXCEPT !.todo = Tail(@)]
                  /\ ~IsCheck([jobs[s] EXCEPT !.todo = Tail(@)])
                BY <2>1 DEF SaveOne, Shape, IsCheck
            <4> QED
                BY <3>1, <4>1, OtherJob
        <3>2. CASE jobs' = [jobs EXCEPT ![s] = [at |-> "saveFailed"]]
            <4>1. ~IsCheck([at |-> "saveFailed"])
                BY DEF IsCheck
            <4> QED
                BY <3>2, <4>1, OtherJob
        <3> QED
            BY Zenon, <2>1, <3>1, <3>2 DEF SaveOne
    <2>2. ASSUME NEW done \in {"saved", "synced"}, SyncAndList(s, done) PROVE NoNewCheck
        <3>1. PICK records : jobs' = [jobs EXCEPT ![s] = [at |-> done, records |-> records]]
            BY Zenon, <2>2 DEF SyncAndList
        <3>2. ~IsCheck([at |-> done, records |-> records])
            BY DEF IsCheck
        <3> QED
            BY <3>1, <3>2, OtherJob
    <2>3. CASE Load(s)
        <3>1. CASE jobs[s].at = "check"
            BY <2>3, <3>1 DEF Load, NoNewCheck, Shape, IsCheck
        <3>2. CASE jobs[s].at = "list"
            BY <2>3, <3>2, OtherJob DEF Load, IsCheck
        <3>3. CASE jobs[s].at = "trash"
            BY <2>3, <3>3, OtherJob DEF Load, IsCheck
        <3>4. CASE jobs[s].at = "preview"
            <4>1. PICK errors, records : jobs' = [jobs EXCEPT ![s] =
                        [at |-> "previewed", errors |-> errors, records |-> records]]
                BY Zenon, <2>3, <3>4 DEF Load
            <4>2. ~IsCheck([at |-> "previewed", errors |-> errors, records |-> records])
                BY DEF IsCheck
            <4> QED
                BY <4>1, <4>2, OtherJob
        <3> QED
            BY <2>3, <3>1, <3>2, <3>3, <3>4 DEF Load
    <2>4. CASE LoadFails(s)
        <3>1. ~IsCheck(Idle) /\ ~IsCheck([at |-> "previewFailed"])
              /\ "at" \in DOMAIN Idle
            BY DEF IsCheck, Idle
        <3> QED
            BY <2>4, <3>1, OtherJob DEF LoadFails
    <2> QED
        BY <2>1, <2>2, <2>3, <2>4 DEF SavedAll, SyncItems
<1>3. Calm(ui')
    BY <1>1 DEF Calm, CalmGenerator, CalmTrash, Shape
<1> QED
    BY <1>1, <1>2, <1>3 DEF CalmStep, CalmAsked

\* What is listed anew is shown in the lists only.
LEMMA ShownKeeps ==
    ASSUME NEW u, DOMAIN u = Fields, NEW records
    PROVE  /\ DOMAIN Shown(u, records) = Fields
           /\ \A f \in Fields \ {"records", "filter", "item", "folder"} :
                Shown(u, records)[f] = u[f]
BY DEF Shown, Fields

\* Every answer but that of a breach check is calm; a list of the trash withdraws
\* the warning, and an answer to a save forgets the check.
LEMMA AnswerIsCalm ==
    ASSUME Shape, NEW s \in DOMAIN jobs, Deliver(s)
    PROVE  /\ NoNewCheck /\ CalmAsked
           /\ Calm(ui') \/ (jobs[s].at = "checked" /\ ui' = Settled(Answered(ui, jobs[s])))
<1> DEFINE m == jobs[s]
<1>1. NoNewCheck
    <2>1. "at" \in DOMAIN Idle /\ ~IsCheck(Idle)
        BY DEF Idle, IsCheck
    <2> QED
        BY <2>1, OtherJob DEF Deliver
<1>2. CalmAsked
    BY DEF Deliver, CalmAsked
<1>3. ASSUME NEW u, u = Shown(ui, m.records)
      PROVE  /\ DOMAIN u = Fields
             /\ u.check = ui.check /\ u.generated = ui.generated /\ u.show = ui.show
             /\ u.confirm = ui.confirm /\ u.trash = ui.trash /\ u.trashed = ui.trashed
    <2>1. /\ DOMAIN u = Fields
          /\ \A f \in Fields \ {"records", "filter", "item", "folder"} : u[f] = ui[f]
        BY <1>3, ShownKeeps DEF Shape
    <2> QED
        BY <2>1 DEF Fields
<1>4. m.at # "checked" => Calm(Updated(ui, m))
    <2> DEFINE u == Shown(ui, m.records)
    <2>0. /\ DOMAIN u = Fields
          /\ u.check = ui.check /\ u.generated = ui.generated /\ u.show = ui.show
          /\ u.confirm = ui.confirm /\ u.trash = ui.trash /\ u.trashed = ui.trashed
        BY <1>3
    <2> HIDE DEF u
    <2>1. Calm([u EXCEPT !.show = @ \ (Forms \cup {"totpForm"}),
                         !.conflict = 1, !.saving = FALSE])
        BY <2>0 DEF Calm, CalmGenerator, CalmTrash, Fields
    <2>2. Calm(TrashShown(ui, m.records))
        BY DEF TrashShown, Calm, CalmGenerator, CalmTrash, Shape, Fields
    <2>3. Calm(AfterSave(u))
        BY <2>0 DEF AfterSave, Calm, CalmGenerator, CalmTrash, Fields
    <2>4. Calm(AfterSync(u))
        BY <2>0 DEF AfterSync, Calm, CalmGenerator, CalmTrash, Fields
    <2>5. ASSUME NEW x PROVE Calm([ui EXCEPT !.import = x])
        BY DEF Calm, CalmGenerator, CalmTrash, Shape, Fields
    <2>6. Calm([ui EXCEPT !.saving = FALSE])
        BY DEF Calm, CalmGenerator, CalmTrash, Shape, Fields
    <2>7. m.at \in {"listed", "trashListed", "saved", "synced", "saveFailed",
                    "checked", "previewed", "previewFailed"}
        BY DEF Deliver
    <2> QED
        BY <2>1, <2>2, <2>3, <2>4, <2>5, <2>6, <2>7 DEF Updated, u
<1>5. ui' = Settled(Updated(ui, m))
    BY DEF Deliver
<1>6. m.at = "checked" => Updated(ui, m) = Answered(ui, m)
    BY DEF Updated
<1> QED
    BY <1>1, <1>2, <1>4, <1>5, <1>6, SettlesCalm

-----------------------------------------------------------------------------
(* Every step *)

\* What is not calm: a check starts, the trash's warning is raised, a check answers.
LEMMA StepIsCalm ==
    ASSUME Shape, [Next]_vars
    PROVE  \/ CalmStep
           \/ \E text : Check(text) /\ ("generator" \in ui.show => text = ui.generated)
           \/ KeyPurge
           \/ \E s \in DOMAIN jobs : Deliver(s) /\ jobs[s].at = "checked"
<1>1. CASE UNCHANGED vars
    <2>1. NoNewCheck
        BY <1>1, NothingStarted DEF vars
    <2>2. Calm(ui')
        BY <1>1 DEF vars, Calm, CalmGenerator, CalmTrash, Shape
    <2> QED
        BY <1>1, <2>1, <2>2 DEF vars, CalmStep, CalmAsked
<1>2. CASE KeyBreach
    BY <1>2, GeneratorClosed DEF KeyBreach
<1>3. CASE Key
    BY Zenon, <1>2, <1>3, EnterIsCalm, NewIsCalm, EditIsCalm, DeleteIsCalm, FavoriteIsCalm,
       OrganizeIsCalm, FilterIsCalm, TimeIsCalm, RestoreIsCalm, SearchIsCalm,
       HistoryIsCalm, GeneratorIsCalm, ImportIsCalm, VaultIsCalm, CursorIsCalm,
       SyncIsCalm, QuitIsCalm
       DEF Key
<1>4. CASE KeyInDialog
    BY Zenon, <1>4, FormKeysAreCalm, MoveKeysAreCalm, SearchIsCalm, HistoryIsCalm,
       GeneratorIsCalm, ImportIsCalm
       DEF KeyInDialog
<1>5. CASE PeriodicSync
    BY <1>5, SyncIsCalm
<1>6. ASSUME NEW s \in Slots \cup Background, Command(s)
      PROVE  CalmStep \/ (Deliver(s) /\ jobs[s].at = "checked")
    <2>1. s \in DOMAIN jobs
        BY DEF Shape
    <2>2. CASE Deliver(s)
        BY <2>1, <2>2, AnswerIsCalm DEF CalmStep
    <2> QED
        BY <1>6, <2>1, <2>2, CommandIsCalm DEF Command
<1> QED
    BY <1>1, <1>3, <1>4, <1>5, <1>6 DEF Next, Shape

-----------------------------------------------------------------------------
(* The generator's check *)

\* There is always a number that no check under way carries: there are more numbers
\* than slots.
LEMMA FreshCheckIsFresh ==
    ASSUME Shape
    PROVE  \A s \in DOMAIN jobs : IsCheck(jobs[s]) => jobs[s].id # FreshCheck
<1> DEFINE busy == {s \in Slots : IsCheck(jobs[s])}
           taken == {jobs[s].id : s \in busy}
           n == Cardinality(Slots)
<1>1. IsFiniteSet(Slots)
    BY InterfaceAssumption DEF InterfaceAssumption
<1>2. n \in Nat
    BY <1>1, FS_CardinalityType
<1>3. IsFiniteSet(busy) /\ Cardinality(busy) <= n
    BY <1>1, FS_Subset
<1>4. IsFiniteSet(taken) /\ Cardinality(taken) <= Cardinality(busy)
    <2> DEFINE f == [s \in busy |-> jobs[s].id]
    <2>1. f \in [busy -> taken] /\ \A x \in taken : \E s \in busy : f[s] = x
        OBVIOUS
    <2>2. f \in Surjection(busy, taken)
        BY <2>1 DEF Surjection
    <2> QED
        BY <2>2, <1>3, FS_Surjection
<1>5. Cardinality(taken) <= n
    BY <1>2, <1>3, <1>4, FS_CardinalityType
<1>6. Cardinality(0 .. n) = n + 1
    BY <1>2, FS_Interval
<1>7. ~(0 .. n \subseteq taken)
    <2> SUFFICES ASSUME 0 .. n \subseteq taken PROVE FALSE
        OBVIOUS
    <2>1. Cardinality(0 .. n) <= Cardinality(taken)
        BY <1>4, FS_Subset
    <2> QED
        BY <2>1, <1>2, <1>4, <1>5, <1>6, FS_CardinalityType
<1>8. \E k \in 0 .. n : \A s \in Slots : IsCheck(jobs[s]) => jobs[s].id # k
    BY <1>7
<1>9. \A s \in Slots : IsCheck(jobs[s]) => jobs[s].id # FreshCheck
    BY <1>8 DEF FreshCheck, IsCheck
<1> QED
    BY <1>9 DEF Shape

\* What is calm leaves the generator its check.
LEMMA CalmKeepsShape ==
    ASSUME Shape, NoNewCheck, CalmAsked, DOMAIN ui' = Fields
    PROVE  Shape'
BY DEF Shape, NoNewCheck, CalmAsked

LEMMA CalmKeepsCheck ==
    ASSUME CheckInv, NoNewCheck, CalmGenerator(ui')
    PROVE  AnswersAreCurrent' /\ BreachResultIsCurrent'
<1> USE DEF CheckInv, Open
<1>1. CASE "generator" \notin ui'.show
    BY <1>1 DEF AnswersAreCurrent, BreachResultIsCurrent
<1>2. CASE ui'.check = NoCheck
    <2>1. ui'.check.id = FreshCheck /\ ui'.check.result = 0
        BY <1>2 DEF NoCheck
    <2>2. AnswersAreCurrent'
        BY <2>1, FreshCheckIsFresh DEF AnswersAreCurrent, NoNewCheck
    <2>3. BreachResultIsCurrent'
        BY <2>1 DEF BreachResultIsCurrent
    <2> QED
        BY <2>2, <2>3
<1>3. CASE /\ ui'.check = ui.check /\ ui'.generated = ui.generated
           /\ "generator" \in ui'.show => "generator" \in ui.show
    <2>1. AnswersAreCurrent'
        BY <1>3 DEF AnswersAreCurrent, NoNewCheck
    <2>2. BreachResultIsCurrent'
        BY <1>3 DEF BreachResultIsCurrent
    <2> QED
        BY <2>1, <2>2
<1> QED
    BY <1>1, <1>2, <1>3 DEF CalmGenerator

\* A check that starts is the only one under its number.
LEMMA CheckStarts ==
    ASSUME CheckInv, NEW text, Check(text),
           "generator" \in ui.show => text = ui.generated
    PROVE  CheckInv' /\ CalmTrash(ui') /\ CalmAsked
<1> DEFINE s == CHOOSE s \in Free(Slots) : TRUE
           job == [at |-> "check", id |-> FreshCheck, of |-> text]
           u == [ui EXCEPT !.check = [id |-> FreshCheck, loading |-> TRUE, result |-> 0]]
<1>1. Shape
    BY DEF CheckInv
<1>2. s \in Slots /\ s \in DOMAIN jobs
    BY <1>1 DEF Check, Run, Free, Shape
<1>3. jobs' = [jobs EXCEPT ![s] = job] /\ ui' = Settled(u) /\ UNCHANGED asked
    BY DEF Check, Run, Become
<1> HIDE DEF s
<1>4. /\ DOMAIN u = Fields /\ u.show = ui.show /\ u.generated = ui.generated
      /\ u.confirm = ui.confirm /\ u.trash = ui.trash /\ u.trashed = ui.trashed
      /\ u.check.id = FreshCheck /\ u.check.result = 0
    BY <1>1 DEF Shape, Fields
<1> HIDE DEF u
<1>5. DOMAIN ui' = Fields /\ \A f \in Fields \ {"form", "move", "conflict"} : ui'[f] = u[f]
    BY <1>3, <1>4, SettledKeeps
<1>6. /\ ui'.show = ui.show /\ ui'.generated = ui.generated
      /\ ui'.confirm = ui.confirm /\ ui'.trash = ui.trash /\ ui'.trashed = ui.trashed
      /\ ui'.check.id = FreshCheck /\ ui'.check.result = 0
    BY <1>4, <1>5 DEF Fields
<1>7. /\ DOMAIN jobs' = DOMAIN jobs
      /\ jobs'[s] = job
      /\ \A r \in DOMAIN jobs \ {s} : jobs'[r] = jobs[r]
    BY <1>2, <1>3
<1>8. Shape'
    BY <1>1, <1>2, <1>3, <1>5, <1>7 DEF Shape, IsCheck
<1>9. AnswersAreCurrent'
    <2>1. \A r \in DOMAIN jobs \ {s} : IsCheck(jobs[r]) => jobs[r].id # FreshCheck
        BY <1>1, FreshCheckIsFresh
    <2> QED
        BY <2>1, <1>6, <1>7 DEF AnswersAreCurrent
<1>10. BreachResultIsCurrent'
    BY <1>6 DEF BreachResultIsCurrent
<1> QED
    BY <1>3, <1>6, <1>8, <1>9, <1>10 DEF CheckInv, CalmTrash, CalmAsked

\* An answer is taken for the check only under its number.
LEMMA CheckAnswers ==
    ASSUME CheckInv, NEW s \in DOMAIN jobs, Deliver(s), jobs[s].at = "checked"
    PROVE  CheckInv' /\ CalmTrash(ui') /\ CalmAsked
<1> DEFINE m == jobs[s]
           u == Answered(ui, m)
<1>1. Shape /\ NoNewCheck /\ CalmAsked
    BY AnswerIsCalm DEF CheckInv
<1>2. ui' = Settled(u)
    BY DEF Deliver, Updated
<1>3. /\ DOMAIN u = Fields /\ u.show = ui.show /\ u.generated = ui.generated
      /\ u.confirm = ui.confirm /\ u.trash = ui.trash /\ u.trashed = ui.trashed
      /\ u.check.id = ui.check.id
      /\ \/ u.check.result = ui.check.result
         \/ m.id = ui.check.id /\ u.check.result = m.of
    BY <1>1 DEF Answered, Shape, Fields
<1> HIDE DEF u
<1>4. DOMAIN ui' = Fields /\ \A f \in Fields \ {"form", "move", "conflict"} : ui'[f] = u[f]
    BY <1>2, <1>3, SettledKeeps
<1>5. /\ ui'.show = ui.show /\ ui'.generated = ui.generated
      /\ ui'.confirm = ui.confirm /\ ui'.trash = ui.trash /\ ui'.trashed = ui.trashed
      /\ ui'.check.id = ui.check.id
      /\ \/ ui'.check.result = ui.check.result
         \/ m.id = ui.check.id /\ ui'.check.result = m.of
    BY <1>3, <1>4 DEF Fields
<1>6. Shape'
    BY <1>1, <1>4, CalmKeepsShape
<1>7. AnswersAreCurrent'
    BY <1>1, <1>5 DEF CheckInv, AnswersAreCurrent, NoNewCheck
<1>8. BreachResultIsCurrent'
    <2>1. IsCheck(m)
        BY DEF IsCheck
    <2> QED
        BY <1>5, <2>1 DEF CheckInv, AnswersAreCurrent, BreachResultIsCurrent, Open
<1> QED
    BY <1>1, <1>5, <1>6, <1>7, <1>8 DEF CheckInv, CalmTrash

-----------------------------------------------------------------------------
(* The warning of the trash *)

LEMMA CalmKeepsPurge ==
    ASSUME PurgeIsConfirmed, CalmAsked, CalmTrash(ui')
    PROVE  PurgeIsConfirmed'
BY DEF PurgeIsConfirmed, CalmAsked, CalmTrash, HasTrash, InTrash

\* The first x warns of the item chosen, the second saves.
LEMMA PurgeWarns ==
    ASSUME Shape, PurgeIsConfirmed, KeyPurge
    PROVE  /\ PurgeIsConfirmed' /\ Shape'
           /\ NoNewCheck /\ CalmGenerator(ui')
<1>1. CASE "purge" \notin ui.confirm
    <2> DEFINE u == [ui EXCEPT !.confirm = @ \cup {"purge"}]
    <2>1. /\ ui' = Settled(u) /\ UNCHANGED jobs /\ HasTrash
          /\ asked' = [asked EXCEPT !.purge = InTrash.item]
        BY <1>1 DEF KeyPurge, Become, NoCommand
    <2>2. /\ DOMAIN u = Fields /\ u.show = ui.show /\ u.generated = ui.generated
          /\ u.trash = ui.trash /\ u.trashed = ui.trashed /\ u.check = ui.check
        BY DEF Shape, Fields
    <2> HIDE DEF u
    <2>3. DOMAIN ui' = Fields /\ \A f \in Fields \ {"form", "move", "conflict"} : ui'[f] = u[f]
        BY <2>1, <2>2, SettledKeeps
    <2>4. /\ ui'.show = ui.show /\ ui'.generated = ui.generated
          /\ ui'.trash = ui.trash /\ ui'.trashed = ui.trashed /\ ui'.check = ui.check
        BY <2>2, <2>3 DEF Fields
    <2>5. DOMAIN asked' = DOMAIN asked /\ asked'.purge = InTrash.item
        BY <2>1 DEF Shape
    <2>6. NoNewCheck
        BY <2>1, NothingStarted
    <2>7. Shape'
        BY <2>3, <2>5, <2>6 DEF Shape, NoNewCheck
    <2>8. PurgeIsConfirmed'
        BY <2>1, <2>4, <2>5 DEF PurgeIsConfirmed, HasTrash, InTrash
    <2> QED
        BY <2>4, <2>6, <2>7, <2>8 DEF CalmGenerator
<1>2. CASE "purge" \in ui.confirm
    <2>1. NoNewCheck /\ Calm(ui') /\ CalmAsked
        BY <1>2, SavingIsCalm DEF KeyPurge, CalmAsked
    <2> QED
        BY <2>1, CalmKeepsShape, CalmKeepsPurge DEF Calm
<1> QED
    BY <1>1, <1>2

-----------------------------------------------------------------------------
(* Theorems *)

IInv == CheckInv /\ PurgeIsConfirmed

LEMMA InitIInv == Init => IInv
<1> SUFFICES ASSUME Init PROVE IInv
    OBVIOUS
<1>1. /\ DOMAIN ui = Fields /\ ui.show = {} /\ ui.confirm = {}
      /\ DOMAIN asked = {"purge", "folder", "removal"}
    BY DEF Init, Fields
<1>2. /\ DOMAIN jobs = Slots \cup Background
      /\ \A s \in DOMAIN jobs : jobs[s] \in {Idle, [at |-> "sync"]}
    BY DEF Init
<1>3. \A s \in DOMAIN jobs : "at" \in DOMAIN jobs[s] /\ ~IsCheck(jobs[s])
    BY <1>2 DEF Idle, IsCheck
<1> QED
    BY <1>1, <1>2, <1>3
       DEF IInv, CheckInv, Shape, AnswersAreCurrent, BreachResultIsCurrent, Open,
           PurgeIsConfirmed

LEMMA NextIInv == IInv /\ [Next]_vars => IInv'
<1> SUFFICES ASSUME IInv, [Next]_vars PROVE IInv'
    OBVIOUS
<1>1. Shape /\ CheckInv /\ PurgeIsConfirmed
    BY DEF IInv, CheckInv
<1>2. CASE CalmStep
    <2>1. NoNewCheck /\ CalmAsked /\ DOMAIN ui' = Fields /\ CalmGenerator(ui') /\ CalmTrash(ui')
        BY <1>2 DEF CalmStep, Calm
    <2> QED
        BY <1>1, <2>1, CalmKeepsShape, CalmKeepsCheck, CalmKeepsPurge DEF IInv, CheckInv
<1>3. CASE \E text : Check(text) /\ ("generator" \in ui.show => text = ui.generated)
    BY <1>1, <1>3, CheckStarts, CalmKeepsPurge DEF IInv
<1>4. CASE KeyPurge
    BY <1>1, <1>4, PurgeWarns, CalmKeepsCheck DEF IInv, CheckInv
<1>5. CASE \E s \in DOMAIN jobs : Deliver(s) /\ jobs[s].at = "checked"
    BY <1>1, <1>5, CheckAnswers, CalmKeepsPurge DEF IInv
<1> QED
    BY <1>1, <1>2, <1>3, <1>4, <1>5, StepIsCalm

\* The item that a second x deletes for good is the one that the first x warned of,
\* whatever lists of the trash and syncs come in between (case "x", trashMsg).
THEOREM PurgesAreConfirmed == Spec => []PurgeIsConfirmed
<1>1. IInv => PurgeIsConfirmed
    BY DEF IInv
<1> QED
    BY <1>1, InitIInv, NextIInv, PTL DEF Spec

\* The breach result beside a generated password is never another's, in whatever
\* order the checks' answers arrive (breachCheckID, breachCheckMsg).
THEOREM BreachResultsAreCurrent == Spec => []BreachResultIsCurrent
<1>1. IInv => BreachResultIsCurrent
    BY DEF IInv, CheckInv
<1> QED
    BY <1>1, InitIInv, NextIInv, PTL DEF Spec

-----------------------------------------------------------------------------
(* Lists *)

Below(K, k) == {i \in K : i < k}

\* A set of numbers is listed in full and in order.
LEMMA InOrderLists ==
    ASSUME NEW K \in SUBSET Nat, IsFiniteSet(K)
    PROVE  /\ Cardinality(K) \in Nat
           /\ InOrder(K) \in Seq(K) /\ Len(InOrder(K)) = Cardinality(K)
           /\ DOMAIN InOrder(K) = 1 .. Cardinality(K)
           /\ \A k \in K : \E j \in 1 .. Cardinality(K) : InOrder(K)[j] = k
<1> DEFINE rank == [k \in K |-> Cardinality(Below(K, k)) + 1]
           size == Cardinality(K)
<1>1. size \in Nat
    BY FS_CardinalityType
<1>2. ASSUME NEW k \in K
      PROVE  /\ IsFiniteSet(Below(K, k)) /\ Cardinality(Below(K, k)) \in Nat
             /\ Cardinality(Below(K, k)) < size
    <2>1. Below(K, k) \in SUBSET K /\ k \notin Below(K, k)
        BY DEF Below
    <2>2. /\ IsFiniteSet(Below(K, k)) /\ Cardinality(Below(K, k)) <= size
          /\ Cardinality(Below(K, k)) = size => Below(K, k) = K
        BY <2>1, FS_Subset
    <2> QED
        BY <1>1, <2>1, <2>2, FS_CardinalityType
<1>3. ASSUME NEW k \in K, NEW l \in K, k < l
      PROVE  Cardinality(Below(K, k)) < Cardinality(Below(K, l))
    <2>0. \A i \in K : i \in Nat /\ ~(i < i) /\ (i < k => i < l)
        BY <1>3
    <2>1. Below(K, k) \in SUBSET Below(K, l) /\ k \in Below(K, l) /\ k \notin Below(K, k)
        BY <1>3, <2>0 DEF Below
    <2>2. /\ Cardinality(Below(K, k)) <= Cardinality(Below(K, l))
          /\ Cardinality(Below(K, l)) = Cardinality(Below(K, k)) => Below(K, l) = Below(K, k)
        BY <1>2, <2>1, FS_Subset
    <2> QED
        BY <1>2, <2>1, <2>2
<1>4. rank \in [K -> 1 .. size]
    BY <1>1, <1>2
<1>5. \A k, l \in K : rank[k] = rank[l] => k = l
    <2>1. \A k, l \in K : k < l => rank[k] < rank[l]
        BY <1>2, <1>3
    <2>2. \A k \in K : rank[k] \in Nat
        BY <1>4, <1>1
    <2>3. \A k, l \in K : k = l \/ k < l \/ l < k
        OBVIOUS
    <2> HIDE DEF rank
    <2> QED
        BY <2>1, <2>2, <2>3
<1>6. rank \in Surjection(K, 1 .. size)
    <2>1. rank \in Injection(K, 1 .. size)
        <3> HIDE DEF rank, size
        <3> QED
            BY <1>4, <1>5, Fun_IsInj
    <2>2. IsFiniteSet(1 .. size) /\ Cardinality(1 .. size) = size
        <3>1. 1 \in Int /\ size \in Int
            BY <1>1
        <3>2. /\ IsFiniteSet(1 .. size)
              /\ Cardinality(1 .. size) = IF 1 > size THEN 0 ELSE size - 1 + 1
            BY <3>1, FS_Interval
        <3> HIDE DEF size
        <3> QED
            BY <1>1, <3>2
    <2> HIDE DEF rank
    <2> QED
        BY <2>1, <2>2, FS_Injection
<1>7. \A j \in 1 .. size : \E k \in K : rank[k] = j
    <2> HIDE DEF rank, size
    <2> QED
        BY <1>6, Fun_SurjectionProperties
<1>8. ASSUME NEW j \in 1 .. size
      PROVE  InOrder(K)[j] \in K /\ rank[InOrder(K)[j]] = j
    <2>1. InOrder(K)[j] = CHOOSE k \in K : Cardinality(Below(K, k)) = j - 1
        BY DEF InOrder, Below
    <2>2. \E k \in K : Cardinality(Below(K, k)) = j - 1
        <3>1. PICK k \in K : rank[k] = j
            BY <1>7
        <3>2. Cardinality(Below(K, k)) + 1 = j /\ Cardinality(Below(K, k)) \in Nat
            BY <1>2, <3>1
        <3> QED
            BY <3>2
    <2>3. InOrder(K)[j] \in K /\ Cardinality(Below(K, InOrder(K)[j])) = j - 1
        BY <2>1, <2>2
    <2> QED
        BY <1>1, <2>3
<1>9. /\ InOrder(K) \in Seq(K) /\ Len(InOrder(K)) = size /\ DOMAIN InOrder(K) = 1 .. size
    <2>1. InOrder(K) = [j \in 1 .. size |-> InOrder(K)[j]]
        BY SMTT(30) DEF InOrder
    <2> HIDE DEF rank, size
    <2> QED
        BY <1>1, <1>8, <2>1
<1>10. \A k \in K : \E j \in 1 .. size : InOrder(K)[j] = k
    <2> HIDE DEF rank, size
    <2> QED
        BY <1>4, <1>5, <1>8
<1> QED
    BY <1>1, <1>9, <1>10

\* What is left of a list.
Picked(list, K) == [j \in DOMAIN InOrder(K) |-> list[InOrder(K)[j]]]

LEMMA PicksThose ==
    ASSUME NEW S, NEW list \in Seq(S), NEW K \in SUBSET DOMAIN list
    PROVE  /\ Cardinality(K) \in Nat /\ IsFiniteSet(K)
           /\ Picked(list, K) \in Seq(S) /\ Len(Picked(list, K)) = Cardinality(K)
           /\ DOMAIN Picked(list, K) = 1 .. Cardinality(K)
           /\ \A j \in DOMAIN Picked(list, K) : \E k \in K : Picked(list, K)[j] = list[k]
           /\ \A k \in K : \E j \in DOMAIN Picked(list, K) : Picked(list, K)[j] = list[k]
<1>1. DOMAIN list = 1 .. Len(list) /\ Len(list) \in Nat
    OBVIOUS
<1>2. IsFiniteSet(1 .. Len(list))
    <2>1. 1 \in Int /\ Len(list) \in Int
        BY <1>1
    <2> QED
        BY <2>1, FS_Interval
<1>3. K \in SUBSET Nat /\ IsFiniteSet(K)
    BY <1>1, <1>2, FS_Subset
<1>4. /\ Cardinality(K) \in Nat
      /\ InOrder(K) \in Seq(K) /\ DOMAIN InOrder(K) = 1 .. Cardinality(K)
      /\ \A k \in K : \E j \in 1 .. Cardinality(K) : InOrder(K)[j] = k
    BY <1>3, InOrderLists
<1>5. \A j \in 1 .. Cardinality(K) : InOrder(K)[j] \in K
    BY <1>4
<1>6. \A k \in K : list[k] \in S
    OBVIOUS
<1>7. Picked(list, K) = [j \in 1 .. Cardinality(K) |-> list[InOrder(K)[j]]]
    BY <1>4 DEF Picked
<1>8. \A j \in 1 .. Cardinality(K) :
        Picked(list, K)[j] = list[InOrder(K)[j]] /\ Picked(list, K)[j] \in S
    BY <1>5, <1>6, <1>7
<1>9. DOMAIN Picked(list, K) = 1 .. Cardinality(K)
    BY <1>7
<1>10. Picked(list, K) \in Seq(S) /\ Len(Picked(list, K)) = Cardinality(K)
    <2> DEFINE f == [j \in 1 .. Cardinality(K) |-> list[InOrder(K)[j]]]
    <2>1. \A j \in 1 .. Cardinality(K) : list[InOrder(K)[j]] \in S
        BY <1>5, <1>6
    <2>2. f \in Seq(S) /\ Len(f) = Cardinality(K)
        BY SMTT(30), <1>4, <2>1
    <2> HIDE DEF f
    <2>3. Picked(list, K) = f
        BY <1>7 DEF f
    <2> QED
        BY <2>2, <2>3
<1>11. \A j \in 1 .. Cardinality(K) : \E k \in K : Picked(list, K)[j] = list[k]
    BY Zenon, <1>5, <1>8
<1>12. \A k \in K : \E j \in 1 .. Cardinality(K) : Picked(list, K)[j] = list[k]
    BY ZenonT(40), <1>4, <1>8
<1> QED
    BY <1>3, <1>4, <1>9, <1>10, <1>11, <1>12

\* The filters of the interface.
IsVisible(u, g) ==
    /\ g.shown.kind # "folder"
    /\ u.filter.query # 0 => g.shown.text = u.filter.query
    /\ u.filter.favorites => Favorite(g)
    /\ CASE u.filter.folder = "all"     -> TRUE
         [] u.filter.folder = "unfiled" -> FolderOf(g) = 0
         [] OTHER                       -> FolderOf(g) = u.filter.folderId

LEMMA FiltersPick ==
    /\ \A u : Visible(u) = Picked(u.records, {k \in DOMAIN u.records : IsVisible(u, u.records[k])})
    /\ \A u : Folders(u) = Picked(u.records, {k \in DOMAIN u.records :
                                                  u.records[k].shown.kind = "folder"})
BY DEF Visible, Folders, Only, Picked, IsVisible

-----------------------------------------------------------------------------
(* What the interface holds *)

Screens == ToSet(Dialogs) \cup {"item", "trash", "folders", "folderConflict"}

Grouped == [item : Nat, shown : Revision, versions : Seq(Revision)]

\* What is chosen is listed.
Standing(u) ==
    /\ u.item = 1 \/ u.item \in DOMAIN Visible(u)
    /\ u.folder = 1 \/ u.folder \in DOMAIN Folders(u)
    /\ u.trashed = 1 \/ u.trashed \in DOMAIN u.trash

Usable(u) ==
    /\ DOMAIN u = Fields
    /\ u.show \subseteq Screens
    /\ u.records \in Seq(Grouped) /\ u.trash \in Seq(Grouped)
    /\ u.form \in Revision
    /\ DOMAIN u.import = {"loading", "previewed", "errors", "records"}
    /\ u.import.records \in Seq(Revision)
    /\ DOMAIN u.filter = {"folder", "folderId", "favorites", "query"}
    /\ u.item \in Nat \ {0} /\ u.folder \in Nat \ {0} /\ u.trashed \in Nat \ {0}
    /\ u.move \in Nat
    /\ Standing(u)

\* What is shown of the lists.
LEMMA FiltersShow ==
    ASSUME NEW u, u.records \in Seq(Grouped)
    PROVE  /\ Visible(u) \in Seq(Grouped) /\ Folders(u) \in Seq(Grouped)
           /\ Len(Visible(u)) \in Nat /\ DOMAIN Visible(u) = 1 .. Len(Visible(u))
           /\ Len(Folders(u)) \in Nat /\ DOMAIN Folders(u) = 1 .. Len(Folders(u))
           /\ \A k \in DOMAIN Visible(u) : \E j \in DOMAIN u.records :
                Visible(u)[k] = u.records[j]
           /\ \A k \in DOMAIN Folders(u) : \E j \in DOMAIN u.records :
                Folders(u)[k] = u.records[j]
<1> DEFINE V == {k \in DOMAIN u.records : IsVisible(u, u.records[k])}
           F == {k \in DOMAIN u.records : u.records[k].shown.kind = "folder"}
<1>1. V \in SUBSET DOMAIN u.records /\ F \in SUBSET DOMAIN u.records
    OBVIOUS
<1>2. Visible(u) = Picked(u.records, V) /\ Folders(u) = Picked(u.records, F)
    BY FiltersPick
<1> HIDE DEF V, F
<1>3. /\ Visible(u) \in Seq(Grouped)
      /\ \A k \in DOMAIN Visible(u) : \E j \in V : Visible(u)[k] = u.records[j]
    BY <1>1, <1>2, PicksThose
<1>4. /\ Folders(u) \in Seq(Grouped)
      /\ \A k \in DOMAIN Folders(u) : \E j \in F : Folders(u)[k] = u.records[j]
    BY <1>1, <1>2, PicksThose
<1> QED
    BY <1>1, <1>3, <1>4

LEMMA GroupsAreTyped ==
    ASSUME NEW g \in Grouped
    PROVE  /\ g.item \in Nat /\ g.shown \in Revision /\ g.versions \in Seq(Revision)
           /\ FolderOf(g) \in Nat /\ Favorite(g) \in BOOLEAN
           /\ ChildOf(g) \in Revision
<1>1. g.item \in Nat /\ g.shown \in Revision /\ g.versions \in Seq(Revision)
    BY DEF Grouped
<1>2. Favorite(g) \in BOOLEAN
    <2>1. Favorite(g) = TRUE \/ Favorite(g) = FALSE
        BY Zenon DEF Favorite
    <2> QED
        BY <2>1
<1>3. ChildOf(g) \in Revision
    BY <1>1 DEF ChildOf, Revision
<1>4. FolderOf(g) \in Nat
    <2> DEFINE K == {k \in DOMAIN g.versions : g.versions[k].folder # 0}
               in == Picked(g.versions, K)
    <2>1. in \in Seq(Revision)
        BY <1>1, PicksThose
    <2>2. FolderOf(g) = IF ~InConflict(g) THEN g.shown.folder
                        ELSE IF in = <<>> THEN 0 ELSE in[1].folder
        BY Zenon DEF FolderOf, Only, Picked
    <2> HIDE DEF in
    <2>3. in # <<>> => in[1] \in Revision
        BY <2>1
    <2> QED
        BY <1>1, <2>2, <2>3 DEF Revision
<1> QED
    BY <1>1, <1>2, <1>3, <1>4

\* Of a conflict any version can be chosen.
LEMMA VersionsResolve ==
    ASSUME NEW g \in Grouped, InConflict(g)
    PROVE  resolveConflict(g) \in Revision
<1> DEFINE v == g.versions
           k == IF ui.conflict \in DOMAIN v THEN ui.conflict ELSE 1
<1>1. v \in Seq(Revision) /\ v # <<>>
    BY DEF Grouped, InConflict
<1>2. k \in DOMAIN v
    BY <1>1
<1>3. v[k] \in Revision
    BY <1>1, <1>2
<1>4. Ids(ToSet(v)) \in SUBSET Nat
    <2>1. \A r \in ToSet(v) : r \in Revision
        BY <1>1 DEF ToSet
    <2>2. \A r \in ToSet(v) : r.id \in Nat
        BY <2>1 DEF Revision
    <2> QED
        BY <2>2 DEF Ids
<1>5. resolveConflict(g) = [v[k] EXCEPT !.parents = Ids(ToSet(v))]
    BY DEF resolveConflict
<1> HIDE DEF v, k
<1>6. \A r \in Revision, P \in SUBSET Nat : [r EXCEPT !.parents = P] \in Revision
    BY DEF Revision
<1> QED
    BY <1>3, <1>4, <1>5, <1>6

LEMMA RevisionsAreTyped ==
    ASSUME NEW r \in Revision
    PROVE  /\ \A x \in Nat : [r EXCEPT !.id = x] \in Revision
           /\ \A x \in Nat : [r EXCEPT !.item = x] \in Revision
           /\ \A x \in {"live", "trashed", "purged"} : [r EXCEPT !.state = x] \in Revision
           /\ \A x \in Int : [r EXCEPT !.text = x] \in Revision
           /\ \A x \in Nat, y \in BOOLEAN :
                [r EXCEPT !.folder = x, !.favorite = y] \in Revision
           /\ \A x \in Int, y \in BOOLEAN : [r EXCEPT !.text = x, !.past = y] \in Revision
           /\ [r EXCEPT !.past = FALSE] \in Revision
           /\ [r EXCEPT !.id = 0, !.state = "live"] \in Revision
BY DEF Revision

\* What is saved of an item, and what a form is filled with.
LEMMA EditsAreTyped ==
    ASSUME NEW g \in Grouped
    PROVE  /\ deleteItem(g) \in Revision /\ restoreItem(g) \in Revision
           /\ purgeItem(g) \in Revision
           /\ EditForm(g) \in Revision
           /\ \A f \in Nat, b \in BOOLEAN : updateOrganization(g, f, b) \in Revision
           /\ InConflict(g) => resolveConflict(g) \in Revision /\ MergeForm(g) \in Revision
BY GroupsAreTyped, VersionsResolve, RevisionsAreTyped
   DEF deleteItem, restoreItem, purgeItem, EditForm, updateOrganization, MergeForm

LEMMA NewFormIsTyped ==
    ASSUME NEW kind \in {"login", "note", "folder"}, NEW item \in Nat
    PROVE  NewForm(kind, item) \in Revision
BY DEF NewForm, Revision

\* A group of an item shows one of its revisions.
LEMMA GroupsShow ==
    ASSUME NEW R, R \subseteq Revision, IsFiniteSet(R), NEW i \in Nat, Heads(Of(R, i)) # {}
    PROVE  Group(R, i) \in Grouped /\ Group(R, i).shown \in R
<1> DEFINE heads == Heads(Of(R, i))
           ids == InOrder(Ids(heads))
           versions == [k \in DOMAIN ids |-> CHOOSE r \in heads : r.id = ids[k]]
           K == {k \in DOMAIN versions : versions[k].state # "purged"}
           kept == Picked(versions, K)
<1>1. heads \subseteq R /\ heads \subseteq Revision /\ IsFiniteSet(heads)
    BY FS_Subset DEF Heads, Of
<1>2. Ids(heads) \in SUBSET Nat /\ IsFiniteSet(Ids(heads)) /\ Ids(heads) # {}
    <2>1. Ids(heads) \in SUBSET Nat
        BY <1>1 DEF Ids, Revision
    <2>2. IsFiniteSet(Ids(heads))
        <3> DEFINE f == [r \in heads |-> r.id]
        <3>1. f \in [heads -> Ids(heads)] /\ \A x \in Ids(heads) : \E r \in heads : f[r] = x
            BY DEF Ids
        <3>2. f \in Surjection(heads, Ids(heads))
            BY <3>1 DEF Surjection
        <3> QED
            BY <3>2, <1>1, FS_Surjection
    <2> QED
        BY <2>1, <2>2 DEF Ids
<1> HIDE DEF heads
<1>3. /\ ids \in Seq(Ids(heads)) /\ Cardinality(Ids(heads)) \in Nat
      /\ DOMAIN ids = 1 .. Cardinality(Ids(heads))
    BY <1>2, InOrderLists
<1>4. \A k \in DOMAIN ids : ids[k] \in Ids(heads)
    BY <1>3
<1> HIDE DEF ids
<1>5. \A k \in DOMAIN ids : (CHOOSE r \in heads : r.id = ids[k]) \in heads
    BY <1>4 DEF Ids
<1>6. versions \in Seq(heads) /\ DOMAIN versions = 1 .. Cardinality(Ids(heads))
    <2> DEFINE v(k) == CHOOSE r \in heads : r.id = ids[k]
               n == Cardinality(Ids(heads))
    <2>1. n \in Nat /\ DOMAIN ids = 1 .. n /\ \A k \in 1 .. n : v(k) \in heads
        BY <1>3, <1>5
    <2>2. versions = [k \in 1 .. n |-> v(k)]
        BY <2>1
    <2> HIDE DEF v, n
    <2>3. [k \in 1 .. n |-> v(k)] \in Seq(heads)
        BY <2>1
    <2> QED
        BY <2>1, <2>2, <2>3 DEF n
<1>7. Cardinality(Ids(heads)) # 0
    BY <1>2, FS_EmptySet
<1> HIDE DEF versions
<1>8. versions[1] \in heads
    BY <1>3, <1>6, <1>7
<1>9. kept \in Seq(heads)
    BY <1>6, PicksThose
<1>10. Group(R, i) = [item |-> i,
                      shown |-> IF kept = <<>> THEN versions[1] ELSE kept[1],
                      versions |-> IF Len(versions) > 1 THEN versions ELSE <<>>]
    BY Zenon DEF Group, Only, Picked, heads, ids, versions
<1> HIDE DEF kept
<1>11. kept # <<>> => kept[1] \in heads
    BY <1>9
<1>12. versions \in Seq(Revision) /\ <<>> \in Seq(Revision)
    BY <1>1, <1>6
<1> QED
    BY <1>1, <1>8, <1>10, <1>11, <1>12 DEF Grouped

ShownIds(list) == {g.shown.id : g \in ToSet(list)}

LEMMA GroupsList ==
    ASSUME NEW R, R \subseteq Revision, IsFiniteSet(R), NEW I \in SUBSET Items,
           \A i \in I : Heads(Of(R, i)) # {}
    PROVE  Groups(R, I) \in Seq(Grouped) /\ ShownIds(Groups(R, I)) \subseteq Ids(R)
<1> DEFINE order == InOrder(I)
<1>1. I \in SUBSET Nat /\ IsFiniteSet(I)
    BY InterfaceAssumption, FS_Subset DEF InterfaceAssumption
<1>2. /\ order \in Seq(I) /\ Cardinality(I) \in Nat
      /\ DOMAIN order = 1 .. Cardinality(I)
    BY <1>1, InOrderLists
<1>3. \A k \in DOMAIN order : order[k] \in I
    BY <1>2
<1> HIDE DEF order
<1>4. \A k \in DOMAIN order : Group(R, order[k]) \in Grouped /\ Group(R, order[k]).shown \in R
    BY <1>1, <1>3, GroupsShow
<1>5. Groups(R, I) = [k \in DOMAIN order |-> Group(R, order[k])]
    BY DEF Groups, order
<1>6. Groups(R, I) \in Seq(Grouped)
    BY <1>2, <1>4, <1>5
<1>7. \A g \in ToSet(Groups(R, I)) : g.shown \in R
    BY <1>4, <1>5 DEF ToSet
<1> QED
    BY <1>6, <1>7 DEF ShownIds, Ids

LEMMA ListedIsTyped ==
    ASSUME NEW R, R \subseteq Revision, IsFiniteSet(R)
    PROVE  /\ Listed(R) \in Seq(Grouped) /\ ShownIds(Listed(R)) \subseteq Ids(R)
           /\ Trashed(R) \in Seq(Grouped)
<1> DEFINE L == {i \in Items : \E r \in Heads(Of(R, i)) : r.state = "live"}
           T == {i \in Items : /\ \E r \in Heads(Of(R, i)) : r.state = "trashed"
                               /\ \A r \in Heads(Of(R, i)) : r.state # "live"}
<1>1. /\ L \in SUBSET Items /\ \A i \in L : Heads(Of(R, i)) # {}
      /\ T \in SUBSET Items /\ \A i \in T : Heads(Of(R, i)) # {}
    OBVIOUS
<1>2. Listed(R) = Groups(R, L) /\ Trashed(R) = Groups(R, T)
    BY DEF Listed, Trashed
<1> HIDE DEF L, T
<1> QED
    BY <1>1, <1>2, GroupsList

-----------------------------------------------------------------------------
(* What keys leave of it *)

\* Jobs that carry revisions, or lists of items.
Lists    == {"listed", "saved", "synced"}
Carriers == Lists \cup {"save", "trashListed", "previewed"}

Sound(job) ==
    /\ job.at = "save" => DOMAIN job = {"at", "todo"} /\ job.todo \in Seq(Revision)
    /\ job.at \in Lists \cup {"trashListed"} => job.records \in Seq(Grouped)
    /\ job.at = "previewed" => job.records \in Seq(Revision)

Held ==
    /\ errand \in Errands
    /\ revs \subseteq Revision /\ IsFiniteSet(revs) /\ minted \in Nat
    /\ Usable(ui)
    /\ \A s \in DOMAIN jobs : Sound(jobs[s])

NothingNew ==
    /\ minted' = minted
    /\ \A s \in DOMAIN jobs : jobs'[s] = jobs[s] \/ jobs'[s].at \notin Carriers

\* A key changes neither the cache nor the lists; what it starts saves at most.
Handled ==
    /\ UNCHANGED <<errand, revs>>
    /\ Usable(ui') /\ ui'.records = ui.records
    /\ asked'.removal = asked.removal
    /\ NothingNew \/ \E records \in Seq(Revision) : SaveAll(records)

LEMMA ScreensHold ==
    {"left", "generator", "import", "totpForm", "loginForm", "noteForm", "folderForm",
     "move", "history", "search", "item", "trash", "folders", "folderConflict"}
        \subseteq Screens
<1>1. \A k \in 1 .. 10 : Dialogs[k] \in ToSet(Dialogs)
    BY DEF Dialogs, ToSet
<1> QED
    BY <1>1 DEF Screens, Dialogs

\* What most keys do: they do not move in the trash nor in the folders, and in the
\* items only to the first.
Minor(u) ==
    /\ DOMAIN u = Fields
    /\ u.records = ui.records /\ u.trash = ui.trash
    /\ u.trashed = ui.trashed /\ u.folder = ui.folder
    /\ u.show \subseteq Screens
    /\ u.form \in Revision /\ u.move \in Nat
    /\ DOMAIN u.import = {"loading", "previewed", "errors", "records"}
    /\ u.import.records \in Seq(Revision)
    /\ DOMAIN u.filter = {"folder", "folderId", "favorites", "query"}
    /\ u.item = 1 \/ (u.item = ui.item /\ u.filter = ui.filter)

LEMMA SameLists ==
    /\ \A u, v : u.records = v.records => Folders(u) = Folders(v)
    /\ \A u, v : u.records = v.records /\ u.filter = v.filter => Visible(u) = Visible(v)
BY FiltersPick DEF IsVisible

LEMMA MinorIsUsable ==
    ASSUME Usable(ui), NEW u, Minor(u)
    PROVE  Usable(u)
<1>1. Folders(u) = Folders(ui) /\ (u.filter = ui.filter => Visible(u) = Visible(ui))
    BY SameLists DEF Minor
<1>2. Standing(u)
    BY <1>1 DEF Standing, Usable, Minor
<1> QED
    BY <1>2 DEF Usable, Minor

LEMMA SettlesUsable ==
    ASSUME NEW u, Usable(u)
    PROVE  Usable(Settled(u)) /\ Settled(u).records = u.records
<1> DEFINE v == Settled(u)
<1>1. DOMAIN v = Fields /\ \A f \in Fields \ {"form", "move", "conflict"} : v[f] = u[f]
    BY SettledKeeps DEF Usable
<1>2. /\ v.show = u.show /\ v.records = u.records /\ v.trash = u.trash
      /\ v.item = u.item /\ v.folder = u.folder /\ v.trashed = u.trashed
      /\ v.filter = u.filter /\ v.import = u.import
    BY <1>1 DEF Fields
<1>3. v.form \in {u.form, NewForm("login", 0)} /\ v.move \in {u.move, 0}
    BY DEF Settled, Usable, Fields
<1> HIDE DEF v
<1>4. v.form \in Revision /\ v.move \in Nat
    BY <1>3, NewFormIsTyped DEF Usable
<1>5. Folders(v) = Folders(u) /\ Visible(v) = Visible(u)
    BY <1>2, SameLists
<1>6. Usable(v)
    BY <1>1, <1>2, <1>4, <1>5 DEF Usable, Standing
<1> QED
    BY <1>2, <1>6 DEF v

LEMMA BecomesUsable ==
    ASSUME NEW u, Usable(u), u.records = ui.records, Become(u)
    PROVE  /\ Usable(ui') /\ ui'.records = ui.records
           /\ UNCHANGED <<errand, revs>>
BY SettlesUsable DEF Become

LEMMA QuietIsHandled ==
    ASSUME NEW u, Usable(u), u.records = ui.records, Quietly(u)
    PROVE  Handled
BY BecomesUsable DEF Handled, NothingNew, Quietly, NoCommand

LEMMA MinorIsHandled ==
    ASSUME Usable(ui), NEW u, Minor(u), Quietly(u)
    PROVE  Handled
<1>1. Usable(u) /\ u.records = ui.records
    BY MinorIsUsable DEF Minor
<1> QED
    BY <1>1, QuietIsHandled

LEMMA SavingIsUsable ==
    ASSUME Usable(ui), NEW records, Saving(records)
    PROVE  /\ UNCHANGED <<errand, revs>>
           /\ Usable(ui') /\ ui'.records = ui.records
<1> DEFINE u == [ui EXCEPT !.saving = TRUE]
<1>1. Minor(u)
    BY DEF Minor, Usable, Fields
<1> HIDE DEF u
<1>2. Usable(u) /\ u.records = ui.records
    BY <1>1, MinorIsUsable DEF Minor
<1> QED
    BY <1>2, BecomesUsable DEF Saving, u

LEMMA SavingIsHandled ==
    ASSUME Usable(ui), NEW records \in Seq(Revision), Saving(records), UNCHANGED asked
    PROVE  Handled
BY SavingIsUsable DEF Handled, Saving

\* To save one revision.
LEMMA SavesOne ==
    ASSUME Usable(ui), NEW r \in Revision, Saving(<<r>>), UNCHANGED asked
    PROVE  Handled
<1>1. <<r>> \in Seq(Revision)
    OBVIOUS
<1> QED
    BY <1>1, SavingIsHandled

LEMMA RunIsNothingNew ==
    ASSUME Shape, NEW slots, slots \subseteq DOMAIN jobs, NEW job, Run(slots, job),
           job.at \notin Carriers
    PROVE  NothingNew
<1> DEFINE s == CHOOSE s \in Free(slots) : TRUE
<1>1. s \in DOMAIN jobs
    BY DEF Run, Free
<1>2. jobs' = [jobs EXCEPT ![s] = job] /\ minted' = minted
    BY DEF Run
<1> HIDE DEF s
<1> QED
    BY <1>1, <1>2 DEF NothingNew

LEMMA RunIsHandled ==
    ASSUME Shape, Usable(ui), NEW u, Minor(u), Become(u),
           NEW slots, slots \subseteq DOMAIN jobs, NEW job, Run(slots, job),
           job.at \notin Carriers, UNCHANGED asked
    PROVE  Handled
<1>1. Usable(u) /\ u.records = ui.records
    BY MinorIsUsable DEF Minor
<1> QED
    BY <1>1, BecomesUsable, RunIsNothingNew DEF Handled

LEMMA LeavingIsHandled ==
    ASSUME Usable(ui), Leave
    PROVE  Handled
<1> DEFINE u == [ui EXCEPT !.show = {"left"}]
<1>1. Minor(u)
    BY ScreensHold DEF Minor, Usable, Fields
<1> HIDE DEF u
<1>2. Usable(u) /\ u.records = ui.records
    BY <1>1, MinorIsUsable DEF Minor
<1>3. NothingNew
    BY DEF Leave, NothingNew, Idle, Carriers, Lists
<1> QED
    BY <1>2, <1>3, BecomesUsable DEF Leave, Handled, u

\* What the keys act on.
LEMMA SelectedIsTyped ==
    ASSUME Usable(ui)
    PROVE  /\ HasSelected => Selected \in Grouped
           /\ HasFolder => AtFolder \in Grouped
           /\ HasTrash => InTrash \in Grouped
           /\ \A k \in DOMAIN Folders(ui) : Folders(ui)[k] \in Grouped
<1>1. /\ Visible(ui) \in Seq(Grouped) /\ Folders(ui) \in Seq(Grouped)
      /\ ui.trash \in Seq(Grouped)
    BY FiltersShow DEF Usable
<1> QED
    BY <1>1 DEF HasSelected, Selected, HasFolder, AtFolder, HasTrash, InTrash

-----------------------------------------------------------------------------
(* Keys, handled *)

\* New UUIDs are items that no revision is of.
LEMMA NewItemsAreNew ==
    ASSUME NEW n \in Nat, NEW items \in NewItems(n)
    PROVE  /\ items \in Seq(Items) /\ Len(items) = n /\ DOMAIN items = 1 .. n
           /\ \A k \in 1 .. n : items[k] \in Items /\ items[k] \in Nat
                                /\ \A r \in revs : r.item # items[k]
<1> DEFINE taken == {r.item : r \in revs} \cup {ui.form.item}
                 \cup {r.item : r \in ToSet(ui.import.records)}
                 \cup {r.item : r \in UNION {ToSet(jobs[s].todo) :
                                             s \in {s \in Slots : jobs[s].at = "save"}}}
                 \cup {r.item : r \in UNION {ToSet(jobs[s].records) :
                                             s \in {s \in Slots : jobs[s].at = "previewed"}}}
           free == Items \ taken
           order == InOrder(free)
<1>1. free \in SUBSET Items /\ \A i \in free : \A r \in revs : r.item # i
    OBVIOUS
<1>2. NewItems(n) = IF Cardinality(free) < n THEN {} ELSE {SubSeq(order, 1, n)}
    BY Zenon DEF NewItems
<1> HIDE DEF taken, free
<1>3. free \in SUBSET Nat /\ Items \subseteq Nat /\ IsFiniteSet(free)
    BY <1>1, InterfaceAssumption, FS_Subset DEF InterfaceAssumption
<1>4. order \in Seq(free) /\ Len(order) = Cardinality(free) /\ Cardinality(free) \in Nat
    BY <1>3, InOrderLists
<1> HIDE DEF order
<1>5. items = SubSeq(order, 1, n) /\ n <= Len(order)
    BY <1>2, <1>4
<1>6. \A k \in 1 .. n : k \in 1 .. Len(order) /\ order[k] \in free
    BY <1>4, <1>5
<1>7. /\ items \in Seq(free) /\ Len(items) = n
      /\ DOMAIN items = 1 .. n /\ \A k \in 1 .. n : items[k] \in free
    <2>1. SubSeq(order, 1, n) = [k \in 1 .. n |-> order[k]]
        BY <1>4, <1>5
    <2>2. items = [k \in 1 .. n |-> order[k]]
        BY <1>5, <2>1
    <2> QED
        BY <1>6, <2>2
<1>8. \A k \in free : k \in Items /\ k \in Nat /\ \A r \in revs : r.item # k
    BY <1>1, <1>3
<1>9. items \in Seq(Items)
    BY <1>7, <1>8
<1> QED
    BY <1>7, <1>8, <1>9

LEMMA FillIsHandled ==
    ASSUME Usable(ui), NEW form \in Revision, NEW gone, Fill(form, gone)
    PROVE  Handled
<1> DEFINE u == [ui EXCEPT !.show = (@ \ gone) \cup {FormOf(form.kind)}, !.form = form,
                           !.saving = FALSE]
<1>1. FormOf(form.kind) \in Screens
    BY ScreensHold DEF FormOf
<1>2. Minor(u)
    BY <1>1 DEF Minor, Usable, Fields
<1>3. Quietly(u)
    BY DEF Fill
<1> QED
    BY <1>2, <1>3, MinorIsHandled

LEMMA EnterIsHandled == ASSUME Usable(ui), KeyEnter PROVE Handled
<1>0. /\ HasFolder => AtFolder \in Grouped
      /\ HasSelected => Selected \in Grouped
    BY SelectedIsTyped
<1>1. CASE \E g \in Grouped : InConflict(g) /\ Saving(<<resolveConflict(g)>>) /\ UNCHANGED asked
    BY <1>1, VersionsResolve, SavesOne
<1>2. CASE Quietly(ui)
    BY <1>2, QuietIsHandled
<1>3. CASE Quietly([ui EXCEPT !.show = (@ \ {"folders"}) \cup {"folderConflict"},
                              !.conflict = 1])
    <2>1. Minor([ui EXCEPT !.show = (@ \ {"folders"}) \cup {"folderConflict"},
                           !.conflict = 1])
        BY ScreensHold DEF Minor, Usable, Fields
    <2> QED
        BY <2>1, <1>3, MinorIsHandled
<1>4. CASE Quietly([ui EXCEPT !.filter.folder = "one", !.filter.folderId = AtFolder.item,
                              !.item = 1, !.show = @ \ {"folders"},
                              !.confirm = @ \ {"folder"}])
    <2>1. Minor([ui EXCEPT !.filter.folder = "one", !.filter.folderId = AtFolder.item,
                           !.item = 1, !.show = @ \ {"folders"},
                           !.confirm = @ \ {"folder"}])
        BY DEF Minor, Usable, Fields
    <2> QED
        BY <2>1, <1>4, MinorIsHandled
<1>5. CASE Quietly([ui EXCEPT !.show = @ \cup {"item"}, !.conflict = 1, !.check = NoCheck])
    <2>1. Minor([ui EXCEPT !.show = @ \cup {"item"}, !.conflict = 1, !.check = NoCheck])
        BY ScreensHold DEF Minor, Usable, Fields
    <2> QED
        BY <2>1, <1>5, MinorIsHandled
<1> QED
    BY Zenon, <1>0, <1>1, <1>2, <1>3, <1>4, <1>5 DEF KeyEnter

LEMMA NewIsHandled == ASSUME Usable(ui), KeyNew PROVE Handled
<1>0. \A items \in NewItems(1) : items[1] \in Nat
    BY NewItemsAreNew
<1>1. CASE \E kind \in {"login", "note", "folder"}, item \in Nat : Fill(NewForm(kind, item), {})
    BY <1>1, NewFormIsTyped, FillIsHandled
<1>2. CASE \E item \in Nat : Quietly([ui EXCEPT !.show = @ \cup {"loginForm"},
                                        !.form = NewForm("login", item),
                                        !.saving = FALSE, !.check = NoCheck])
    <2>1. PICK item \in Nat : Quietly([ui EXCEPT !.show = @ \cup {"loginForm"},
                                         !.form = NewForm("login", item),
                                         !.saving = FALSE, !.check = NoCheck])
        BY <1>2
    <2>2. NewForm("login", item) \in Revision
        BY NewFormIsTyped
    <2>3. Minor([ui EXCEPT !.show = @ \cup {"loginForm"}, !.form = NewForm("login", item),
                           !.saving = FALSE, !.check = NoCheck])
        BY <2>2, ScreensHold DEF Minor, Usable, Fields
    <2> QED
        BY <2>1, <2>3, MinorIsHandled
<1>3. /\ "folder" \in {"login", "note", "folder"}
      /\ "note" \in {"login", "note", "folder"}
    OBVIOUS
<1> QED
    BY Zenon, <1>0, <1>1, <1>2, <1>3 DEF KeyNew

LEMMA EditIsHandled == ASSUME Usable(ui), KeyEdit \/ KeyMerge PROVE Handled
<1>0. /\ HasFolder => AtFolder \in Grouped
      /\ HasSelected => Selected \in Grouped
    BY SelectedIsTyped
<1>1. \E form \in Revision : \E gone : Fill(form, gone)
    <2>1. CASE \E g \in Grouped : \E gone : Fill(EditForm(g), gone)
        BY <2>1, EditsAreTyped
    <2>2. CASE \E g \in Grouped : \E gone : InConflict(g) /\ Fill(MergeForm(g), gone)
        BY <2>2, EditsAreTyped
    <2> QED
        BY Zenon, <1>0, <2>1, <2>2 DEF KeyEdit, KeyMerge
<1> QED
    BY <1>1, FillIsHandled

LEMMA EntersForm ==
    ASSUME Usable(ui), NEW form, NEW r \in Revision, EnterForm(form, r)
    PROVE  Handled
BY SavesOne DEF EnterForm

LEMMA LeavesForm ==
    ASSUME Usable(ui), NEW form, NEW to \in {{}, {"item"}}, LeaveForm(form, to)
    PROVE  Handled
<1>1. Quietly([ui EXCEPT !.show = (@ \ {form}) \cup to])
    BY DEF LeaveForm
<1>2. Minor([ui EXCEPT !.show = (@ \ {form}) \cup to])
    BY ScreensHold DEF Minor, Usable, Fields
<1> QED
    BY <1>1, <1>2, MinorIsHandled

LEMMA FormKeysAreHandled ==
    ASSUME Usable(ui),
           KeyInLoginForm \/ KeyInNoteForm \/ KeyInFolderForm \/ KeyInTOTPForm
    PROVE  Handled
<1>1. ui.form \in Revision
    BY DEF Usable
<1>2. ASSUME NEW text \in 1 .. 2
      PROVE  /\ [ui.form EXCEPT !.text = text] \in Revision
             /\ [ui.form EXCEPT !.text = text,
                                !.past = @ \/ ui.form.text \notin {0, text}] \in Revision
    <2>1. (ui.form.past \/ ui.form.text \notin {0, text}) \in BOOLEAN
        BY Zenon
    <2>2. text \in Int
        OBVIOUS
    <2> QED
        BY <1>1, <2>1, <2>2, RevisionsAreTyped
<1>3. ASSUME NEW form, LeaveForm(form, {}) \/ LeaveForm(form, {"item"}) PROVE Handled
    BY <1>3, LeavesForm
<1>4. CASE KeyInLoginForm
    <2>1. CASE LeaveForm("loginForm", {})
        BY <1>3, <2>1
    <2>2. ASSUME NEW text \in 1 .. 2,
                 EnterForm("loginForm", [ui.form EXCEPT !.text = text,
                                  !.past = @ \/ ui.form.text \notin {0, text}])
          PROVE  Handled
        BY <1>2, <2>2, EntersForm
    <2> QED
        BY <1>4, <2>1, <2>2 DEF KeyInLoginForm
<1>5. CASE KeyInNoteForm
    <2>1. CASE LeaveForm("noteForm", {})
        BY <1>3, <2>1
    <2>2. ASSUME NEW text \in 1 .. 2, EnterForm("noteForm", [ui.form EXCEPT !.text = text])
          PROVE  Handled
        BY <1>2, <2>2, EntersForm
    <2> QED
        BY <1>5, <2>1, <2>2 DEF KeyInNoteForm
<1>6. CASE KeyInFolderForm
    <2>1. CASE LeaveForm("folderForm", {})
        BY <1>3, <2>1
    <2>2. ASSUME NEW text \in 1 .. 2, EnterForm("folderForm", [ui.form EXCEPT !.text = text])
          PROVE  Handled
        BY <1>2, <2>2, EntersForm
    <2> QED
        BY <1>6, <2>1, <2>2 DEF KeyInFolderForm
<1>7. CASE KeyInTOTPForm
    BY <1>1, <1>3, <1>7, EntersForm DEF KeyInTOTPForm
<1> QED
    BY <1>4, <1>5, <1>6, <1>7

LEMMA FavoriteIsHandled == ASSUME Usable(ui), KeyFavorite PROVE Handled
<1>1. CASE InItem /\ Saving(<<updateOrganization(Selected, FolderOf(Selected),
                                                ~Favorite(Selected))>>)
           /\ UNCHANGED asked
    <2>1. Selected \in Grouped
        BY <1>1, SelectedIsTyped DEF InItem
    <2>2. FolderOf(Selected) \in Nat /\ (~Favorite(Selected)) \in BOOLEAN
        BY <2>1, GroupsAreTyped
    <2> QED
        BY <1>1, <2>1, <2>2, EditsAreTyped, SavesOne
<1>2. CASE Quietly([ui EXCEPT !.filter.favorites = ~@, !.item = 1])
    <2>1. Minor([ui EXCEPT !.filter.favorites = ~@, !.item = 1])
        BY DEF Minor, Usable, Fields
    <2> QED
        BY <2>1, <1>2, MinorIsHandled
<1> QED
    BY Zenon, <1>1, <1>2 DEF KeyFavorite

LEMMA OrganizeIsHandled == ASSUME Usable(ui), KeyOrganize PROVE Handled
<1> DEFINE at == {k \in DOMAIN Folders(ui) : Folders(ui)[k].item = FolderOf(Selected)}
           to == IF at = {} THEN 0 ELSE CHOOSE k \in at : TRUE
<1>1. CASE Quietly([ui EXCEPT !.show = @ \cup {"move"}, !.move = to])
    <2>1. to \in Nat
        <3>1. DOMAIN Folders(ui) \in SUBSET Nat
            BY FiltersShow DEF Usable
        <3>2. at \in SUBSET Nat
            BY <3>1
        <3> HIDE DEF at
        <3> QED
            BY <3>2
    <2> HIDE DEF to
    <2>2. Minor([ui EXCEPT !.show = @ \cup {"move"}, !.move = to])
        BY <2>1, ScreensHold DEF Minor, Usable, Fields
    <2> QED
        BY <2>2, <1>1, MinorIsHandled
<1>2. CASE Quietly([ui EXCEPT !.show = (@ \ {"item"}) \cup {"folders"},
                              !.confirm = @ \ {"folder"}])
    <2>1. Minor([ui EXCEPT !.show = (@ \ {"item"}) \cup {"folders"},
                           !.confirm = @ \ {"folder"}])
        BY ScreensHold DEF Minor, Usable, Fields
    <2> QED
        BY <2>1, <1>2, MinorIsHandled
<1> QED
    BY Zenon, <1>1, <1>2 DEF KeyOrganize

LEMMA FilterIsHandled == ASSUME Usable(ui), KeyFilter PROVE Handled
<1>1. PICK f : Quietly([ui EXCEPT !.filter.folder = f, !.filter.folderId = 0, !.item = 1,
                                  !.show = @ \ {"folders"}, !.confirm = @ \ {"folder"}])
    BY Zenon DEF KeyFilter
<1>2. Minor([ui EXCEPT !.filter.folder = f, !.filter.folderId = 0, !.item = 1,
                       !.show = @ \ {"folders"}, !.confirm = @ \ {"folder"}])
    BY DEF Minor, Usable, Fields
<1> QED
    BY <1>1, <1>2, MinorIsHandled

LEMMA MoveKeysAreHandled == ASSUME Usable(ui), KeyInMove PROVE Handled
<1>1. CASE \E f \in Nat : /\ HasSelected /\ UNCHANGED asked
                          /\ Saving(<<updateOrganization(Selected, f, Favorite(Selected))>>)
    BY <1>1, SelectedIsTyped, GroupsAreTyped, EditsAreTyped, SavesOne
<1>2. CASE Leave
    BY <1>2, LeavingIsHandled
<1>3. CASE Quietly([ui EXCEPT !.show = @ \ {"move"}])
    <2>1. Minor([ui EXCEPT !.show = @ \ {"move"}])
        BY DEF Minor, Usable, Fields
    <2> QED
        BY <2>1, <1>3, MinorIsHandled
<1>4. CASE \E k \in Nat : Quietly([ui EXCEPT !.move = k])
    <2>1. PICK k \in Nat : Quietly([ui EXCEPT !.move = k])
        BY <1>4
    <2>2. Minor([ui EXCEPT !.move = k])
        BY DEF Minor, Usable, Fields
    <2> QED
        BY <2>1, <2>2, MinorIsHandled
<1>5. ui.move \in Nat /\ (ui.move > 0 => ui.move - 1 \in Nat) /\ ui.move + 1 \in Nat
    BY DEF Usable
<1>6. ~(ui.move > Len(Folders(ui))) =>
        (IF ui.move = 0 THEN 0 ELSE Folders(ui)[ui.move].item) \in Nat
    <2>1. Len(Folders(ui)) \in Nat /\ DOMAIN Folders(ui) = 1 .. Len(Folders(ui))
        BY FiltersShow DEF Usable
    <2>2. \A k \in DOMAIN Folders(ui) : Folders(ui)[k].item \in Nat
        BY SelectedIsTyped, GroupsAreTyped
    <2> QED
        BY <1>5, <2>1, <2>2
<1>7. CASE Press("enter", "move")
           /\ (CASE ~HasSelected -> Quietly([ui EXCEPT !.show = @ \ {"move"}])
                 [] HasSelected /\ ui.move > Len(Folders(ui)) -> Leave
                 [] OTHER ->
                      LET to == IF ui.move = 0 THEN 0 ELSE Folders(ui)[ui.move].item IN
                      IF to = FolderOf(Selected)
                      THEN Quietly([ui EXCEPT !.show = @ \ {"move"}])
                      ELSE /\ Saving(<<updateOrganization(Selected, to, Favorite(Selected))>>)
                           /\ UNCHANGED asked)
    BY Zenon, <1>1, <1>2, <1>3, <1>6, <1>7
<1> QED
    BY Zenon, <1>3, <1>4, <1>5, <1>7 DEF KeyInMove

LEMMA TimeIsHandled == ASSUME Shape, Usable(ui), KeyTime PROVE Handled
<1>1. CASE InLogin /\ Quietly([ui EXCEPT !.show = (@ \ {"item"}) \cup {"totpForm"},
                               !.form = [ChildOf(Selected) EXCEPT !.id = 0],
                               !.saving = FALSE])
    <2> DEFINE form == [ChildOf(Selected) EXCEPT !.id = 0]
    <2>1. form \in Revision
        BY <1>1, SelectedIsTyped, GroupsAreTyped, RevisionsAreTyped DEF InLogin, InItem
    <2>2. Quietly([ui EXCEPT !.show = (@ \ {"item"}) \cup {"totpForm"},
                             !.form = form, !.saving = FALSE])
        BY <1>1
    <2> HIDE DEF form
    <2>3. Minor([ui EXCEPT !.show = (@ \ {"item"}) \cup {"totpForm"},
                           !.form = form, !.saving = FALSE])
        BY <2>1, ScreensHold DEF Minor, Usable, Fields
    <2> QED
        BY <2>2, <2>3, MinorIsHandled
<1>2. CASE /\ Run(Slots, [at |-> "trash"]) /\ UNCHANGED asked
           /\ Become([ui EXCEPT !.show = @ \cup {"trash"}, !.confirm = @ \ {"purge"}])
    <2>1. Minor([ui EXCEPT !.show = @ \cup {"trash"}, !.confirm = @ \ {"purge"}])
        BY ScreensHold DEF Minor, Usable, Fields
    <2>2. [at |-> "trash"].at \notin Carriers
        BY DEF Carriers, Lists
    <2> QED
        BY <1>2, <2>1, <2>2, RunIsHandled DEF Shape
<1> QED
    BY Zenon, <1>1, <1>2 DEF KeyTime

LEMMA PurgeIsHandled == ASSUME Shape, Usable(ui), KeyPurge PROVE Handled
<1>1. CASE /\ Become([ui EXCEPT !.confirm = @ \cup {"purge"}])
           /\ asked' = [asked EXCEPT !.purge = InTrash.item]
           /\ NoCommand
    <2> DEFINE u == [ui EXCEPT !.confirm = @ \cup {"purge"}]
    <2>1. Minor(u)
        BY DEF Minor, Usable, Fields
    <2>2. asked'.removal = asked.removal
        BY <1>1 DEF Shape
    <2>3. Become(u)
        BY <1>1
    <2> HIDE DEF u
    <2>4. Usable(u) /\ u.records = ui.records
        BY <2>1, MinorIsUsable DEF Minor
    <2>5. NothingNew
        BY <1>1 DEF NothingNew, NoCommand
    <2> QED
        BY <2>2, <2>3, <2>4, <2>5, BecomesUsable DEF Handled
<1>2. CASE HasTrash /\ Saving(<<purgeItem(InTrash)>>) /\ UNCHANGED asked
    BY <1>2, SelectedIsTyped, EditsAreTyped, SavesOne
<1> QED
    BY Zenon, <1>1, <1>2 DEF KeyPurge

LEMMA RestoreIsHandled == ASSUME Shape, Usable(ui), KeyRestore PROVE Handled
<1>1. CASE HasTrash /\ Saving(<<restoreItem(InTrash)>>) /\ UNCHANGED asked
    BY <1>1, SelectedIsTyped, EditsAreTyped, SavesOne
<1>2. CASE Run(Slots, [at |-> "list"]) /\ Become(ui) /\ UNCHANGED asked
    <2>1. Minor(ui)
        BY DEF Minor, Usable
    <2>2. [at |-> "list"].at \notin Carriers
        BY DEF Carriers, Lists
    <2> QED
        BY <1>2, <2>1, <2>2, RunIsHandled DEF Shape
<1> QED
    BY Zenon, <1>1, <1>2 DEF KeyRestore

LEMMA SearchIsHandled == ASSUME Usable(ui), KeySearch \/ KeyInSearch PROVE Handled
<1>1. CASE Quietly([ui EXCEPT !.show = @ \cup {"search"}, !.filter.query = 0, !.item = 1])
    <2>1. Minor([ui EXCEPT !.show = @ \cup {"search"}, !.filter.query = 0, !.item = 1])
        BY ScreensHold DEF Minor, Usable, Fields
    <2> QED
        BY <2>1, <1>1, MinorIsHandled
<1>2. CASE \E text : Quietly([ui EXCEPT !.filter.query = text, !.item = 1])
    <2>1. PICK text : Quietly([ui EXCEPT !.filter.query = text, !.item = 1])
        BY <1>2
    <2>2. Minor([ui EXCEPT !.filter.query = text, !.item = 1])
        BY DEF Minor, Usable, Fields
    <2> QED
        BY <2>1, <2>2, MinorIsHandled
<1>3. CASE Quietly([ui EXCEPT !.show = @ \ {"search"}])
    <2>1. Minor([ui EXCEPT !.show = @ \ {"search"}])
        BY DEF Minor, Usable, Fields
    <2> QED
        BY <2>1, <1>3, MinorIsHandled
<1>4. CASE Quietly([ui EXCEPT !.show = @ \ {"search"}, !.filter.query = 0, !.item = 1])
    <2>1. Minor([ui EXCEPT !.show = @ \ {"search"}, !.filter.query = 0, !.item = 1])
        BY DEF Minor, Usable, Fields
    <2> QED
        BY <2>1, <1>4, MinorIsHandled
<1> QED
    BY Zenon, <1>1, <1>2, <1>3, <1>4 DEF KeySearch, KeyInSearch

LEMMA HistoryIsHandled == ASSUME Usable(ui), KeyHistory \/ KeyInHistory PROVE Handled
<1>1. CASE HasSelected /\ Saving(<<[ChildOf(Selected) EXCEPT !.past = FALSE]>>)
           /\ UNCHANGED asked
    BY <1>1, SelectedIsTyped, GroupsAreTyped, RevisionsAreTyped, SavesOne
<1>2. CASE Quietly([ui EXCEPT !.show = @ \cup {"history"}, !.confirm = @ \ {"history"}])
    <2>1. Minor([ui EXCEPT !.show = @ \cup {"history"}, !.confirm = @ \ {"history"}])
        BY ScreensHold DEF Minor, Usable, Fields
    <2> QED
        BY <2>1, <1>2, MinorIsHandled
<1>3. CASE Quietly([ui EXCEPT !.show = @ \ {"history"}])
    <2>1. Minor([ui EXCEPT !.show = @ \ {"history"}])
        BY DEF Minor, Usable, Fields
    <2> QED
        BY <2>1, <1>3, MinorIsHandled
<1>4. CASE \E gone : Quietly([ui EXCEPT !.show = @ \ ({"history"} \cup gone), !.confirm = @ \ {"history"}])
    <2>1. PICK gone : Quietly([ui EXCEPT !.show = @ \ ({"history"} \cup gone), !.confirm = @ \ {"history"}])
        BY <1>4
    <2>2. Minor([ui EXCEPT !.show = @ \ ({"history"} \cup gone), !.confirm = @ \ {"history"}])
        BY DEF Minor, Usable, Fields
    <2> QED
        BY <2>1, <2>2, MinorIsHandled
<1>5. CASE Quietly([ui EXCEPT !.confirm = @ \cup {"history"}])
    <2>1. Minor([ui EXCEPT !.confirm = @ \cup {"history"}])
        BY DEF Minor, Usable, Fields
    <2> QED
        BY <2>1, <1>5, MinorIsHandled
<1>6. KeyInHistory =>
        \/ HasSelected /\ Saving(<<[ChildOf(Selected) EXCEPT !.past = FALSE]>>) /\ UNCHANGED asked
        \/ Quietly([ui EXCEPT !.show = @ \ {"history"}])
        \/ \E gone : Quietly([ui EXCEPT !.show = @ \ ({"history"} \cup gone), !.confirm = @ \ {"history"}])
        \/ Quietly([ui EXCEPT !.confirm = @ \cup {"history"}])
    BY Zenon DEF KeyInHistory
<1> QED
    BY Zenon, <1>1, <1>2, <1>3, <1>4, <1>5, <1>6 DEF KeyHistory

LEMMA CheckIsHandled ==
    ASSUME Shape, Usable(ui), NEW text, Check(text)
    PROVE  Handled
<1> DEFINE job == [at |-> "check", id |-> FreshCheck, of |-> text]
           u == [ui EXCEPT !.check = [id |-> FreshCheck, loading |-> TRUE, result |-> 0]]
<1>1. Minor(u)
    BY DEF Minor, Usable, Fields
<1>2. job.at \notin Carriers
    BY DEF Carriers, Lists
<1>3. Run(Slots, job) /\ Become(u) /\ UNCHANGED asked
    BY DEF Check
<1> HIDE DEF u, job
<1> QED
    BY <1>1, <1>2, <1>3, RunIsHandled DEF Shape

LEMMA GeneratorIsHandled ==
    ASSUME Shape, Usable(ui), KeyBreach \/ KeyGenerator \/ KeyInGenerator
    PROVE  Handled
<1>1. CASE Quietly([ui EXCEPT !.show = @ \cup {"generator"}, !.generated = 0,
                          !.check = NoCheck])
    <2>1. Minor([ui EXCEPT !.show = @ \cup {"generator"}, !.generated = 0,
                          !.check = NoCheck])
        BY ScreensHold DEF Minor, Usable, Fields
    <2> QED
        BY <2>1, <1>1, MinorIsHandled
<1>2. CASE \E password : Quietly([ui EXCEPT !.generated = password, !.check = NoCheck])
    <2>1. PICK password : Quietly([ui EXCEPT !.generated = password, !.check = NoCheck])
        BY <1>2
    <2>2. Minor([ui EXCEPT !.generated = password, !.check = NoCheck])
        BY DEF Minor, Usable, Fields
    <2> QED
        BY <2>1, <2>2, MinorIsHandled
<1>3. CASE Quietly([ui EXCEPT !.show = @ \ {"generator"}, !.generated = 0,
                             !.check = NoCheck])
    <2>1. Minor([ui EXCEPT !.show = @ \ {"generator"}, !.generated = 0,
                             !.check = NoCheck])
        BY DEF Minor, Usable, Fields
    <2> QED
        BY <2>1, <1>3, MinorIsHandled
<1>4. CASE \E text : Check(text)
    BY <1>4, CheckIsHandled
<1> QED
    BY Zenon, <1>1, <1>2, <1>3, <1>4 DEF KeyBreach, KeyGenerator, KeyInGenerator

LEMMA NoImportIsTyped ==
    DOMAIN NoImport = {"loading", "previewed", "errors", "records"}
    /\ NoImport.records \in Seq(Revision)
BY DEF NoImport

LEMMA ImportIsHandled == ASSUME Shape, Usable(ui), KeyImport \/ KeyInImport PROVE Handled
<1>1. CASE Saving(ui.import.records) /\ UNCHANGED asked
    BY <1>1, SavingIsHandled DEF Usable
<1>2. CASE Quietly([ui EXCEPT !.show = @ \cup {"import"}, !.import = NoImport])
    <2>1. Minor([ui EXCEPT !.show = @ \cup {"import"}, !.import = NoImport])
        BY ScreensHold, NoImportIsTyped DEF Minor, Usable, Fields
    <2> QED
        BY <2>1, <1>2, MinorIsHandled
<1>3. CASE Quietly([ui EXCEPT !.show = @ \ {"import"}, !.import = NoImport])
    <2>1. Minor([ui EXCEPT !.show = @ \ {"import"}, !.import = NoImport])
        BY NoImportIsTyped DEF Minor, Usable, Fields
    <2> QED
        BY <2>1, <1>3, MinorIsHandled
<1>4. CASE /\ Run(Slots, [at |-> "preview"]) /\ UNCHANGED asked
           /\ Become([ui EXCEPT !.import.loading = TRUE])
    <2>1. Minor([ui EXCEPT !.import.loading = TRUE])
        BY DEF Minor, Usable, Fields
    <2>2. [at |-> "preview"].at \notin Carriers
        BY DEF Carriers, Lists
    <2> QED
        BY <1>4, <2>1, <2>2, RunIsHandled DEF Shape
<1> QED
    BY Zenon, <1>1, <1>2, <1>3, <1>4 DEF KeyImport, KeyInImport

\* A search that is forgotten hides nothing.
LEMMA VaultIsHandled == ASSUME Usable(ui), KeyVault PROVE Handled
<1> DEFINE u == [ui EXCEPT !.show = {}, !.confirm = {}, !.conflict = 1, !.filter.query = 0,
                           !.check = NoCheck]
           V(w) == {k \in DOMAIN w.records : IsVisible(w, w.records[k])}
<1>1. Quietly(u)
    BY DEF KeyVault
<1>2. /\ DOMAIN u = Fields /\ u.show = {} /\ u.records = ui.records /\ u.trash = ui.trash
      /\ u.form = ui.form /\ u.import = ui.import /\ u.move = ui.move
      /\ u.item = ui.item /\ u.folder = ui.folder /\ u.trashed = ui.trashed
      /\ DOMAIN u.filter = {"folder", "folderId", "favorites", "query"}
      /\ u.filter.query = 0 /\ u.filter.folder = ui.filter.folder
      /\ u.filter.folderId = ui.filter.folderId /\ u.filter.favorites = ui.filter.favorites
    BY DEF Usable, Fields
<1> HIDE DEF u
<1>3. \A g : IsVisible(ui, g) => IsVisible(u, g)
    BY Zenon, <1>2 DEF IsVisible
<1>4. V(ui) \in SUBSET V(u) /\ V(u) \in SUBSET DOMAIN u.records
    BY <1>2, <1>3
<1>5. Visible(ui) = Picked(ui.records, V(ui)) /\ Visible(u) = Picked(u.records, V(u))
    BY FiltersPick
<1> HIDE DEF V
<1>6. /\ DOMAIN Visible(ui) = 1 .. Cardinality(V(ui)) /\ Cardinality(V(ui)) \in Nat
      /\ DOMAIN Visible(u) = 1 .. Cardinality(V(u)) /\ Cardinality(V(u)) \in Nat
      /\ IsFiniteSet(V(u))
    <2>1. ui.records \in Seq(Grouped) /\ u.records \in Seq(Grouped)
          /\ V(ui) \in SUBSET DOMAIN ui.records
        BY <1>2, <1>4 DEF Usable
    <2> QED
        BY <1>4, <1>5, <2>1, PicksThose
<1>7. Cardinality(V(ui)) <= Cardinality(V(u))
    BY <1>4, <1>6, FS_Subset
<1>8. DOMAIN Visible(ui) \subseteq DOMAIN Visible(u)
    BY <1>6, <1>7
<1>9. Folders(u) = Folders(ui)
    BY <1>2, SameLists
<1>10. Usable(u)
    BY <1>2, <1>8, <1>9 DEF Usable, Standing
<1> QED
    BY <1>1, <1>2, <1>10, QuietIsHandled

\* The cursors move within their lists.
LEMMA CursorIsHandled == ASSUME Usable(ui), KeyMoveCursor PROVE Handled
<1>0. /\ Len(Visible(ui)) \in Nat /\ DOMAIN Visible(ui) = 1 .. Len(Visible(ui))
      /\ Len(Folders(ui)) \in Nat /\ DOMAIN Folders(ui) = 1 .. Len(Folders(ui))
      /\ Len(ui.trash) \in Nat /\ DOMAIN ui.trash = 1 .. Len(ui.trash)
    BY FiltersShow DEF Usable
<1>4. ui.item \in Nat \ {0} /\ ui.folder \in Nat \ {0} /\ ui.trashed \in Nat \ {0}
    BY DEF Usable
<1>1. ASSUME NEW u, /\ DOMAIN u = Fields
                    /\ \A f \in Fields \ {"item", "folder", "trashed", "conflict", "confirm"} :
                            u[f] = ui[f],
             /\ u.item \in Nat \ {0} /\ (u.item <= ui.item \/ u.item <= Len(Visible(ui)))
             /\ u.folder \in Nat \ {0}
             /\ (u.folder <= ui.folder \/ u.folder <= Len(Folders(ui)))
             /\ u.trashed \in Nat \ {0}
             /\ (u.trashed <= ui.trashed \/ u.trashed <= Len(ui.trash))
      PROVE  Usable(u) /\ u.records = ui.records
    <2>1. /\ u.show = ui.show /\ u.records = ui.records /\ u.trash = ui.trash
          /\ u.form = ui.form /\ u.import = ui.import /\ u.move = ui.move
          /\ u.filter = ui.filter
        BY <1>1 DEF Fields
    <2>2. Folders(u) = Folders(ui) /\ Visible(u) = Visible(ui)
        BY <2>1, SameLists
    <2>3. Standing(u)
        BY SMTT(30), <1>0, <1>1, <2>1, <2>2 DEF Standing, Usable
    <2> QED
        BY <1>1, <2>1, <2>3 DEF Usable
<1>2. Usable(Down) /\ Down.records = ui.records
    <2> DEFINE u == Down
    <2>1. /\ DOMAIN u = Fields
          /\ \A f \in Fields \ {"item", "folder", "trashed", "conflict", "confirm"} : u[f] = ui[f]
        BY DEF Down, Usable, Fields
    <2>2. /\ u.item = ui.item \/ (u.item = ui.item + 1 /\ ui.item < Len(Visible(ui)))
          /\ u.folder = ui.folder \/ (u.folder = ui.folder + 1 /\ ui.folder < Len(Folders(ui)))
          /\ u.trashed = ui.trashed \/ (u.trashed = ui.trashed + 1 /\ ui.trashed < Len(ui.trash))
        BY DEF Down, Usable, Fields
    <2> HIDE DEF u
    <2>3. /\ u.item \in Nat \ {0} /\ (u.item <= ui.item \/ u.item <= Len(Visible(ui)))
          /\ u.folder \in Nat \ {0} /\ (u.folder <= ui.folder \/ u.folder <= Len(Folders(ui)))
          /\ u.trashed \in Nat \ {0} /\ (u.trashed <= ui.trashed \/ u.trashed <= Len(ui.trash))
        BY <1>0, <1>4, <2>2
    <2>4. Usable(u) /\ u.records = ui.records
        BY <1>1, <2>1, <2>3
    <2> QED
        BY <2>4 DEF u
<1>3. Usable(Up) /\ Up.records = ui.records
    <2> DEFINE u == Up
    <2>1. /\ DOMAIN u = Fields
          /\ \A f \in Fields \ {"item", "folder", "trashed", "conflict", "confirm"} : u[f] = ui[f]
        BY DEF Up, Usable, Fields
    <2>2. /\ u.item = ui.item \/ (u.item = ui.item - 1 /\ ui.item > 1)
          /\ u.folder = ui.folder \/ (u.folder = ui.folder - 1 /\ ui.folder > 1)
          /\ u.trashed = ui.trashed \/ (u.trashed = ui.trashed - 1 /\ ui.trashed > 1)
        BY DEF Up, Usable, Fields
    <2> HIDE DEF u
    <2>3. /\ u.item \in Nat \ {0} /\ u.item <= ui.item
          /\ u.folder \in Nat \ {0} /\ u.folder <= ui.folder
          /\ u.trashed \in Nat \ {0} /\ u.trashed <= ui.trashed
        BY ONLY <1>4, <2>2
    <2>4. Usable(u) /\ u.records = ui.records
        BY <1>1, <2>1, <2>3
    <2> QED
        BY <2>4 DEF u
<1> QED
    BY <1>2, <1>3, QuietIsHandled DEF KeyMoveCursor

LEMMA SyncIsHandled == ASSUME Shape, Usable(ui), KeySync \/ PeriodicSync PROVE Handled
<1>1. /\ Run(Background, [at |-> "sync"]) /\ UNCHANGED asked
      /\ Become([ui EXCEPT !.syncing = TRUE])
    BY DEF KeySync, PeriodicSync
<1>2. Minor([ui EXCEPT !.syncing = TRUE])
    BY DEF Minor, Usable, Fields
<1>3. [at |-> "sync"].at \notin Carriers
    BY DEF Carriers, Lists
<1> QED
    BY <1>1, <1>2, <1>3, RunIsHandled DEF Shape

\* A folder is removed after the items that are listed in it.
Removes(listed) ==
    /\ HasFolder
    /\ \A k \in DOMAIN listed :
        /\ listed[k].shown.kind # "folder"
        /\ \E j \in DOMAIN ui.records : listed[k] = ui.records[j]
    /\ SaveAll(recordsForFolderRemoval(AtFolder, listed))
    /\ asked' = [asked EXCEPT
           !.removal = [saved |-> minted + 1 ..
                                    minted + Len(recordsForFolderRemoval(AtFolder, listed)),
                        left  |-> ShownIds(listed)]]

LEMMA DeleteIsHandled ==
    ASSUME Shape, Usable(ui), KeyDelete
    PROVE  \/ Handled
           \/ /\ UNCHANGED <<errand, revs>>
              /\ Usable(ui') /\ ui'.records = ui.records
              /\ \E listed \in Seq(Grouped) : Removes(listed)
<1> DEFINE In(g) == g.shown.kind # "folder" /\ FolderOf(g) = AtFolder.item
           K == {k \in DOMAIN ui.records : In(ui.records[k])}
           listed == Picked(ui.records, K)
           all == recordsForFolderRemoval(AtFolder, listed)
<1>1. K \in SUBSET DOMAIN ui.records /\ \A j \in K : ui.records[j].shown.kind # "folder"
    OBVIOUS
<1> HIDE DEF K
<1>2. /\ listed \in Seq(Grouped)
      /\ \A k \in DOMAIN listed : \E j \in K : listed[k] = ui.records[j]
    BY <1>1, PicksThose DEF Usable
<1>3. \A k \in DOMAIN listed :
        /\ listed[k].shown.kind # "folder"
        /\ \E j \in DOMAIN ui.records : listed[k] = ui.records[j]
    BY <1>1, <1>2
<1> HIDE DEF listed
<1>4. CASE /\ Become([ui EXCEPT !.confirm = @ \cup {"folder"}])
           /\ asked' = [asked EXCEPT !.folder = AtFolder.item]
           /\ NoCommand
    <2> DEFINE u == [ui EXCEPT !.confirm = @ \cup {"folder"}]
    <2>1. Minor(u)
        BY DEF Minor, Usable, Fields
    <2>2. asked'.removal = asked.removal
        BY <1>4 DEF Shape
    <2>3. Become(u)
        BY <1>4
    <2> HIDE DEF u
    <2>4. Usable(u) /\ u.records = ui.records
        BY <2>1, MinorIsUsable DEF Minor
    <2>5. NothingNew
        BY <1>4 DEF NothingNew, NoCommand
    <2> QED
        BY <2>2, <2>3, <2>4, <2>5, BecomesUsable DEF Handled
<1>5. CASE Quietly([ui EXCEPT !.confirm = @ \ {"folder"}])
    <2>1. Minor([ui EXCEPT !.confirm = @ \ {"folder"}])
        BY DEF Minor, Usable, Fields
    <2> QED
        BY <2>1, <1>5, MinorIsHandled
<1>6. CASE /\ HasFolder /\ Saving(all)
           /\ asked' = [asked EXCEPT
                  !.removal = [saved |-> minted + 1 .. minted + Len(all),
                               left  |-> {g.shown.id : g \in ToSet(listed)}]]
    <2>1. Removes(listed)
        BY <1>3, <1>6 DEF Removes, Saving, ShownIds
    <2> QED
        BY <1>2, <1>6, <2>1, SavingIsUsable
<1>7. CASE InItem /\ Saving(<<deleteItem(Selected)>>) /\ UNCHANGED asked
    <2>1. Selected \in Grouped
        BY <1>7, SelectedIsTyped DEF InItem
    <2> QED
        BY <1>7, <2>1, EditsAreTyped, SavesOne
<1> QED
    BY Zenon, <1>4, <1>5, <1>6, <1>7 DEF KeyDelete, Only, Picked, listed, K

\* Every key, and the timer.
LEMMA KeysAreHandled ==
    ASSUME Shape, Usable(ui), Key \/ KeyInDialog \/ PeriodicSync
    PROVE  \/ Handled
           \/ /\ UNCHANGED <<errand, revs>>
              /\ Usable(ui') /\ ui'.records = ui.records
              /\ \E listed \in Seq(Grouped) : Removes(listed)
<1>1. CASE Key
    <2>1. KeyQuit => Handled
        BY LeavingIsHandled DEF KeyQuit
    <2> QED
        BY Zenon, <1>1, <2>1, EnterIsHandled, NewIsHandled, EditIsHandled, DeleteIsHandled,
           FavoriteIsHandled, OrganizeIsHandled, FilterIsHandled, TimeIsHandled,
           PurgeIsHandled, RestoreIsHandled, SearchIsHandled, HistoryIsHandled,
           GeneratorIsHandled, ImportIsHandled, VaultIsHandled, CursorIsHandled,
           SyncIsHandled
           DEF Key
<1>2. CASE KeyInDialog
    BY Zenon, <1>2, FormKeysAreHandled, MoveKeysAreHandled, SearchIsHandled,
       HistoryIsHandled, GeneratorIsHandled, ImportIsHandled
       DEF KeyInDialog
<1>3. CASE PeriodicSync
    BY <1>3, SyncIsHandled
<1> QED
    BY <1>1, <1>2, <1>3

-----------------------------------------------------------------------------
(* What commands and their answers leave of it *)

\* What another device does is an edit of a revision or a new item.
LEMMA TheirsAreTyped ==
    ASSUME revs \subseteq Revision, NEW r \in Theirs
    PROVE  /\ r \in Revision
           /\ \/ \E h \in revs : /\ r.item = h.item /\ r.parents # {}
                                 /\ r.parents = {h.id} \/ r.parents = h.parents
              \/ r.parents = {} /\ \A q \in revs : q.item # r.item
<1>1. \A h \in revs : h \in Revision /\ h.id \in Nat /\ h.parents \in SUBSET Nat
                      /\ h.text \in Int /\ 3 - h.text \in Int
    BY DEF Revision
<1> DEFINE kept == {h \in Heads(revs) : h.state # "purged"}
<1>2. kept \subseteq revs
    BY DEF Heads
<1> HIDE DEF kept
<1>3. CASE \E h \in kept : r = [h EXCEPT !.parents = {h.id}, !.text = 3 - @, !.state = "live"]
    <2>1. PICK h \in kept : r = [h EXCEPT !.parents = {h.id}, !.text = 3 - h.text,
                                          !.state = "live"]
        BY <1>3
    <2>2. h \in revs /\ h \in Revision
        BY <1>1, <1>2
    <2>3. r \in Revision /\ r.item = h.item /\ r.parents = {h.id}
        BY <1>1, <2>1, <2>2 DEF Revision
    <2> QED
        BY <2>2, <2>3
<1>4. CASE \E h \in kept : r = [h EXCEPT !.parents = {h.id}, !.state = "trashed"]
    <2>1. PICK h \in kept : r = [h EXCEPT !.parents = {h.id}, !.state = "trashed"]
        BY <1>4
    <2>2. h \in revs /\ h \in Revision
        BY <1>1, <1>2
    <2>3. r \in Revision /\ r.item = h.item /\ r.parents = {h.id}
        BY <1>1, <2>1, <2>2 DEF Revision
    <2> QED
        BY <2>2, <2>3
<1>5. CASE \E h \in {q \in kept : q.parents # {}} : r = [h EXCEPT !.text = 3 - @, !.state = "live"]
    <2>1. PICK h \in {q \in kept : q.parents # {}} :
            r = [h EXCEPT !.text = 3 - h.text, !.state = "live"]
        BY <1>5
    <2>2. h \in revs /\ h \in Revision /\ h.parents # {}
        BY <1>1, <1>2
    <2>3. r \in Revision /\ r.item = h.item /\ r.parents = h.parents
        BY <1>1, <2>1, <2>2 DEF Revision
    <2> QED
        BY <2>2, <2>3
<1>6. CASE \E h \in kept, i \in NewItems(1) : r = [h EXCEPT !.item = i[1], !.parents = {}]
    <2>1. PICK h \in kept, i \in NewItems(1) : r = [h EXCEPT !.item = i[1], !.parents = {}]
        BY <1>6
    <2>2. h \in revs /\ h \in Revision
        BY <1>1, <1>2
    <2>3. i[1] \in Nat /\ \A q \in revs : q.item # i[1]
        BY NewItemsAreNew
    <2>4. r \in Revision /\ r.item = i[1] /\ r.parents = {}
        BY <2>1, <2>2, <2>3 DEF Revision
    <2> QED
        BY <2>3, <2>4
<1>7. \/ \E h \in kept : r = [h EXCEPT !.parents = {h.id}, !.text = 3 - @, !.state = "live"]
      \/ \E h \in kept : r = [h EXCEPT !.parents = {h.id}, !.state = "trashed"]
      \/ \E h \in {q \in kept : q.parents # {}} : r = [h EXCEPT !.text = 3 - @, !.state = "live"]
      \/ \E h \in kept, i \in NewItems(1) : r = [h EXCEPT !.item = i[1], !.parents = {}]
    <2> DEFINE A == {[h EXCEPT !.parents = {h.id}, !.text = 3 - @, !.state = "live"] : h \in kept}
               B == {[h EXCEPT !.parents = {h.id}, !.state = "trashed"] : h \in kept}
               C == {[h EXCEPT !.text = 3 - @, !.state = "live"] :
                        h \in {q \in kept : q.parents # {}}}
               D == UNION {{[h EXCEPT !.item = i[1], !.parents = {}] :
                               h \in {q \in kept : q.kind \in {"login", "folder"}}} :
                           i \in NewItems(1)}
    <2>1. Theirs = A \cup B \cup C \cup D
        BY Zenon DEF Theirs, kept
    <2>2. r \in A \/ r \in B \/ r \in C \/ r \in D
        <3> HIDE DEF A, B, C, D
        <3> QED
            BY <2>1
    <2>3. CASE r \in A
        BY <2>3
    <2>4. CASE r \in B
        BY <2>4
    <2>5. CASE r \in C
        BY <2>5
    <2>6. CASE r \in D
        <3> DEFINE New(h, i) == [h EXCEPT !.item = i[1], !.parents = {}]
                   K == {q \in kept : q.kind \in {"login", "folder"}}
        <3>1. r \in UNION {{New(h, i) : h \in K} : i \in NewItems(1)}
            BY <2>6
        <3> HIDE DEF New
        <3>2. \E h \in kept, i \in NewItems(1) : r = New(h, i)
            BY <3>1
        <3> QED
            BY Zenon, <3>2 DEF New
    <2> HIDE DEF A, B, C, D
    <2> QED
        BY Zenon, <2>2, <2>3, <2>4, <2>5, <2>6
<1> QED
    BY <1>3, <1>4, <1>5, <1>6, <1>7

\* One revision of a save is stored.
Stored(s, r) ==
    /\ jobs[s].at = "save" /\ jobs[s].todo # <<>> /\ r = Head(jobs[s].todo)
    /\ QueueMutation(r)
    /\ revs' = (IF r.state = "purged" THEN revs \ Of(revs, r.item) ELSE revs) \cup {r}
    /\ jobs' = [jobs EXCEPT ![s] = [at |-> "save", todo |-> Tail(jobs[s].todo)]]

\* At most one revision is brought.
Brought(more) ==
    /\ revs' = revs \cup more
    /\ \/ more = {} /\ minted' = minted
       \/ /\ minted' = minted + 1
          /\ \E r \in Theirs : more = {[r EXCEPT !.id = minted + 1]}

\* What a command may put in a slot that saves no more.
Answer(job) ==
    /\ job.at \in Lists => job.records \in {<<>>, Listed(revs), Listed(revs')}
    /\ job.at = "trashListed" => job.records = Trashed(revs)
    /\ job.at = "previewed" => job.records \in Seq(Revision)

\* The commands keep what is asked, and the interface: they store a revision, or
\* they answer.
LEMMA CommandsStoreOrAnswer ==
    ASSUME Shape, Held, NEW s \in DOMAIN jobs,
           SaveOne(s) \/ SavedAll(s) \/ SyncItems(s) \/ Load(s) \/ LoadFails(s)
    PROVE  /\ UNCHANGED <<errand, ui, asked>>
           /\ \/ \E r \in Revision : Stored(s, r) /\ minted' = minted
              \/ /\ \E more : Brought(more)
                 /\ \E job : /\ jobs' = [jobs EXCEPT ![s] = job]
                             /\ job.at # "save" /\ Answer(job)
<1>0. /\ minted \in Nat /\ revs \subseteq Revision /\ errand \in Errands
      /\ \A t \in DOMAIN jobs : Sound(jobs[t])
    BY DEF Held
<1>1. UNCHANGED <<errand, ui, asked>>
    BY DEF SaveOne, SavedAll, SyncItems, Load, LoadFails
<1>2. Brought({}) <=> revs' = revs /\ minted' = minted
    <2>1. ~(minted = minted + 1)
        BY <1>0
    <2> QED
        BY <2>1 DEF Brought
<1>3. CASE SaveOne(s)
    <2> DEFINE r == Head(jobs[s].todo)
    <2>1. /\ jobs[s].at = "save" /\ DOMAIN jobs[s] = {"at", "todo"}
          /\ jobs[s].todo \in Seq(Revision) /\ jobs[s].todo # <<>>
        BY <1>0, <1>3 DEF SaveOne, Sound
    <2>2. r \in Revision
        BY <2>1
    <2>3. CASE /\ QueueMutation(r)
               /\ revs' = (IF r.state = "purged" THEN revs \ Of(revs, r.item) ELSE revs) \cup {r}
               /\ jobs' = [jobs EXCEPT ![s].todo = Tail(@)]
        <3>1. [jobs[s] EXCEPT !.todo = Tail(@)] = [at |-> "save", todo |-> Tail(jobs[s].todo)]
            BY <2>1
        <3>2. jobs' = [jobs EXCEPT ![s] = [at |-> "save", todo |-> Tail(jobs[s].todo)]]
            BY <2>3, <3>1
        <3>3. Stored(s, r) /\ minted' = minted
            BY <1>3, <2>1, <2>3, <3>2 DEF Stored, SaveOne
        <3> QED
            BY <1>1, <2>2, <3>3
    <2>4. CASE jobs' = [jobs EXCEPT ![s] = [at |-> "saveFailed"]] /\ revs' = revs
        <3>1. Brought({})
            BY <1>2, <1>3, <2>4 DEF SaveOne
        <3>2. Answer([at |-> "saveFailed"])
            BY DEF Answer, Lists
        <3> QED
            BY <1>1, <2>4, <3>1, <3>2
    <2> QED
        BY Zenon, <1>3, <2>3, <2>4 DEF SaveOne
<1>4. ASSUME NEW done \in {"saved", "synced"}, SyncAndList(s, done)
      PROVE  /\ \E more : Brought(more)
             /\ \E job : /\ jobs' = [jobs EXCEPT ![s] = job]
                         /\ job.at # "save" /\ Answer(job)
    <2>1. ASSUME NEW records, records \in {<<>>, Listed(revs), Listed(revs')},
                 jobs' = [jobs EXCEPT ![s] = [at |-> done, records |-> records]]
          PROVE  \E job : /\ jobs' = [jobs EXCEPT ![s] = job]
                          /\ job.at # "save" /\ Answer(job)
        <3> DEFINE job == [at |-> done, records |-> records]
        <3>1. job.at \in {"saved", "synced"} /\ job.records \in {<<>>, Listed(revs), Listed(revs')}
            BY <2>1
        <3>2. jobs' = [jobs EXCEPT ![s] = job]
            BY <2>1
        <3> HIDE DEF job
        <3>3. Answer(job) /\ job.at # "save"
            BY <3>1 DEF Answer, Lists
        <3> QED
            BY <3>2, <3>3
    <2>2. CASE /\ revs' = revs /\ minted' = minted
               /\ \E records \in {Listed(revs), <<>>} :
                    jobs' = [jobs EXCEPT ![s] = [at |-> done, records |-> records]]
        BY <1>2, <2>1, <2>2
    <2>3. ASSUME NEW more,
                 more = {} \/ \E r \in Theirs : more = {[r EXCEPT !.id = minted + 1]},
                 revs' = revs \cup more, minted' = minted + Cardinality(more),
                 jobs' = [jobs EXCEPT ![s] = [at |-> done, records |-> Listed(revs \cup more)]]
          PROVE  /\ \E m : Brought(m)
                 /\ \E job : /\ jobs' = [jobs EXCEPT ![s] = job]
                             /\ job.at # "save" /\ Answer(job)
        <3>1. Brought(more)
            <4>1. CASE more = {}
                BY <1>0, <2>3, <4>1, FS_EmptySet DEF Brought
            <4>2. CASE \E r \in Theirs : more = {[r EXCEPT !.id = minted + 1]}
                <5>1. Cardinality(more) = 1
                    BY <4>2, FS_Singleton
                <5> QED
                    BY <2>3, <4>2, <5>1 DEF Brought
            <4> QED
                BY <2>3, <4>1, <4>2
        <3>2. Listed(revs \cup more) = Listed(revs')
            BY <2>3
        <3> QED
            BY <2>1, <2>3, <3>1, <3>2
    <2>4. ASSUME NEW more,
                 more \in {{}} \cup
                    (IF errand.online /\ others < errand.others /\ minted < errand.revisions
                     THEN {{[r EXCEPT !.id = minted + 1]} : r \in Theirs} ELSE {})
          PROVE  more = {} \/ \E r \in Theirs : more = {[r EXCEPT !.id = minted + 1]}
        BY <2>4
    <2>5. CASE ~(/\ revs' = revs /\ minted' = minted
                 /\ \E records \in {Listed(revs), <<>>} :
                    jobs' = [jobs EXCEPT ![s] = [at |-> done, records |-> records]])
        <3>1. PICK more \in {{}} \cup
                    (IF errand.online /\ others < errand.others /\ minted < errand.revisions
                     THEN {{[r EXCEPT !.id = minted + 1]} : r \in Theirs} ELSE {}) :
                /\ revs' = revs \cup more
                /\ minted' = minted + Cardinality(more)
                /\ jobs' = [jobs EXCEPT ![s] = [at |-> done, records |-> Listed(revs \cup more)]]
            BY Zenon, <1>4, <2>5 DEF SyncAndList
        <3> QED
            BY <2>3, <2>4, <3>1
    <2> QED
        BY <2>2, <2>5
<1>5. CASE SavedAll(s) \/ SyncItems(s)
    <2>1. \E done \in {"saved", "synced"} : SyncAndList(s, done)
        BY <1>5 DEF SavedAll, SyncItems
    <2> QED
        BY <1>1, <1>4, <2>1
<1>6. CASE Load(s)
    <2>0. Brought({})
        BY <1>2, <1>6 DEF Load
    <2>1. CASE jobs' = [jobs EXCEPT ![s] = [at |-> "listed", records |-> Listed(revs)]]
        <3>1. Answer([at |-> "listed", records |-> Listed(revs)])
            BY DEF Answer, Lists
        <3> QED
            BY <1>1, <2>0, <2>1, <3>1
    <2>2. CASE jobs' = [jobs EXCEPT ![s] = [at |-> "trashListed", records |-> Trashed(revs)]]
        <3>1. Answer([at |-> "trashListed", records |-> Trashed(revs)])
            BY DEF Answer, Lists
        <3> QED
            BY <1>1, <2>0, <2>2, <3>1
    <2>3. CASE \E items \in NewItems(Len(errand.file)), errors \in BOOLEAN :
                jobs' = [jobs EXCEPT ![s] =
                    [at      |-> "previewed",
                     errors  |-> errors,
                     records |-> [k \in DOMAIN items |->
                                     [errand.file[k] EXCEPT !.item = items[k]]]]]
        <3>1. PICK items \in NewItems(Len(errand.file)), errors \in BOOLEAN :
                jobs' = [jobs EXCEPT ![s] =
                    [at      |-> "previewed",
                     errors  |-> errors,
                     records |-> [k \in DOMAIN items |->
                                     [errand.file[k] EXCEPT !.item = items[k]]]]]
            BY <2>3
        <3> DEFINE records == [k \in DOMAIN items |-> [errand.file[k] EXCEPT !.item = items[k]]]
                   n == Len(errand.file)
        <3>2. errand.file \in Seq(Revision) /\ n \in Nat
            BY <1>0, ErrandsAssumption DEF ErrandsAssumption
        <3>3. \A k \in 1 .. n : errand.file[k] \in Revision
            BY <3>2
        <3>4. DOMAIN items = 1 .. n /\ \A k \in 1 .. n : items[k] \in Nat
            BY <3>2, NewItemsAreNew
        <3>5. \A k \in 1 .. n : [errand.file[k] EXCEPT !.item = items[k]] \in Revision
            BY <3>3, <3>4, RevisionsAreTyped
        <3> HIDE DEF n
        <3>6. records \in Seq(Revision)
            BY <3>2, <3>4, <3>5 DEF n
        <3>7. jobs' = [jobs EXCEPT ![s] = [at |-> "previewed", errors |-> errors,
                                           records |-> records]]
            BY <3>1
        <3> HIDE DEF records
        <3>8. Answer([at |-> "previewed", errors |-> errors, records |-> records])
            BY <3>6 DEF Answer, Lists
        <3> QED
            BY <1>1, <2>0, <3>7, <3>8
    <2>4. CASE jobs[s].at = "check" /\ jobs' = [jobs EXCEPT ![s].at = "checked"]
        <3> DEFINE job == [jobs[s] EXCEPT !.at = "checked"]
        <3>1. job.at = "checked"
            BY DEF Shape
        <3>2. Answer(job)
            BY <3>1 DEF Answer, Lists
        <3>3. jobs' = [jobs EXCEPT ![s] = job]
            BY <2>4
        <3> QED
            BY <1>1, <2>0, <3>1, <3>2, <3>3
    <2> QED
        BY Zenon, <1>6, <2>1, <2>2, <2>3, <2>4 DEF Load
<1>7. CASE LoadFails(s)
    <2>0. Brought({})
        BY <1>2, <1>7 DEF LoadFails
    <2>1. \E job \in {Idle, [at |-> "previewFailed"]} : jobs' = [jobs EXCEPT ![s] = job]
        BY <1>7 DEF LoadFails
    <2>2. \A job \in {Idle, [at |-> "previewFailed"]} : job.at # "save" /\ Answer(job)
        BY DEF Idle, Answer, Lists
    <2> QED
        BY <1>1, <2>0, <2>1, <2>2
<1> QED
    BY <1>3, <1>5, <1>6, <1>7

\* The same lists, the same choices.
LEMMA StillUsable ==
    ASSUME NEW u, Usable(u), NEW w, DOMAIN w = Fields,
           w.records = u.records, w.trash = u.trash, w.filter = u.filter,
           w.item = u.item, w.folder = u.folder, w.trashed = u.trashed,
           w.show \subseteq Screens, w.form \in Revision, w.move \in Nat,
           DOMAIN w.import = {"loading", "previewed", "errors", "records"},
           w.import.records \in Seq(Revision)
    PROVE  Usable(w)
<1>1. Folders(w) = Folders(u) /\ Visible(w) = Visible(u)
    BY SameLists
<1> QED
    BY <1>1 DEF Usable, Standing

\* Whatever is listed anew, under whatever filter, the choices are brought back to it.
LEMMA ShownIsUsable ==
    ASSUME NEW u, Usable(u), NEW records \in Seq(Grouped)
    PROVE  Usable(Shown(u, records)) /\ Shown(u, records).records = records
<1> DEFINE at == [u EXCEPT !.records = records]
           v == IF u.filter.folder = "one" /\ u.filter.folderId \notin FolderIds(at)
                THEN [at EXCEPT !.filter.folder = "unfiled", !.filter.folderId = 0] ELSE at
           w == [v EXCEPT !.item = InRange(@, Visible(v)), !.folder = InRange(@, Folders(v))]
<1>1. /\ DOMAIN at = Fields /\ at.records = records
      /\ \A f \in Fields \ {"records"} : at[f] = u[f]
    BY DEF Usable, Fields
<1> HIDE DEF at
<1>2. /\ DOMAIN v = Fields /\ v.records = records
      /\ \A f \in Fields \ {"records", "filter"} : v[f] = u[f]
      /\ DOMAIN v.filter = {"folder", "folderId", "favorites", "query"}
    <2>1. at.filter = u.filter
        BY <1>1 DEF Fields
    <2> QED
        BY <1>1, <2>1 DEF Usable, Fields
<1> HIDE DEF v
<1>3. /\ v.item \in Nat \ {0} /\ v.folder \in Nat \ {0} /\ v.trashed = u.trashed
      /\ v.show = u.show /\ v.trash = u.trash /\ v.form = u.form /\ v.import = u.import
      /\ v.move = u.move
    BY <1>2 DEF Usable, Fields
<1>4. /\ Len(Visible(v)) \in Nat /\ DOMAIN Visible(v) = 1 .. Len(Visible(v))
      /\ Len(Folders(v)) \in Nat /\ DOMAIN Folders(v) = 1 .. Len(Folders(v))
    BY <1>2, FiltersShow
<1>5. /\ DOMAIN w = Fields
      /\ w.item = InRange(v.item, Visible(v)) /\ w.folder = InRange(v.folder, Folders(v))
      /\ \A f \in Fields \ {"item", "folder"} : w[f] = v[f]
    BY <1>2 DEF Fields
<1>6. Shown(u, records) = w
    BY DEF Shown, at, v
<1> HIDE DEF w
<1>7. /\ w.records = records /\ w.filter = v.filter /\ w.trashed = u.trashed
      /\ w.show = u.show /\ w.trash = u.trash /\ w.form = u.form /\ w.import = u.import
      /\ w.move = u.move
    BY <1>2, <1>3, <1>5 DEF Fields
<1>8. Visible(w) = Visible(v) /\ Folders(w) = Folders(v)
    BY <1>2, <1>7, SameLists
<1>9. /\ w.item \in Nat \ {0} /\ (w.item = 1 \/ w.item \in DOMAIN Visible(w))
      /\ w.folder \in Nat \ {0} /\ (w.folder = 1 \/ w.folder \in DOMAIN Folders(w))
    BY <1>3, <1>4, <1>5, <1>8 DEF InRange
<1>10. Usable(w)
    BY <1>2, <1>5, <1>7, <1>9 DEF Usable, Standing
<1> QED
    BY <1>6, <1>7, <1>10

LEMMA AnswersAreUsable ==
    ASSUME Usable(ui), NEW m, Sound(m),
           m.at \in {"listed", "trashListed", "saved", "synced", "saveFailed",
                     "checked", "previewed", "previewFailed"}
    PROVE  /\ Usable(Updated(ui, m))
           /\ \/ Updated(ui, m).records = ui.records
              \/ m.at \in Lists /\ Updated(ui, m).records = m.records
<1> DEFINE u == Shown(ui, m.records)
<1>1. m.at \in Lists => Usable(u) /\ u.records = m.records
    BY ShownIsUsable DEF Sound
<1> HIDE DEF u
<1>2. CASE m.at = "listed"
    <2> DEFINE w == [u EXCEPT !.show = @ \ (Forms \cup {"totpForm"}),
                              !.conflict = 1, !.saving = FALSE]
    <2>1. Usable(u) /\ u.records = m.records /\ m.at \in Lists
        BY <1>1, <1>2 DEF Lists
    <2>2. /\ DOMAIN w = Fields /\ w.show \subseteq u.show
          /\ w.records = u.records /\ w.trash = u.trash /\ w.filter = u.filter
          /\ w.item = u.item /\ w.folder = u.folder /\ w.trashed = u.trashed
          /\ w.form = u.form /\ w.move = u.move /\ w.import = u.import
        BY <2>1 DEF Usable, Fields
    <2>3. Updated(ui, m) = w
        BY <1>2 DEF Updated, u
    <2> HIDE DEF w
    <2>4. /\ w.show \subseteq Screens /\ w.form \in Revision /\ w.move \in Nat
          /\ DOMAIN w.import = {"loading", "previewed", "errors", "records"}
          /\ w.import.records \in Seq(Revision)
        BY <2>1, <2>2 DEF Usable
    <2>5. Usable(w)
        BY <2>1, <2>2, <2>4, StillUsable
    <2> QED
        BY <2>1, <2>2, <2>3, <2>5
<1>3. CASE m.at = "trashListed"
    <2> DEFINE w == TrashShown(ui, m.records)
    <2>1. m.records \in Seq(Grouped)
        BY <1>3 DEF Sound
    <2>2. /\ DOMAIN w = Fields /\ w.show = ui.show
          /\ w.records = ui.records /\ w.trash = m.records /\ w.filter = ui.filter
          /\ w.item = ui.item /\ w.folder = ui.folder
          /\ w.trashed = InRange(ui.trashed, m.records)
          /\ w.form = ui.form /\ w.move = ui.move /\ w.import = ui.import
        BY DEF TrashShown, Usable, Fields
    <2>3. Updated(ui, m) = w
        BY <1>3 DEF Updated
    <2> HIDE DEF w
    <2>4. w.trashed \in Nat \ {0} /\ (w.trashed = 1 \/ w.trashed \in DOMAIN w.trash)
        BY <2>1, <2>2 DEF InRange, Usable
    <2>5. Folders(w) = Folders(ui) /\ Visible(w) = Visible(ui)
        BY <2>2, SameLists
    <2>6. Usable(w)
        BY <2>1, <2>2, <2>4, <2>5 DEF Usable, Standing
    <2> QED
        BY <2>2, <2>3, <2>6
<1>4. CASE m.at = "saved"
    <2> DEFINE w == AfterSave(u)
    <2>1. Usable(u) /\ u.records = m.records /\ m.at \in Lists
        BY <1>1, <1>4 DEF Lists
    <2>2. /\ DOMAIN w = Fields /\ w.show \subseteq u.show
          /\ w.records = u.records /\ w.trash = u.trash /\ w.filter = u.filter
          /\ w.item = u.item /\ w.folder = u.folder /\ w.trashed = u.trashed
          /\ w.form = u.form /\ w.move = u.move /\ w.import = NoImport
        BY <2>1 DEF AfterSave, Usable, Fields
    <2>3. Updated(ui, m) = w
        BY <1>4 DEF Updated, u
    <2> HIDE DEF w
    <2>4. /\ w.show \subseteq Screens /\ w.form \in Revision /\ w.move \in Nat
          /\ DOMAIN w.import = {"loading", "previewed", "errors", "records"}
          /\ w.import.records \in Seq(Revision)
        BY <2>1, <2>2, NoImportIsTyped DEF Usable
    <2>5. Usable(w)
        BY <2>1, <2>2, <2>4, StillUsable
    <2> QED
        BY <2>1, <2>2, <2>3, <2>5
<1>5. CASE m.at = "synced"
    <2> DEFINE w == AfterSync(u)
    <2>1. Usable(u) /\ u.records = m.records /\ m.at \in Lists
        BY <1>1, <1>5 DEF Lists
    <2>2. /\ DOMAIN w = Fields /\ w.show = u.show
          /\ w.records = u.records /\ w.trash = u.trash /\ w.filter = u.filter
          /\ w.item = u.item /\ w.folder = u.folder /\ w.trashed = u.trashed
          /\ w.form = u.form /\ w.move = u.move /\ w.import = u.import
        BY <2>1 DEF AfterSync, Usable, Fields
    <2>3. Updated(ui, m) = w
        BY <1>5 DEF Updated, u
    <2> HIDE DEF w
    <2>4. /\ w.show \subseteq Screens /\ w.form \in Revision /\ w.move \in Nat
          /\ DOMAIN w.import = {"loading", "previewed", "errors", "records"}
          /\ w.import.records \in Seq(Revision)
        BY <2>1, <2>2 DEF Usable
    <2>5. Usable(w)
        BY <2>1, <2>2, <2>4, StillUsable
    <2> QED
        BY <2>1, <2>2, <2>3, <2>5
<1>6. CASE m.at \in {"saveFailed", "checked", "previewed", "previewFailed"}
    <2> DEFINE w == Updated(ui, m)
    <2>1. CASE m.at = "saveFailed"
        <3>1. w = [ui EXCEPT !.saving = FALSE]
            BY <2>1 DEF Updated
        <3>2. Minor(w)
            BY <3>1 DEF Minor, Usable, Fields
        <3> QED
            BY <3>2, MinorIsUsable DEF Minor
    <2>2. CASE m.at = "checked"
        <3>1. w = Answered(ui, m)
            BY <2>2 DEF Updated
        <3>2. Minor(w)
            BY <3>1 DEF Answered, Minor, Usable, Fields
        <3> QED
            BY <3>2, MinorIsUsable DEF Minor
    <2>3. CASE m.at = "previewFailed"
        <3>1. w = [ui EXCEPT !.import = NoImport]
            BY <2>3 DEF Updated
        <3>2. Minor(w)
            BY <3>1, NoImportIsTyped DEF Minor, Usable, Fields
        <3> QED
            BY <3>2, MinorIsUsable DEF Minor
    <2>4. CASE m.at = "previewed"
        <3>1. w = [ui EXCEPT !.import = [loading |-> FALSE, previewed |-> TRUE,
                                         errors |-> m.errors, records |-> m.records]]
            BY <2>4 DEF Updated
        <3>2. m.records \in Seq(Revision)
            BY <2>4 DEF Sound
        <3>3. Minor(w)
            BY <3>1, <3>2 DEF Minor, Usable, Fields
        <3> QED
            BY <3>3, MinorIsUsable DEF Minor
    <2> QED
        BY <1>6, <2>1, <2>2, <2>3, <2>4
<1> QED
    BY <1>2, <1>3, <1>4, <1>5, <1>6

LEMMA DeliversUsable ==
    ASSUME Held, NEW s \in DOMAIN jobs, Deliver(s)
    PROVE  /\ UNCHANGED <<errand, revs, minted, asked>>
           /\ NothingNew /\ Usable(ui')
           /\ \/ ui'.records = ui.records
              \/ jobs[s].at \in Lists /\ ui'.records = jobs[s].records
<1> DEFINE u == Updated(ui, jobs[s])
<1>1. ui' = Settled(u) /\ jobs' = [jobs EXCEPT ![s] = Idle]
    BY DEF Deliver
<1>2. Usable(u) /\ (u.records = ui.records
                    \/ (jobs[s].at \in Lists /\ u.records = jobs[s].records))
    BY AnswersAreUsable DEF Held, Deliver
<1> HIDE DEF u
<1>3. Usable(ui') /\ ui'.records = u.records
    BY <1>1, <1>2, SettlesUsable
<1>4. UNCHANGED <<errand, revs, minted, asked>>
    BY DEF Deliver
<1>5. NothingNew
    BY <1>1, <1>4 DEF NothingNew, Idle, Carriers, Lists
<1> QED
    BY <1>2, <1>3, <1>4, <1>5

-----------------------------------------------------------------------------
(* It holds *)

\* Every step is a key, a revision stored, an answer made or an answer shown.
LEMMA StepsAre ==
    ASSUME Shape, Held, [Next]_vars
    PROVE  \/ Handled
           \/ /\ UNCHANGED <<errand, revs>>
              /\ Usable(ui') /\ ui'.records = ui.records
              /\ \E listed \in Seq(Grouped) : Removes(listed)
           \/ /\ UNCHANGED <<errand, minted, ui, asked>>
              /\ \E s \in DOMAIN jobs, r \in Revision : Stored(s, r)
           \/ /\ UNCHANGED <<errand, ui, asked>>
              /\ \E more : Brought(more)
              /\ \E s \in DOMAIN jobs : \E job :
                    jobs' = [jobs EXCEPT ![s] = job] /\ job.at # "save" /\ Answer(job)
           \/ /\ UNCHANGED <<errand, revs, minted, asked>>
              /\ NothingNew /\ Usable(ui')
              /\ \/ ui'.records = ui.records
                 \/ \E s \in DOMAIN jobs :
                        jobs[s].at \in Lists /\ ui'.records = jobs[s].records
<1>0. Usable(ui)
    BY DEF Held
<1>1. CASE UNCHANGED vars
    BY <1>0, <1>1 DEF vars, Handled, NothingNew
<1>2. CASE Key \/ KeyInDialog \/ PeriodicSync
    BY <1>0, <1>2, KeysAreHandled
<1>3. ASSUME NEW s \in Slots \cup Background, Command(s), ~Deliver(s)
      PROVE  \/ /\ UNCHANGED <<errand, minted, ui, asked>>
                /\ \E t \in DOMAIN jobs, r \in Revision : Stored(t, r)
             \/ /\ UNCHANGED <<errand, ui, asked>>
                /\ \E more : Brought(more)
                /\ \E t \in DOMAIN jobs : \E job :
                      jobs' = [jobs EXCEPT ![t] = job] /\ job.at # "save" /\ Answer(job)
    <2>1. s \in DOMAIN jobs
        BY DEF Shape
    <2> QED
        BY <1>3, <2>1, CommandsStoreOrAnswer DEF Command
<1>4. ASSUME NEW s \in Slots \cup Background, Deliver(s)
      PROVE  /\ UNCHANGED <<errand, revs, minted, asked>>
             /\ NothingNew /\ Usable(ui')
             /\ \/ ui'.records = ui.records
                \/ \E t \in DOMAIN jobs :
                       jobs[t].at \in Lists /\ ui'.records = jobs[t].records
    <2>1. s \in DOMAIN jobs
        BY DEF Shape
    <2> QED
        BY <1>4, <2>1, DeliversUsable
<1> QED
    BY Zenon, <1>1, <1>2, <1>3, <1>4 DEF Next

\* A save numbers what it saves.
LEMMA SaveAllQueues ==
    ASSUME Shape, NEW records \in Seq(Revision), SaveAll(records), minted \in Nat
    PROVE  \E s \in DOMAIN jobs, todo \in Seq(Revision) :
              /\ s \in Slots /\ jobs[s] = Idle
              /\ jobs' = [jobs EXCEPT ![s] = [at |-> "save", todo |-> todo]]
              /\ Len(todo) = Len(records) /\ DOMAIN todo = DOMAIN records
              /\ DOMAIN records = 1 .. Len(records) /\ Len(records) \in Nat
              /\ minted' = minted + Len(records)
              /\ \A k \in DOMAIN records :
                    todo[k] = [records[k] EXCEPT !.id = minted + k] /\ todo[k].id = minted + k
                    /\ todo[k].kind = records[k].kind /\ todo[k].parents = records[k].parents
<1> DEFINE s == CHOOSE s \in Free(Slots) : TRUE
           todo == [k \in DOMAIN records |-> [records[k] EXCEPT !.id = minted + k]]
<1>1. DOMAIN records = 1 .. Len(records) /\ Len(records) \in Nat
    OBVIOUS
<1>2. \A k \in DOMAIN records : records[k] \in Revision /\ minted + k \in Nat
    BY <1>1
<1>3. \A k \in DOMAIN records :
        LET r == [records[k] EXCEPT !.id = minted + k] IN
        r \in Revision /\ r.id = minted + k /\ r.kind = records[k].kind
        /\ r.parents = records[k].parents
    BY <1>2 DEF Revision
<1>4. todo \in Seq(Revision) /\ Len(todo) = Len(records) /\ DOMAIN todo = DOMAIN records
    BY <1>1, <1>3
<1>5. s \in Free(Slots)
    BY DEF SaveAll
<1>6. s \in DOMAIN jobs /\ s \in Slots /\ jobs[s] = Idle
    BY <1>5 DEF Free, Shape
<1>7. jobs' = [jobs EXCEPT ![s] = [at |-> "save", todo |-> todo]]
      /\ minted' = minted + Len(records)
    BY DEF SaveAll
<1>8. \A k \in DOMAIN records : todo[k] = [records[k] EXCEPT !.id = minted + k]
    OBVIOUS
<1> HIDE DEF s, todo
<1>9. \A k \in DOMAIN records :
        /\ todo[k] = [records[k] EXCEPT !.id = minted + k] /\ todo[k].id = minted + k
        /\ todo[k].kind = records[k].kind /\ todo[k].parents = records[k].parents
    BY <1>3, <1>8
<1> QED
    BY Zenon, <1>1, <1>4, <1>6, <1>7, <1>9

LEMMA RemovalIsTyped ==
    ASSUME NEW folder \in Grouped, NEW listed \in Seq(Grouped)
    PROVE  LET all == recordsForFolderRemoval(folder, listed) IN
           /\ all \in Seq(Revision) /\ Len(all) = Len(listed) + 1
           /\ DOMAIN listed = 1 .. Len(listed) /\ Len(listed) \in Nat
           /\ \A k \in 1 .. Len(listed) :
                all[k].parents = {listed[k].shown.id} /\ all[k].kind = listed[k].shown.kind
<1> DEFINE items == [k \in DOMAIN listed |-> updateOrganization(listed[k], 0, Favorite(listed[k]))]
           all == items \o <<deleteItem(folder)>>
<1>1. DOMAIN listed = 1 .. Len(listed) /\ Len(listed) \in Nat
    OBVIOUS
<1>2. \A g \in Grouped :
        /\ updateOrganization(g, 0, Favorite(g)) \in Revision
        /\ updateOrganization(g, 0, Favorite(g)).parents = {g.shown.id}
        /\ updateOrganization(g, 0, Favorite(g)).kind = g.shown.kind
    <2> SUFFICES ASSUME NEW g \in Grouped
                 PROVE  LET r == updateOrganization(g, 0, Favorite(g)) IN
                        r \in Revision /\ r.parents = {g.shown.id} /\ r.kind = g.shown.kind
        OBVIOUS
    <2>1. g.shown \in Revision /\ Favorite(g) \in BOOLEAN
        BY GroupsAreTyped
    <2>2. updateOrganization(g, 0, Favorite(g)) \in Revision
        BY <2>1, EditsAreTyped
    <2> QED
        BY <2>1, <2>2 DEF updateOrganization, ChildOf, Revision
<1>3. items \in Seq(Revision) /\ Len(items) = Len(listed) /\ DOMAIN items = 1 .. Len(listed)
    BY <1>1, <1>2
<1>4. \A k \in 1 .. Len(listed) :
        items[k].parents = {listed[k].shown.id} /\ items[k].kind = listed[k].shown.kind
    BY <1>1, <1>2
<1>5. deleteItem(folder) \in Revision
    BY EditsAreTyped
<1>6. recordsForFolderRemoval(folder, listed) = all
    BY DEF recordsForFolderRemoval
<1> HIDE DEF items
<1>7. all \in Seq(Revision) /\ Len(all) = Len(listed) + 1
    BY <1>1, <1>3, <1>5
<1>8. \A k \in 1 .. Len(listed) : all[k] = items[k]
    BY <1>1, <1>3, <1>5
<1> QED
    BY <1>1, <1>4, <1>6, <1>7, <1>8

LEMMA SavesSoundly ==
    ASSUME Shape, Shape', Held, NEW records \in Seq(Revision), SaveAll(records)
    PROVE  minted' \in Nat /\ \A s \in DOMAIN jobs' : Sound(jobs'[s])
<1>1. PICK s \in DOMAIN jobs, todo \in Seq(Revision) :
            /\ jobs' = [jobs EXCEPT ![s] = [at |-> "save", todo |-> todo]]
            /\ minted' = minted + Len(records) /\ Len(records) \in Nat
    BY SaveAllQueues DEF Held
<1>2. Sound([at |-> "save", todo |-> todo])
    BY DEF Sound, Lists
<1>3. \A t \in DOMAIN jobs : Sound(jobs[t])
    BY DEF Held
<1>4. minted' \in Nat
    BY <1>1 DEF Held
<1> QED
    BY <1>1, <1>2, <1>3, <1>4

LEMMA NothingNewIsSound ==
    ASSUME Shape, Shape', Held, NothingNew
    PROVE  minted' \in Nat /\ \A s \in DOMAIN jobs' : Sound(jobs'[s])
<1>1. DOMAIN jobs' = DOMAIN jobs /\ \A t \in DOMAIN jobs : Sound(jobs[t])
    BY DEF Shape, Held
<1>2. \A job : job.at \notin Carriers => Sound(job)
    BY DEF Sound, Carriers
<1> QED
    BY <1>1, <1>2 DEF NothingNew, Held

LEMMA StoredIsTyped ==
    ASSUME revs \subseteq Revision, IsFiniteSet(revs), NEW s, NEW r \in Revision, Stored(s, r)
    PROVE  revs' \subseteq Revision /\ IsFiniteSet(revs')
<1> DEFINE kept == IF r.state = "purged" THEN revs \ Of(revs, r.item) ELSE revs
<1>1. kept \in SUBSET revs /\ revs' = kept \cup {r}
    BY DEF Stored
<1> HIDE DEF kept
<1>2. IsFiniteSet(kept)
    BY <1>1, FS_Subset
<1>3. IsFiniteSet(kept \cup {r})
    BY <1>2, FS_AddElement
<1> QED
    BY <1>1, <1>3

LEMMA BroughtIsTyped ==
    ASSUME revs \subseteq Revision, IsFiniteSet(revs), minted \in Nat, NEW more, Brought(more)
    PROVE  revs' \subseteq Revision /\ IsFiniteSet(revs') /\ minted' \in Nat
<1>1. CASE more = {}
    BY <1>1 DEF Brought
<1>2. CASE \E r \in Theirs : more = {[r EXCEPT !.id = minted + 1]}
    <2>1. PICK r \in Theirs : more = {[r EXCEPT !.id = minted + 1]}
        BY <1>2
    <2>2. [r EXCEPT !.id = minted + 1] \in Revision
        <3>1. minted + 1 \in Nat
            OBVIOUS
        <3> QED
            BY <3>1, TheirsAreTyped, RevisionsAreTyped
    <2>3. IsFiniteSet(revs \cup more)
        BY <2>1, FS_AddElement
    <2> QED
        BY <2>1, <2>2, <2>3 DEF Brought
<1> QED
    BY <1>1, <1>2 DEF Brought

LEMMA AnswersSoundly ==
    ASSUME revs \subseteq Revision, IsFiniteSet(revs), revs' \subseteq Revision,
           IsFiniteSet(revs'), NEW job, job.at # "save", Answer(job)
    PROVE  Sound(job)
<1>1. /\ Listed(revs) \in Seq(Grouped) /\ Trashed(revs) \in Seq(Grouped)
      /\ <<>> \in Seq(Grouped)
    BY ListedIsTyped
<1>2. PICK R : R = revs'
    OBVIOUS
<1>3. Listed(R) \in Seq(Grouped)
    BY <1>2, ListedIsTyped
<1>4. Listed(revs') = Listed(R)
    BY <1>2
<1> QED
    BY <1>1, <1>3, <1>4 DEF Sound, Answer, Lists

LEMMA HeldStays ==
    ASSUME Shape, Shape', Held, [Next]_vars
    PROVE  Held'
<1>0. /\ errand \in Errands /\ revs \subseteq Revision /\ IsFiniteSet(revs) /\ minted \in Nat
      /\ Usable(ui) /\ DOMAIN jobs' = DOMAIN jobs
      /\ \A s \in DOMAIN jobs : Sound(jobs[s])
    BY DEF Held, Shape
<1>1. CASE Handled
    <2>1. minted' \in Nat /\ \A s \in DOMAIN jobs' : Sound(jobs'[s])
        BY <1>1, NothingNewIsSound, SavesSoundly DEF Handled
    <2> QED
        BY <1>0, <1>1, <2>1 DEF Held, Handled
<1>2. CASE /\ UNCHANGED <<errand, revs>> /\ Usable(ui')
           /\ \E listed \in Seq(Grouped) : Removes(listed)
    <2>1. PICK listed \in Seq(Grouped) : Removes(listed)
        BY <1>2
    <2>2. recordsForFolderRemoval(AtFolder, listed) \in Seq(Revision)
        BY <1>0, <2>1, SelectedIsTyped, RemovalIsTyped DEF Removes
    <2>3. minted' \in Nat /\ \A s \in DOMAIN jobs' : Sound(jobs'[s])
        BY <2>1, <2>2, SavesSoundly DEF Removes
    <2> QED
        BY <1>0, <1>2, <2>3 DEF Held
<1>3. CASE /\ UNCHANGED <<errand, minted, ui, asked>>
           /\ \E s \in DOMAIN jobs, r \in Revision : Stored(s, r)
    <2>1. PICK s \in DOMAIN jobs, r \in Revision : Stored(s, r)
        BY <1>3
    <2>2. revs' \subseteq Revision /\ IsFiniteSet(revs')
        BY <1>0, <2>1, StoredIsTyped
    <2>3. jobs[s].todo \in Seq(Revision) /\ jobs[s].todo # <<>>
        BY <1>0, <2>1 DEF Stored, Sound
    <2>4. Tail(jobs[s].todo) \in Seq(Revision)
        BY <2>3
    <2>5. Sound([at |-> "save", todo |-> Tail(jobs[s].todo)])
        BY <2>4 DEF Sound, Lists
    <2>6. \A t \in DOMAIN jobs' : Sound(jobs'[t])
        BY <1>0, <2>1, <2>5 DEF Stored
    <2> QED
        BY <1>0, <1>3, <2>2, <2>6 DEF Held
<1>4. CASE /\ UNCHANGED <<errand, ui, asked>>
           /\ \E more : Brought(more)
           /\ \E s \in DOMAIN jobs : \E job :
                 jobs' = [jobs EXCEPT ![s] = job] /\ job.at # "save" /\ Answer(job)
    <2>1. revs' \subseteq Revision /\ IsFiniteSet(revs') /\ minted' \in Nat
        BY <1>0, <1>4, BroughtIsTyped
    <2>2. \A t \in DOMAIN jobs' : Sound(jobs'[t])
        BY <1>0, <1>4, <2>1, AnswersSoundly
    <2> QED
        BY <1>0, <1>4, <2>1, <2>2 DEF Held
<1>5. CASE UNCHANGED <<errand, revs, minted, asked>> /\ NothingNew /\ Usable(ui')
    <2>1. \A s \in DOMAIN jobs' : Sound(jobs'[s])
        BY <1>5, NothingNewIsSound
    <2> QED
        BY <1>0, <1>5, <2>1 DEF Held
<1> QED
    BY <1>1, <1>2, <1>3, <1>4, <1>5, StepsAre

LEMMA InitHeld == Init => Held
<1> SUFFICES ASSUME Init PROVE Held
    OBVIOUS
<1>1. /\ errand \in Errands /\ revs \subseteq Revision /\ IsFiniteSet(revs)
    BY ErrandsAssumption DEF Init, ErrandsAssumption
<1>2. minted \in Nat
    BY <1>1, FS_CardinalityType DEF Init
<1>3. /\ DOMAIN ui = Fields /\ ui.show = {} /\ ui.records = Listed(revs) /\ ui.trash = <<>>
      /\ ui.item = 1 /\ ui.folder = 1 /\ ui.trashed = 1 /\ ui.move = 0
      /\ ui.form = NewForm("login", 0) /\ ui.filter = NoFilter /\ ui.import = NoImport
    BY DEF Init, Fields
<1>4. Listed(revs) \in Seq(Grouped) /\ <<>> \in Seq(Grouped)
    BY <1>1, ListedIsTyped
<1>5. NewForm("login", 0) \in Revision
    BY NewFormIsTyped
<1>6. DOMAIN NoFilter = {"folder", "folderId", "favorites", "query"}
    BY DEF NoFilter
<1>7. Usable(ui)
    BY <1>3, <1>4, <1>5, <1>6, NoImportIsTyped DEF Usable, Standing
<1>8. \A s \in DOMAIN jobs : jobs[s] \in {Idle, [at |-> "sync"]}
    BY DEF Init
<1>9. \A s \in DOMAIN jobs : Sound(jobs[s])
    BY <1>8 DEF Sound, Idle, Lists
<1> QED
    BY <1>1, <1>2, <1>7, <1>9 DEF Held

-----------------------------------------------------------------------------
(* Revisions and their numbers *)

Saves == {s \in DOMAIN jobs : jobs[s].at = "save"}

\* The numbers given out that no save under way still carries.
Born ==
    {n \in 1 .. minted : \A s \in Saves : \A k \in DOMAIN jobs[s].todo : jobs[s].todo[k].id # n}

Numbered ==
    /\ \A s \in Saves : \A k \in DOMAIN jobs[s].todo : jobs[s].todo[k].id \in 1 .. minted
    /\ \A s, t \in Saves : \A k \in DOMAIN jobs[s].todo, l \in DOMAIN jobs[t].todo :
            jobs[s].todo[k].id = jobs[t].todo[l].id => s = t /\ k = l

\* A number is one revision's, and a revision's parents are of its item.
Known ==
    /\ \A r, q \in revs : r.id = q.id => r = q
    /\ \A r, q \in revs : r.id \in q.parents => r.item = q.item
    /\ \A r \in revs : r.id \in Born /\ r.parents \subseteq Born

\* What is listed was in the cache.
Seen ==
    /\ ShownIds(ui.records) \subseteq Born
    /\ \A s \in DOMAIN jobs : jobs[s].at \in Lists => ShownIds(jobs[s].records) \subseteq Born

Asked ==
    /\ asked.removal.left \subseteq Born
    /\ asked.removal.saved \subseteq 1 .. minted

LEMMA QueueShrinks ==
    ASSUME DOMAIN jobs' = DOMAIN jobs, Numbered, minted \in Nat, minted' \in Nat,
           minted <= minted',
           \A s \in DOMAIN jobs : jobs'[s] = jobs[s] \/ jobs'[s].at # "save"
    PROVE  /\ Numbered' /\ Born \subseteq Born'
           /\ minted + 1 .. minted' \subseteq Born'
           /\ Saves' \subseteq Saves /\ \A s \in Saves' : jobs'[s] = jobs[s]
<1>1. Saves' \subseteq Saves /\ \A s \in Saves' : jobs'[s] = jobs[s]
    BY DEF Saves
<1>2. 1 .. minted \subseteq 1 .. minted' /\ minted + 1 .. minted' \subseteq 1 .. minted'
    OBVIOUS
<1>3. \A s \in Saves' : \A k \in DOMAIN jobs'[s].todo : jobs'[s].todo[k].id \in 1 .. minted
    BY <1>1 DEF Numbered
<1>4. Numbered'
    BY <1>1, <1>2, <1>3 DEF Numbered
<1>5. Born \subseteq Born'
    BY <1>1, <1>2 DEF Born
<1>6. minted + 1 .. minted' \subseteq Born'
    BY <1>2, <1>3 DEF Born
<1> QED
    BY <1>1, <1>4, <1>5, <1>6

LEMMA QueueGrows ==
    ASSUME Shape, DOMAIN jobs' = DOMAIN jobs, Numbered, minted \in Nat,
           NEW s \in DOMAIN jobs, jobs[s] = Idle, NEW todo, NEW n \in Nat,
           jobs' = [jobs EXCEPT ![s] = [at |-> "save", todo |-> todo]],
           DOMAIN todo = 1 .. n, minted' = minted + n,
           \A k \in 1 .. n : todo[k].id = minted + k
    PROVE  /\ Numbered' /\ Born \subseteq Born'
           /\ Saves' = Saves \cup {s} /\ s \notin Saves
           /\ \A t \in Saves : jobs'[t] = jobs[t]
           /\ jobs'[s].todo = todo
<1>1. jobs'[s] = [at |-> "save", todo |-> todo] /\ \A t \in DOMAIN jobs \ {s} : jobs'[t] = jobs[t]
    OBVIOUS
<1>2. s \notin Saves
    BY DEF Saves, Idle
<1>3. Saves' = Saves \cup {s}
    BY <1>1 DEF Saves
<1>4. \A t \in Saves : t # s /\ jobs'[t] = jobs[t]
    BY <1>1, <1>2 DEF Saves
<1>5. jobs'[s].todo = todo
    BY <1>1
<1>6. \A k \in 1 .. n : minted + k \in 1 .. minted' /\ minted + k \notin 1 .. minted
    OBVIOUS
<1>7. 1 .. minted \subseteq 1 .. minted'
    OBVIOUS
<1>8. \A k, l \in 1 .. n : minted + k = minted + l => k = l
    OBVIOUS
<1>9. Numbered'
    <2>1. ASSUME NEW t \in Saves', NEW k \in DOMAIN jobs'[t].todo
          PROVE  jobs'[t].todo[k].id \in 1 .. minted'
        <3>1. CASE t = s
            BY <1>5, <1>6, <2>1, <3>1
        <3>2. CASE t \in Saves
            BY <1>4, <1>7, <2>1, <3>2 DEF Numbered
        <3> QED
            BY <1>3, <2>1, <3>1, <3>2
    <2>2. ASSUME NEW t \in Saves', NEW v \in Saves', NEW k \in DOMAIN jobs'[t].todo,
                 NEW l \in DOMAIN jobs'[v].todo, jobs'[t].todo[k].id = jobs'[v].todo[l].id
          PROVE  t = v /\ k = l
        <3>1. CASE t = s /\ v = s
            BY <1>5, <1>8, <2>2, <3>1
        <3>2. CASE t \in Saves /\ v \in Saves
            BY <1>4, <2>2, <3>2 DEF Numbered
        <3>3. CASE t = s /\ v \in Saves
            BY <1>4, <1>5, <1>6, <2>2, <3>3 DEF Numbered
        <3>4. CASE t \in Saves /\ v = s
            BY <1>4, <1>5, <1>6, <2>2, <3>4 DEF Numbered
        <3> QED
            BY <1>3, <2>2, <3>1, <3>2, <3>3, <3>4
    <2> QED
        BY <2>1, <2>2 DEF Numbered
<1>10. Born \subseteq Born'
    <2> SUFFICES ASSUME NEW x \in Born PROVE x \in Born'
        OBVIOUS
    <2>1. x \in 1 .. minted /\ x \in 1 .. minted'
        BY <1>7 DEF Born
    <2>2. ASSUME NEW t \in Saves', NEW k \in DOMAIN jobs'[t].todo
          PROVE  jobs'[t].todo[k].id # x
        <3>1. CASE t = s
            BY <1>5, <1>6, <2>1, <2>2, <3>1
        <3>2. CASE t \in Saves
            BY <1>4, <2>2, <3>2 DEF Born
        <3> QED
            BY <1>3, <2>2, <3>1, <3>2
    <2> QED
        BY <2>1, <2>2 DEF Born
<1> QED
    BY <1>2, <1>3, <1>4, <1>5, <1>9, <1>10

LEMMA QueueAdvances ==
    ASSUME DOMAIN jobs' = DOMAIN jobs, Numbered, UNCHANGED minted,
           NEW s \in DOMAIN jobs, NEW r, Stored(s, r), jobs[s].todo \in Seq(Revision)
    PROVE  /\ Numbered' /\ Born \subseteq Born'
           /\ r.id \in Born' /\ r.id \notin Born
           /\ Saves' = Saves /\ s \in Saves
           /\ \A t \in Saves \ {s} : jobs'[t] = jobs[t]
           /\ 1 \in DOMAIN jobs[s].todo /\ r = jobs[s].todo[1]
           /\ \A k \in DOMAIN jobs'[s].todo :
                /\ k \in Nat \ {0}
                /\ k + 1 \in DOMAIN jobs[s].todo /\ jobs'[s].todo[k] = jobs[s].todo[k + 1]
           /\ \A k \in DOMAIN jobs[s].todo :
                k > 1 => k - 1 \in DOMAIN jobs'[s].todo /\ jobs'[s].todo[k - 1] = jobs[s].todo[k]
<1> DEFINE todo == jobs[s].todo
           rest == jobs'[s].todo
<1>1. /\ jobs[s].at = "save" /\ todo # <<>> /\ r = Head(todo)
      /\ jobs' = [jobs EXCEPT ![s] = [at |-> "save", todo |-> Tail(todo)]]
    BY DEF Stored
<1>2. jobs'[s].at = "save" /\ rest = Tail(todo) /\ \A t \in DOMAIN jobs \ {s} : jobs'[t] = jobs[t]
    BY <1>1
<1>3. Saves' = Saves /\ s \in Saves /\ \A t \in Saves \ {s} : jobs'[t] = jobs[t]
    BY <1>1, <1>2 DEF Saves
<1>4. todo \in Seq(Revision) /\ Len(todo) \in Nat \ {0} /\ DOMAIN todo = 1 .. Len(todo)
    BY <1>1
<1>5. 1 \in DOMAIN todo /\ r = todo[1]
    BY <1>1, <1>4
<1>6. rest = [k \in 1 .. Len(todo) - 1 |-> todo[k + 1]]
    BY <1>2, <1>4
<1> HIDE DEF todo, rest
<1>7. DOMAIN rest = 1 .. Len(todo) - 1 /\ \A k \in 1 .. Len(todo) - 1 : rest[k] = todo[k + 1]
    BY <1>6
<1>8. \A k \in DOMAIN rest :
        k \in Nat \ {0} /\ k + 1 \in DOMAIN todo /\ rest[k] = todo[k + 1] /\ k + 1 # 1
    BY <1>4, <1>7
<1>9. \A k \in DOMAIN todo : k > 1 => k - 1 \in DOMAIN rest /\ rest[k - 1] = todo[k]
    <2> SUFFICES ASSUME NEW k \in DOMAIN todo, k > 1
                 PROVE  k - 1 \in DOMAIN rest /\ rest[k - 1] = todo[k]
        OBVIOUS
    <2>1. k - 1 \in 1 .. Len(todo) - 1 /\ (k - 1) + 1 = k
        BY <1>4
    <2> QED
        BY <1>7, <2>1
<1>10. /\ \A k \in DOMAIN todo : todo[k].id \in 1 .. minted
       /\ \A k, l \in DOMAIN todo : todo[k].id = todo[l].id => k = l
       /\ \A t \in Saves \ {s} : \A k \in DOMAIN jobs[t].todo, l \in DOMAIN todo :
            jobs[t].todo[k].id # todo[l].id
    BY <1>3 DEF Numbered, todo
<1>11. Numbered'
    <2>1. ASSUME NEW t \in Saves', NEW k \in DOMAIN jobs'[t].todo
          PROVE  jobs'[t].todo[k].id \in 1 .. minted'
        <3>1. CASE t = s
            BY <1>8, <1>10, <2>1, <3>1 DEF rest
        <3>2. CASE t # s
            BY <1>3, <2>1, <3>2 DEF Numbered
        <3> QED
            BY <3>1, <3>2
    <2>2. ASSUME NEW t \in Saves', NEW v \in Saves', NEW k \in DOMAIN jobs'[t].todo,
                 NEW l \in DOMAIN jobs'[v].todo, jobs'[t].todo[k].id = jobs'[v].todo[l].id
          PROVE  t = v /\ k = l
        <3>1. CASE t = s /\ v = s
            <4>1. /\ k \in DOMAIN rest /\ l \in DOMAIN rest /\ rest[k].id = rest[l].id
                  /\ k \in Nat /\ l \in Nat
                BY <1>8, <2>2, <3>1 DEF rest
            <4>2. k + 1 = l + 1
                BY <1>8, <1>10, <4>1
            <4> QED
                BY <3>1, <4>1, <4>2
        <3>2. CASE t # s /\ v # s
            BY <1>3, <2>2, <3>2 DEF Numbered
        <3>3. CASE t = s /\ v # s
            BY <1>3, <1>8, <1>10, <2>2, <3>3 DEF rest
        <3>4. CASE t # s /\ v = s
            BY <1>3, <1>8, <1>10, <2>2, <3>4 DEF rest
        <3> QED
            BY <3>1, <3>2, <3>3, <3>4
    <2> QED
        BY <2>1, <2>2 DEF Numbered
<1>12. Born \subseteq Born'
    <2> SUFFICES ASSUME NEW x \in Born PROVE x \in Born'
        OBVIOUS
    <2>1. x \in 1 .. minted'
        BY DEF Born
    <2>2. ASSUME NEW t \in Saves', NEW k \in DOMAIN jobs'[t].todo
          PROVE  jobs'[t].todo[k].id # x
        <3>1. CASE t = s
            BY <1>3, <1>8, <2>2, <3>1 DEF rest, todo, Born
        <3>2. CASE t # s
            BY <1>3, <2>2, <3>2 DEF Born
        <3> QED
            BY <3>1, <3>2
    <2> QED
        BY <2>1, <2>2 DEF Born
<1>13. r.id \notin Born
    BY <1>3, <1>5 DEF Born, todo
<1>14. r.id \in Born'
    <2>1. r.id \in 1 .. minted'
        BY <1>5, <1>10
    <2>2. ASSUME NEW t \in Saves', NEW k \in DOMAIN jobs'[t].todo
          PROVE  jobs'[t].todo[k].id # r.id
        <3>1. CASE t = s
            BY <1>5, <1>8, <1>10, <2>2, <3>1 DEF rest
        <3>2. CASE t # s
            BY <1>3, <1>5, <1>10, <2>2, <3>2
        <3> QED
            BY <3>1, <3>2
    <2> QED
        BY <2>1, <2>2 DEF Born
<1> QED
    BY <1>3, <1>5, <1>8, <1>9, <1>11, <1>12, <1>13, <1>14 DEF todo, rest

-----------------------------------------------------------------------------
(* What is kept of them *)

IdsInv == Numbered /\ Known /\ Seen /\ Asked

\* A folder's revision is saved after the revisions that move its items out.
MovesFirst ==
    \A l \in asked.removal.left \cap Ids(revs) :
        \/ \E q \in revs : l \in q.parents
        \/ /\ \A r \in revs : r.kind = "folder" => r.id \notin asked.removal.saved
           /\ \A s \in Saves : \A k \in DOMAIN jobs[s].todo :
                jobs[s].todo[k].kind = "folder" /\ jobs[s].todo[k].id \in asked.removal.saved
                => \E j \in DOMAIN jobs[s].todo : j < k /\ l \in jobs[s].todo[j].parents

\* What is known stays known of the same cache.
LEMMA SameCache ==
    ASSUME Known, Born \subseteq Born', UNCHANGED revs
    PROVE  Known'
BY DEF Known

LEMMA SameAsked ==
    ASSUME Asked, Born \subseteq Born', minted \in Nat, minted' \in Nat, minted <= minted',
           asked'.removal = asked.removal
    PROVE  Asked'
<1>1. 1 .. minted \subseteq 1 .. minted'
    OBVIOUS
<1> QED
    BY <1>1 DEF Asked

LEMMA SameMoves ==
    ASSUME MovesFirst, UNCHANGED revs, asked'.removal = asked.removal,
           Saves' \subseteq Saves, \A s \in Saves' : jobs'[s] = jobs[s]
    PROVE  MovesFirst'
BY DEF MovesFirst

\* To give out numbers.
LEMMA NothingNewKeepsIds ==
    ASSUME Shape, Shape', Held, IdsInv, NothingNew, UNCHANGED revs,
           asked'.removal = asked.removal,
           \/ ui'.records = ui.records
           \/ \E s \in DOMAIN jobs : jobs[s].at \in Lists /\ ui'.records = jobs[s].records
    PROVE  IdsInv' /\ (MovesFirst => MovesFirst')
<1>1. /\ DOMAIN jobs' = DOMAIN jobs /\ minted \in Nat /\ minted' = minted
      /\ \A s \in DOMAIN jobs : jobs'[s] = jobs[s] \/ jobs'[s].at \notin Carriers
      /\ minted <= minted' /\ minted' \in Nat
    BY DEF Shape, Held, NothingNew
<1>2. \A s \in DOMAIN jobs : jobs'[s] = jobs[s] \/ jobs'[s].at # "save"
    BY <1>1 DEF Carriers
<1>3. /\ Numbered' /\ Born \subseteq Born'
      /\ Saves' \subseteq Saves /\ \A s \in Saves' : jobs'[s] = jobs[s]
    BY <1>1, <1>2, QueueShrinks DEF IdsInv
<1>4. \A s \in DOMAIN jobs' : jobs'[s].at \in Lists => jobs'[s] = jobs[s]
    BY <1>1 DEF Carriers
<1>5. ShownIds(ui'.records) \subseteq Born
    BY DEF IdsInv, Seen
<1>6. Seen'
    BY <1>1, <1>3, <1>4, <1>5 DEF IdsInv, Seen, ShownIds
<1> QED
    BY <1>1, <1>3, <1>6, SameCache, SameAsked, SameMoves DEF IdsInv

LEMMA SaveAllKeepsIds ==
    ASSUME Shape, Shape', Held, IdsInv, NEW records \in Seq(Revision), SaveAll(records),
           UNCHANGED revs, ui'.records = ui.records
    PROVE  /\ Numbered' /\ Known' /\ Seen' /\ Born \subseteq Born'
           /\ minted <= minted' /\ minted' \in Nat
           /\ minted' = minted + Len(records)
           /\ DOMAIN records = 1 .. Len(records) /\ Len(records) \in Nat
           /\ \E s \in DOMAIN jobs \ Saves :
                /\ Saves' = Saves \cup {s} /\ \A t \in Saves : jobs'[t] = jobs[t]
                /\ DOMAIN jobs'[s].todo = DOMAIN records
                /\ \A k \in DOMAIN records :
                    /\ jobs'[s].todo[k].id = minted + k
                    /\ jobs'[s].todo[k].kind = records[k].kind
                    /\ jobs'[s].todo[k].parents = records[k].parents
<1>0. minted \in Nat /\ DOMAIN jobs' = DOMAIN jobs
    BY DEF Shape, Held
<1>1. PICK s \in DOMAIN jobs, todo \in Seq(Revision) :
              /\ s \in Slots /\ jobs[s] = Idle
              /\ jobs' = [jobs EXCEPT ![s] = [at |-> "save", todo |-> todo]]
              /\ Len(todo) = Len(records) /\ DOMAIN todo = DOMAIN records
              /\ DOMAIN records = 1 .. Len(records) /\ Len(records) \in Nat
              /\ minted' = minted + Len(records)
              /\ \A k \in DOMAIN records :
                    todo[k] = [records[k] EXCEPT !.id = minted + k] /\ todo[k].id = minted + k
                    /\ todo[k].kind = records[k].kind /\ todo[k].parents = records[k].parents
    BY Zenon, <1>0, SaveAllQueues
<1>2. PICK n \in Nat : n = Len(records)
    BY <1>1
<1>8. /\ DOMAIN todo = 1 .. n /\ minted' = minted + n
      /\ \A k \in 1 .. n : todo[k].id = minted + k
    BY <1>1, <1>2
<1>3. /\ Numbered' /\ Born \subseteq Born'
      /\ Saves' = Saves \cup {s} /\ s \notin Saves
      /\ \A t \in Saves : jobs'[t] = jobs[t]
      /\ jobs'[s].todo = todo
    <2>1. Numbered
        BY DEF IdsInv
    <2>2. jobs[s] = Idle /\ jobs' = [jobs EXCEPT ![s] = [at |-> "save", todo |-> todo]]
        BY Zenon, <1>1
    <2> QED
        BY ONLY Shape, <1>0, <1>8, <2>1, <2>2, QueueGrows
<1>4. minted <= minted' /\ minted' \in Nat
    BY <1>0, <1>1, <1>2
<1>5. \A t \in DOMAIN jobs' : jobs'[t].at \in Lists => jobs'[t] = jobs[t]
    <2>1. jobs'[s].at = "save" /\ \A t \in DOMAIN jobs \ {s} : jobs'[t] = jobs[t]
        BY <1>1
    <2> QED
        BY <1>0, <2>1 DEF Lists
<1>6. Seen'
    BY <1>0, <1>3, <1>5 DEF IdsInv, Seen, ShownIds
<1>7. Known'
    BY <1>3, SameCache DEF IdsInv
<1> QED
    BY <1>1, <1>3, <1>4, <1>6, <1>7

LEMMA SavingKeepsMoves ==
    ASSUME Shape, Shape', Held, IdsInv, MovesFirst,
           NEW records \in Seq(Revision), SaveAll(records),
           UNCHANGED revs, ui'.records = ui.records, asked'.removal = asked.removal
    PROVE  IdsInv' /\ MovesFirst'
<1>0. minted \in Nat
    BY DEF Held
<1>1. /\ Numbered' /\ Known' /\ Seen' /\ Born \subseteq Born'
      /\ minted <= minted' /\ minted' \in Nat
      /\ DOMAIN records = 1 .. Len(records) /\ Len(records) \in Nat
    BY SaveAllKeepsIds
<1>2. PICK s \in DOMAIN jobs \ Saves :
                /\ Saves' = Saves \cup {s} /\ \A t \in Saves : jobs'[t] = jobs[t]
                /\ DOMAIN jobs'[s].todo = DOMAIN records
                /\ \A k \in DOMAIN records : jobs'[s].todo[k].id = minted + k
    BY SaveAllKeepsIds
<1>3. Asked'
    BY <1>0, <1>1, SameAsked DEF IdsInv
<1>4. \A k \in DOMAIN jobs'[s].todo : jobs'[s].todo[k].id \notin asked.removal.saved
    <2>1. \A k \in DOMAIN records : minted + k \notin 1 .. minted
        BY <1>0, <1>1
    <2> QED
        BY <1>2, <2>1 DEF IdsInv, Asked
<1>5. MovesFirst'
    BY <1>2, <1>4 DEF MovesFirst
<1> QED
    BY <1>1, <1>3, <1>5 DEF IdsInv

\* The removal of a folder puts it last.
LEMMA RemovesInOrder ==
    ASSUME Shape, Shape', Held, IdsInv, NEW listed \in Seq(Grouped), Removes(listed),
           UNCHANGED revs, ui'.records = ui.records
    PROVE  IdsInv' /\ MovesFirst'
<1> DEFINE all == recordsForFolderRemoval(AtFolder, listed)
<1>0. minted \in Nat /\ AtFolder \in Grouped
    BY SelectedIsTyped DEF Held, Removes
<1>1. /\ all \in Seq(Revision) /\ Len(all) = Len(listed) + 1
      /\ DOMAIN listed = 1 .. Len(listed) /\ Len(listed) \in Nat
      /\ \A k \in 1 .. Len(listed) :
            all[k].parents = {listed[k].shown.id} /\ all[k].kind = listed[k].shown.kind
    BY <1>0, RemovalIsTyped
<1>2. asked' = [asked EXCEPT !.removal = [saved |-> minted + 1 .. minted + Len(all),
                                          left  |-> ShownIds(listed)]]
    BY DEF Removes
<1>3. SaveAll(all)
    BY DEF Removes
<1> HIDE DEF all
<1>4. /\ Numbered' /\ Known' /\ Seen' /\ Born \subseteq Born'
      /\ minted <= minted' /\ minted' \in Nat /\ minted' = minted + Len(all)
      /\ DOMAIN all = 1 .. Len(all)
    BY <1>1, <1>3, SaveAllKeepsIds
<1>5. PICK s \in DOMAIN jobs \ Saves :
                /\ Saves' = Saves \cup {s} /\ \A t \in Saves : jobs'[t] = jobs[t]
                /\ DOMAIN jobs'[s].todo = DOMAIN all
                /\ \A k \in DOMAIN all :
                    /\ jobs'[s].todo[k].id = minted + k
                    /\ jobs'[s].todo[k].kind = all[k].kind
                    /\ jobs'[s].todo[k].parents = all[k].parents
    BY <1>1, <1>3, SaveAllKeepsIds
<1>6. /\ asked'.removal.saved = minted + 1 .. minted'
      /\ asked'.removal.left = ShownIds(listed)
    BY <1>2, <1>4 DEF Shape
<1>7. ShownIds(listed) \subseteq ShownIds(ui.records)
    BY DEF Removes, ShownIds, ToSet
<1>8. Asked'
    <2>1. minted + 1 .. minted' \subseteq 1 .. minted'
        BY <1>0, <1>4
    <2> QED
        BY <1>4, <1>6, <1>7, <2>1 DEF IdsInv, Seen, Asked
<1>9. MovesFirst'
    <2> SUFFICES ASSUME NEW l \in ShownIds(listed)
                 PROVE  /\ \A r \in revs : r.id \notin asked'.removal.saved
                        /\ \A t \in Saves' : \A k \in DOMAIN jobs'[t].todo :
                             jobs'[t].todo[k].kind = "folder"
                             /\ jobs'[t].todo[k].id \in asked'.removal.saved
                             => \E j \in DOMAIN jobs'[t].todo :
                                    j < k /\ l \in jobs'[t].todo[j].parents
        BY <1>6 DEF MovesFirst
    <2>1. \A x \in 1 .. minted : x \notin asked'.removal.saved
        BY <1>0, <1>4, <1>6
    <2>2. \A r \in revs : r.id \notin asked'.removal.saved
        BY <2>1 DEF IdsInv, Known, Born
    <2>3. PICK j \in 1 .. Len(listed) : l = listed[j].shown.id
        BY <1>1 DEF ShownIds, ToSet
    <2>4. /\ j \in DOMAIN all /\ l \in all[j].parents
          /\ \A k \in DOMAIN all : k \in 1 .. Len(listed) \/ j < k
        BY <1>1, <1>4, <2>3
    <2>5. ASSUME NEW t \in Saves', NEW k \in DOMAIN jobs'[t].todo,
                 jobs'[t].todo[k].kind = "folder", jobs'[t].todo[k].id \in asked'.removal.saved
          PROVE  \E i \in DOMAIN jobs'[t].todo : i < k /\ l \in jobs'[t].todo[i].parents
        <3>1. CASE t \in Saves
            BY <1>5, <2>1, <2>5, <3>1 DEF IdsInv, Numbered
        <3>2. CASE t = s
            <4>1. k \in DOMAIN all /\ all[k].kind = "folder"
                BY <1>5, <2>5, <3>2
            <4>2. k \notin 1 .. Len(listed)
                BY <1>1, <4>1 DEF Removes
            <4>3. j < k
                BY <2>4, <4>1, <4>2
            <4> QED
                BY <1>5, <2>4, <3>2, <4>3
        <3> QED
            BY <1>5, <2>5, <3>1, <3>2
    <2> QED
        BY <2>2, <2>5
<1> QED
    BY <1>4, <1>8, <1>9 DEF IdsInv

-----------------------------------------------------------------------------
(* To store, and to bring *)

\* One revision more: its number is new, and its parents are of its item.
LEMMA AddedIsKnown ==
    ASSUME Known, Born \subseteq Born', NEW r, r.id \in Born', r.id \notin Born,
           r.parents \subseteq Born, \A q \in revs : q.id \in r.parents => q.item = r.item,
           revs' \subseteq revs \cup {r}
    PROVE  Known'
<1>1. \A q \in revs : q.id \in Born /\ q.parents \subseteq Born /\ q.id # r.id
    BY DEF Known
<1>2. r.id \notin r.parents /\ \A q \in revs : r.id \notin q.parents
    BY <1>1
<1>3. \A p, q \in revs' : p.id = q.id => p = q
    BY <1>1 DEF Known
<1>4. \A p, q \in revs' : p.id \in q.parents => p.item = q.item
    BY <1>1, <1>2 DEF Known
<1>5. \A p \in revs' : p.id \in Born' /\ p.parents \subseteq Born'
    BY <1>1
<1> QED
    BY <1>3, <1>4, <1>5 DEF Known

\* To store a revision.
LEMMA StoredIsNext ==
    ASSUME Shape, Shape', Held, IdsInv, UNCHANGED minted,
           NEW s \in DOMAIN jobs, NEW r, Stored(s, r)
    PROVE  /\ Numbered' /\ Born \subseteq Born'
           /\ r.id \in Born' /\ r.id \notin Born
           /\ Saves' = Saves /\ s \in Saves
           /\ \A t \in Saves \ {s} : jobs'[t] = jobs[t]
           /\ 1 \in DOMAIN jobs[s].todo /\ r = jobs[s].todo[1]
           /\ \A k \in DOMAIN jobs[s].todo : k \in Nat \ {0}
           /\ \A k \in DOMAIN jobs'[s].todo :
                /\ k \in Nat \ {0}
                /\ k + 1 \in DOMAIN jobs[s].todo /\ jobs'[s].todo[k] = jobs[s].todo[k + 1]
           /\ \A k \in DOMAIN jobs[s].todo :
                k > 1 => k - 1 \in DOMAIN jobs'[s].todo /\ jobs'[s].todo[k - 1] = jobs[s].todo[k]
<1>1. DOMAIN jobs' = DOMAIN jobs /\ Numbered
    BY DEF Shape, IdsInv
<1>2. jobs[s].todo \in Seq(Revision)
    BY DEF Held, Sound, Stored
<1>3. \A k \in DOMAIN jobs[s].todo : k \in Nat \ {0}
    BY <1>2
<1> QED
    BY <1>1, <1>2, <1>3, QueueAdvances

LEMMA StoringKeepsIds ==
    ASSUME Shape, Shape', Held, IdsInv, UNCHANGED <<minted, ui, asked>>,
           NEW s \in DOMAIN jobs, NEW r, Stored(s, r)
    PROVE  IdsInv'
<1>1. /\ Numbered' /\ Born \subseteq Born' /\ r.id \in Born' /\ r.id \notin Born
    BY StoredIsNext
<1>2. revs' \subseteq revs \cup {r}
    BY DEF Stored
<1>3. r.parents \subseteq Ids(Of(revs, r.item))
    BY DEF Stored, QueueMutation
<1>4. r.parents \subseteq Born /\ \A q \in revs : q.id \in r.parents => q.item = r.item
    BY <1>3 DEF IdsInv, Known, Ids, Of
<1>5. Known'
    BY <1>1, <1>2, <1>4, AddedIsKnown DEF IdsInv
<1>6. \A t \in DOMAIN jobs' : jobs'[t].at \in Lists => t \in DOMAIN jobs /\ jobs'[t] = jobs[t]
    BY DEF Stored, Lists
<1>7. Seen'
    BY <1>1, <1>6 DEF IdsInv, Seen, ShownIds
<1>8. Asked'
    BY <1>1 DEF IdsInv, Asked
<1> QED
    BY <1>1, <1>5, <1>7, <1>8 DEF IdsInv

LEMMA StoringKeepsMoves ==
    ASSUME Shape, Shape', Held, IdsInv, MovesFirst, UNCHANGED <<minted, ui, asked>>,
           NEW s \in DOMAIN jobs, NEW r, Stored(s, r)
    PROVE  MovesFirst'
<1> DEFINE saved == asked.removal.saved
<1> SUFFICES ASSUME NEW l \in asked.removal.left \cap Ids(revs')
             PROVE  \/ \E q \in revs' : l \in q.parents
                    \/ /\ \A q \in revs' : q.kind = "folder" => q.id \notin saved
                       /\ \A t \in Saves' : \A k \in DOMAIN jobs'[t].todo :
                            jobs'[t].todo[k].kind = "folder" /\ jobs'[t].todo[k].id \in saved
                            => \E j \in DOMAIN jobs'[t].todo :
                                 j < k /\ l \in jobs'[t].todo[j].parents
    BY DEF MovesFirst
<1>1. /\ r.id \notin Born /\ Saves' = Saves /\ s \in Saves
      /\ \A t \in Saves \ {s} : jobs'[t] = jobs[t]
      /\ 1 \in DOMAIN jobs[s].todo /\ r = jobs[s].todo[1]
      /\ \A k \in DOMAIN jobs[s].todo : k \in Nat \ {0}
      /\ \A k \in DOMAIN jobs'[s].todo :
            /\ k \in Nat \ {0}
            /\ k + 1 \in DOMAIN jobs[s].todo /\ jobs'[s].todo[k] = jobs[s].todo[k + 1]
      /\ \A k \in DOMAIN jobs[s].todo :
            k > 1 => k - 1 \in DOMAIN jobs'[s].todo /\ jobs'[s].todo[k - 1] = jobs[s].todo[k]
    BY StoredIsNext
<1>2. revs' \subseteq revs \cup {r} /\ r \in revs'
    BY DEF Stored
<1>3. l # r.id
    BY <1>1 DEF IdsInv, Asked
<1>4. PICK x \in revs : x \in revs' /\ x.id = l
    BY <1>2, <1>3 DEF Ids
<1>5. CASE \E q \in revs : l \in q.parents
    <2>1. PICK q \in revs : l \in q.parents
        BY <1>5
    <2>2. x.item = q.item
        BY <1>4, <2>1 DEF IdsInv, Known
    <2>3. q \in revs'
        BY <1>3, <1>4, <2>2 DEF Stored, Of
    <2> QED
        BY <2>1, <2>3
<1>6. CASE /\ \A q \in revs : q.kind = "folder" => q.id \notin saved
           /\ \A t \in Saves : \A k \in DOMAIN jobs[t].todo :
                jobs[t].todo[k].kind = "folder" /\ jobs[t].todo[k].id \in saved
                => \E j \in DOMAIN jobs[t].todo : j < k /\ l \in jobs[t].todo[j].parents
    <2>1. CASE l \in r.parents
        BY <1>2, <2>1
    <2>2. CASE l \notin r.parents
        <3>1. r.kind = "folder" => r.id \notin saved
            <4> SUFFICES ASSUME r.kind = "folder", r.id \in saved PROVE FALSE
                OBVIOUS
            <4>1. \E j \in DOMAIN jobs[s].todo : j < 1
                BY <1>1, <1>6
            <4> QED
                BY <1>1, <4>1
        <3>2. \A q \in revs' : q.kind = "folder" => q.id \notin saved
            BY <1>2, <1>6, <3>1
        <3>3. ASSUME NEW t \in Saves', NEW k \in DOMAIN jobs'[t].todo,
                     jobs'[t].todo[k].kind = "folder", jobs'[t].todo[k].id \in saved
              PROVE  \E j \in DOMAIN jobs'[t].todo : j < k /\ l \in jobs'[t].todo[j].parents
            <4>1. CASE t # s
                BY <1>1, <1>6, <3>3, <4>1
            <4>2. CASE t = s
                <5>1. /\ k \in Nat \ {0} /\ k + 1 \in DOMAIN jobs[s].todo
                      /\ jobs'[s].todo[k] = jobs[s].todo[k + 1]
                    BY <1>1, <3>3, <4>2
                <5>2. PICK j \in DOMAIN jobs[s].todo :
                            j < k + 1 /\ l \in jobs[s].todo[j].parents
                    BY <1>1, <1>6, <3>3, <4>2, <5>1
                <5>3. j \in Nat \ {0} /\ j # 1
                    BY <1>1, <2>2, <5>2
                <5>4. j > 1 /\ j - 1 < k
                    BY <5>1, <5>2, <5>3
                <5>5. /\ j - 1 \in DOMAIN jobs'[s].todo
                      /\ jobs'[s].todo[j - 1] = jobs[s].todo[j]
                    BY <1>1, <5>2, <5>4
                <5> QED
                    BY <4>2, <5>2, <5>4, <5>5
            <4> QED
                BY <4>1, <4>2
        <3> QED
            BY <3>2, <3>3
    <2> QED
        BY <2>1, <2>2
<1>7. l \in asked.removal.left \cap Ids(revs)
    BY <1>4 DEF Ids
<1> QED
    BY <1>5, <1>6, <1>7 DEF MovesFirst

LEMMA StoringKeepsRoots ==
    ASSUME OneRootPerItem, NEW s, NEW r, Stored(s, r)
    PROVE  OneRootPerItem'
<1>1. revs' \subseteq revs \cup {r}
    BY DEF Stored
<1>2. r.parents = {} => \A q \in revs : q.item # r.item
    BY DEF Stored, QueueMutation, Of
<1> QED
    BY <1>1, <1>2 DEF OneRootPerItem

\* What a synchronization brings has a number of its own.
LEMMA BroughtIsNew ==
    ASSUME Held, NEW r \in Theirs
    PROVE  LET n == [r EXCEPT !.id = minted + 1] IN
           n.id = minted + 1 /\ n.item = r.item /\ n.parents = r.parents /\ n.kind = r.kind
<1>1. r \in Revision
    BY TheirsAreTyped DEF Held
<1> QED
    BY <1>1 DEF Revision

LEMMA BringingNumbers ==
    ASSUME Held, Numbered, DOMAIN jobs' = DOMAIN jobs, NEW more, Brought(more),
           NEW s \in DOMAIN jobs, NEW job, jobs' = [jobs EXCEPT ![s] = job], job.at # "save"
    PROVE  /\ Numbered' /\ Born \subseteq Born'
           /\ minted \in Nat /\ minted' \in Nat /\ minted <= minted'
           /\ minted + 1 .. minted' \subseteq Born'
           /\ minted + 1 \notin 1 .. minted /\ minted + 1 \notin Born
           /\ Saves' \subseteq Saves /\ \A t \in Saves' : jobs'[t] = jobs[t]
<1>1. minted \in Nat /\ minted' \in Nat /\ minted <= minted' /\ minted + 1 \notin 1 .. minted
    BY DEF Held, Brought
<1>2. \A t \in DOMAIN jobs : jobs'[t] = jobs[t] \/ jobs'[t].at # "save"
    OBVIOUS
<1>3. minted + 1 \notin Born
    BY <1>1 DEF Born
<1> QED
    BY <1>1, <1>2, <1>3, QueueShrinks

LEMMA BringingKeepsIds ==
    ASSUME Shape, Shape', Held, Held', IdsInv, UNCHANGED <<ui, asked>>, NEW more, Brought(more),
           NEW s \in DOMAIN jobs, NEW job, jobs' = [jobs EXCEPT ![s] = job],
           job.at # "save", Answer(job)
    PROVE  IdsInv'
<1>0. DOMAIN jobs' = DOMAIN jobs /\ Numbered /\ Known
    BY DEF Shape, IdsInv
<1>1. /\ Numbered' /\ Born \subseteq Born'
      /\ minted \in Nat /\ minted' \in Nat /\ minted <= minted'
      /\ minted + 1 .. minted' \subseteq Born'
      /\ minted + 1 \notin 1 .. minted /\ minted + 1 \notin Born
    BY <1>0, BringingNumbers
<1>2. Known'
    <2>1. CASE more = {}
        BY <1>0, <1>1, <2>1, SameCache DEF Brought
    <2>2. CASE more # {}
        <3>1. PICK r \in Theirs : more = {[r EXCEPT !.id = minted + 1]} /\ minted' = minted + 1
            BY <2>2 DEF Brought
        <3>2. PICK n : n = [r EXCEPT !.id = minted + 1]
            OBVIOUS
        <3>3. n.id = minted + 1 /\ n.item = r.item /\ n.parents = r.parents
            BY <3>2, BroughtIsNew
        <3>4. n.id \in Born' /\ n.id \notin Born
            BY <1>1, <3>1, <3>3
        <3>5. \/ \E h \in revs : /\ r.item = h.item
                                 /\ r.parents = {h.id} \/ r.parents = h.parents
              \/ r.parents = {}
            BY TheirsAreTyped DEF Held
        <3>6. r.parents \subseteq Born /\ \A q \in revs : q.id \in r.parents => q.item = r.item
            BY <1>0, <3>5 DEF Known
        <3>7. revs' \subseteq revs \cup {n}
            BY <3>1, <3>2 DEF Brought
        <3> QED
            BY <1>0, <1>1, <3>3, <3>4, <3>6, <3>7, AddedIsKnown
    <2> QED
        BY <2>1, <2>2
<1>3. \A R \in SUBSET Revision : IsFiniteSet(R) => ShownIds(Listed(R)) \subseteq Ids(R)
    BY ListedIsTyped
<1>4. PICK R : R = revs'
    OBVIOUS
<1>5. PICK B : B = Born'
    OBVIOUS
<1>6. Ids(R) \subseteq B /\ Ids(revs) \subseteq B
    BY <1>0, <1>1, <1>2, <1>4, <1>5 DEF Known, Ids
<1>7. ShownIds(Listed(R)) \subseteq B /\ ShownIds(Listed(revs)) \subseteq B
    BY <1>3, <1>4, <1>6 DEF Held
<1>8. ShownIds(<<>>) \subseteq B
    BY DEF ShownIds, ToSet
<1>9. job.at \in Lists => ShownIds(job.records) \subseteq B
    BY <1>4, <1>7, <1>8 DEF Answer
<1>10. \A t \in DOMAIN jobs' : jobs'[t].at \in Lists => ShownIds(jobs'[t].records) \subseteq B
    BY <1>0, <1>1, <1>5, <1>9 DEF IdsInv, Seen
<1>11. Seen'
    BY <1>1, <1>5, <1>10 DEF IdsInv, Seen, ShownIds
<1>12. Asked'
    BY <1>1, SameAsked DEF IdsInv
<1> QED
    BY <1>1, <1>2, <1>11, <1>12 DEF IdsInv

LEMMA BringingKeepsMoves ==
    ASSUME Shape, Shape', Held, IdsInv, MovesFirst, UNCHANGED <<ui, asked>>,
           NEW more, Brought(more),
           NEW s \in DOMAIN jobs, NEW job, jobs' = [jobs EXCEPT ![s] = job], job.at # "save"
    PROVE  MovesFirst'
<1>0. DOMAIN jobs' = DOMAIN jobs /\ Numbered
    BY DEF Shape, IdsInv
<1>1. /\ minted + 1 \notin 1 .. minted /\ minted + 1 \notin Born
      /\ Saves' \subseteq Saves /\ \A t \in Saves' : jobs'[t] = jobs[t]
    BY <1>0, BringingNumbers
<1>2. \A q \in revs' : q \in revs \/ q.id = minted + 1
    BY BroughtIsNew DEF Brought
<1>3. revs \subseteq revs'
    BY DEF Brought
<1>4. asked.removal.left \cap Ids(revs') \subseteq asked.removal.left \cap Ids(revs)
    BY <1>1, <1>2 DEF IdsInv, Asked, Ids
<1>5. \A q \in revs' : q.id \in asked.removal.saved => q \in revs
    BY <1>1, <1>2 DEF IdsInv, Asked
<1> QED
    BY <1>1, <1>3, <1>4, <1>5 DEF MovesFirst

LEMMA BringingKeepsRoots ==
    ASSUME Held, OneRootPerItem, NEW more, Brought(more)
    PROVE  OneRootPerItem'
<1>1. CASE more = {}
    BY <1>1 DEF OneRootPerItem, Brought
<1>2. CASE more # {}
    <2>1. PICK r \in Theirs : more = {[r EXCEPT !.id = minted + 1]}
        BY <1>2 DEF Brought
    <2>2. PICK n : n = [r EXCEPT !.id = minted + 1]
        OBVIOUS
    <2>3. n.item = r.item /\ n.parents = r.parents
        BY <2>2, BroughtIsNew
    <2>4. CASE r.parents = {} /\ \A q \in revs : q.item # r.item
        BY ZenonT(40), <2>1, <2>2, <2>3, <2>4 DEF OneRootPerItem, Brought
    <2>5. CASE r.parents # {}
        BY ZenonT(40), <2>1, <2>2, <2>3, <2>5 DEF OneRootPerItem, Brought
    <2>6. \/ \E h \in revs : /\ r.item = h.item /\ r.parents # {}
                             /\ r.parents = {h.id} \/ r.parents = h.parents
          \/ r.parents = {} /\ \A q \in revs : q.item # r.item
        BY TheirsAreTyped DEF Held
    <2> QED
        BY <2>4, <2>5, <2>6
<1> QED
    BY <1>1, <1>2

-----------------------------------------------------------------------------
(* The invariant *)

Kept == IdsInv /\ MovesFirst /\ OneRootPerItem

LEMMA InitKept == Init => Kept
<1> SUFFICES ASSUME Init PROVE Kept
    OBVIOUS
<1>1. /\ revs \subseteq Revision /\ IsFiniteSet(revs) /\ Ids(revs) = 1 .. minted
      /\ \A r, q \in revs : r.id = q.id => r = q
      /\ \A r, q \in revs : r.item = q.item /\ r.parents = {} /\ q.parents = {} => r = q
      /\ \A r \in revs : r.parents \subseteq Ids(Of(revs, r.item))
    BY ErrandsAssumption DEF Init, ErrandsAssumption
<1>2. \A s \in DOMAIN jobs : jobs[s].at \in {"idle", "sync"}
    BY DEF Init, Idle
<1>3. Saves = {} /\ \A s \in DOMAIN jobs : jobs[s].at \notin Lists
    BY <1>2 DEF Saves, Lists
<1>4. Born = 1 .. minted /\ Numbered
    BY <1>3 DEF Born, Numbered
<1>5. Known
    BY <1>1, <1>4 DEF Known, Ids, Of
<1>6. Seen
    <2>1. ShownIds(ui.records) \subseteq Ids(revs)
        BY <1>1, ListedIsTyped DEF Init
    <2> QED
        BY <1>1, <1>3, <1>4, <2>1 DEF Seen
<1>7. asked.removal.left = {} /\ asked.removal.saved = {}
    BY DEF Init
<1> QED
    BY <1>1, <1>4, <1>5, <1>6, <1>7 DEF Kept, IdsInv, Asked, MovesFirst, OneRootPerItem

LEMMA KeptStays ==
    ASSUME Shape, Shape', Held, Held', Kept, [Next]_vars
    PROVE  Kept'
<1>0. IdsInv /\ MovesFirst /\ OneRootPerItem
    BY DEF Kept
<1>1. UNCHANGED revs => OneRootPerItem'
    BY <1>0 DEF OneRootPerItem
<1>2. CASE Handled
    <2>1. UNCHANGED revs /\ ui'.records = ui.records /\ asked'.removal = asked.removal
        BY <1>2 DEF Handled
    <2>2. IdsInv' /\ MovesFirst'
        BY <1>0, <1>2, <2>1, NothingNewKeepsIds, SavingKeepsMoves DEF Handled
    <2> QED
        BY <1>1, <2>1, <2>2 DEF Kept
<1>3. CASE /\ UNCHANGED revs /\ ui'.records = ui.records
           /\ \E listed \in Seq(Grouped) : Removes(listed)
    BY <1>0, <1>1, <1>3, RemovesInOrder DEF Kept
<1>4. CASE /\ UNCHANGED <<errand, minted, ui, asked>>
           /\ \E s \in DOMAIN jobs, r \in Revision : Stored(s, r)
    BY <1>0, <1>4, StoringKeepsIds, StoringKeepsMoves, StoringKeepsRoots DEF Kept
<1>5. CASE /\ UNCHANGED <<errand, ui, asked>>
           /\ \E more : Brought(more)
           /\ \E s \in DOMAIN jobs : \E job :
                 jobs' = [jobs EXCEPT ![s] = job] /\ job.at # "save" /\ Answer(job)
    BY <1>0, <1>5, BringingKeepsIds, BringingKeepsMoves, BringingKeepsRoots DEF Kept
<1>6. CASE /\ UNCHANGED <<errand, revs, minted, asked>> /\ NothingNew
           /\ \/ ui'.records = ui.records
              \/ \E s \in DOMAIN jobs :
                     jobs[s].at \in Lists /\ ui'.records = jobs[s].records
    BY <1>0, <1>1, <1>6, NothingNewKeepsIds DEF Kept
<1> QED
    BY <1>2, <1>3, <1>4, <1>5, <1>6, StepsAre

\* The inductive invariant of the lists and of the cache behind them.
DataInv == IInv /\ Held /\ Kept

LEMMA DataInvHolds == Spec => []DataInv
<1>1. Init => DataInv
    BY InitIInv, InitHeld, InitKept DEF DataInv
<1>2. DataInv /\ [Next]_vars => DataInv'
    <2> SUFFICES ASSUME DataInv, [Next]_vars PROVE DataInv'
        OBVIOUS
    <2>1. IInv'
        BY NextIInv DEF DataInv
    <2>2. Shape /\ Shape' /\ Held /\ Kept
        BY <2>1 DEF DataInv, IInv, CheckInv
    <2>3. Held'
        BY <2>2, HeldStays
    <2>4. Kept'
        BY <2>2, <2>3, KeptStays
    <2> QED
        BY <2>1, <2>3, <2>4 DEF DataInv
<1> QED
    BY <1>1, <1>2, PTL DEF Spec

-----------------------------------------------------------------------------
(* Theorems about them *)

\* The selected item, folder and deleted item are there to be acted on, whatever a
\* save or a synchronization lists anew under whatever filter (setRecords,
\* trashMsg, the keys that filter and move).
THEOREM SelectionsAlwaysStand == Spec => []SelectionsStand
<1>1. DataInv => SelectionsStand
    <2> SUFFICES ASSUME DataInv PROVE SelectionsStand
        OBVIOUS
    <2>1. Shape /\ Usable(ui)
        BY DEF DataInv, IInv, CheckInv, Held
    <2> QED
        BY <2>1 DEF Shape, Usable, Standing, Screens, SelectionsStand, HasSelected, HasFolder,
                    HasTrash
<1> QED
    BY <1>1, DataInvHolds, PTL

\* A folder is not in the trash before a version that was listed in it has a
\* successor outside, wherever the save was interrupted and whatever was
\* synchronized meanwhile (recordsForFolderRemoval, saveItems).
THEOREM RemovalsMoveItemsFirst == Spec => []RemovalMovesItemsFirst
<1>1. DataInv => RemovalMovesItemsFirst
    BY DEF DataInv, Kept, MovesFirst, RemovalMovesItemsFirst
<1> QED
    BY <1>1, DataInvHolds, PTL

\* No item has two roots, however often a form or an import is entered while its
\* save runs, or after another's answer unlocked it (itemSaving, QueueMutation).
THEOREM ItemsHaveOneRoot == Spec => []OneRootPerItem
<1>1. DataInv => OneRootPerItem
    BY DEF DataInv, Kept
<1> QED
    BY <1>1, DataInvHolds, PTL

=============================================================================
