-------------------------------- MODULE Editor --------------------------------
(***************************************************************************)
(* The editor of kitchen-gui in one browser: the application being edited, *)
(* its undo buffer, the flag that it has unsaved changes, and the saves on *)
(* their way to the server.  Every operation on the tree of the            *)
(* application ends in App.setModified.                                    *)
(***************************************************************************)
EXTENDS KitchenTree, FiniteSets

CONSTANTS Projects, First,
          Initial,        \* the tree the applications have at first
          Typed,          \* names users type, as toSnakeCase leaves them
          Params,         \* names of parameters that queries have
          WizardChoices,  \* <<create a page, forms>> the wizard is asked for
          UndoLimit,      \* 100 in the code
          MaxSteps,       \* bound: edits, calls of saveApp, applications opened
          MaxSaving,      \* bound: saves on their way
          None            \* no tree

ASSUME EditorAssumption ==
    /\ First \in Projects
    /\ UndoLimit \in Nat /\ UndoLimit > 1
    /\ MaxSteps \in Nat
    /\ IsFiniteSet(Params)
    /\ WizardChoices \subseteq BOOLEAN \X SUBSET {"insert", "update", "details"}
    /\ WellFormed(Initial, Cardinality(Present(Initial)))

VARIABLES
    open,     \* App.projectData._id
    project,  \* App.project
    modified, \* App.projectModified
    buffer,   \* App.undoBuffer
    pointer,  \* App.undoPointer
    offer,    \* a new page the user is asked to add to the menu, or Nowhere
    saving,   \* calls of saveApp, from the browser to the server and back
    stored,   \* the data of the applications on the server
    steps, born,
    \* history
    odd,       \* pages that were ambiguous once
    recorded,  \* the last undo point has the project as it is
    before,    \* the tree before the last edit, if one undo takes that back
    overtaken  \* the project has changed or a save failed since a save began

vars == <<open, project, modified, buffer, pointer, offer, saving, stored, steps, born,
          odd, recorded, before, overtaken>>

SaveStates == {"sent", "done", "failed"}

TypeOK ==
    /\ open \in Projects
    /\ project.parent \in [Pages -> Spots \cup {Nowhere}]
    /\ DOMAIN project.name = Pages
    /\ \A l \in project.links : l.in \in Present(project) \cup Zones
    /\ \A u \in project.uses : u.in \in Present(project) \cup Zones
    /\ modified \in BOOLEAN
    /\ Len(buffer) \in 1 .. UndoLimit
    /\ pointer \in 0 .. Len(buffer) - 1
    /\ offer \in Present(project) \cup {Nowhere}
    /\ \A i \in DOMAIN saving : saving[i].id \in Projects /\ saving[i].state \in SaveStates
    /\ DOMAIN stored = Projects
    /\ steps \in 0 .. MaxSteps /\ born \in 0 .. MaxPages
    /\ odd \subseteq Pages
    /\ recorded \in BOOLEAN /\ overtaken \in BOOLEAN

-----------------------------------------------------------------------------
(* Undo.                                                                   *)

\* addUndoPoint drops one entry of what could be redone: Array.splice(-1, n)
\* removes from the last entry on, which is one.
Kept == IF pointer < Len(buffer) - 1 THEN SubSeq(buffer, 1, Len(buffer) - 1) ELSE buffer

\* Mutant: the buffer has no limit.
AddUndoPointsUnlimited(ks) == buffer' = Kept \o ks /\ pointer' = Len(buffer') - 1

\* Mutant: what could be redone stays in the buffer.
AddUndoPointsKeepRedo(ks) ==
    LET all == buffer \o ks
    IN  /\ buffer' = SubSeq(all, (IF Len(all) > UndoLimit THEN Len(all) - UndoLimit ELSE 0) + 1,
                            Len(all))
        /\ pointer' = Len(buffer') - 1

\* A call of addUndoPoint for each of the trees ks; the oldest entries go.
AddUndoPoints(ks) ==
    LET all == Kept \o ks
    IN  /\ buffer' = SubSeq(all, (IF Len(all) > UndoLimit THEN Len(all) - UndoLimit ELSE 0) + 1,
                            Len(all))
        /\ pointer' = Len(buffer') - 1

Observe(k) ==
    /\ odd' = odd \cup Ambiguous(k)
    /\ overtaken' = (overtaken \/ saving # <<>>)

\* Calls of setModified at the trees ks, in turn.  The tree becomes k, and one
\* undo takes it back to b.
SetModifiedAt(ks, k, b) ==
    /\ steps < MaxSteps
    /\ steps' = steps + 1
    /\ project' = k
    /\ modified' = TRUE
    /\ AddUndoPoints(ks)
    /\ Observe(k)
    /\ recorded' = (ks[Len(ks)] = k)
    /\ before' = b
    /\ UNCHANGED <<open, saving, stored>>

\* setModified after the tree has become k.
SetModified(k) ==
    SetModifiedAt(<<k>>, k,
                  IF recorded /\ (Len(buffer) - 1) - pointer < 2 THEN project ELSE None)

\* Mutant: undo does not count as a change.
LoadUnmodified(i) ==
    /\ project' = buffer[i + 1]
    /\ pointer' = i
    /\ Observe(buffer[i + 1])
    /\ recorded' = TRUE
    /\ before' = None
    /\ UNCHANGED <<open, modified, buffer, offer, saving, stored, steps, born>>

\* undo and redo load another entry of the buffer.
Load(i) ==
    /\ project' = buffer[i + 1]
    /\ pointer' = i
    /\ modified' = TRUE
    /\ Observe(buffer[i + 1])
    /\ recorded' = TRUE
    /\ before' = None
    /\ UNCHANGED <<open, buffer, offer, saving, stored, steps, born>>

Undo == offer = Nowhere /\ pointer > 0 /\ Load(pointer - 1)
Redo == offer = Nowhere /\ pointer < Len(buffer) - 1 /\ Load(pointer + 1)

-----------------------------------------------------------------------------
(* Operations on the tree.  A dialog keeps the user from everything else.  *)

Edit(k) == offer = Nowhere /\ SetModified(k) /\ UNCHANGED <<offer, born>>

\* pageEditorAddObject of a page, after which the user is asked for a link.
AddNewPage ==
    /\ offer = Nowhere /\ born < MaxPages
    /\ \E z \in Present(project) \cup Zones, n \in Typed :
          SetModified(AddPage(project, z, born + 1, n))
    /\ born' = born + 1
    /\ offer' = born + 1

\* newPageAddToMenu: a link beside the page, or none.
AddToMenu ==
    /\ offer # Nowhere
    /\ SetModified(AddLink(project, project.parent[offer], offer))
    /\ offer' = Nowhere
    /\ UNCHANGED born

AddToNoMenu ==
    /\ offer # Nowhere
    /\ offer' = Nowhere
    /\ UNCHANGED <<open, project, modified, buffer, pointer, saving, stored, steps, born,
                   odd, recorded, before, overtaken>>

StartCrudWizard ==
    /\ offer = Nowhere
    /\ \E w \in WizardChoices, z \in Present(project) \cup Zones, c \in project.collections :
         LET n == Cardinality(w[2]) + (IF w[1] THEN 1 ELSE 0)
         IN  /\ w[1] \/ z \notin Zones       \* a zone always gets a page
             /\ born + n <= MaxPages
             /\ SetModified(Wizard(project, z, c, w[1], w[2], born + 1))
             /\ born' = born + n
             /\ offer' = IF w[1] THEN born + 1 ELSE Nowhere

RenameAPage ==
    \E p \in Present(project), n \in Typed :
        /\ NameIsFree(NamesIn(project, project.parent[p]) \ {project.name[p]}, n)
        /\ Edit(RenamePage(project, p, n))

RemoveAPage == \E p \in Present(project) : Edit(RemovePage(project, p))

\* move-up and move-down: the order of pages is no part of this model.
MoveAPage == Present(project) # {} /\ Edit(project)

MenuEditorAddItem == \E z \in Present(project) \cup Zones : Edit(AddItem(project, z))

SelectARoute == \E l \in project.links, p \in Present(project) \cup {Nowhere} :
                    Edit(SelectRoute(project, l, p))

RemoveALink == \E l \in project.links : Edit([project EXCEPT !.links = @ \ {l}])

AddAComponent == \E z \in Present(project) \cup Zones : Edit(UseQuery(project, z, Nameless))

\* The autorun of the Data Source view, which shows component u of k, merges
\* the parameters of its query.  It calls setModified for each parameter that is
\* no longer used, then removes as many, the first ones; then the missing come,
\* with a call for each, those among them that have just gone for no reason.
\* Which they are is up to the filter of the query, the route of the page and
\* the order of the parameters, which are no part of the tree.  Before, n calls
\* were made at k itself.
MergeParams(k, u, n) ==
    \E gone \in SUBSET Params, m \in 0 .. Cardinality(Params) :
    \E new \in [1 .. m -> Params \ (u.params \ gone)] :
        LET Merged(i) == WithParams(k, u, (u.params \ gone) \cup {new[j] : j \in 1 .. i})
            at == n + Cardinality(gone)     \* calls at k
        IN  /\ gone \subseteq u.params
            /\ \A i, j \in 1 .. m : new[i] = new[j] => i = j
            /\ at + m > n
            /\ SetModifiedAt([i \in 1 .. at + m |-> IF i <= at THEN k ELSE Merged(i - at)],
                             Merged(m), None)

\* The change handler of the Data Source view.  If the parameters of the query
\* differ, the autorun merges them before anything else.
SelectAQuery ==
    /\ offer = Nowhere
    /\ \E u \in project.uses, n \in QueryNames(project) \cup {Nameless} :
         LET v == [u EXCEPT !.query = n]
             k == [project EXCEPT !.uses = (@ \ {u}) \cup {v}]
         IN  /\ n # u.query
             /\ SetModified(k) \/ (n \in QueryNames(project) /\ MergeParams(k, v, 1))
    /\ UNCHANGED <<offer, born>>

\* The autorun runs too when the Data Source view is opened, and when the
\* application changes while it is shown, as undo and redo do.
ShowData ==
    /\ offer = Nowhere
    /\ \E u \in project.uses : u.query \in QueryNames(project) /\ MergeParams(project, u, 0)
    /\ UNCHANGED <<offer, born>>

\* designerAddObject calls setModified twice.
DesignerAddObject ==
    /\ offer = Nowhere
    /\ LET k == [project EXCEPT !.rest = ~@] IN SetModifiedAt(<<k, k>>, k, None)
    /\ UNCHANGED <<offer, born>>

RemoveAComponent == \E u \in project.uses : Edit([project EXCEPT !.uses = @ \ {u}])

AddACollection == \E n \in Typed : Edit(AddCollection(project, n))

RenameACollection == \E c \in project.collections, n \in Typed :
    NameIsFree(project.collections \ {c}, n) /\ Edit(RenameCollection(project, c, n))

RemoveACollection == \E c \in project.collections : Edit(RemoveCollection(project, c))

AddAQuery == \E n \in Typed, c \in project.collections \cup {Nameless} :
    Edit(AddQuery(project, n, c))

RenameAQuery == \E q \in project.queries, n \in Typed :
    NameIsFree(QueryNames(project) \ {q.name}, n) /\ Edit(RenameQuery(project, q, n))

RemoveAQuery == \E q \in project.queries : Edit(RemoveQuery(project, q))

\* The built-in collection users, which is never renamed, is not among the
\* choices.
SelectACollection == \E q \in project.queries, c \in project.collections \cup {Nameless} :
    Edit([project EXCEPT !.queries = (@ \ {q}) \cup {[q EXCEPT !.collection = c]}])

-----------------------------------------------------------------------------
(* Saving.                                                                 *)

SendSave(k) ==
    /\ Len(saving) < MaxSaving
    /\ saving' = Append(saving, [id |-> open, data |-> k, state |-> "sent"])
    /\ overtaken' = (overtaken /\ saving # <<>>)

\* saveApp of the menu, which is enabled while there are changes.
SaveApp ==
    /\ offer = Nowhere
    /\ modified
    /\ SendSave(project)
    /\ steps < MaxSteps
    /\ steps' = steps + 1
    /\ UNCHANGED <<open, project, modified, buffer, pointer, offer, stored, born,
                   odd, recorded, before>>

\* The build options change the application without setModified: they save
\* it, unless it has unsaved changes anyway.
SaveBuildOptions ==
    /\ offer = Nowhere
    /\ steps < MaxSteps
    /\ steps' = steps + 1
    /\ project' = [project EXCEPT !.rest = ~@]
    /\ IF modified THEN UNCHANGED <<saving>> /\ overtaken' = (overtaken \/ saving # <<>>)
                   ELSE SendSave(project')
    /\ recorded' = FALSE
    /\ before' = None
    /\ UNCHANGED <<open, modified, buffer, pointer, offer, stored, born, odd>>

\* saveApp on the server, in the order of the calls.  It fails if the
\* application is gone.
ServerSaves ==
    \E i \in DOMAIN saving, ok \in BOOLEAN :
        /\ saving[i].state = "sent"
        /\ \A j \in 1 .. i - 1 : saving[j].state # "sent"
        /\ saving' = [saving EXCEPT ![i].state = IF ok THEN "done" ELSE "failed"]
        /\ stored' = IF ok THEN [stored EXCEPT ![saving[i].id] = saving[i].data] ELSE stored
        /\ overtaken' = (overtaken \/ ~ok)
        /\ UNCHANGED <<open, project, modified, buffer, pointer, offer, steps, born, odd,
                       recorded, before>>

\* The callback: there are no unsaved changes, whatever the answer was and
\* whatever has happened since.
SaveReturns ==
    /\ saving # <<>>
    /\ Head(saving).state # "sent"
    /\ saving' = Tail(saving)
    /\ modified' = FALSE
    /\ UNCHANGED <<open, project, buffer, pointer, offer, stored, steps, born,
                   odd, recorded, before, overtaken>>

\* Another application is opened; unsaved changes are lost.
OpenProject ==
    /\ offer = Nowhere
    /\ steps < MaxSteps
    /\ steps' = steps + 1
    /\ \E id \in Projects \ {open} :
         /\ open' = id
         /\ project' = stored[id]
         /\ buffer' = <<stored[id]>>
         /\ pointer' = 0
         /\ Observe(stored[id])
    /\ modified' = FALSE
    /\ recorded' = TRUE
    /\ before' = None
    /\ UNCHANGED <<offer, saving, stored, born>>

Init ==
    /\ open = First
    /\ project = Initial
    /\ modified = FALSE
    /\ buffer = <<Initial>> /\ pointer = 0
    /\ offer = Nowhere
    /\ saving = <<>>
    /\ stored = [id \in Projects |-> Initial]
    /\ steps = 0
    /\ born = Cardinality(Present(Initial))
    /\ odd = Ambiguous(Initial)
    /\ recorded = TRUE /\ before = None /\ overtaken = FALSE

EditPages == AddNewPage \/ AddToMenu \/ AddToNoMenu \/ StartCrudWizard \/ RenameAPage
             \/ RemoveAPage \/ MoveAPage \/ MenuEditorAddItem \/ SelectARoute \/ RemoveALink
EditData == AddAComponent \/ SelectAQuery \/ ShowData \/ DesignerAddObject
            \/ RemoveAComponent \/ AddACollection \/ RenameACollection \/ RemoveACollection
            \/ AddAQuery \/ RenameAQuery \/ RemoveAQuery \/ SelectACollection
Save == SaveApp \/ SaveBuildOptions \/ ServerSaves \/ SaveReturns \/ OpenProject

Next == EditPages \/ EditData \/ Undo \/ Redo \/ Save

Spec == Init /\ [][Next]_vars

-----------------------------------------------------------------------------
\* An application whose references are intact, and users who type names: one
\* of symbols only is no name after toSnakeCase, and passes the check for
\* empty input, which is made before.
SoundAtFirst == Named(Initial) /\ NamesDiffer(Initial) /\ Declared(Initial) /\ Linked(Initial)
NamesTyped == Nameless \notin Typed

\* References survive every sequence of edits, undo and redo: a link leads to
\* the page it was set to while that exists and to none when it is gone, and
\* the names of queries and collections in use are declared.  Excepted are
\* pages that could not be told apart by route.
ReferencesIntact ==
    /\ \A l \in project.links : l.goal \notin odd => LinkFollows(project, l)
    /\ Declared(project)
    /\ NamesDiffer(project)

\* Undo takes back the last edit, no more and no less.  Excepted are edits that
\* make several undo points: designerAddObject, and the choice of a query whose
\* parameters have to be merged; what the Data Source view merges, also without
\* such a choice, since it merges it again after an undo; edits before which two
\* or more undone ones could have been redone; and changes that the last undo
\* point does not have: options, and parameters that went.
UndoTakesBack ==
    /\ recorded => buffer[pointer + 1] = project
    /\ before # None => pointer > 0 /\ buffer[pointer] = before

\* With no unsaved changes shown and no save on its way, the server has the
\* project as it is in the editor, unless a change overtook a save that was
\* on its way or the server refused one.
UnmodifiedIsStored ==
    (~modified /\ saving = <<>> /\ ~overtaken) => stored[open] = project

=============================================================================
