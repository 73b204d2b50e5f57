----------------------------- MODULE KitchenTree -----------------------------
(***************************************************************************)
(* The object tree of an application (kitchen-base) as far as its parts    *)
(* refer to each other by name: pages, the route properties that lead to   *)
(* pages, queries, the components that show them, and collections; and     *)
(* what the operations of the editor make of such a tree.                  *)
(***************************************************************************)
EXTENDS Naturals, Sequences, FiniteSets

CONSTANTS MaxPages, Zones, Nowhere

Pages == 1 .. MaxPages
Spots == Pages \cup Zones

ASSUME TreeAssumption ==
    /\ MaxPages \in Nat
    /\ Zones \cap Pages = {}
    /\ Nowhere \notin Spots

\* A name is a typed name, or <<name, number>> for a name with the number that
\* makes it unique.  A route is the names of the pages from the top down to a
\* page, which the code joins with dots: the empty string is the route of one
\* empty name.
Nameless == <<>>
Empty == <<Nameless>>

(* A tree k: [parent : [Pages -> Spots \cup {Nowhere}], name : [Pages -> Names],
   links : route properties [in, route, goal], uses : query properties
   [in, query, params], queries : [name, collection], collections : names, rest].
   The goal of a link is the page it was set to; the code does not keep it.
   Of the rest, the layout and options that refer to nothing, there are two. *)
Present(k) == {p \in Pages : k.parent[p] # Nowhere}
Siblings(k, z) == {p \in Pages : k.parent[p] = z}
NamesIn(k, z) == {k.name[p] : p \in Siblings(k, z)}
QueryNames(k) == {q.name : q \in k.queries}

\* getRoute: zones are no part of it.
Route(k, p) ==
    LET route[q \in Pages] == IF k.parent[q] \in Pages
                              THEN Append(route[k.parent[q]], k.name[q])
                              ELSE <<k.name[q]>>
    IN  route[p]

Inside(k, p) ==
    LET above[q \in Pages] ==
            {q} \cup (IF k.parent[q] \in Pages THEN above[k.parent[q]] ELSE {})
    IN  {q \in Pages : p \in above[q]}

\* getUniqueItemName: the name itself, or with the first number that is free,
\* which is at most one more than the number of names taken.
Unique(taken, t) ==
    LET Free(i) == <<t, i>> \notin taken
    IN  IF t \notin taken THEN t
        ELSE <<t, CHOOSE i \in 1 .. Cardinality(taken) + 1 :
                     Free(i) /\ \A j \in 1 .. i - 1 : ~Free(j)>>

-----------------------------------------------------------------------------
(* updateRefs.                                                             *)

\* Mutant: routes of pages below are not looked at.
RedirectExact(r, old, new) == IF r # Empty /\ r = old THEN new ELSE r

\* A route property that is the old route or the route of a page below it.
Redirect(r, old, new) ==
    IF r = Empty THEN r
    ELSE IF r = old THEN new
    ELSE IF Len(r) > Len(old) /\ SubSeq(r, 1, Len(old)) = old
         THEN new \o SubSeq(r, Len(old) + 1, Len(r))
         ELSE r

UpdateRoutes(k, p, newName) ==
    LET old == Route(k, p)
        new == IF newName = Nameless THEN Empty ELSE [old EXCEPT ![Len(old)] = newName]
    IN  [k EXCEPT !.links = {[l EXCEPT !.route = Redirect(@, old, new)] : l \in @}]

Renamed(n, old, new) == IF n # Nameless /\ n = old THEN new ELSE n

UpdateQueryRefs(k, old, new) ==
    [k EXCEPT !.uses = {[u EXCEPT !.query = Renamed(@, old, new)] : u \in @}]

UpdateCollectionRefs(k, old, new) ==
    [k EXCEPT !.queries = {[q EXCEPT !.collection = Renamed(@, old, new)] : q \in @}]

-----------------------------------------------------------------------------
(* Pages.                                                                  *)

AddPage(k, z, p, typed) ==
    LET t == IF typed = Nameless THEN <<"new_page">> ELSE typed
    IN  [k EXCEPT !.parent[p] = z, !.name[p] = Unique(NamesIn(k, z), t)]

\* The property editor takes a name unless a sibling has it.
NameIsFree(taken, n) == n = Nameless \/ n \notin taken

RenamePage(k, p, n) == [UpdateRoutes(k, p, n) EXCEPT !.name[p] = n]

\* removeObjectById: the references first, then the page with all it contains.
RemovePage(k, p) ==
    LET j == UpdateRoutes(k, p, Nameless)
        gone == Inside(k, p)
    IN  [j EXCEPT !.parent = [q \in Pages |-> IF q \in gone THEN Nowhere ELSE @[q]],
                  !.name = [q \in Pages |-> IF q \in gone THEN Nameless ELSE @[q]],
                  !.links = {l \in @ : l.in \notin gone},
                  !.uses = {u \in @ : u.in \notin gone}]

\* A new menu item or other object in z leads nowhere; one that leads to p.
AddItem(k, z) == [k EXCEPT !.links = @ \cup {[in |-> z, route |-> Empty, goal |-> Nowhere]}]

AddLink(k, z, p) ==
    [k EXCEPT !.links = @ \cup {[in |-> z, route |-> Route(k, p), goal |-> p]}]

\* Another page chosen for a link, or none.
SelectRoute(k, l, p) ==
    [k EXCEPT !.links = (@ \ {l}) \cup
        {[l EXCEPT !.route = IF p = Nowhere THEN Empty ELSE Route(k, p), !.goal = p]}]

-----------------------------------------------------------------------------
(* Queries and collections.                                                *)

AddCollection(k, typed) ==
    [k EXCEPT !.collections = @ \cup
        {Unique(@, IF typed = Nameless THEN <<"new_collection">> ELSE typed)}]

RenameCollection(k, c, n) ==
    [UpdateCollectionRefs(k, c, n) EXCEPT !.collections = (@ \ {c}) \cup {n}]

RemoveCollection(k, c) ==
    [UpdateCollectionRefs(k, c, Nameless) EXCEPT !.collections = @ \ {c}]

AddQuery(k, typed, c) ==
    LET t == IF typed = Nameless THEN <<"new_query">> ELSE typed
    IN  [k EXCEPT !.queries = @ \cup {[name |-> Unique(QueryNames(k), t), collection |-> c]}]

RenameQuery(k, q, n) ==
    [UpdateQueryRefs(k, q.name, n) EXCEPT !.queries = (@ \ {q}) \cup {[q EXCEPT !.name = n]}]

RemoveQuery(k, q) == [UpdateQueryRefs(k, q.name, Nameless) EXCEPT !.queries = @ \ {q}]

UseQuery(k, z, n) == [k EXCEPT !.uses = @ \cup {[in |-> z, query |-> n, params |-> {}]}]

\* Component u with other parameters for its query.
WithParams(k, u, ps) == [k EXCEPT !.uses = (@ \ {u}) \cup {[u EXCEPT !.params = ps]}]

-----------------------------------------------------------------------------
(* The wizard: a list of the items of a collection in page s, and pages    *)
(* with a form to insert, update or show one, which lead back to s.        *)

\* A page p with the form, if that is among the forms asked for.
WizardForm(k, s, p, forms, form, n) ==
    IF form \notin forms THEN k
    ELSE UseQuery(AddLink(AddLink(AddPage(k, s, p, <<form>>), p, s), s, p), p, n)

\* Pages from p on are new; s is the first of them if a page was asked for.
Wizard(k, z, c, createPage, forms, p) ==
    LET s       == IF createPage THEN p ELSE z
        insert  == IF createPage THEN p + 1 ELSE p
        update  == IF "insert" \in forms THEN insert + 1 ELSE insert
        details == IF "update" \in forms THEN update + 1 ELSE update
        k1   == IF createPage THEN AddPage(k, z, s, <<"items">>) ELSE k
        list == Unique(QueryNames(k), <<"item_list">>)
        none == Unique(QueryNames(k), <<"items_null">>)
        one  == Unique(QueryNames(k), <<"item">>)
        k2   == UseQuery(AddQuery(k1, list, c), s, list)
        k3   == IF "insert" \in forms THEN AddQuery(k2, none, c) ELSE k2
        k4   == IF {"update", "details"} \cap forms # {} THEN AddQuery(k3, one, c) ELSE k3
        k5   == WizardForm(k4, s, insert, forms, "insert", none)
        k6   == WizardForm(k5, s, update, forms, "update", one)
    IN  WizardForm(k6, s, details, forms, "details", one)

-----------------------------------------------------------------------------
(* What the references of a tree promise.                                  *)

\* Pages whose route, or that of a page they are in, is another page's too:
\* links are resolved by route, so these cannot be told apart.
Ambiguous(k) ==
    UNION {Inside(k, p) : p \in {q \in Present(k) :
        \E r \in Present(k) \ {q} : Route(k, r) = Route(k, q)}}

\* A link leads to the page it was set to as long as that exists, and to no
\* page after that.
LinkFollows(k, l) ==
    IF l.goal \in Present(k) THEN l.route = Route(k, l.goal)
    ELSE \A p \in Present(k) : Route(k, p) # l.route

Declared(k) ==
    /\ \A u \in k.uses : u.query \in QueryNames(k) \cup {Nameless}
    /\ \A q \in k.queries : q.collection \in k.collections \cup {Nameless}

\* Siblings have different names, if they have one.
NamesDiffer(k) ==
    \A p, q \in Present(k) :
        (p # q /\ k.parent[p] = k.parent[q] /\ k.name[p] # Nameless) => k.name[p] # k.name[q]

-----------------------------------------------------------------------------
(* What an application is when it is opened.  The operations keep it so.   *)

IsTree(k) ==
    k = [parent |-> k.parent, name |-> k.name, links |-> k.links, uses |-> k.uses,
         queries |-> k.queries, collections |-> k.collections, rest |-> k.rest]
IsLink(l) == l = [in |-> l.in, route |-> l.route, goal |-> l.goal]
IsUse(u) == u = [in |-> u.in, query |-> u.query, params |-> u.params]
IsQuery(q) == q = [name |-> q.name, collection |-> q.collection]

\* The pages are numbered from the top down, and n are in use.
PagesFormed(k, n) ==
    /\ k.parent \in [Pages -> Spots \cup {Nowhere}]
    /\ k.name = [p \in Pages |-> k.name[p]]
    /\ \A p \in Present(k) :
          p <= n /\ (k.parent[p] \in Pages => k.parent[p] \in Present(k) /\ k.parent[p] < p)

LinkFormed(k, n, l) ==
    /\ IsLink(l)
    /\ l.in \in Present(k) \cup Zones
    /\ l.goal = Nowhere \/ (l.goal \in Pages /\ l.goal <= n)

UseFormed(k, u) == IsUse(u) /\ u.in \in Present(k) \cup Zones

WellFormed(k, n) ==
    /\ IsTree(k)
    /\ PagesFormed(k, n)
    /\ \A l \in k.links : LinkFormed(k, n, l)
    /\ \A u \in k.uses : UseFormed(k, u)
    /\ \A q \in k.queries : IsQuery(q)

\* Every page has a name, and every link the route of its page, or none.
Named(k) == \A p \in Present(k) : k.name[p] # Nameless

Linked(k) ==
    \A l \in k.links : IF l.goal = Nowhere THEN l.route = Empty
                       ELSE l.goal \in Present(k) /\ l.route = Route(k, l.goal)

=============================================================================
