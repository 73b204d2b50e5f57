--------------------------- MODULE KitchenTreeProofs ---------------------------
(***************************************************************************)
(* Lemmas about the object tree: what routes are, and that each operation  *)
(* of the editor keeps the tree well-formed and its references intact.     *)
(***************************************************************************)
EXTENDS KitchenTree, WellFoundedInduction, FiniteSetTheorems, TLAPS

-----------------------------------------------------------------------------
(* Sequences.                                                              *)

\* A sequence, of whatever it holds: names and trees are not typed.
IsSeq(s) == s \in Seq({s[i] : i \in DOMAIN s})

LEMMA SeqIsSeq ==
    ASSUME NEW S, NEW s \in Seq(S)
    PROVE  IsSeq(s)
<1>1. s \in [1 .. Len(s) -> {s[i] : i \in DOMAIN s}] /\ Len(s) \in Nat
  OBVIOUS
<1> QED  BY <1>1 DEF IsSeq

LEMMA AppendIsSeq ==
    ASSUME NEW s, IsSeq(s), NEW x
    PROVE  /\ IsSeq(Append(s, x))
           /\ Len(Append(s, x)) = Len(s) + 1
           /\ \A i \in 1 .. Len(s) : Append(s, x)[i] = s[i]
           /\ Append(s, x)[Len(s) + 1] = x
<1> DEFINE S == {s[i] : i \in DOMAIN s} \cup {x}
<1>1. s \in Seq(S)
  BY DEF IsSeq
<1> HIDE DEF S
<1>2. x \in S
  BY DEF S
<1>3. Append(s, x) \in Seq(S)
  BY <1>1, <1>2
<1>4. IsSeq(Append(s, x))
  BY <1>3, SeqIsSeq
<1> QED  BY <1>1, <1>2, <1>4

LEMMA LenIsNat ==
    ASSUME NEW s, IsSeq(s)
    PROVE  Len(s) \in Nat /\ DOMAIN s = 1 .. Len(s)
BY DEF IsSeq

LEMMA SameSeq ==
    ASSUME NEW r, NEW s, IsSeq(r), IsSeq(s), Len(r) = Len(s),
           \A i \in 1 .. Len(r) : r[i] = s[i]
    PROVE  r = s
<1>1. PICK S : S = {r[i] : i \in DOMAIN r}
  OBVIOUS
<1>2. PICK T : T = {s[i] : i \in DOMAIN s}
  OBVIOUS
<1>3. r \in [1 .. Len(r) -> S] /\ s \in [1 .. Len(s) -> T]
  BY <1>1, <1>2 DEF IsSeq
<1> QED  BY <1>3

LEMMA SubSeqIsSeq ==
    ASSUME NEW r, IsSeq(r), NEW a \in 1 .. Len(r) + 1, NEW b \in a - 1 .. Len(r)
    PROVE  /\ IsSeq(SubSeq(r, a, b))
           /\ Len(SubSeq(r, a, b)) = b - a + 1
           /\ \A i \in 1 .. b - a + 1 : SubSeq(r, a, b)[i] = r[a + i - 1]
<1>1. PICK S : S = {r[i] : i \in DOMAIN r}
  OBVIOUS
<1>2. r \in Seq(S) /\ Len(r) \in Nat /\ a \in Nat /\ b \in Nat /\ a >= 1
  BY <1>1, LenIsNat DEF IsSeq
<1>3. SubSeq(r, a, b) \in Seq(S)
  BY <1>2
<1>4. IsSeq(SubSeq(r, a, b))
  BY <1>3, SeqIsSeq
<1> QED  BY <1>2, <1>4

LEMMA ConcatIsSeq ==
    ASSUME NEW r, NEW s, IsSeq(r), IsSeq(s), NEW t, t = r \o s
    PROVE  /\ IsSeq(t)
           /\ Len(t) = Len(r) + Len(s)
           /\ \A i \in 1 .. Len(r) : t[i] = r[i]
           /\ \A i \in 1 .. Len(s) : t[Len(r) + i] = s[i]
<1>1. PICK S : S = {r[i] : i \in DOMAIN r} \cup {s[i] : i \in DOMAIN s}
  OBVIOUS
<1>2. r \in Seq(S) /\ s \in Seq(S)
  BY <1>1 DEF IsSeq
<1>3. r \o s \in Seq(S)
  BY <1>2
<1>4. IsSeq(r \o s)
  BY <1>3, SeqIsSeq
<1> QED  BY <1>2, <1>4

-----------------------------------------------------------------------------
(* Induction from the top of the tree: parents have smaller numbers.       *)

LEMMA PageInduction ==
    ASSUME NEW S, \A p \in Pages : (\A q \in Pages : q < p => q \in S) => p \in S
    PROVE  Pages \subseteq S
<1> DEFINE T == Pages \ S
<1>1. SUFFICES ASSUME T # {} PROVE FALSE
  OBVIOUS
<1>2. T \subseteq Nat
  BY TreeAssumption DEF Pages
<1> DEFINE R == OpToRel(<, Nat)
<1>3. PICK x \in T : \A y \in T : <<y, x>> \notin R
  <2> HIDE DEF T, R
  <2>1. IsWellFoundedOn(R, Nat)
    BY NatLessThanWellFounded DEF R
  <2> QED  BY <1>1, <1>2, <2>1, WFMin
<1>4. \A y \in T : ~(y < x)
  BY <1>2, <1>3 DEF OpToRel
<1> QED  BY <1>4

-----------------------------------------------------------------------------
(* Routes and the pages inside a page, by recursion from the top.           *)

TopDown(k) == \A p \in Pages : k.parent[p] \in Pages => k.parent[p] < p

RouteStep(k, f, q) ==
    IF k.parent[q] \in Pages THEN Append(f[k.parent[q]], k.name[q]) ELSE <<k.name[q]>>

AboveStep(k, f, q) ==
    {q} \cup (IF k.parent[q] \in Pages THEN f[k.parent[q]] ELSE {})

LEMMA RouteExists ==
    ASSUME NEW k, TopDown(k)
    PROVE  \E f : f = [q \in Pages |-> RouteStep(k, f, q)]
<1> DEFINE Upto(f, p) == \A q \in Pages : q <= p => f[q] = RouteStep(k, f, q)
           S == {p \in Pages : \E f : Upto(f, p)}
<1>0. Pages \subseteq Nat
  BY TreeAssumption DEF Pages
<1>1. ASSUME NEW p \in Pages, \A q \in Pages : q < p => q \in S
      PROVE  p \in S
  <2>1. PICK f : \A q \in Pages : q < p => f[q] = RouteStep(k, f, q)
    <3>1. CASE \E q \in Pages : q < p
      <4>1. p - 1 \in Pages /\ p - 1 < p
        BY <3>1, TreeAssumption DEF Pages
      <4>2. PICK f : Upto(f, p - 1)
        BY <1>1, <4>1
      <4> QED  BY <1>0, <4>2
    <3>2. CASE ~\E q \in Pages : q < p
      BY <3>2
    <3> QED  BY <3>1, <3>2
  <2>2. PICK x : x = RouteStep(k, f, p)
    OBVIOUS
  <2>3. PICK g : g = [q \in Pages |-> IF q = p THEN x ELSE f[q]]
    OBVIOUS
  <2>4. \A q \in Pages : q <= p => RouteStep(k, g, q) = RouteStep(k, f, q)
    BY <1>0, <2>3 DEF RouteStep, TopDown
  <2>5. ASSUME NEW q \in Pages, q <= p
        PROVE  g[q] = RouteStep(k, g, q)
    <3> HIDE DEF RouteStep
    <3> QED  BY <1>0, <2>1, <2>2, <2>3, <2>4, <2>5
  <2> QED  BY <2>5
<1>2. Pages \subseteq S
  <2> HIDE DEF S
  <2> QED  BY <1>1, PageInduction
<1>3. PICK f : \A q \in Pages : f[q] = RouteStep(k, f, q)
  <2>1. CASE Pages = {}
    BY <2>1
  <2>2. CASE Pages # {}
    <3>1. MaxPages \in Pages /\ \A q \in Pages : q <= MaxPages
      BY <2>2, TreeAssumption DEF Pages
    <3>2. PICK f : Upto(f, MaxPages)
      BY <1>2, <3>1
    <3> QED  BY <3>1, <3>2
  <2> QED  BY <2>1, <2>2
<1>4. PICK g : g = [q \in Pages |-> f[q]]
  OBVIOUS
<1>5. \A q \in Pages : RouteStep(k, g, q) = RouteStep(k, f, q)
  BY <1>4 DEF RouteStep
<1>6. g = [q \in Pages |-> RouteStep(k, g, q)]
  <2> HIDE DEF RouteStep
  <2> QED  BY <1>3, <1>4, <1>5
<1> QED  BY <1>6

\* The route of a page is that of the page it is in, and its name.
LEMMA RouteIs ==
    ASSUME NEW k, TopDown(k), NEW p \in Pages
    PROVE  Route(k, p) = IF k.parent[p] \in Pages
                         THEN Append(Route(k, k.parent[p]), k.name[p]) ELSE <<k.name[p]>>
<1> DEFINE r == CHOOSE f : f = [q \in Pages |-> RouteStep(k, f, q)]
<1>1. r = [q \in Pages |-> RouteStep(k, r, q)]
  BY RouteExists
<1>2. \A q : Route(k, q) = r[q]
  BY DEF Route, RouteStep
<1> HIDE DEF r
<1>3. r[p] = RouteStep(k, r, p)
  BY <1>1
<1>4. Route(k, p) = r[p] /\ Route(k, k.parent[p]) = r[k.parent[p]]
  BY <1>2
<1>5. CASE k.parent[p] \in Pages
  BY <1>3, <1>4, <1>5, Zenon DEF RouteStep
<1>6. CASE k.parent[p] \notin Pages
  BY <1>3, <1>4, <1>6, Zenon DEF RouteStep
<1> QED  BY <1>5, <1>6, Zenon

LEMMA AboveExists ==
    ASSUME NEW k, TopDown(k)
    PROVE  \E f : f = [q \in Pages |-> AboveStep(k, f, q)]
<1> DEFINE Upto(f, p) == \A q \in Pages : q <= p => f[q] = AboveStep(k, f, q)
           S == {p \in Pages : \E f : Upto(f, p)}
<1>0. Pages \subseteq Nat
  BY TreeAssumption DEF Pages
<1>1. ASSUME NEW p \in Pages, \A q \in Pages : q < p => q \in S
      PROVE  p \in S
  <2>1. PICK f : \A q \in Pages : q < p => f[q] = AboveStep(k, f, q)
    <3>1. CASE \E q \in Pages : q < p
      <4>1. p - 1 \in Pages /\ p - 1 < p
        BY <3>1, TreeAssumption DEF Pages
      <4>2. PICK f : Upto(f, p - 1)
        BY <1>1, <4>1
      <4> QED  BY <1>0, <4>2
    <3>2. CASE ~\E q \in Pages : q < p
      BY <3>2
    <3> QED  BY <3>1, <3>2
  <2>2. PICK x : x = AboveStep(k, f, p)
    OBVIOUS
  <2>3. PICK g : g = [q \in Pages |-> IF q = p THEN x ELSE f[q]]
    OBVIOUS
  <2>4. \A q \in Pages : q <= p => AboveStep(k, g, q) = AboveStep(k, f, q)
    BY <1>0, <2>3 DEF AboveStep, TopDown
  <2>5. ASSUME NEW q \in Pages, q <= p
        PROVE  g[q] = AboveStep(k, g, q)
    <3> HIDE DEF AboveStep
    <3> QED  BY <1>0, <2>1, <2>2, <2>3, <2>4, <2>5
  <2> QED  BY <2>5
<1>2. Pages \subseteq S
  <2> HIDE DEF S
  <2> QED  BY <1>1, PageInduction
<1>3. PICK f : \A q \in Pages : f[q] = AboveStep(k, f, q)
  <2>1. CASE Pages = {}
    BY <2>1
  <2>2. CASE Pages # {}
    <3>1. MaxPages \in Pages /\ \A q \in Pages : q <= MaxPages
      BY <2>2, TreeAssumption DEF Pages
    <3>2. PICK f : Upto(f, MaxPages)
      BY <1>2, <3>1
    <3> QED  BY <3>1, <3>2
  <2> QED  BY <2>1, <2>2
<1>4. PICK g : g = [q \in Pages |-> f[q]]
  OBVIOUS
<1>5. \A q \in Pages : AboveStep(k, g, q) = AboveStep(k, f, q)
  BY <1>4 DEF AboveStep
<1>6. g = [q \in Pages |-> AboveStep(k, g, q)]
  <2> HIDE DEF AboveStep
  <2> QED  BY <1>3, <1>4, <1>5
<1> QED  BY <1>6

\* A page is inside itself, and inside whatever the page it is in is inside.
LEMMA InsideIs ==
    ASSUME NEW k, TopDown(k), NEW p \in Pages, NEW q \in Pages
    PROVE  q \in Inside(k, p) <=>
              q = p \/ (k.parent[q] \in Pages /\ k.parent[q] \in Inside(k, p))
<1> DEFINE a == CHOOSE f : f = [x \in Pages |-> AboveStep(k, f, x)]
<1>1. a = [x \in Pages |-> AboveStep(k, a, x)]
  BY AboveExists
<1>2. Inside(k, p) = {x \in Pages : p \in a[x]}
  BY DEF Inside, AboveStep
<1> HIDE DEF a
<1>3. a[q] = AboveStep(k, a, q)
  BY <1>1
<1> QED  BY <1>2, <1>3 DEF AboveStep

LEMMA InsideSubset ==
    ASSUME NEW k, NEW p
    PROVE  Inside(k, p) \subseteq Pages
BY DEF Inside

-----------------------------------------------------------------------------
(* What routes say about the tree.                                         *)

\* r begins with s.
Extends(r, s) == Len(s) <= Len(r) /\ \A i \in 1 .. Len(s) : r[i] = s[i]

LEMMA OneIsSeq ==
    ASSUME NEW x
    PROVE  IsSeq(<<x>>) /\ Len(<<x>>) = 1 /\ <<x>>[1] = x
BY DEF IsSeq

LEMMA RoutesAreSeqs ==
    ASSUME NEW k, TopDown(k)
    PROVE  \A p \in Pages : IsSeq(Route(k, p)) /\ Len(Route(k, p)) >= 1
<1> DEFINE S == {p \in Pages : IsSeq(Route(k, p)) /\ Len(Route(k, p)) >= 1}
<1>1. ASSUME NEW p \in Pages, \A q \in Pages : q < p => q \in S
      PROVE  p \in S
  <2>1. CASE k.parent[p] \in Pages
    <3>1. PICK r : r = Route(k, k.parent[p]) /\ IsSeq(r) /\ Len(r) >= 1
      BY <1>1, <2>1 DEF TopDown
    <3>2. PICK s : s = Append(r, k.name[p])
      OBVIOUS
    <3>3. Route(k, p) = s
      BY <2>1, <3>1, <3>2, RouteIs
    <3>4. IsSeq(s) /\ Len(s) = Len(r) + 1 /\ Len(r) \in Nat
      BY <3>1, <3>2, AppendIsSeq, LenIsNat
    <3> QED  BY <3>1, <3>3, <3>4
  <2>2. CASE k.parent[p] \notin Pages
    BY <2>2, RouteIs, OneIsSeq
  <2> QED  BY <2>1, <2>2
<1>2. Pages \subseteq S
  <2> HIDE DEF S
  <2> QED  BY <1>1, PageInduction
<1> QED  BY <1>2

LEMMA RouteShape ==
    ASSUME NEW k, TopDown(k), NEW p \in Pages
    PROVE  /\ IsSeq(Route(k, p)) /\ Len(Route(k, p)) \in Nat /\ Len(Route(k, p)) >= 1
           /\ Route(k, p)[Len(Route(k, p))] = k.name[p]
           /\ k.parent[p] \in Pages =>
                 /\ Len(Route(k, p)) = Len(Route(k, k.parent[p])) + 1
                 /\ \A i \in 1 .. Len(Route(k, k.parent[p])) :
                       Route(k, p)[i] = Route(k, k.parent[p])[i]
           /\ k.parent[p] \notin Pages => Len(Route(k, p)) = 1
<1>1. IsSeq(Route(k, p)) /\ Len(Route(k, p)) >= 1 /\ Len(Route(k, p)) \in Nat
  BY RoutesAreSeqs, LenIsNat
<1>2. CASE k.parent[p] \in Pages
  <2>1. PICK r : r = Route(k, k.parent[p])
    OBVIOUS
  <2>2. IsSeq(r) /\ Len(r) \in Nat
    BY <1>2, <2>1, RoutesAreSeqs, LenIsNat
  <2>3. PICK s : s = Append(r, k.name[p])
    OBVIOUS
  <2>4. s = Route(k, p)
    BY <1>2, <2>1, <2>3, RouteIs
  <2>5. Len(s) = Len(r) + 1 /\ s[Len(r) + 1] = k.name[p] /\ \A i \in 1 .. Len(r) : s[i] = r[i]
    BY <2>2, <2>3, AppendIsSeq
  <2> QED  BY <1>1, <1>2, <2>1, <2>4, <2>5
<1>3. CASE k.parent[p] \notin Pages
  <2>1. Route(k, p) = <<k.name[p]>>
    BY <1>3, RouteIs
  <2> QED  BY <1>1, <1>3, <2>1, OneIsSeq
<1> QED  BY <1>2, <1>3

\* The route of a page is the beginning of the routes of the pages inside it.
LEMMA InsideExtends ==
    ASSUME NEW k, TopDown(k), NEW p \in Pages
    PROVE  \A q \in Inside(k, p) : p <= q /\ Extends(Route(k, q), Route(k, p))
<1> DEFINE S == {q \in Pages : q \in Inside(k, p) =>
                                   p <= q /\ Extends(Route(k, q), Route(k, p))}
<1>1. ASSUME NEW q \in Pages, \A x \in Pages : x < q => x \in S
      PROVE  q \in S
  <2>1. SUFFICES ASSUME q \in Inside(k, p)
                 PROVE  p <= q /\ Extends(Route(k, q), Route(k, p))
    OBVIOUS
  <2>2. CASE q = p
    BY <2>2, RouteShape, TreeAssumption DEF Extends, Pages
  <2>3. CASE q # p
    <3>1. /\ k.parent[q] \in Pages /\ k.parent[q] < q
          /\ p <= k.parent[q] /\ Extends(Route(k, k.parent[q]), Route(k, p))
      BY <1>1, <2>1, <2>3, InsideIs DEF TopDown
    <3>2. p <= q
      BY <3>1, TreeAssumption DEF Pages
    <3>3. Extends(Route(k, q), Route(k, p))
      <4>1. PICK r, s, t : r = Route(k, p) /\ s = Route(k, k.parent[q]) /\ t = Route(k, q)
        OBVIOUS
      <4>2. /\ Len(r) \in Nat /\ Len(s) \in Nat /\ Len(t) = Len(s) + 1
            /\ \A i \in 1 .. Len(s) : t[i] = s[i]
        BY <3>1, <4>1, RouteShape
      <4>3. Len(r) <= Len(s) /\ \A i \in 1 .. Len(r) : s[i] = r[i]
        BY <3>1, <4>1 DEF Extends
      <4>4. Extends(t, r)
        BY <4>2, <4>3 DEF Extends
      <4> QED  BY <4>1, <4>4
    <3> QED  BY <3>2, <3>3
  <2> QED  BY <2>2, <2>3
<1>2. Pages \subseteq S
  <2> HIDE DEF S
  <2> QED  BY <1>1, PageInduction
<1> QED  BY <1>2, InsideSubset

\* Parents of present pages are present.
Rooted(k) == \A p \in Present(k) : k.parent[p] \in Pages => k.parent[p] \in Present(k)

\* A beginning of the route of a page is the route of a page it is inside.
LEMMA ExtendsInside ==
    ASSUME NEW k, TopDown(k), Rooted(k), NEW s, IsSeq(s), Len(s) >= 1
    PROVE  \A q \in Present(k) : Extends(Route(k, q), s) =>
              \E a \in Present(k) : q \in Inside(k, a) /\ Route(k, a) = s
<1> DEFINE Found(q) == \E a \in Present(k) : q \in Inside(k, a) /\ Route(k, a) = s
           S == {q \in Pages : q \in Present(k) /\ Extends(Route(k, q), s) => Found(q)}
<1>0. Present(k) \subseteq Pages /\ Len(s) \in Nat
  BY LenIsNat DEF Present
<1>1. ASSUME NEW q \in Pages, \A x \in Pages : x < q => x \in S
      PROVE  q \in S
  <2>1. SUFFICES ASSUME q \in Present(k), Extends(Route(k, q), s)
                 PROVE  Found(q)
    OBVIOUS
  <2>2. CASE Len(s) = Len(Route(k, q))
    <3>1. Route(k, q) = s
      <4>1. PICK r : r = Route(k, q)
        OBVIOUS
      <4>2. IsSeq(r) /\ Len(r) = Len(s) /\ \A i \in 1 .. Len(r) : r[i] = s[i]
        BY <2>1, <2>2, <4>1, RouteShape DEF Extends
      <4> QED  BY <4>1, <4>2, SameSeq
    <3>2. q \in Inside(k, q)
      BY InsideIs
    <3> QED  BY <2>1, <3>1, <3>2
  <2>3. CASE Len(s) # Len(Route(k, q))
    <3>1. k.parent[q] \in Pages
      BY <1>0, <2>1, <2>3, RouteShape DEF Extends
    <3>2. Extends(Route(k, k.parent[q]), s)
      <4>1. PICK r, t : r = Route(k, k.parent[q]) /\ t = Route(k, q)
        OBVIOUS
      <4>2. Len(r) \in Nat /\ Len(t) = Len(r) + 1 /\ \A i \in 1 .. Len(r) : t[i] = r[i]
        BY <3>1, <4>1, RouteShape
      <4>3. Len(s) <= Len(t) /\ Len(s) # Len(t) /\ \A i \in 1 .. Len(s) : t[i] = s[i]
        BY <2>1, <2>3, <4>1 DEF Extends
      <4>4. Extends(r, s)
        BY <1>0, <4>2, <4>3 DEF Extends
      <4> QED  BY <4>1, <4>4
    <3>3. PICK a \in Present(k) : k.parent[q] \in Inside(k, a) /\ Route(k, a) = s
      BY <1>1, <2>1, <3>1, <3>2 DEF TopDown, Rooted
    <3>4. q \in Inside(k, a)
      BY <1>0, <3>1, <3>3, InsideIs
    <3> QED  BY <3>3, <3>4
  <2> QED  BY <2>2, <2>3
<1>2. Pages \subseteq S
  <2> HIDE DEF S
  <2> QED  BY <1>1, PageInduction
<1> QED  BY <1>0, <1>2

\* Routes depend on no more than the pages above.
LEMMA SameRoutes ==
    ASSUME NEW k, NEW j, TopDown(k), TopDown(j), NEW S, S \subseteq Pages,
           \A p \in S : /\ j.parent[p] = k.parent[p] /\ j.name[p] = k.name[p]
                        /\ k.parent[p] \in Pages => k.parent[p] \in S
    PROVE  \A p \in S : Route(j, p) = Route(k, p)
<1> DEFINE T == {p \in Pages : p \in S => Route(j, p) = Route(k, p)}
<1>1. ASSUME NEW p \in Pages, \A q \in Pages : q < p => q \in T
      PROVE  p \in T
  <2>1. SUFFICES ASSUME p \in S PROVE Route(j, p) = Route(k, p)
    OBVIOUS
  <2>2. j.parent[p] = k.parent[p] /\ j.name[p] = k.name[p]
    BY <2>1
  <2>3. CASE k.parent[p] \in Pages
    <3>1. k.parent[p] \in S /\ k.parent[p] < p
      BY <2>1, <2>3 DEF TopDown
    <3>2. Route(j, k.parent[p]) = Route(k, k.parent[p])
      BY <1>1, <2>3, <3>1
    <3>3. Route(k, p) = Append(Route(k, k.parent[p]), k.name[p])
      BY <2>3, RouteIs, Zenon
    <3>4. Route(j, p) = Append(Route(j, j.parent[p]), j.name[p])
      <4>1. j.parent[p] \in Pages
        BY <2>2, <2>3
      <4> QED  BY <4>1, RouteIs, Zenon
    <3> QED  BY <2>2, <3>2, <3>3, <3>4, Zenon
  <2>4. CASE k.parent[p] \notin Pages
    <3>1. Route(k, p) = <<k.name[p]>>
      BY <2>4, RouteIs, Zenon
    <3>2. Route(j, p) = <<j.name[p]>>
      <4>1. j.parent[p] \notin Pages
        BY <2>2, <2>4
      <4> QED  BY <4>1, RouteIs, Zenon
    <3> QED  BY <2>2, <3>1, <3>2, Zenon
  <2> QED  BY <2>3, <2>4
<1>2. Pages \subseteq T
  <2> HIDE DEF T
  <2> QED  BY <1>1, PageInduction
<1> QED  BY <1>2

\* A new name of a page shows in its route and in those of the pages inside.
LEMMA RenamedRoutes ==
    ASSUME NEW k, NEW j, TopDown(k), TopDown(j), NEW p \in Pages, NEW n,
           \A q \in Pages : /\ j.parent[q] = k.parent[q]
                            /\ j.name[q] = IF q = p THEN n ELSE k.name[q]
    PROVE  \A q \in Inside(k, p) :
             /\ Len(Route(j, q)) = Len(Route(k, q))
             /\ \A i \in 1 .. Len(Route(k, q)) :
                   Route(j, q)[i] = IF i = Len(Route(k, p)) THEN n ELSE Route(k, q)[i]
<1>1. PICK m : m = Len(Route(k, p)) /\ m \in Nat
  BY RouteShape
<1> DEFINE Ok(q) == /\ Len(Route(j, q)) = Len(Route(k, q))
                    /\ \A i \in 1 .. Len(Route(k, q)) :
                          Route(j, q)[i] = IF i = m THEN n ELSE Route(k, q)[i]
           S == {q \in Pages : q \in Inside(k, p) => Ok(q)}
<1>2. ASSUME NEW q \in Pages, \A x \in Pages : x < q => x \in S
      PROVE  q \in S
  <2>1. SUFFICES ASSUME q \in Inside(k, p) PROVE Ok(q)
    OBVIOUS
  <2>2. PICK r, s : r = Route(k, q) /\ s = Route(j, q)
    OBVIOUS
  <2>3. PICK t, u : t = Route(k, k.parent[q]) /\ u = Route(j, k.parent[q])
    OBVIOUS
  <2>4. j.parent[q] = k.parent[q] /\ j.name[q] = (IF q = p THEN n ELSE k.name[q])
    OBVIOUS
  <2>5. /\ Len(r) \in Nat /\ Len(r) >= 1 /\ r[Len(r)] = k.name[q]
        /\ k.parent[q] \in Pages =>
              Len(t) \in Nat /\ Len(r) = Len(t) + 1 /\ \A i \in 1 .. Len(t) : r[i] = t[i]
        /\ k.parent[q] \notin Pages => Len(r) = 1
    BY <2>2, <2>3, RouteShape
  <2>6. /\ Len(s) \in Nat /\ Len(s) >= 1 /\ s[Len(s)] = j.name[q]
        /\ k.parent[q] \in Pages =>
              Len(u) \in Nat /\ Len(s) = Len(u) + 1 /\ \A i \in 1 .. Len(u) : s[i] = u[i]
        /\ k.parent[q] \notin Pages => Len(s) = 1
    BY <2>2, <2>3, <2>4, RouteShape
  <2>7. CASE q = p
    <3>1. m = Len(r)
      BY <1>1, <2>2, <2>7
    <3>2. k.parent[q] \in Pages => u = t
      <4>1. SUFFICES ASSUME k.parent[q] \in Pages PROVE u = t
        OBVIOUS
      <4> DEFINE Above == Pages \ Inside(k, p)
      <4>2. \A x \in Above : k.parent[x] \in Pages => k.parent[x] \in Above
        BY InsideIs
      <4>3. \A x \in Above : j.parent[x] = k.parent[x] /\ j.name[x] = k.name[x]
        <5>1. p \in Inside(k, p)
          BY InsideIs
        <5> QED  BY <5>1
      <4>4. k.parent[q] \in Above
        BY <2>7, <4>1, InsideExtends, TreeAssumption DEF TopDown, Pages
      <4>5. Above \subseteq Pages
        OBVIOUS
      <4> HIDE DEF Above
      <4>6. \A x \in Above : Route(j, x) = Route(k, x)
        BY <4>2, <4>3, <4>5, SameRoutes
      <4> QED  BY <2>3, <4>4, <4>6
    <3>3. Len(s) = Len(r)
      BY <2>5, <2>6, <3>2
    <3>4. ASSUME NEW i \in 1 .. Len(r)
          PROVE  s[i] = IF i = m THEN n ELSE r[i]
      BY <2>4, <2>5, <2>6, <2>7, <3>1, <3>2, <3>3
    <3> QED  BY <2>2, <3>3, <3>4
  <2>8. CASE q # p
    <3>1. k.parent[q] \in Pages /\ k.parent[q] \in Inside(k, p) /\ k.parent[q] < q
      BY <2>1, <2>8, InsideIs DEF TopDown
    <3>2. Len(u) = Len(t) /\ \A i \in 1 .. Len(t) : u[i] = IF i = m THEN n ELSE t[i]
      BY <1>2, <2>3, <3>1
    <3>3. m <= Len(t)
      BY <1>1, <2>3, <3>1, InsideExtends DEF Extends
    <3>4. Len(s) = Len(r)
      BY <2>5, <2>6, <3>1, <3>2
    <3>5. ASSUME NEW i \in 1 .. Len(r)
          PROVE  s[i] = IF i = m THEN n ELSE r[i]
      <4>1. CASE i = Len(r)
        BY <1>1, <2>4, <2>5, <2>6, <2>8, <3>1, <3>3, <3>4, <4>1
      <4>2. CASE i # Len(r)
        BY <2>5, <2>6, <3>1, <3>2, <3>4, <4>2
      <4> QED  BY <4>1, <4>2
    <3> QED  BY <2>2, <3>4, <3>5
  <2> QED  BY <2>7, <2>8
<1>3. Pages \subseteq S
  <2> HIDE DEF S
  <2> QED  BY <1>2, PageInduction
<1> QED  BY <1>1, <1>3, InsideSubset

-----------------------------------------------------------------------------
(* What updateRefs makes of a route.                                       *)

LEMMA EmptyShape == IsSeq(Empty) /\ Len(Empty) = 1 /\ Empty[1] = Nameless
BY OneIsSeq DEF Empty

LEMMA PrefixIs ==
    ASSUME NEW r, NEW s, IsSeq(r), IsSeq(s), Len(s) <= Len(r)
    PROVE  SubSeq(r, 1, Len(s)) = s <=> Extends(r, s)
<1>1. Len(r) \in Nat /\ Len(s) \in Nat
  BY LenIsNat
<1>2. PICK t : t = SubSeq(r, 1, Len(s))
  OBVIOUS
<1>3. IsSeq(t) /\ Len(t) = Len(s) /\ \A i \in 1 .. Len(s) : t[i] = r[i]
  <2>1. 1 \in 1 .. Len(r) + 1 /\ Len(s) \in 0 .. Len(r)
    BY <1>1
  <2>2. /\ IsSeq(SubSeq(r, 1, Len(s))) /\ Len(SubSeq(r, 1, Len(s))) = Len(s) - 1 + 1
        /\ \A i \in 1 .. Len(s) - 1 + 1 : SubSeq(r, 1, Len(s))[i] = r[1 + i - 1]
    BY <2>1, SubSeqIsSeq
  <2> QED  BY <1>1, <1>2, <2>2
<1>4. t = s => Extends(r, s)
  BY <1>3 DEF Extends
<1>5. Extends(r, s) => t = s
  BY <1>3, SameSeq DEF Extends
<1> QED  BY <1>2, <1>4, <1>5

LEMMA RedirectOther ==
    ASSUME NEW r, NEW v, NEW w, IsSeq(r), IsSeq(v), ~Extends(r, v)
    PROVE  Redirect(r, v, w) = r
<1>1. r # v
  BY LenIsNat DEF Extends
<1>2. ~(Len(r) > Len(v) /\ SubSeq(r, 1, Len(v)) = v)
  BY PrefixIs, LenIsNat
<1> QED  BY <1>1, <1>2, Zenon DEF Redirect

LEMMA RedirectInside ==
    ASSUME NEW r, NEW v, NEW w, IsSeq(r), IsSeq(v), IsSeq(w), Extends(r, v), r # Empty
    PROVE  /\ IsSeq(Redirect(r, v, w))
           /\ Len(Redirect(r, v, w)) = Len(w) + (Len(r) - Len(v))
           /\ \A i \in 1 .. Len(w) : Redirect(r, v, w)[i] = w[i]
           /\ \A i \in 1 .. Len(r) - Len(v) :
                 Redirect(r, v, w)[Len(w) + i] = r[Len(v) + i]
<1>1. Len(r) \in Nat /\ Len(v) \in Nat /\ Len(w) \in Nat /\ Len(v) <= Len(r)
  BY LenIsNat DEF Extends
<1>2. CASE Len(r) = Len(v)
  <2>1. r = v
    BY <1>2, SameSeq DEF Extends
  <2>2. Redirect(r, v, w) = w
    BY <2>1, Zenon DEF Redirect
  <2> QED  BY <1>1, <1>2, <2>2
<1>3. CASE Len(r) # Len(v)
  <2>1. PICK s : s = SubSeq(r, Len(v) + 1, Len(r))
    OBVIOUS
  <2>2. IsSeq(s) /\ Len(s) = Len(r) - Len(v) /\ \A i \in 1 .. Len(s) : s[i] = r[Len(v) + i]
    <3>1. Len(v) + 1 \in 1 .. Len(r) + 1 /\ Len(r) \in (Len(v) + 1) - 1 .. Len(r)
      BY <1>1
    <3>2. PICK a : a = Len(v) + 1
      OBVIOUS
    <3>3. /\ IsSeq(SubSeq(r, a, Len(r))) /\ Len(SubSeq(r, a, Len(r))) = Len(r) - a + 1
          /\ \A i \in 1 .. Len(r) - a + 1 : SubSeq(r, a, Len(r))[i] = r[a + i - 1]
      BY <3>1, <3>2, SubSeqIsSeq
    <3> QED  BY <1>1, <2>1, <3>2, <3>3
  <2>3. Redirect(r, v, w) = w \o s
    <3>1. r # v
      BY <1>3
    <3>2. Len(r) > Len(v) /\ SubSeq(r, 1, Len(v)) = v
      BY <1>1, <1>3, PrefixIs
    <3> QED  BY <2>1, <3>1, <3>2, Zenon DEF Redirect
  <2>4. PICK t : t = w \o s
    OBVIOUS
  <2>5. /\ IsSeq(t) /\ Len(t) = Len(w) + Len(s)
        /\ \A i \in 1 .. Len(w) : t[i] = w[i]
        /\ \A i \in 1 .. Len(s) : t[Len(w) + i] = s[i]
    <3>1. IsSeq(s)
      BY <2>2
    <3>2. IsSeq(t) /\ Len(t) = Len(w) + Len(s)
      BY <2>4, <3>1, ConcatIsSeq, Zenon
    <3>3. \A i \in 1 .. Len(w) : t[i] = w[i]
      BY <2>4, <3>1, ConcatIsSeq
    <3>4. \A i \in 1 .. Len(s) : t[Len(w) + i] = s[i]
      BY <2>4, <3>1, ConcatIsSeq
    <3> QED  BY <3>2, <3>3, <3>4
  <2> QED  BY <2>2, <2>3, <2>4, <2>5
<1> QED  BY <1>2, <1>3

-----------------------------------------------------------------------------
(* Trees that have the same pages.                                         *)

SamePages(j, k) == j.parent = k.parent /\ j.name = k.name

LEMMA SamePagesSame ==
    ASSUME NEW j, NEW k, SamePages(j, k)
    PROVE  /\ Present(j) = Present(k)
           /\ \A p : Route(j, p) = Route(k, p)
           /\ \A p : Inside(j, p) = Inside(k, p)
<1>1. j.parent = k.parent /\ j.name = k.name
  BY DEF SamePages
<1>2. Present(j) = Present(k)
  BY <1>1 DEF Present
<1>3. \A p : Route(j, p) = Route(k, p)
  BY <1>1, Zenon DEF Route
<1>4. \A p : Inside(j, p) = Inside(k, p)
  BY <1>1, Zenon DEF Inside
<1> QED  BY <1>2, <1>3, <1>4, Zenon

LEMMA SameAmbiguous ==
    ASSUME NEW j, NEW k, SamePages(j, k)
    PROVE  Ambiguous(j) = Ambiguous(k)
<1>1. \A p : Route(j, p) = Route(k, p) /\ Inside(j, p) = Inside(k, p)
  BY SamePagesSame
<1>2. Present(j) = Present(k)
  BY SamePagesSame
<1> QED  BY <1>1, <1>2 DEF Ambiguous

LEMMA AmbiguousSubset ==
    ASSUME NEW k
    PROVE  Ambiguous(k) \subseteq Pages
BY InsideSubset DEF Ambiguous

LEMMA FormedTree ==
    ASSUME NEW k, NEW n, PagesFormed(k, n)
    PROVE  TopDown(k) /\ Rooted(k)
<1>1. \A p \in Pages : k.parent[p] \in Pages => p \in Present(k)
  BY TreeAssumption DEF Present, Spots
<1> QED  BY <1>1 DEF PagesFormed, TopDown, Rooted

\* A link promises to lead to its page, or nowhere.
LinkKept(k, X, l) ==
    l.goal \notin X =>
        IF l.goal \in Present(k) THEN l.route = Route(k, l.goal)
        ELSE IsSeq(l.route) /\ Len(l.route) >= 1 /\ l.route[1] = Nameless

RefsOK(k, X) ==
    /\ Named(k)
    /\ NamesDiffer(k)
    /\ \A l \in k.links : LinkKept(k, X, l)
    /\ Declared(k)

\* The tree has the pages it had, is well-formed, and keeps its references.
Keeps(j, k, n) ==
    /\ WellFormed(j, n) /\ SamePages(j, k)
    /\ \A X : RefsOK(k, X) => RefsOK(j, X)

LEMMA SameFormed ==
    ASSUME NEW j, NEW k, SamePages(j, k), NEW n
    PROVE  /\ PagesFormed(k, n) => PagesFormed(j, n)
           /\ \A l : LinkFormed(k, n, l) => LinkFormed(j, n, l)
           /\ \A u : UseFormed(k, u) => UseFormed(j, u)
<1>1. j.parent = k.parent /\ j.name = k.name /\ Present(j) = Present(k)
  BY SamePagesSame DEF SamePages
<1> QED  BY <1>1 DEF PagesFormed, LinkFormed, UseFormed

LEMMA SameKept ==
    ASSUME NEW j, NEW k, SamePages(j, k), NEW X
    PROVE  /\ Named(k) => Named(j)
           /\ NamesDiffer(k) => NamesDiffer(j)
           /\ \A l : LinkKept(k, X, l) => LinkKept(j, X, l)
<1>1. j.parent = k.parent /\ j.name = k.name /\ Present(j) = Present(k)
  BY SamePagesSame DEF SamePages
<1>2. \A p : Route(j, p) = Route(k, p)
  BY SamePagesSame
<1>3. Named(k) => Named(j)
  BY <1>1 DEF Named
<1>4. NamesDiffer(k) => NamesDiffer(j)
  BY <1>1 DEF NamesDiffer
<1>5. \A l : LinkKept(k, X, l) => LinkKept(j, X, l)
  BY <1>1, <1>2, Zenon DEF LinkKept
<1> QED  BY <1>3, <1>4, <1>5

\* More pages may be in use, and more pages excepted.
LEMMA FormedGrows ==
    ASSUME NEW k, NEW n, NEW m, n \in Nat, m \in Nat, n <= m, WellFormed(k, n)
    PROVE  WellFormed(k, m)
<1>1. Present(k) \subseteq Pages /\ Pages \subseteq Nat
  BY TreeAssumption DEF Present, Pages
<1>2. /\ IsTree(k) /\ PagesFormed(k, n) /\ \A l \in k.links : LinkFormed(k, n, l)
      /\ \A u \in k.uses : UseFormed(k, u)
      /\ \A q \in k.queries : IsQuery(q)
  BY DEF WellFormed
<1>3. \A p \in Pages : p <= n => p <= m
  BY <1>1
<1>4. PagesFormed(k, m)
  BY <1>1, <1>2, <1>3, Zenon DEF PagesFormed
<1>5. \A l \in k.links : LinkFormed(k, m, l)
  BY <1>2, <1>3, Zenon DEF LinkFormed
<1> QED  BY <1>2, <1>4, <1>5, Zenon DEF WellFormed

LEMMA RefsExcept ==
    ASSUME NEW k, NEW X, NEW Y, X \subseteq Y, RefsOK(k, X)
    PROVE  RefsOK(k, Y)
<1>1. \A l : LinkKept(k, X, l) => LinkKept(k, Y, l)
  BY DEF LinkKept
<1> QED  BY <1>1 DEF RefsOK

-----------------------------------------------------------------------------
(* Links.                                                                  *)

LEMMA SetLinks ==
    ASSUME NEW k, NEW n, WellFormed(k, n), NEW L, \A l \in L : LinkFormed(k, n, l),
           NEW j, j = [k EXCEPT !.links = L]
    PROVE  WellFormed(j, n) /\ SamePages(j, k)
<1>1. IsTree(k)
  BY DEF WellFormed
<1>2. /\ IsTree(j) /\ SamePages(j, k)
      /\ j.links = L /\ j.uses = k.uses /\ j.queries = k.queries
  BY <1>1 DEF IsTree, SamePages
<1>3. PagesFormed(j, n)
  BY <1>2, SameFormed DEF WellFormed
<1>4. \A l \in j.links : LinkFormed(j, n, l)
  BY <1>2, SameFormed
<1>5. \A u \in j.uses : UseFormed(j, u)
  BY <1>2, SameFormed DEF WellFormed
<1>6. \A q \in j.queries : IsQuery(q)
  BY <1>2 DEF WellFormed
<1> QED  BY <1>2, <1>3, <1>4, <1>5, <1>6, Zenon DEF WellFormed

LEMMA SetLinksRefs ==
    ASSUME NEW k, IsTree(k), NEW X, RefsOK(k, X), NEW L, \A l \in L : LinkKept(k, X, l),
           NEW j, j = [k EXCEPT !.links = L]
    PROVE  RefsOK(j, X)
<1>1. /\ SamePages(j, k) /\ j.links = L /\ j.uses = k.uses
      /\ j.queries = k.queries /\ j.collections = k.collections
  BY DEF IsTree, SamePages
<1>2. Named(j) /\ NamesDiffer(j) /\ \A l \in j.links : LinkKept(j, X, l)
  BY <1>1, SameKept DEF RefsOK
<1>3. Declared(j)
  BY <1>1, Zenon DEF RefsOK, Declared, QueryNames
<1> QED  BY <1>2, <1>3, Zenon DEF RefsOK

\* A new link that leads to a page, or nowhere.
LEMMA NewLink ==
    ASSUME NEW k, NEW n, WellFormed(k, n), NEW z \in Present(k) \cup Zones,
           NEW g \in Present(k) \cup {Nowhere}, NEW r,
           r = IF g = Nowhere THEN Empty ELSE Route(k, g),
           NEW l, l = [in |-> z, route |-> r, goal |-> g]
    PROVE  LinkFormed(k, n, l) /\ \A X : LinkKept(k, X, l)
<1>1. IsLink(l) /\ l.in = z /\ l.route = r /\ l.goal = g
  BY DEF IsLink
<1>2. Nowhere \notin Present(k) /\ Present(k) \subseteq Pages
  BY TreeAssumption DEF Present, Spots
<1>3. LinkFormed(k, n, l)
  BY <1>1, <1>2 DEF LinkFormed, WellFormed, PagesFormed
<1>4. \A X : LinkKept(k, X, l)
  <2>1. CASE g = Nowhere
    BY <1>1, <1>2, <2>1, EmptyShape DEF LinkKept
  <2>2. CASE g # Nowhere
    BY <1>1, <1>2, <2>2, Zenon DEF LinkKept
  <2> QED  BY <2>1, <2>2
<1> QED  BY <1>3, <1>4

LEMMA AddLinkKeeps ==
    ASSUME NEW k, NEW n, WellFormed(k, n), NEW z \in Present(k) \cup Zones, NEW p \in Present(k)
    PROVE  Keeps(AddLink(k, z, p), k, n)
<1>1. PICK l : l = [in |-> z, route |-> Route(k, p), goal |-> p]
  OBVIOUS
<1>2. PICK L : L = k.links \cup {l}
  OBVIOUS
<1>3. AddLink(k, z, p) = [k EXCEPT !.links = L]
  BY <1>1, <1>2, Zenon DEF AddLink
<1>4. p # Nowhere
  BY TreeAssumption DEF Present, Spots
<1>5. LinkFormed(k, n, l) /\ \A X : LinkKept(k, X, l)
  BY <1>1, <1>4, NewLink
<1>6. \A x \in L : LinkFormed(k, n, x)
  BY <1>2, <1>5 DEF WellFormed
<1>7. IsTree(k)
  BY DEF WellFormed
<1>8. ASSUME NEW X, RefsOK(k, X)
      PROVE  RefsOK(AddLink(k, z, p), X)
  <2>1. \A x \in L : LinkKept(k, X, x)
    BY <1>2, <1>5, <1>8 DEF RefsOK
  <2> QED  BY <1>3, <1>7, <1>8, <2>1, SetLinksRefs
<1> QED  BY <1>3, <1>6, <1>8, SetLinks DEF Keeps

LEMMA AddItemKeeps ==
    ASSUME NEW k, NEW n, WellFormed(k, n), NEW z \in Present(k) \cup Zones
    PROVE  Keeps(AddItem(k, z), k, n)
<1>1. PICK l : l = [in |-> z, route |-> Empty, goal |-> Nowhere]
  OBVIOUS
<1>2. PICK L : L = k.links \cup {l}
  OBVIOUS
<1>3. AddItem(k, z) = [k EXCEPT !.links = L]
  BY <1>1, <1>2, Zenon DEF AddItem
<1>4. LinkFormed(k, n, l) /\ \A X : LinkKept(k, X, l)
  BY <1>1, NewLink
<1>5. \A x \in L : LinkFormed(k, n, x)
  BY <1>2, <1>4 DEF WellFormed
<1>6. IsTree(k)
  BY DEF WellFormed
<1>7. ASSUME NEW X, RefsOK(k, X)
      PROVE  RefsOK(AddItem(k, z), X)
  <2>1. \A x \in L : LinkKept(k, X, x)
    BY <1>2, <1>4, <1>7 DEF RefsOK
  <2> QED  BY <1>3, <1>6, <1>7, <2>1, SetLinksRefs
<1> QED  BY <1>3, <1>5, <1>7, SetLinks DEF Keeps

LEMMA SelectRouteKeeps ==
    ASSUME NEW k, NEW n, WellFormed(k, n), NEW m \in k.links,
           NEW p \in Present(k) \cup {Nowhere}
    PROVE  Keeps(SelectRoute(k, m, p), k, n)
<1>1. PICK r : r = IF p = Nowhere THEN Empty ELSE Route(k, p)
  OBVIOUS
<1>2. PICK l : l = [m EXCEPT !.route = r, !.goal = p]
  OBVIOUS
<1>3. PICK L : L = (k.links \ {m}) \cup {l}
  OBVIOUS
<1>4. SelectRoute(k, m, p) = [k EXCEPT !.links = L]
  BY <1>1, <1>2, <1>3, Zenon DEF SelectRoute
<1>5. m.in \in Present(k) \cup Zones /\ IsLink(m)
  BY DEF WellFormed, LinkFormed
<1>6. l = [in |-> m.in, route |-> r, goal |-> p]
  BY <1>2, <1>5 DEF IsLink
<1>7. LinkFormed(k, n, l) /\ \A X : LinkKept(k, X, l)
  BY <1>1, <1>5, <1>6, NewLink
<1>8. \A x \in L : LinkFormed(k, n, x)
  BY <1>3, <1>7 DEF WellFormed
<1>9. IsTree(k)
  BY DEF WellFormed
<1>10. ASSUME NEW X, RefsOK(k, X)
       PROVE  RefsOK(SelectRoute(k, m, p), X)
  <2>1. \A x \in L : LinkKept(k, X, x)
    BY <1>3, <1>7, <1>10 DEF RefsOK
  <2> QED  BY <1>4, <1>9, <1>10, <2>1, SetLinksRefs
<1> QED  BY <1>4, <1>8, <1>10, SetLinks DEF Keeps

LEMMA RemoveLinkKeeps ==
    ASSUME NEW k, NEW n, WellFormed(k, n), NEW m,
           NEW j, j = [k EXCEPT !.links = @ \ {m}]
    PROVE  Keeps(j, k, n)
<1>1. PICK L : L = k.links \ {m}
  OBVIOUS
<1>2. j = [k EXCEPT !.links = L]
  BY <1>1
<1>3. \A x \in L : LinkFormed(k, n, x)
  BY <1>1 DEF WellFormed
<1>4. IsTree(k)
  BY DEF WellFormed
<1>5. ASSUME NEW X, RefsOK(k, X)
      PROVE  RefsOK(j, X)
  <2>1. \A x \in L : LinkKept(k, X, x)
    BY <1>1, <1>5 DEF RefsOK
  <2> QED  BY <1>2, <1>4, <1>5, <2>1, SetLinksRefs
<1> QED  BY <1>2, <1>3, <1>5, SetLinks DEF Keeps

-----------------------------------------------------------------------------
(* Components, queries and collections.                                    *)

LEMMA SetData ==
    ASSUME NEW k, NEW n, WellFormed(k, n),
           NEW j, IsTree(j), SamePages(j, k), j.links = k.links,
           \A u \in j.uses : UseFormed(k, u), \A q \in j.queries : IsQuery(q),
           Declared(k) => Declared(j)
    PROVE  Keeps(j, k, n)
<1>1. PagesFormed(j, n) /\ \A u \in j.uses : UseFormed(j, u)
  BY SameFormed DEF WellFormed
<1>2. \A l \in j.links : LinkFormed(j, n, l)
  BY SameFormed DEF WellFormed
<1>3. ASSUME NEW X, RefsOK(k, X)
      PROVE  RefsOK(j, X)
  <2>1. Named(j) /\ NamesDiffer(j) /\ \A l \in j.links : LinkKept(j, X, l)
    BY <1>3, SameKept DEF RefsOK
  <2> QED  BY <1>3, <2>1, Zenon DEF RefsOK
<1> QED  BY <1>1, <1>2, <1>3, Zenon DEF Keeps, WellFormed

LEMMA SetUses ==
    ASSUME NEW k, NEW n, WellFormed(k, n), NEW U, \A u \in U : UseFormed(k, u),
           Declared(k) => \A u \in U : u.query \in QueryNames(k) \cup {Nameless},
           NEW j, j = [k EXCEPT !.uses = U]
    PROVE  Keeps(j, k, n)
<1>1. IsTree(k)
  BY DEF WellFormed
<1>2. /\ IsTree(j) /\ SamePages(j, k) /\ j.links = k.links /\ j.uses = U
      /\ j.queries = k.queries /\ j.collections = k.collections
  BY <1>1 DEF IsTree, SamePages
<1>3. Declared(k) => Declared(j)
  BY <1>2, Zenon DEF Declared, QueryNames
<1>4. \A q \in j.queries : IsQuery(q)
  BY <1>2 DEF WellFormed
<1> QED  BY <1>2, <1>3, <1>4, SetData

LEMMA SetQueries ==
    ASSUME NEW k, NEW n, WellFormed(k, n), NEW Q, \A q \in Q : IsQuery(q),
           Declared(k) => /\ \A u \in k.uses : u.query \in {q.name : q \in Q} \cup {Nameless}
                          /\ \A q \in Q : q.collection \in k.collections \cup {Nameless},
           NEW j, j = [k EXCEPT !.queries = Q]
    PROVE  Keeps(j, k, n)
<1>1. IsTree(k)
  BY DEF WellFormed
<1>2. /\ IsTree(j) /\ SamePages(j, k) /\ j.links = k.links /\ j.uses = k.uses
      /\ j.queries = Q /\ j.collections = k.collections
  BY <1>1 DEF IsTree, SamePages
<1>3. Declared(k) => Declared(j)
  BY <1>2, Zenon DEF Declared, QueryNames
<1>4. \A u \in j.uses : UseFormed(k, u)
  BY <1>2 DEF WellFormed
<1> QED  BY <1>2, <1>3, <1>4, SetData

LEMMA UseQueryKeeps ==
    ASSUME NEW k, NEW n, WellFormed(k, n), NEW z \in Present(k) \cup Zones,
           NEW m \in QueryNames(k) \cup {Nameless}
    PROVE  Keeps(UseQuery(k, z, m), k, n)
<1>1. PICK v : v = [in |-> z, query |-> m, params |-> {}]
  OBVIOUS
<1>2. PICK U : U = k.uses \cup {v}
  OBVIOUS
<1>3. UseQuery(k, z, m) = [k EXCEPT !.uses = U]
  BY <1>1, <1>2, Zenon DEF UseQuery
<1>4. UseFormed(k, v) /\ v.query = m
  BY <1>1 DEF UseFormed, IsUse
<1>5. \A u \in U : UseFormed(k, u)
  BY <1>2, <1>4 DEF WellFormed
<1>6. Declared(k) => \A u \in U : u.query \in QueryNames(k) \cup {Nameless}
  BY <1>2, <1>4 DEF Declared
<1> QED  BY <1>3, <1>5, <1>6, SetUses

LEMMA SelectQueryKeeps ==
    ASSUME NEW k, NEW n, WellFormed(k, n), NEW w \in k.uses,
           NEW m \in QueryNames(k) \cup {Nameless},
           NEW j, j = [k EXCEPT !.uses = (@ \ {w}) \cup {[w EXCEPT !.query = m]}]
    PROVE  Keeps(j, k, n)
<1>1. PICK v : v = [w EXCEPT !.query = m]
  OBVIOUS
<1>2. PICK U : U = (k.uses \ {w}) \cup {v}
  OBVIOUS
<1>3. j = [k EXCEPT !.uses = U]
  BY <1>1, <1>2, Zenon
<1>4. IsUse(w) /\ w.in \in Present(k) \cup Zones
  BY DEF WellFormed, UseFormed
<1>5. UseFormed(k, v) /\ v.query = m
  BY <1>1, <1>4 DEF UseFormed, IsUse
<1>6. \A u \in U : UseFormed(k, u)
  BY <1>2, <1>5 DEF WellFormed
<1>7. Declared(k) => \A u \in U : u.query \in QueryNames(k) \cup {Nameless}
  BY <1>2, <1>5 DEF Declared
<1> QED  BY <1>3, <1>6, <1>7, SetUses

LEMMA WithParamsKeeps ==
    ASSUME NEW k, NEW n, WellFormed(k, n), NEW w \in k.uses, NEW ps
    PROVE  Keeps(WithParams(k, w, ps), k, n)
<1>1. PICK v : v = [w EXCEPT !.params = ps]
  OBVIOUS
<1>2. PICK U : U = (k.uses \ {w}) \cup {v}
  OBVIOUS
<1>3. WithParams(k, w, ps) = [k EXCEPT !.uses = U]
  BY <1>1, <1>2, Zenon DEF WithParams
<1>4. IsUse(w) /\ w.in \in Present(k) \cup Zones
  BY DEF WellFormed, UseFormed
<1>5. UseFormed(k, v) /\ v.query = w.query
  BY <1>1, <1>4 DEF UseFormed, IsUse
<1>6. \A u \in U : UseFormed(k, u)
  BY <1>2, <1>5 DEF WellFormed
<1>7. Declared(k) => \A u \in U : u.query \in QueryNames(k) \cup {Nameless}
  BY <1>2, <1>5 DEF Declared
<1> QED  BY <1>3, <1>6, <1>7, SetUses

LEMMA RemoveUseKeeps ==
    ASSUME NEW k, NEW n, WellFormed(k, n), NEW w, NEW j, j = [k EXCEPT !.uses = @ \ {w}]
    PROVE  Keeps(j, k, n)
<1>1. PICK U : U = k.uses \ {w}
  OBVIOUS
<1>2. j = [k EXCEPT !.uses = U]
  BY <1>1
<1>3. \A u \in U : UseFormed(k, u)
  BY <1>1 DEF WellFormed
<1>4. Declared(k) => \A u \in U : u.query \in QueryNames(k) \cup {Nameless}
  BY <1>1 DEF Declared
<1> QED  BY <1>2, <1>3, <1>4, SetUses

LEMMA SelectCollectionKeeps ==
    ASSUME NEW k, NEW n, WellFormed(k, n), NEW q \in k.queries,
           NEW c \in k.collections \cup {Nameless},
           NEW j, j = [k EXCEPT !.queries = (@ \ {q}) \cup {[q EXCEPT !.collection = c]}]
    PROVE  Keeps(j, k, n)
<1>1. PICK v : v = [q EXCEPT !.collection = c]
  OBVIOUS
<1>2. PICK Q : Q = (k.queries \ {q}) \cup {v}
  OBVIOUS
<1>3. j = [k EXCEPT !.queries = Q]
  BY <1>1, <1>2, Zenon
<1>4. IsQuery(q)
  BY DEF WellFormed
<1>5. IsQuery(v) /\ v.name = q.name /\ v.collection = c
  BY <1>1, <1>4 DEF IsQuery
<1>6. \A x \in Q : IsQuery(x)
  BY <1>2, <1>5 DEF WellFormed
<1>7. {x.name : x \in Q} = QueryNames(k)
  BY <1>2, <1>5 DEF QueryNames
<1>8. Declared(k) => \A x \in Q : x.collection \in k.collections \cup {Nameless}
  BY <1>2, <1>5 DEF Declared
<1>9. Declared(k) => \A u \in k.uses : u.query \in {x.name : x \in Q} \cup {Nameless}
  BY <1>7 DEF Declared
<1> QED  BY <1>3, <1>6, <1>8, <1>9, SetQueries

\* The query that was added has the name that was asked for, or another has.
LEMMA AddQueryKeeps ==
    ASSUME NEW k, NEW n, WellFormed(k, n), NEW m, NEW c \in k.collections \cup {Nameless}
    PROVE  /\ Keeps(AddQuery(k, m, c), k, n)
           /\ AddQuery(k, m, c).collections = k.collections
           /\ QueryNames(k) \subseteq QueryNames(AddQuery(k, m, c))
           /\ m # Nameless => m \in QueryNames(AddQuery(k, m, c))
<1>1. PICK t : t = IF m = Nameless THEN <<"new_query">> ELSE m
  OBVIOUS
<1>2. PICK v : v = [name |-> Unique(QueryNames(k), t), collection |-> c]
  OBVIOUS
<1>3. PICK Q : Q = k.queries \cup {v}
  OBVIOUS
<1>4. PICK j : j = [k EXCEPT !.queries = Q]
  OBVIOUS
<1>5. AddQuery(k, m, c) = j
  BY <1>1, <1>2, <1>3, <1>4, Zenon DEF AddQuery
<1>6. IsQuery(v) /\ v.name = Unique(QueryNames(k), t) /\ v.collection = c
  BY <1>2 DEF IsQuery
<1>7. \A q \in Q : IsQuery(q)
  BY <1>3, <1>6 DEF WellFormed
<1>8. QueryNames(k) \subseteq {q.name : q \in Q}
  BY <1>3 DEF QueryNames
<1>9. Declared(k) => \A q \in Q : q.collection \in k.collections \cup {Nameless}
  BY <1>3, <1>6 DEF Declared
<1>10. Declared(k) => \A u \in k.uses : u.query \in {q.name : q \in Q} \cup {Nameless}
  BY <1>8 DEF Declared
<1>11. Keeps(j, k, n)
  BY <1>4, <1>7, <1>9, <1>10, SetQueries
<1>12. j.queries = Q /\ j.collections = k.collections
  BY <1>4 DEF WellFormed, IsTree
<1>13. m # Nameless => m \in {q.name : q \in Q}
  <2>1. SUFFICES ASSUME m # Nameless PROVE m \in {q.name : q \in Q}
    OBVIOUS
  <2>2. t = m
    BY <1>1, <2>1
  <2>3. CASE m \in QueryNames(k)
    BY <1>8, <2>3
  <2>4. CASE m \notin QueryNames(k)
    <3>1. Unique(QueryNames(k), t) = m
      BY <2>2, <2>4, Zenon DEF Unique
    <3> QED  BY <1>3, <1>6, <3>1
  <2> QED  BY <2>3, <2>4
<1> QED  BY <1>5, <1>8, <1>11, <1>12, <1>13 DEF QueryNames

\* What updateRefs makes of the uses of a query: m instead of its name.
LEMMA QueryRenamed ==
    ASSUME NEW k, NEW n, WellFormed(k, n), NEW q \in k.queries, NEW m,
           NEW Q, \A x \in Q : IsQuery(x), k.queries \ {q} \subseteq Q,
           m \in {x.name : x \in Q} \cup {Nameless},
           Declared(k) => \A x \in Q : x.collection \in k.collections \cup {Nameless},
           NEW j, j = [UpdateQueryRefs(k, q.name, m) EXCEPT !.queries = Q]
    PROVE  Keeps(j, k, n)
<1> DEFINE New(u) == [u EXCEPT !.query = Renamed(u.query, q.name, m)]
<1>1. PICK U : U = {New(u) : u \in k.uses}
  OBVIOUS
<1>2. PICK i : i = [k EXCEPT !.uses = U]
  OBVIOUS
<1>3. j = [i EXCEPT !.queries = Q]
  BY <1>1, <1>2, Zenon DEF UpdateQueryRefs
<1>4. IsTree(k)
  BY DEF WellFormed
<1>5. IsTree(i) /\ i.parent = k.parent /\ i.name = k.name /\ i.links = k.links /\ i.uses = U
      /\ i.collections = k.collections
  BY <1>2, <1>4 DEF IsTree
<1>6. IsTree(j) /\ j.parent = i.parent /\ j.name = i.name /\ j.links = i.links /\ j.uses = i.uses
      /\ j.queries = Q /\ j.collections = i.collections
  BY <1>3, <1>5 DEF IsTree
<1>7. \A u \in k.uses : /\ UseFormed(k, New(u))
                        /\ New(u).query = Renamed(u.query, q.name, m)
  <2>1. SUFFICES ASSUME NEW u \in k.uses
                 PROVE  UseFormed(k, New(u)) /\ New(u).query = Renamed(u.query, q.name, m)
    OBVIOUS
  <2>2. IsUse(u) /\ u.in \in Present(k) \cup Zones
    BY DEF WellFormed, UseFormed
  <2>3. PICK x : x = Renamed(u.query, q.name, m)
    OBVIOUS
  <2>4. PICK y : y = [u EXCEPT !.query = x]
    OBVIOUS
  <2>5. IsUse(y) /\ y.in = u.in /\ y.query = x
    BY <2>2, <2>4 DEF IsUse
  <2> QED  BY <2>2, <2>3, <2>4, <2>5 DEF UseFormed
<1> HIDE DEF New
<1>8. \A u \in U : UseFormed(k, u)
  BY <1>1, <1>7
<1>9. ASSUME Declared(k)
      PROVE  Declared(j)
  <2>1. ASSUME NEW u \in k.uses
        PROVE  Renamed(u.query, q.name, m) \in {x.name : x \in Q} \cup {Nameless}
    <3>1. u.query \in QueryNames(k) \cup {Nameless}
      BY <1>9 DEF Declared
    <3>2. CASE u.query # Nameless /\ u.query = q.name
      BY <3>2 DEF Renamed
    <3>3. CASE ~(u.query # Nameless /\ u.query = q.name)
      <4>1. Renamed(u.query, q.name, m) = u.query
        BY <3>3 DEF Renamed
      <4>2. CASE u.query = Nameless
        BY <4>1, <4>2
      <4>3. CASE u.query # Nameless
        <5>1. PICK x \in k.queries : x.name = u.query
          BY <3>1, <4>3 DEF QueryNames
        <5>2. x \in Q
          BY <3>3, <4>3, <5>1
        <5> QED  BY <4>1, <5>1, <5>2
      <4> QED  BY <4>2, <4>3
    <3> QED  BY <3>2, <3>3
  <2>2. \A u \in U : u.query \in {x.name : x \in Q} \cup {Nameless}
    BY <1>1, <1>7, <2>1
  <2>3. \A u \in j.uses : u.query \in QueryNames(j) \cup {Nameless}
    BY <1>5, <1>6, <2>2, Zenon DEF QueryNames
  <2>4. \A x \in j.queries : x.collection \in j.collections \cup {Nameless}
    BY <1>5, <1>6, <1>9
  <2> QED  BY <2>3, <2>4 DEF Declared
<1>10. SamePages(j, k) /\ j.links = k.links /\ j.uses = U
  BY <1>5, <1>6 DEF SamePages
<1>11. \A x \in j.queries : IsQuery(x)
  BY <1>6
<1> QED  BY <1>6, <1>8, <1>9, <1>10, <1>11, SetData

LEMMA RenameQueryKeeps ==
    ASSUME NEW k, NEW n, WellFormed(k, n), NEW q \in k.queries, NEW m
    PROVE  Keeps(RenameQuery(k, q, m), k, n)
<1>1. PICK v : v = [q EXCEPT !.name = m]
  OBVIOUS
<1>2. PICK Q : Q = (k.queries \ {q}) \cup {v}
  OBVIOUS
<1>3. IsQuery(q)
  BY DEF WellFormed
<1>4. IsQuery(v) /\ v.name = m /\ v.collection = q.collection
  BY <1>1, <1>3 DEF IsQuery
<1>5. PICK i : i = UpdateQueryRefs(k, q.name, m)
  OBVIOUS
<1>6. i.queries = k.queries
  BY <1>5 DEF UpdateQueryRefs, WellFormed, IsTree
<1>7. RenameQuery(k, q, m) = [i EXCEPT !.queries = Q]
  <2>1. RenameQuery(k, q, m) = [i EXCEPT !.queries = (i.queries \ {q}) \cup {v}]
    BY <1>1, <1>5, Zenon DEF RenameQuery
  <2> QED  BY <1>2, <1>6, <2>1
<1>8. \A x \in Q : IsQuery(x)
  BY <1>2, <1>4 DEF WellFormed
<1>9. k.queries \ {q} \subseteq Q /\ m \in {x.name : x \in Q} \cup {Nameless}
  BY <1>2, <1>4
<1>10. Declared(k) => \A x \in Q : x.collection \in k.collections \cup {Nameless}
  BY <1>2, <1>4 DEF Declared
<1> QED  BY <1>5, <1>7, <1>8, <1>9, <1>10, QueryRenamed

LEMMA RemoveQueryKeeps ==
    ASSUME NEW k, NEW n, WellFormed(k, n), NEW q \in k.queries
    PROVE  Keeps(RemoveQuery(k, q), k, n)
<1>1. PICK Q : Q = k.queries \ {q}
  OBVIOUS
<1>2. PICK i : i = UpdateQueryRefs(k, q.name, Nameless)
  OBVIOUS
<1>3. i.queries = k.queries
  BY <1>2 DEF UpdateQueryRefs, WellFormed, IsTree
<1>4. RemoveQuery(k, q) = [i EXCEPT !.queries = Q]
  <2>1. RemoveQuery(k, q) = [i EXCEPT !.queries = i.queries \ {q}]
    BY <1>2, Zenon DEF RemoveQuery
  <2> QED  BY <1>1, <1>3, <2>1
<1>5. \A x \in Q : IsQuery(x)
  BY <1>1 DEF WellFormed
<1>6. k.queries \ {q} \subseteq Q /\ Nameless \in {x.name : x \in Q} \cup {Nameless}
  BY <1>1
<1>7. Declared(k) => \A x \in Q : x.collection \in k.collections \cup {Nameless}
  BY <1>1 DEF Declared
<1> QED  BY <1>2, <1>4, <1>5, <1>6, <1>7, QueryRenamed

LEMMA AddCollectionKeeps ==
    ASSUME NEW k, NEW n, WellFormed(k, n), NEW m
    PROVE  Keeps(AddCollection(k, m), k, n)
<1>1. PICK t : t = IF m = Nameless THEN <<"new_collection">> ELSE m
  OBVIOUS
<1>2. PICK C : C = k.collections \cup {Unique(k.collections, t)}
  OBVIOUS
<1>3. PICK j : j = [k EXCEPT !.collections = C]
  OBVIOUS
<1>4. AddCollection(k, m) = j
  BY <1>1, <1>2, <1>3, Zenon DEF AddCollection
<1>5. /\ IsTree(j) /\ SamePages(j, k) /\ j.links = k.links /\ j.uses = k.uses
      /\ j.queries = k.queries /\ j.collections = C
  BY <1>3 DEF WellFormed, IsTree, SamePages
<1>6. k.collections \subseteq C
  BY <1>2
<1>7. ASSUME Declared(k)
      PROVE  Declared(j)
  <2>1. \A u \in j.uses : u.query \in QueryNames(j) \cup {Nameless}
    BY <1>5, <1>7, Zenon DEF Declared, QueryNames
  <2>2. \A q \in j.queries : q.collection \in j.collections \cup {Nameless}
    BY <1>5, <1>6, <1>7 DEF Declared
  <2> QED  BY <2>1, <2>2 DEF Declared
<1>8. /\ \A u \in j.uses : UseFormed(k, u)
      /\ \A q \in j.queries : IsQuery(q)
  BY <1>5 DEF WellFormed
<1> QED  BY <1>4, <1>5, <1>7, <1>8, SetData

\* What updateRefs makes of the queries of a collection: m instead of c.
LEMMA CollectionRenamed ==
    ASSUME NEW k, NEW n, WellFormed(k, n), NEW c, NEW m,
           NEW C, k.collections \ {c} \subseteq C, m \in C \cup {Nameless},
           NEW j, j = [UpdateCollectionRefs(k, c, m) EXCEPT !.collections = C]
    PROVE  Keeps(j, k, n)
<1> DEFINE New(q) == [q EXCEPT !.collection = Renamed(q.collection, c, m)]
<1>1. PICK Q : Q = {New(q) : q \in k.queries}
  OBVIOUS
<1>2. PICK i : i = [k EXCEPT !.queries = Q]
  OBVIOUS
<1>3. j = [i EXCEPT !.collections = C]
  BY <1>1, <1>2, Zenon DEF UpdateCollectionRefs
<1>4. IsTree(k)
  BY DEF WellFormed
<1>5. IsTree(i) /\ i.parent = k.parent /\ i.name = k.name /\ i.links = k.links /\ i.uses = k.uses
      /\ i.queries = Q
  BY <1>2, <1>4 DEF IsTree
<1>6. IsTree(j) /\ j.parent = i.parent /\ j.name = i.name /\ j.links = i.links /\ j.uses = i.uses
      /\ j.queries = i.queries /\ j.collections = C
  BY <1>3, <1>5 DEF IsTree
<1>7. \A q \in k.queries : /\ IsQuery(New(q)) /\ New(q).name = q.name
                           /\ New(q).collection = Renamed(q.collection, c, m)
  <2>1. SUFFICES ASSUME NEW q \in k.queries
                 PROVE  /\ IsQuery(New(q)) /\ New(q).name = q.name
                        /\ New(q).collection = Renamed(q.collection, c, m)
    OBVIOUS
  <2>2. IsQuery(q)
    BY DEF WellFormed
  <2>3. PICK x : x = Renamed(q.collection, c, m)
    OBVIOUS
  <2>4. PICK y : y = [q EXCEPT !.collection = x]
    OBVIOUS
  <2>5. IsQuery(y) /\ y.name = q.name /\ y.collection = x
    BY <2>2, <2>4 DEF IsQuery
  <2> QED  BY <2>3, <2>4, <2>5
<1> HIDE DEF New
<1>8. \A q \in j.queries : IsQuery(q)
  BY <1>1, <1>5, <1>6, <1>7
<1>9. QueryNames(j) = QueryNames(k)
  BY <1>1, <1>5, <1>6, <1>7 DEF QueryNames
<1>10. ASSUME Declared(k)
       PROVE  Declared(j)
  <2>1. \A u \in j.uses : u.query \in QueryNames(j) \cup {Nameless}
    BY <1>5, <1>6, <1>9, <1>10 DEF Declared
  <2>2. ASSUME NEW q \in k.queries
        PROVE  Renamed(q.collection, c, m) \in C \cup {Nameless}
    BY <1>10 DEF Declared, Renamed
  <2>3. \A q \in j.queries : q.collection \in j.collections \cup {Nameless}
    BY <1>1, <1>5, <1>6, <1>7, <2>2
  <2> QED  BY <2>1, <2>3 DEF Declared
<1>11. \A u \in j.uses : UseFormed(k, u)
  BY <1>5, <1>6 DEF WellFormed
<1>12. SamePages(j, k) /\ j.links = k.links
  BY <1>5, <1>6 DEF SamePages
<1> QED  BY <1>6, <1>8, <1>10, <1>11, <1>12, SetData

LEMMA RenameCollectionKeeps ==
    ASSUME NEW k, NEW n, WellFormed(k, n), NEW c, NEW m
    PROVE  Keeps(RenameCollection(k, c, m), k, n)
<1>1. PICK i : i = UpdateCollectionRefs(k, c, m)
  OBVIOUS
<1>2. i.collections = k.collections
  BY <1>1 DEF UpdateCollectionRefs, WellFormed, IsTree
<1>3. PICK C : C = (k.collections \ {c}) \cup {m}
  OBVIOUS
<1>4. RenameCollection(k, c, m) = [i EXCEPT !.collections = C]
  <2>1. RenameCollection(k, c, m) = [i EXCEPT !.collections = (i.collections \ {c}) \cup {m}]
    BY <1>1, Zenon DEF RenameCollection
  <2> QED  BY <1>2, <1>3, <2>1
<1>5. k.collections \ {c} \subseteq C /\ m \in C \cup {Nameless}
  BY <1>3
<1> QED  BY <1>1, <1>4, <1>5, CollectionRenamed

LEMMA RemoveCollectionKeeps ==
    ASSUME NEW k, NEW n, WellFormed(k, n), NEW c
    PROVE  Keeps(RemoveCollection(k, c), k, n)
<1>1. PICK i : i = UpdateCollectionRefs(k, c, Nameless)
  OBVIOUS
<1>2. i.collections = k.collections
  BY <1>1 DEF UpdateCollectionRefs, WellFormed, IsTree
<1>3. PICK C : C = k.collections \ {c}
  OBVIOUS
<1>4. RemoveCollection(k, c) = [i EXCEPT !.collections = C]
  <2>1. RemoveCollection(k, c) = [i EXCEPT !.collections = i.collections \ {c}]
    BY <1>1, Zenon DEF RemoveCollection
  <2> QED  BY <1>2, <1>3, <2>1
<1>5. k.collections \ {c} \subseteq C /\ Nameless \in C \cup {Nameless}
  BY <1>3
<1> QED  BY <1>1, <1>4, <1>5, CollectionRenamed

LEMMA RestKeeps ==
    ASSUME NEW k, NEW n, WellFormed(k, n), NEW j, j = [k EXCEPT !.rest = ~@]
    PROVE  Keeps(j, k, n)
<1>1. PICK b : b = ~k.rest
  OBVIOUS
<1>2. j = [k EXCEPT !.rest = b]
  BY <1>1, Zenon
<1>3. /\ IsTree(j) /\ SamePages(j, k) /\ j.links = k.links /\ j.uses = k.uses
      /\ j.queries = k.queries /\ j.collections = k.collections
  BY <1>2 DEF WellFormed, IsTree, SamePages
<1>4. Declared(k) => Declared(j)
  BY <1>3, Zenon DEF Declared, QueryNames
<1>5. /\ \A u \in j.uses : UseFormed(k, u)
      /\ \A q \in j.queries : IsQuery(q)
  BY <1>3 DEF WellFormed
<1> QED  BY <1>3, <1>4, <1>5, SetData

-----------------------------------------------------------------------------
(* New pages.                                                              *)

\* Of one more numbers than there are names, one is free.
LEMMA UniqueIsFree ==
    ASSUME NEW taken, IsFiniteSet(taken), NEW t
    PROVE  /\ Unique(taken, t) \notin taken
           /\ t # Nameless => Unique(taken, t) # Nameless
<1>1. CASE t \notin taken
  <2>1. Unique(taken, t) = t
    BY <1>1, Zenon DEF Unique
  <2> QED  BY <1>1, <2>1
<1>2. CASE t \in taken
  <2> DEFINE M == Cardinality(taken) + 1
             Free(i) == <<t, i>> \notin taken
             Least(i) == Free(i) /\ \A j \in 1 .. i - 1 : ~Free(j)
  <2>1. Cardinality(taken) \in Nat
    BY FS_CardinalityType
  <2>2. \E i \in 1 .. M : Free(i)
    <3>1. SUFFICES ASSUME \A i \in 1 .. M : <<t, i>> \in taken PROVE FALSE
      OBVIOUS
    <3>2. IsFiniteSet(1 .. M) /\ Cardinality(1 .. M) = M
      BY <2>1, FS_Interval
    <3>3. PICK f : f = [i \in 1 .. M |-> <<t, i>>]
      OBVIOUS
    <3>4. f \in [1 .. M -> taken]
      BY <3>1, <3>3
    <3>5. Cardinality(taken) < Cardinality(1 .. M)
      BY <2>1, <3>2
    <3>6. \E x, y \in 1 .. M : x # y /\ f[x] = f[y]
      BY <3>2, <3>4, <3>5, FS_PigeonHole
    <3> QED  BY <3>3, <3>6
  <2>3. \E i \in 1 .. M : Least(i)
    <3> DEFINE T == {i \in 1 .. M : Free(i)}
    <3>1. T # {} /\ T \subseteq Nat
      BY <2>1, <2>2
    <3> DEFINE R == OpToRel(<, Nat)
    <3>2. PICK x \in T : \A y \in T : <<y, x>> \notin R
      <4> HIDE DEF T, R
      <4>1. IsWellFoundedOn(R, Nat)
        BY NatLessThanWellFounded DEF R
      <4> QED  BY <3>1, <4>1, WFMin
    <3>3. \A y \in T : ~(y < x)
      BY <3>1, <3>2 DEF OpToRel
    <3>4. ASSUME NEW j \in 1 .. x - 1
          PROVE  ~Free(j)
      BY <2>1, <3>3
    <3> QED  BY <3>4
  <2> DEFINE i == CHOOSE i \in 1 .. M : Least(i)
  <2>4. Free(i)
    BY <2>3
  <2>5. Unique(taken, t) = <<t, i>>
    BY <1>2, Zenon DEF Unique
  <2> HIDE DEF i
  <2>6. <<t, i>> # Nameless
    BY DEF Nameless
  <2> QED  BY <2>4, <2>5, <2>6
<1> QED  BY <1>1, <1>2

LEMMA NamesFinite ==
    ASSUME NEW k, NEW z
    PROVE  IsFiniteSet(NamesIn(k, z))
<1>1. PICK S : S = Siblings(k, z)
  OBVIOUS
<1>2. IsFiniteSet(S)
  <2>1. IsFiniteSet(Pages)
    BY FS_Interval, TreeAssumption DEF Pages
  <2>2. S \in SUBSET Pages
    BY <1>1 DEF Siblings
  <2> QED  BY <2>1, <2>2, FS_Subset
<1>3. PICK f : f = [p \in S |-> k.name[p]]
  OBVIOUS
<1>4. NamesIn(k, z) = {f[p] : p \in S}
  BY <1>1, <1>3 DEF NamesIn
<1>5. f \in Surjection(S, NamesIn(k, z))
  BY <1>3, <1>4 DEF Surjection
<1> QED  BY <1>2, <1>5, FS_Surjection

\* A tree with one page more, which has a name no page beside it has.
LEMMA AddPageKeeps ==
    ASSUME NEW k, NEW n \in Nat, WellFormed(k, n), NEW z \in Present(k) \cup Zones,
           NEW p \in Pages, p = n + 1, NEW m, NEW j, j = AddPage(k, z, p, m)
    PROVE  /\ WellFormed(j, p)
           /\ Present(j) = Present(k) \cup {p}
           /\ j.queries = k.queries /\ j.collections = k.collections
           /\ \A X : RefsOK(k, X) => RefsOK(j, X)
<1>1. PICK t : t = IF m = Nameless THEN <<"new_page">> ELSE m
  OBVIOUS
<1>2. PICK u : u = Unique(NamesIn(k, z), t)
  OBVIOUS
<1>3. PICK i : i = [k EXCEPT !.parent[p] = z]
  OBVIOUS
<1>4. j = [i EXCEPT !.name[p] = u]
  <2>1. AddPage(k, z, p, m) = [[k EXCEPT !.parent[p] = z] EXCEPT !.name[p] = u]
    BY <1>1, <1>2, Zenon DEF AddPage
  <2> QED  BY <1>3, <2>1, Zenon
<1>5. IsTree(k) /\ PagesFormed(k, n)
  BY DEF WellFormed
<1>6. /\ IsTree(i) /\ i.parent = [k.parent EXCEPT ![p] = z] /\ i.name = k.name
      /\ i.links = k.links /\ i.uses = k.uses
      /\ i.queries = k.queries /\ i.collections = k.collections
  BY <1>3, <1>5 DEF IsTree
<1>7. /\ IsTree(j) /\ j.parent = i.parent /\ j.name = [i.name EXCEPT ![p] = u]
      /\ j.links = i.links /\ j.uses = i.uses
      /\ j.queries = i.queries /\ j.collections = i.collections
  BY <1>4, <1>6 DEF IsTree
<1>8. p \notin Present(k) /\ Present(k) \subseteq Pages /\ Pages \subseteq Nat
  BY <1>5, TreeAssumption DEF PagesFormed, Present, Pages
<1>9. /\ k.parent \in [Pages -> Spots \cup {Nowhere}]
      /\ k.name = [q \in Pages |-> k.name[q]]
      /\ \A q \in Present(k) :
            q <= n /\ (k.parent[q] \in Pages => k.parent[q] \in Present(k) /\ k.parent[q] < q)
  BY <1>5 DEF PagesFormed
<1>10. /\ j.parent[p] = z /\ j.name[p] = u
       /\ \A q \in Pages : q # p => j.parent[q] = k.parent[q] /\ j.name[q] = k.name[q]
  BY <1>6, <1>7, <1>9
<1>11. z # Nowhere /\ z \in Spots
  BY <1>8, TreeAssumption DEF Spots
<1>12. Present(j) = Present(k) \cup {p}
  BY <1>10, <1>11 DEF Present
<1>13. z \in Pages => z \in Present(k) /\ z < p
  <2>1. z \in Pages => z \in Present(k)
    BY TreeAssumption
  <2> QED  BY <1>8, <1>9, <2>1
<1>14. PagesFormed(j, p)
  <2>1. j.parent \in [Pages -> Spots \cup {Nowhere}]
    BY <1>6, <1>7, <1>9, <1>11
  <2>2. j.name = [q \in Pages |-> j.name[q]]
    BY <1>6, <1>7, <1>9
  <2>3. ASSUME NEW q \in Present(j)
        PROVE  /\ q <= p
               /\ j.parent[q] \in Pages => j.parent[q] \in Present(j) /\ j.parent[q] < q
    <3>1. CASE q = p
      BY <1>8, <1>10, <1>12, <1>13, <3>1
    <3>2. CASE q # p
      <4>1. q \in Present(k) /\ q \in Pages /\ q <= n
        BY <1>8, <1>9, <1>12, <3>2
      <4>2. q <= p
        BY <1>8, <4>1
      <4> QED  BY <1>9, <1>10, <1>12, <3>2, <4>1, <4>2
    <3> QED  BY <3>1, <3>2
  <2> QED  BY <2>1, <2>2, <2>3 DEF PagesFormed
<1>15. \A l \in j.links : LinkFormed(j, p, l)
  <2>1. ASSUME NEW l \in k.links
        PROVE  LinkFormed(j, p, l)
    <3>1. LinkFormed(k, n, l)
      BY DEF WellFormed
    <3>2. IsLink(l) /\ l.in \in Present(j) \cup Zones
      BY <1>12, <3>1 DEF LinkFormed
    <3>3. \A g \in Pages : g <= n => g <= p
      BY <1>8
    <3>4. l.goal = Nowhere \/ (l.goal \in Pages /\ l.goal <= p)
      BY <3>1, <3>3, Zenon DEF LinkFormed
    <3> QED  BY <3>2, <3>4, Zenon DEF LinkFormed
  <2> QED  BY <1>6, <1>7, <2>1
<1>16. \A v \in j.uses : UseFormed(j, v)
  <2>1. ASSUME NEW v \in k.uses
        PROVE  UseFormed(j, v)
    <3>1. UseFormed(k, v)
      BY DEF WellFormed
    <3> QED  BY <1>12, <3>1 DEF UseFormed
  <2> QED  BY <1>6, <1>7, <2>1
<1>17. WellFormed(j, p)
  <2>1. \A q \in j.queries : IsQuery(q)
    BY <1>6, <1>7 DEF WellFormed
  <2> QED  BY <1>7, <1>14, <1>15, <1>16, <2>1, Zenon DEF WellFormed
<1>18. \A q \in Present(k) : Route(j, q) = Route(k, q)
  <2>1. TopDown(k) /\ TopDown(j)
    BY <1>5, <1>14, FormedTree
  <2>2. \A q \in Present(k) : /\ j.parent[q] = k.parent[q] /\ j.name[q] = k.name[q]
                              /\ k.parent[q] \in Pages => k.parent[q] \in Present(k)
    BY <1>8, <1>9, <1>10
  <2> QED  BY <1>8, <2>1, <2>2, SameRoutes
<1>19. ASSUME NEW X, RefsOK(k, X)
       PROVE  RefsOK(j, X)
  <2>1. u \notin NamesIn(k, z) /\ u # Nameless
    <3>1. t # Nameless
      BY <1>1 DEF Nameless
    <3> QED  BY <1>2, <3>1, NamesFinite, UniqueIsFree
  <2>2. Named(j)
    BY <1>8, <1>10, <1>12, <1>19, <2>1 DEF RefsOK, Named
  <2>3. \A q \in Present(k) : k.parent[q] = z => k.name[q] # u
    BY <1>8, <2>1 DEF NamesIn, Siblings
  <2>4. NamesDiffer(j)
    BY <1>8, <1>10, <1>12, <1>19, <2>3 DEF RefsOK, NamesDiffer
  <2>5. ASSUME NEW l \in k.links
        PROVE  LinkKept(j, X, l)
    <3>1. LinkFormed(k, n, l) /\ LinkKept(k, X, l)
      BY <1>19 DEF WellFormed, RefsOK
    <3>2. l.goal # p
      BY <1>8, <3>1, TreeAssumption DEF LinkFormed, Spots
    <3>3. l.goal \in Present(j) <=> l.goal \in Present(k)
      BY <1>12, <3>2
    <3> QED  BY <1>18, <3>1, <3>3, Zenon DEF LinkKept
  <2>6. \A l \in j.links : LinkKept(j, X, l)
    BY <1>6, <1>7, <2>5
  <2>7. Declared(j)
    <3>1. j.uses = k.uses /\ j.queries = k.queries /\ j.collections = k.collections
      BY <1>6, <1>7
    <3> QED  BY <1>19, <3>1, Zenon DEF RefsOK, Declared, QueryNames
  <2> QED  BY <2>2, <2>4, <2>6, <2>7 DEF RefsOK
<1> QED  BY <1>6, <1>7, <1>12, <1>17, <1>19

-----------------------------------------------------------------------------
(* Pages that are renamed or removed.                                      *)

LEMMA RouteNamed ==
    ASSUME NEW k, TopDown(k), Rooted(k), Named(k)
    PROVE  \A p \in Present(k) : \A i \in 1 .. Len(Route(k, p)) : Route(k, p)[i] # Nameless
<1> DEFINE Ok(p) == \A i \in 1 .. Len(Route(k, p)) : Route(k, p)[i] # Nameless
           S == {p \in Pages : p \in Present(k) => Ok(p)}
<1>0. Present(k) \subseteq Pages
  BY DEF Present
<1>1. ASSUME NEW p \in Pages, \A q \in Pages : q < p => q \in S
      PROVE  p \in S
  <2>1. SUFFICES ASSUME p \in Present(k) PROVE Ok(p)
    OBVIOUS
  <2>2. PICK r : r = Route(k, p)
    OBVIOUS
  <2>3. Len(r) \in Nat /\ Len(r) >= 1 /\ r[Len(r)] # Nameless
    BY <2>1, <2>2, RouteShape DEF Named
  <2>4. CASE k.parent[p] \in Pages
    <3>1. PICK s : s = Route(k, k.parent[p])
      OBVIOUS
    <3>2. Len(r) = Len(s) + 1 /\ \A i \in 1 .. Len(s) : r[i] = s[i]
      BY <2>2, <2>4, <3>1, RouteShape
    <3>3. Len(s) \in Nat
      BY <2>4, <3>1, RouteShape
    <3>4. Ok(k.parent[p])
      BY <1>1, <2>1, <2>4 DEF TopDown, Rooted
    <3>5. \A i \in 1 .. Len(s) : s[i] # Nameless
      BY <3>1, <3>4
    <3>6. \A i \in 1 .. Len(r) : r[i] # Nameless
      BY <2>3, <3>2, <3>3, <3>5
    <3> QED  BY <2>2, <3>6
  <2>5. CASE k.parent[p] \notin Pages
    <3>1. Len(r) = 1
      BY <2>2, <2>5, RouteShape
    <3>2. \A i \in 1 .. Len(r) : r[i] # Nameless
      BY <2>3, <3>1
    <3> QED  BY <2>2, <3>2
  <2> QED  BY <2>4, <2>5
<1>2. Pages \subseteq S
  <2> HIDE DEF S
  <2> QED  BY <1>1, PageInduction
<1> QED  BY <1>0, <1>2

\* The route of a page elsewhere begins with that of p only if some page it is
\* in cannot be told from p.
LEMMA RouteElsewhere ==
    ASSUME NEW k, TopDown(k), Rooted(k), NEW p \in Present(k), NEW g \in Present(k),
           g \notin Inside(k, p), g \notin Ambiguous(k)
    PROVE  ~Extends(Route(k, g), Route(k, p))
<1>1. SUFFICES ASSUME Extends(Route(k, g), Route(k, p)) PROVE FALSE
  OBVIOUS
<1>2. p \in Pages
  BY DEF Present
<1>3. PICK s : s = Route(k, p) /\ IsSeq(s) /\ Len(s) >= 1
  BY <1>2, RouteShape
<1>4. PICK a \in Present(k) : g \in Inside(k, a) /\ Route(k, a) = s
  BY <1>1, <1>3, ExtendsInside
<1>5. a # p
  BY <1>4
<1>6. g \in Ambiguous(k)
  BY <1>3, <1>4, <1>5 DEF Ambiguous
<1> QED  BY <1>6

\* The new name at the end of a route.
LEMMA LastNameIs ==
    ASSUME NEW s, IsSeq(s), Len(s) >= 1, NEW m, NEW w, w = [s EXCEPT ![Len(s)] = m]
    PROVE  /\ IsSeq(w) /\ Len(w) = Len(s)
           /\ \A i \in 1 .. Len(s) : w[i] = IF i = Len(s) THEN m ELSE s[i]
<1>1. PICK S : S = {s[i] : i \in DOMAIN s} \cup {m}
  OBVIOUS
<1>2. s \in Seq(S) /\ m \in S /\ Len(s) \in Nat
  BY <1>1, LenIsNat DEF IsSeq
<1>3. w \in Seq(S)
  BY <1>2
<1>4. IsSeq(w)
  BY <1>3, SeqIsSeq
<1> QED  BY <1>2, <1>4

NewRoute(v, m) == IF m = Nameless THEN Empty ELSE [v EXCEPT ![Len(v)] = m]

\* What updateRefs makes of the links to a page and to the pages inside it.
LEMMA LinksUpdated ==
    ASSUME NEW k, NEW n, WellFormed(k, n), NEW p, NEW m,
           NEW v, v = Route(k, p),
           NEW w, w = NewRoute(v, m),
           NEW i, i = UpdateRoutes(k, p, m)
    PROVE  /\ IsTree(i) /\ SamePages(i, k)
           /\ i.uses = k.uses /\ i.queries = k.queries /\ i.collections = k.collections
           /\ \A l \in i.links : /\ IsLink(l)
                                 /\ \E x \in k.links : /\ l.in = x.in /\ l.goal = x.goal
                                                       /\ l.route = Redirect(x.route, v, w)
<1> DEFINE New(l) == [l EXCEPT !.route = Redirect(l.route, v, w)]
<1>1. PICK L : L = {New(l) : l \in k.links}
  OBVIOUS
<1>2. i = [k EXCEPT !.links = L]
  BY <1>1, Zenon DEF UpdateRoutes, NewRoute
<1>3. /\ IsTree(i) /\ SamePages(i, k) /\ i.links = L
      /\ i.uses = k.uses /\ i.queries = k.queries /\ i.collections = k.collections
  BY <1>2 DEF WellFormed, IsTree, SamePages
<1>4. ASSUME NEW l \in k.links
      PROVE  /\ IsLink(New(l)) /\ New(l).in = l.in /\ New(l).goal = l.goal
             /\ New(l).route = Redirect(l.route, v, w)
  <2>1. IsLink(l)
    BY DEF WellFormed, LinkFormed
  <2>2. PICK x : x = Redirect(l.route, v, w)
    OBVIOUS
  <2>3. PICK y : y = [l EXCEPT !.route = x]
    OBVIOUS
  <2>4. IsLink(y) /\ y.in = l.in /\ y.goal = l.goal /\ y.route = x
    BY <2>1, <2>3 DEF IsLink
  <2> QED  BY <2>2, <2>3, <2>4
<1> HIDE DEF New
<1>5. ASSUME NEW l \in L
      PROVE  /\ IsLink(l)
             /\ \E x \in k.links : /\ l.in = x.in /\ l.goal = x.goal
                                   /\ l.route = Redirect(x.route, v, w)
  <2>1. PICK x \in k.links : l = New(x)
    BY <1>1
  <2> QED  BY <1>4, <2>1, Zenon
<1>6. \A l \in i.links : l \in L
  BY <1>3
<1> QED  BY <1>3, <1>5, <1>6, Zenon

\* A new name of a page changes the routes that lead to it or through it, and
\* with them the links.
LEMMA RenamePageWell ==
    ASSUME NEW k, NEW n, WellFormed(k, n), NEW p \in Present(k), NEW m,
           NEW j, j = RenamePage(k, p, m)
    PROVE  /\ WellFormed(j, n)
           /\ j.parent = k.parent
           /\ \A q \in Pages : j.name[q] = IF q = p THEN m ELSE k.name[q]
           /\ Present(j) = Present(k)
<1>1. PICK i : i = UpdateRoutes(k, p, m)
  OBVIOUS
<1>2. j = [i EXCEPT !.name[p] = m]
  BY <1>1, Zenon DEF RenamePage
<1>3. /\ IsTree(i) /\ SamePages(i, k) /\ i.uses = k.uses /\ i.queries = k.queries
      /\ \A l \in i.links : IsLink(l) /\ \E x \in k.links : l.in = x.in /\ l.goal = x.goal
  <2>1. PICK v : v = Route(k, p)
    OBVIOUS
  <2>2. PICK w : w = NewRoute(v, m)
    OBVIOUS
  <2> QED  BY <1>1, <2>1, <2>2, LinksUpdated
<1>4. /\ IsTree(j) /\ j.parent = k.parent /\ j.name = [k.name EXCEPT ![p] = m]
      /\ j.links = i.links /\ j.uses = k.uses /\ j.queries = k.queries
  BY <1>2, <1>3 DEF IsTree, SamePages
<1>5. PagesFormed(k, n)
  BY DEF WellFormed
<1>6. p \in Pages /\ k.name = [q \in Pages |-> k.name[q]]
  BY <1>5 DEF Present, PagesFormed
<1>7. Present(j) = Present(k)
  BY <1>4 DEF Present
<1>8. \A q \in Pages : j.name[q] = IF q = p THEN m ELSE k.name[q]
  BY <1>4, <1>6
<1>9. PagesFormed(j, n)
  <2>1. j.name = [q \in Pages |-> j.name[q]]
    BY <1>4, <1>6
  <2> QED  BY <1>4, <1>5, <1>7, <2>1, Zenon DEF PagesFormed
<1>10. \A l \in j.links : LinkFormed(j, n, l)
  <2>1. ASSUME NEW l \in i.links
        PROVE  LinkFormed(j, n, l)
    <3>1. IsLink(l) /\ \E x \in k.links : l.in = x.in /\ l.goal = x.goal
      BY <1>3
    <3>2. PICK x \in k.links : l.in = x.in /\ l.goal = x.goal
      BY <3>1
    <3>3. LinkFormed(k, n, x)
      BY DEF WellFormed
    <3> QED  BY <1>7, <3>1, <3>2, <3>3, Zenon DEF LinkFormed
  <2> QED  BY <1>4, <2>1
<1>11. \A u \in j.uses : UseFormed(j, u)
  BY <1>4, <1>7 DEF WellFormed, UseFormed
<1>12. \A q \in j.queries : IsQuery(q)
  BY <1>4 DEF WellFormed
<1> QED  BY <1>4, <1>7, <1>8, <1>9, <1>10, <1>11, <1>12, Zenon DEF WellFormed

LEMMA RenamePageRefs ==
    ASSUME NEW k, NEW n, WellFormed(k, n), NEW p \in Present(k), NEW m, m # Nameless,
           NameIsFree(NamesIn(k, k.parent[p]) \ {k.name[p]}, m),
           NEW j, j = RenamePage(k, p, m),
           NEW X, RefsOK(k, X), Ambiguous(k) \subseteq X
    PROVE  RefsOK(j, X)
<1>1. PICK i : i = UpdateRoutes(k, p, m)
  OBVIOUS
<1>2. j = [i EXCEPT !.name[p] = m]
  BY <1>1, Zenon DEF RenamePage
<1>3. PICK v : v = Route(k, p)
  OBVIOUS
<1>4. PICK w : w = [v EXCEPT ![Len(v)] = m]
  OBVIOUS
<1>5. /\ IsTree(i) /\ i.uses = k.uses /\ i.queries = k.queries /\ i.collections = k.collections
      /\ \A l \in i.links : \E x \in k.links : /\ l.in = x.in /\ l.goal = x.goal
                                               /\ l.route = Redirect(x.route, v, w)
  <2>1. w = NewRoute(v, m)
    BY <1>4, Zenon DEF NewRoute
  <2> QED  BY <1>1, <1>3, <2>1, LinksUpdated
<1>6. /\ j.links = i.links /\ j.uses = k.uses /\ j.queries = k.queries
      /\ j.collections = k.collections
  BY <1>2, <1>5 DEF IsTree
<1>7. /\ j.parent = k.parent /\ Present(j) = Present(k)
      /\ \A q \in Pages : j.name[q] = IF q = p THEN m ELSE k.name[q]
  BY RenamePageWell
<1>8. TopDown(k) /\ Rooted(k) /\ TopDown(j) /\ p \in Pages /\ Present(k) \subseteq Pages
  BY RenamePageWell, FormedTree DEF WellFormed, Present
<1>9. Named(k) /\ NamesDiffer(k) /\ Declared(k)
  BY DEF RefsOK
<1>10. Named(j)
  BY <1>7, <1>8, <1>9 DEF Named
<1>11. NamesDiffer(j)
  <2>1. \A q \in Present(k) : q # p /\ k.parent[q] = k.parent[p] => k.name[q] # m
    BY <1>8, <1>9 DEF NamesDiffer, Named, NameIsFree, NamesIn, Siblings
  <2> QED  BY <1>7, <1>8, <1>9, <2>1 DEF NamesDiffer
<1>12. Declared(j)
  BY <1>6, <1>9, Zenon DEF Declared, QueryNames
<1>13. IsSeq(v) /\ Len(v) \in Nat /\ Len(v) >= 1
  BY <1>3, <1>8, RouteShape
<1>14. /\ IsSeq(w) /\ Len(w) = Len(v)
       /\ \A x \in 1 .. Len(v) : w[x] = IF x = Len(v) THEN m ELSE v[x]
  <2>1. IsSeq(w) /\ Len(w) = Len(v)
    BY <1>4, <1>13, LastNameIs, Zenon
  <2>2. \A x \in 1 .. Len(v) : w[x] = IF x = Len(v) THEN m ELSE v[x]
    BY <1>4, <1>13, LastNameIs
  <2> QED  BY <2>1, <2>2
<1>15. \A q \in Present(k) : \A x \in 1 .. Len(Route(k, q)) : Route(k, q)[x] # Nameless
  BY <1>8, <1>9, RouteNamed
<1>16. ASSUME NEW g \in Present(k), g \in Inside(k, p)
       PROVE  Redirect(Route(k, g), v, w) = Route(j, g)
  <2>1. PICK r, s : r = Route(k, g) /\ s = Route(j, g)
    OBVIOUS
  <2>2. IsSeq(r) /\ IsSeq(s) /\ Len(r) \in Nat /\ Len(r) >= 1
    BY <1>8, <2>1, RouteShape
  <2>3. Extends(r, v)
    BY <1>3, <1>8, <1>16, <2>1, InsideExtends
  <2>4. r # Empty
    <3>1. r[1] # Nameless
      BY <1>15, <2>1, <2>2
    <3> QED  BY <3>1, EmptyShape
  <2>5. PICK t : t = Redirect(r, v, w)
    OBVIOUS
  <2>6. /\ IsSeq(t) /\ Len(t) = Len(w) + (Len(r) - Len(v))
        /\ \A x \in 1 .. Len(w) : t[x] = w[x]
        /\ \A x \in 1 .. Len(r) - Len(v) : t[Len(w) + x] = r[Len(v) + x]
    BY <1>13, <1>14, <2>2, <2>3, <2>4, <2>5, RedirectInside
  <2>7. /\ Len(s) = Len(r)
        /\ \A x \in 1 .. Len(r) : s[x] = IF x = Len(v) THEN m ELSE r[x]
    BY <1>3, <1>7, <1>8, <1>16, <2>1, RenamedRoutes
  <2>8. Len(v) <= Len(r) /\ \A x \in 1 .. Len(v) : r[x] = v[x]
    BY <2>3 DEF Extends
  <2>9. Len(t) = Len(s)
    BY <1>13, <1>14, <2>2, <2>6, <2>7
  <2>10. ASSUME NEW x \in 1 .. Len(t)
         PROVE  t[x] = s[x]
    <3>1. CASE x <= Len(v)
      BY <1>13, <1>14, <2>2, <2>6, <2>7, <2>8, <3>1
    <3>2. CASE x > Len(v)
      <4>1. PICK y \in 1 .. Len(r) - Len(v) : x = Len(v) + y
        <5>1. x - Len(v) \in 1 .. Len(r) - Len(v) /\ x = Len(v) + (x - Len(v))
          BY <1>13, <1>14, <2>2, <2>6, <3>2
        <5> QED  BY <5>1
      <4>2. t[x] = r[x]
        BY <1>14, <2>6, <4>1
      <4>3. s[x] = r[x]
        BY <1>13, <1>14, <2>2, <2>6, <2>7, <3>2
      <4> QED  BY <4>2, <4>3
    <3> QED  BY <1>13, <2>2, <2>6, <3>1, <3>2
  <2> QED  BY <2>1, <2>2, <2>5, <2>6, <2>9, <2>10, SameSeq
<1>17. ASSUME NEW g \in Present(k), g \notin Inside(k, p)
       PROVE  Route(j, g) = Route(k, g)
  <2> DEFINE S == Pages \ Inside(k, p)
  <2>1. \A q \in S : /\ j.parent[q] = k.parent[q] /\ j.name[q] = k.name[q]
                     /\ k.parent[q] \in Pages => k.parent[q] \in S
    BY <1>7, <1>8, InsideIs
  <2>2. S \subseteq Pages /\ g \in S
    BY <1>8, <1>17
  <2> HIDE DEF S
  <2> QED  BY <1>8, <2>1, <2>2, SameRoutes
<1>18. ASSUME NEW l \in i.links
       PROVE  LinkKept(j, X, l)
  <2>1. PICK x \in k.links : /\ l.in = x.in /\ l.goal = x.goal
                             /\ l.route = Redirect(x.route, v, w)
    BY <1>5
  <2>2. SUFFICES ASSUME l.goal \notin X
                 PROVE  IF l.goal \in Present(j) THEN l.route = Route(j, l.goal)
                        ELSE IsSeq(l.route) /\ Len(l.route) >= 1 /\ l.route[1] = Nameless
    BY Zenon DEF LinkKept
  <2>3. LinkKept(k, X, x) /\ x.goal \notin X
    BY <2>1, <2>2 DEF RefsOK
  <2>4. CASE l.goal \in Present(k)
    <3>1. x.route = Route(k, l.goal)
      BY <2>1, <2>3, <2>4 DEF LinkKept
    <3>2. CASE l.goal \in Inside(k, p)
      BY <1>7, <1>16, <2>1, <2>4, <3>1, <3>2
    <3>3. CASE l.goal \notin Inside(k, p)
      <4>1. ~Extends(Route(k, l.goal), v)
        BY <1>3, <1>8, <2>2, <2>4, <3>3, RouteElsewhere
      <4>2. IsSeq(Route(k, l.goal))
        BY <1>8, <2>4, RouteShape
      <4>3. Redirect(Route(k, l.goal), v, w) = Route(k, l.goal)
        BY <1>13, <4>1, <4>2, RedirectOther
      <4> QED  BY <1>7, <1>17, <2>1, <2>4, <3>1, <3>3, <4>3
    <3> QED  BY <3>2, <3>3
  <2>5. CASE l.goal \notin Present(k)
    <3>1. IsSeq(x.route) /\ Len(x.route) >= 1 /\ x.route[1] = Nameless
      BY <2>1, <2>3, <2>5, Zenon DEF LinkKept
    <3>2. ~Extends(x.route, v)
      <4>1. v[1] # Nameless
        BY <1>3, <1>13, <1>15
      <4> QED  BY <1>13, <3>1, <4>1 DEF Extends
    <3>3. Redirect(x.route, v, w) = x.route
      BY <1>13, <3>1, <3>2, RedirectOther
    <3> QED  BY <1>7, <2>1, <2>5, <3>1, <3>3
  <2> QED  BY <2>4, <2>5
<1> QED  BY <1>6, <1>10, <1>11, <1>12, <1>18, Zenon DEF RefsOK

\* A page goes with all that is in it.
LEMMA RemovePageIs ==
    ASSUME NEW k, NEW n, WellFormed(k, n), NEW p \in Present(k),
           NEW j, j = RemovePage(k, p), NEW v, v = Route(k, p), NEW gone, gone = Inside(k, p)
    PROVE  /\ IsTree(j)
           /\ j.parent = [q \in Pages |-> IF q \in gone THEN Nowhere ELSE k.parent[q]]
           /\ j.name = [q \in Pages |-> IF q \in gone THEN Nameless ELSE k.name[q]]
           /\ j.queries = k.queries /\ j.collections = k.collections
           /\ j.uses = {u \in k.uses : u.in \notin gone}
           /\ \A l \in j.links : /\ IsLink(l) /\ l.in \notin gone
                                 /\ \E x \in k.links : /\ l.in = x.in /\ l.goal = x.goal
                                                       /\ l.route = Redirect(x.route, v, Empty)
<1>1. PICK i : i = UpdateRoutes(k, p, Nameless)
  OBVIOUS
<1>2. Empty = NewRoute(v, Nameless)
  BY Zenon DEF NewRoute
<1>3. /\ IsTree(i) /\ SamePages(i, k)
      /\ i.uses = k.uses /\ i.queries = k.queries /\ i.collections = k.collections
      /\ \A l \in i.links : /\ IsLink(l)
                            /\ \E x \in k.links : /\ l.in = x.in /\ l.goal = x.goal
                                                  /\ l.route = Redirect(x.route, v, Empty)
  BY <1>1, <1>2, LinksUpdated
<1>4. PICK P, N : /\ P = [q \in Pages |-> IF q \in gone THEN Nowhere ELSE i.parent[q]]
                  /\ N = [q \in Pages |-> IF q \in gone THEN Nameless ELSE i.name[q]]
  OBVIOUS
<1>5. PICK L, U : L = {l \in i.links : l.in \notin gone} /\ U = {u \in i.uses : u.in \notin gone}
  OBVIOUS
<1>6. j = [i EXCEPT !.parent = P, !.name = N, !.links = L, !.uses = U]
  BY <1>1, <1>4, <1>5, Zenon DEF RemovePage
<1>7. /\ IsTree(j) /\ j.parent = P /\ j.name = N /\ j.links = L /\ j.uses = U
      /\ j.queries = i.queries /\ j.collections = i.collections
  BY <1>3, <1>6 DEF IsTree
<1>8. i.parent = k.parent /\ i.name = k.name
  BY <1>3 DEF SamePages
<1>9. \A l \in j.links : /\ IsLink(l) /\ l.in \notin gone
                         /\ \E x \in k.links : /\ l.in = x.in /\ l.goal = x.goal
                                               /\ l.route = Redirect(x.route, v, Empty)
  <2>1. \A l \in j.links : l \in i.links /\ l.in \notin gone
    BY <1>5, <1>7
  <2> QED  BY <1>3, <2>1
<1> QED  BY <1>3, <1>4, <1>5, <1>7, <1>8, <1>9

LEMMA RemovePageWell ==
    ASSUME NEW k, NEW n, WellFormed(k, n), NEW p \in Present(k), NEW j, j = RemovePage(k, p)
    PROVE  WellFormed(j, n) /\ Present(j) = Present(k) \ Inside(k, p)
<1>1. PICK v, gone : v = Route(k, p) /\ gone = Inside(k, p)
  OBVIOUS
<1>2. /\ IsTree(j)
      /\ j.parent = [q \in Pages |-> IF q \in gone THEN Nowhere ELSE k.parent[q]]
      /\ j.name = [q \in Pages |-> IF q \in gone THEN Nameless ELSE k.name[q]]
      /\ j.queries = k.queries
      /\ j.uses = {u \in k.uses : u.in \notin gone}
      /\ \A l \in j.links : /\ IsLink(l) /\ l.in \notin gone
                            /\ \E x \in k.links : l.in = x.in /\ l.goal = x.goal
  BY <1>1, RemovePageIs
<1>3. PagesFormed(k, n) /\ TopDown(k) /\ p \in Pages
  BY FormedTree DEF WellFormed, Present
<1>4. gone \subseteq Pages
  BY <1>1, InsideSubset
<1>5. Present(j) = Present(k) \ gone
  BY <1>2, <1>4 DEF Present
<1>6. PagesFormed(j, n)
  <2>1. j.parent \in [Pages -> Spots \cup {Nowhere}]
    BY <1>2, <1>3 DEF PagesFormed
  <2>2. j.name = [q \in Pages |-> j.name[q]]
    BY <1>2
  <2>3. ASSUME NEW q \in Present(j)
        PROVE  /\ q <= n
               /\ j.parent[q] \in Pages => j.parent[q] \in Present(j) /\ j.parent[q] < q
    <3>1. q \in Present(k) /\ q \in Pages /\ q \notin gone
      BY <1>5 DEF Present
    <3>2. j.parent[q] = k.parent[q]
      BY <1>2, <3>1
    <3>3. /\ q <= n
          /\ k.parent[q] \in Pages => k.parent[q] \in Present(k) /\ k.parent[q] < q
      BY <1>3, <3>1 DEF PagesFormed
    <3>4. k.parent[q] \in Pages => k.parent[q] \notin gone
      BY <1>1, <1>3, <3>1, InsideIs
    <3> QED  BY <1>5, <3>2, <3>3, <3>4
  <2> QED  BY <2>1, <2>2, <2>3, Zenon DEF PagesFormed
<1>7. ASSUME NEW l \in j.links
      PROVE  LinkFormed(j, n, l)
  <2>1. PICK x \in k.links : l.in = x.in /\ l.goal = x.goal
    BY <1>2
  <2>2. LinkFormed(k, n, x)
    BY DEF WellFormed
  <2>3. IsLink(l) /\ l.in \notin gone
    BY <1>2
  <2>4. l.in \in Present(j) \cup Zones
    BY <1>5, <2>1, <2>2, <2>3 DEF LinkFormed
  <2> QED  BY <2>1, <2>2, <2>3, <2>4, Zenon DEF LinkFormed
<1>8. ASSUME NEW u \in j.uses
      PROVE  UseFormed(j, u)
  <2>1. u \in k.uses /\ u.in \notin gone
    BY <1>2
  <2>2. UseFormed(k, u)
    BY <2>1 DEF WellFormed
  <2> QED  BY <1>5, <2>1, <2>2 DEF UseFormed
<1>9. \A q \in j.queries : IsQuery(q)
  BY <1>2 DEF WellFormed
<1>10. WellFormed(j, n)
  BY <1>2, <1>6, <1>7, <1>8, <1>9, Zenon DEF WellFormed
<1> QED  BY <1>1, <1>5, <1>10

LEMMA RemovePageRefs ==
    ASSUME NEW k, NEW n, WellFormed(k, n), NEW p \in Present(k), NEW j, j = RemovePage(k, p),
           NEW X, RefsOK(k, X), Ambiguous(k) \subseteq X
    PROVE  RefsOK(j, X)
<1>1. PICK v, gone : v = Route(k, p) /\ gone = Inside(k, p)
  OBVIOUS
<1>2. /\ j.parent = [q \in Pages |-> IF q \in gone THEN Nowhere ELSE k.parent[q]]
      /\ j.name = [q \in Pages |-> IF q \in gone THEN Nameless ELSE k.name[q]]
      /\ j.queries = k.queries /\ j.collections = k.collections
      /\ j.uses = {u \in k.uses : u.in \notin gone}
      /\ \A l \in j.links : \E x \in k.links : /\ l.in = x.in /\ l.goal = x.goal
                                               /\ l.route = Redirect(x.route, v, Empty)
  BY <1>1, RemovePageIs
<1>3. Present(j) = Present(k) \ gone /\ TopDown(j)
  BY <1>1, RemovePageWell, FormedTree DEF WellFormed
<1>4. TopDown(k) /\ Rooted(k) /\ p \in Pages /\ Present(k) \subseteq Pages
  BY FormedTree DEF WellFormed, Present
<1>5. Named(k) /\ NamesDiffer(k) /\ Declared(k)
  BY DEF RefsOK
<1>6. \A q \in Present(j) : /\ q \in Present(k)
                            /\ j.parent[q] = k.parent[q] /\ j.name[q] = k.name[q]
  BY <1>2, <1>3, <1>4
<1>7. Named(j) /\ NamesDiffer(j)
  BY <1>5, <1>6 DEF Named, NamesDiffer
<1>8. Declared(j)
  <2>1. QueryNames(j) = QueryNames(k)
    BY <1>2 DEF QueryNames
  <2> QED  BY <1>2, <1>5, <2>1 DEF Declared
<1>9. IsSeq(v) /\ Len(v) \in Nat /\ Len(v) >= 1
  BY <1>1, <1>4, RouteShape
<1>10. \A q \in Present(k) : \A x \in 1 .. Len(Route(k, q)) : Route(k, q)[x] # Nameless
  BY <1>4, <1>5, RouteNamed
<1>11. ASSUME NEW g \in Present(j)
       PROVE  Route(j, g) = Route(k, g)
  <2> DEFINE S == Present(j)
  <2>1. \A q \in S : /\ j.parent[q] = k.parent[q] /\ j.name[q] = k.name[q]
                     /\ k.parent[q] \in Pages => k.parent[q] \in S
    <3>1. ASSUME NEW q \in S, k.parent[q] \in Pages
          PROVE  k.parent[q] \in S
      <4>1. q \in Present(k) /\ q \in Pages /\ q \notin gone
        BY <1>3, <1>4
      <4>2. k.parent[q] \in Present(k)
        BY <1>4, <3>1, <4>1 DEF Rooted
      <4>3. k.parent[q] \notin gone
        BY <1>1, <1>4, <3>1, <4>1, InsideIs
      <4> QED  BY <1>3, <4>2, <4>3
    <3> QED  BY <1>6, <3>1
  <2>2. S \subseteq Pages /\ g \in S
    BY <1>3, <1>4
  <2> HIDE DEF S
  <2> QED  BY <1>3, <1>4, <2>1, <2>2, SameRoutes
<1>12. ASSUME NEW g \in gone, g \in Present(k)
       PROVE  /\ IsSeq(Redirect(Route(k, g), v, Empty))
              /\ Len(Redirect(Route(k, g), v, Empty)) >= 1
              /\ Redirect(Route(k, g), v, Empty)[1] = Nameless
  <2>1. PICK r : r = Route(k, g)
    OBVIOUS
  <2>2. IsSeq(r) /\ Len(r) \in Nat /\ Len(r) >= 1
    BY <1>4, <1>12, <2>1, RouteShape
  <2>3. Extends(r, v)
    BY <1>1, <1>4, <2>1, InsideExtends
  <2>4. r # Empty
    <3>1. r[1] # Nameless
      BY <1>10, <1>12, <2>1, <2>2
    <3> QED  BY <3>1, EmptyShape
  <2>5. IsSeq(Empty) /\ Len(Empty) = 1 /\ Empty[1] = Nameless
    BY EmptyShape
  <2>6. PICK t : t = Redirect(r, v, Empty)
    OBVIOUS
  <2>7. /\ IsSeq(t) /\ Len(t) = Len(Empty) + (Len(r) - Len(v))
        /\ \A x \in 1 .. Len(Empty) : t[x] = Empty[x]
    BY <1>9, <2>2, <2>3, <2>4, <2>5, <2>6, RedirectInside
  <2>8. Len(v) <= Len(r)
    BY <2>3 DEF Extends
  <2>9. Len(t) >= 1 /\ t[1] = Nameless
    BY <1>9, <2>2, <2>5, <2>7, <2>8
  <2> QED  BY <2>1, <2>6, <2>7, <2>9
<1>13. ASSUME NEW l \in j.links
       PROVE  LinkKept(j, X, l)
  <2>1. PICK x \in k.links : /\ l.in = x.in /\ l.goal = x.goal
                             /\ l.route = Redirect(x.route, v, Empty)
    BY <1>2
  <2>2. SUFFICES ASSUME l.goal \notin X
                 PROVE  IF l.goal \in Present(j) THEN l.route = Route(j, l.goal)
                        ELSE IsSeq(l.route) /\ Len(l.route) >= 1 /\ l.route[1] = Nameless
    BY Zenon DEF LinkKept
  <2>3. LinkKept(k, X, x) /\ x.goal \notin X
    BY <2>1, <2>2 DEF RefsOK
  <2>4. CASE l.goal \in Present(k)
    <3>1. x.route = Route(k, l.goal)
      BY <2>1, <2>3, <2>4 DEF LinkKept
    <3>2. CASE l.goal \in gone
      BY <1>3, <1>12, <2>1, <2>4, <3>1, <3>2
    <3>3. CASE l.goal \notin gone
      <4>1. ~Extends(Route(k, l.goal), v)
        BY <1>1, <1>4, <2>2, <2>4, <3>3, RouteElsewhere
      <4>2. IsSeq(Route(k, l.goal))
        BY <1>4, <2>4, RouteShape
      <4>3. Redirect(Route(k, l.goal), v, Empty) = Route(k, l.goal)
        BY <1>9, <4>1, <4>2, RedirectOther
      <4> QED  BY <1>3, <1>11, <2>1, <2>4, <3>1, <3>3, <4>3
    <3> QED  BY <3>2, <3>3
  <2>5. CASE l.goal \notin Present(k)
    <3>1. IsSeq(x.route) /\ Len(x.route) >= 1 /\ x.route[1] = Nameless
      BY <2>1, <2>3, <2>5, Zenon DEF LinkKept
    <3>2. ~Extends(x.route, v)
      <4>1. v[1] # Nameless
        BY <1>1, <1>9, <1>10
      <4> QED  BY <1>9, <3>1, <4>1 DEF Extends
    <3>3. Redirect(x.route, v, Empty) = x.route
      BY <1>9, <3>1, <3>2, RedirectOther
    <3> QED  BY <1>3, <2>1, <2>5, <3>1, <3>3
  <2> QED  BY <2>4, <2>5
<1> QED  BY <1>7, <1>8, <1>13, Zenon DEF RefsOK

-----------------------------------------------------------------------------
(* The wizard.                                                             *)

\* More pages, queries and collections than there were, and all references
\* kept.
Grown(j, k, n) ==
    /\ WellFormed(j, n)
    /\ Present(k) \subseteq Present(j)
    /\ QueryNames(k) \subseteq QueryNames(j)
    /\ k.collections \subseteq j.collections
    /\ \A X : RefsOK(k, X) => RefsOK(j, X)

LEMMA GrownTwice ==
    ASSUME NEW i, NEW j, NEW k, NEW n, NEW m, Grown(j, k, n), Grown(i, j, m)
    PROVE  Grown(i, k, m)
<1>1. \A X : RefsOK(k, X) => RefsOK(i, X)
  BY DEF Grown
<1>2. /\ WellFormed(i, m) /\ Present(k) \subseteq Present(i)
      /\ QueryNames(k) \subseteq QueryNames(i) /\ k.collections \subseteq i.collections
  BY DEF Grown
<1> QED  BY <1>1, <1>2, Zenon DEF Grown

LEMMA AddPageGrows ==
    ASSUME NEW k, NEW n \in Nat, WellFormed(k, n), NEW z \in Present(k) \cup Zones,
           NEW p \in Pages, p = n + 1, NEW m, NEW j, j = AddPage(k, z, p, m)
    PROVE  Grown(j, k, p) /\ p \in Present(j)
<1>1. /\ WellFormed(j, p) /\ Present(j) = Present(k) \cup {p}
      /\ j.queries = k.queries /\ j.collections = k.collections
      /\ \A X : RefsOK(k, X) => RefsOK(j, X)
  BY AddPageKeeps
<1>2. QueryNames(k) = QueryNames(j)
  BY <1>1 DEF QueryNames
<1> QED  BY <1>1, <1>2 DEF Grown

LEMMA AddLinkGrows ==
    ASSUME NEW k, NEW n, WellFormed(k, n), NEW z \in Present(k) \cup Zones,
           NEW p \in Present(k), NEW j, j = AddLink(k, z, p)
    PROVE  Grown(j, k, n)
<1>1. j.queries = k.queries /\ j.collections = k.collections
  BY DEF AddLink, WellFormed, IsTree
<1>2. Keeps(j, k, n)
  BY AddLinkKeeps
<1>3. Present(j) = Present(k)
  BY <1>2, SamePagesSame DEF Keeps
<1>4. QueryNames(k) = QueryNames(j)
  BY <1>1 DEF QueryNames
<1> QED  BY <1>1, <1>2, <1>3, <1>4 DEF Keeps, Grown

LEMMA UseQueryGrows ==
    ASSUME NEW k, NEW n, WellFormed(k, n), NEW z \in Present(k) \cup Zones,
           NEW m \in QueryNames(k) \cup {Nameless}, NEW j, j = UseQuery(k, z, m)
    PROVE  Grown(j, k, n)
<1>1. j.queries = k.queries /\ j.collections = k.collections
  BY DEF UseQuery, WellFormed, IsTree
<1>2. Keeps(j, k, n)
  BY UseQueryKeeps
<1>3. Present(j) = Present(k)
  BY <1>2, SamePagesSame DEF Keeps
<1>4. QueryNames(k) = QueryNames(j)
  BY <1>1 DEF QueryNames
<1> QED  BY <1>1, <1>2, <1>3, <1>4 DEF Keeps, Grown

LEMMA AddQueryGrows ==
    ASSUME NEW k, NEW n, WellFormed(k, n), NEW m, m # Nameless, NEW c \in k.collections,
           NEW j, j = AddQuery(k, m, c)
    PROVE  Grown(j, k, n) /\ m \in QueryNames(j)
<1>1. /\ Keeps(j, k, n) /\ j.collections = k.collections
      /\ QueryNames(k) \subseteq QueryNames(j) /\ m \in QueryNames(j)
  BY AddQueryKeeps
<1>2. Present(j) = Present(k)
  BY <1>1, SamePagesSame DEF Keeps
<1> QED  BY <1>1, <1>2 DEF Keeps, Grown

LEMMA GrownSelf ==
    ASSUME NEW k, NEW n, WellFormed(k, n)
    PROVE  Grown(k, k, n)
BY DEF Grown

\* A page with a form, if there is one.
LEMMA WizardFormGrows ==
    ASSUME NEW k, NEW n \in Nat, WellFormed(k, n), NEW s \in Present(k),
           NEW forms, NEW form, NEW p, p = n + 1, form \in forms => p \in Pages,
           NEW m, form \in forms => m \in QueryNames(k),
           NEW j, j = WizardForm(k, s, p, forms, form, m)
    PROVE  Grown(j, k, IF form \in forms THEN p ELSE n)
<1>1. CASE form \notin forms
  <2>1. j = k
    BY <1>1, Zenon DEF WizardForm
  <2> QED  BY <1>1, <2>1, GrownSelf
<1>2. CASE form \in forms
  <2>1. PICK a : a = AddPage(k, s, p, <<form>>)
    OBVIOUS
  <2>2. PICK b : b = AddLink(a, p, s)
    OBVIOUS
  <2>3. PICK c : c = AddLink(b, s, p)
    OBVIOUS
  <2>4. j = UseQuery(c, p, m)
    BY <1>2, <2>1, <2>2, <2>3, Zenon DEF WizardForm
  <2>5. p \in Pages
    BY <1>2
  <2>6. Grown(a, k, p) /\ p \in Present(a)
    BY <2>1, <2>5, AddPageGrows
  <2>7. WellFormed(a, p) /\ s \in Present(a)
    BY <2>6 DEF Grown
  <2>8. Grown(b, a, p)
    BY <2>2, <2>6, <2>7, AddLinkGrows
  <2>9. Grown(b, k, p)
    BY <2>6, <2>8, GrownTwice
  <2>10. WellFormed(b, p) /\ s \in Present(b) /\ p \in Present(b)
    BY <2>6, <2>7, <2>8 DEF Grown
  <2>11. Grown(c, b, p)
    BY <2>3, <2>10, AddLinkGrows
  <2>12. Grown(c, k, p)
    BY <2>9, <2>11, GrownTwice
  <2>13. WellFormed(c, p) /\ p \in Present(c) /\ m \in QueryNames(c)
    BY <1>2, <2>10, <2>11, <2>12 DEF Grown
  <2>14. Grown(j, c, p)
    BY <2>4, <2>13, UseQueryGrows
  <2>15. Grown(j, k, p)
    BY <2>12, <2>14, GrownTwice
  <2> QED  BY <1>2, <2>15
<1> QED  BY <1>1, <1>2

WizardForms == {"insert", "update", "details"}

Count(forms, form) == IF form \in forms THEN 1 ELSE 0

LEMMA FormsCount ==
    ASSUME NEW forms \in SUBSET WizardForms
    PROVE  Cardinality(forms) =
              Count(forms, "insert") + Count(forms, "update") + Count(forms, "details")
<1>1. IsFiniteSet(WizardForms)
  <2>1. IsFiniteSet({}) /\ IsFiniteSet({} \cup {"insert"})
    BY FS_EmptySet, FS_AddElement
  <2>2. IsFiniteSet(({} \cup {"insert"}) \cup {"update"})
    BY <2>1, FS_AddElement
  <2>3. IsFiniteSet((({} \cup {"insert"}) \cup {"update"}) \cup {"details"})
    BY <2>2, FS_AddElement
  <2>4. WizardForms = (({} \cup {"insert"}) \cup {"update"}) \cup {"details"}
    BY DEF WizardForms
  <2> QED  BY <2>3, <2>4
<1>2. IsFiniteSet(forms) /\ Cardinality(forms) \in Nat
  BY <1>1, FS_Subset, FS_CardinalityType
<1>3. PICK a : a = forms \ {"insert"}
  OBVIOUS
<1>4. PICK b : b = a \ {"update"}
  OBVIOUS
<1>5. PICK c : c = b \ {"details"}
  OBVIOUS
<1>6. IsFiniteSet(a) /\ Cardinality(a) = Cardinality(forms) - Count(forms, "insert")
  BY <1>2, <1>3, FS_RemoveElement DEF Count
<1>7. IsFiniteSet(b) /\ Cardinality(b) = Cardinality(a) - Count(forms, "update")
  <2>1. "update" \in a <=> "update" \in forms
    BY <1>3
  <2>2. Cardinality(a) \in Nat
    BY <1>6, FS_CardinalityType
  <2> QED  BY <1>4, <1>6, <2>1, <2>2, FS_RemoveElement DEF Count
<1>8. IsFiniteSet(c) /\ Cardinality(c) = Cardinality(b) - Count(forms, "details")
  <2>1. "details" \in b <=> "details" \in forms
    BY <1>3, <1>4
  <2>2. Cardinality(b) \in Nat
    BY <1>7, FS_CardinalityType
  <2> QED  BY <1>5, <1>7, <2>1, <2>2, FS_RemoveElement DEF Count
<1>9. c = {}
  BY <1>3, <1>4, <1>5 DEF WizardForms
<1>10. Cardinality(c) = 0
  BY <1>9, FS_EmptySet
<1> QED  BY <1>2, <1>6, <1>7, <1>8, <1>10 DEF Count

\* What the wizard adds fits: the pages it is given numbers for.
LEMMA WizardGrows ==
    ASSUME NEW k, NEW n \in Nat, WellFormed(k, n), NEW z \in Present(k) \cup Zones,
           NEW c \in k.collections, NEW createPage \in BOOLEAN,
           createPage \/ z \notin Zones,
           NEW forms \in SUBSET WizardForms,
           NEW h, h = Cardinality(forms) + (IF createPage THEN 1 ELSE 0), n + h <= MaxPages,
           NEW j, j = Wizard(k, z, c, createPage, forms, n + 1)
    PROVE  Grown(j, k, n + h) /\ (createPage => n + 1 \in Present(j))
<1>1. PICK p : p = n + 1
  OBVIOUS
<1>2. PICK s : s = IF createPage THEN p ELSE z
  OBVIOUS
<1>3. PICK insert : insert = IF createPage THEN p + 1 ELSE p
  OBVIOUS
<1>4. PICK update : update = IF "insert" \in forms THEN insert + 1 ELSE insert
  OBVIOUS
<1>5. PICK details : details = IF "update" \in forms THEN update + 1 ELSE update
  OBVIOUS
<1>6. PICK k1 : k1 = IF createPage THEN AddPage(k, z, s, <<"items">>) ELSE k
  OBVIOUS
<1>7. PICK list, none, one : /\ list = Unique(QueryNames(k), <<"item_list">>)
                             /\ none = Unique(QueryNames(k), <<"items_null">>)
                             /\ one = Unique(QueryNames(k), <<"item">>)
  OBVIOUS
<1>8. PICK q2 : q2 = AddQuery(k1, list, c)
  OBVIOUS
<1>9. PICK k2 : k2 = UseQuery(q2, s, list)
  OBVIOUS
<1>10. PICK k3 : k3 = IF "insert" \in forms THEN AddQuery(k2, none, c) ELSE k2
  OBVIOUS
<1>11. PICK k4 : k4 = IF {"update", "details"} \cap forms # {}
                      THEN AddQuery(k3, one, c) ELSE k3
  OBVIOUS
<1>12. PICK k5 : k5 = WizardForm(k4, s, insert, forms, "insert", none)
  OBVIOUS
<1>13. PICK k6 : k6 = WizardForm(k5, s, update, forms, "update", one)
  OBVIOUS
<1>14. j = WizardForm(k6, s, details, forms, "details", one)
  BY <1>1, <1>2, <1>3, <1>4, <1>5, <1>6, <1>7, <1>8, <1>9, <1>10, <1>11, <1>12, <1>13, Zenon
     DEF Wizard
<1>15. PICK i, u, d : /\ i = Count(forms, "insert") /\ u = Count(forms, "update")
                      /\ d = Count(forms, "details")
  OBVIOUS
<1>16. i \in {0, 1} /\ u \in {0, 1} /\ d \in {0, 1}
  BY <1>15 DEF Count
<1>17. PICK g : g = IF createPage THEN 1 ELSE 0
  OBVIOUS
<1>18. g \in {0, 1} /\ h = i + u + d + g /\ n + h <= MaxPages /\ MaxPages \in Nat
  BY <1>15, <1>17, FormsCount, TreeAssumption
<1>19. insert = n + g + 1 /\ update = n + g + i + 1 /\ details = n + g + i + u + 1
  <2>1. insert = n + g + 1
    BY <1>1, <1>3, <1>17
  <2>2. update = insert + i
    BY <1>4, <1>15, <2>1, <1>18 DEF Count
  <2>3. details = update + u
    BY <1>5, <1>15, <1>16, <1>18, <2>1, <2>2 DEF Count
  <2> QED  BY <1>16, <1>18, <2>1, <2>2, <2>3
<1>20. /\ "insert" \in forms => insert \in Pages
       /\ "update" \in forms => update \in Pages
       /\ "details" \in forms => details \in Pages
       /\ createPage => p \in Pages
  BY <1>1, <1>15, <1>16, <1>17, <1>18, <1>19 DEF Count, Pages
<1>21. list # Nameless /\ none # Nameless /\ one # Nameless
  <2>1. \A S, t : Unique(S, t) = t \/ \E x : Unique(S, t) = <<t, x>>
    BY Zenon DEF Unique
  <2> QED  BY <1>7, <2>1 DEF Nameless
<1>22. Grown(k1, k, n + g) /\ s \in Present(k1)
  <2>1. CASE createPage
    <3>1. k1 = AddPage(k, z, p, <<"items">>) /\ s = p /\ p = n + g
      BY <1>1, <1>2, <1>6, <1>17, <2>1
    <3> QED  BY <1>1, <1>20, <2>1, <3>1, AddPageGrows
  <2>2. CASE ~createPage
    <3>1. k1 = k /\ s = z /\ n + g = n
      BY <1>2, <1>6, <1>17, <2>2
    <3> QED  BY <2>2, <3>1, GrownSelf
  <2> QED  BY <2>1, <2>2
<1>23. PICK w \in Nat : w = n + g
  BY <1>18
<1>24. Grown(q2, k, w) /\ s \in Present(q2) /\ list \in QueryNames(q2)
  <2>1. WellFormed(k1, w) /\ c \in k1.collections
    BY <1>22, <1>23 DEF Grown
  <2>2. Grown(q2, k1, w) /\ list \in QueryNames(q2)
    BY <1>8, <1>21, <2>1, AddQueryGrows
  <2> QED  BY <1>22, <1>23, <2>2, GrownTwice DEF Grown
<1>25. Grown(k2, k, w) /\ s \in Present(k2)
  <2>1. Grown(k2, q2, w)
    BY <1>9, <1>24, UseQueryGrows DEF Grown
  <2> QED  BY <1>24, <2>1, GrownTwice DEF Grown
<1>26. /\ Grown(k3, k, w) /\ s \in Present(k3)
       /\ "insert" \in forms => none \in QueryNames(k3)
  <2>1. CASE "insert" \in forms
    <3>1. Grown(k3, k2, w) /\ none \in QueryNames(k3)
      BY <1>10, <1>21, <1>25, <2>1, AddQueryGrows DEF Grown
    <3> QED  BY <1>25, <3>1, GrownTwice DEF Grown
  <2>2. CASE "insert" \notin forms
    BY <1>10, <1>25, <2>2
  <2> QED  BY <2>1, <2>2
<1>27. /\ Grown(k4, k, w) /\ s \in Present(k4)
       /\ "insert" \in forms => none \in QueryNames(k4)
       /\ "update" \in forms \/ "details" \in forms => one \in QueryNames(k4)
  <2>1. CASE {"update", "details"} \cap forms # {}
    <3>1. Grown(k4, k3, w) /\ one \in QueryNames(k4)
      BY <1>11, <1>21, <1>26, <2>1, AddQueryGrows DEF Grown
    <3> QED  BY <1>26, <3>1, GrownTwice DEF Grown
  <2>2. CASE {"update", "details"} \cap forms = {}
    <3>1. k4 = k3
      BY <1>11, <2>2
    <3> QED  BY <1>26, <2>2, <3>1
  <2> QED  BY <2>1, <2>2
<1>28. Grown(k5, k4, w + i)
  <2>1. WellFormed(k4, w)
    BY <1>27 DEF Grown
  <2>2. insert = w + 1
    BY <1>18, <1>19, <1>23
  <2>3. w + i = IF "insert" \in forms THEN insert ELSE w
    BY <1>15, <2>2 DEF Count
  <2>4. Grown(k5, k4, IF "insert" \in forms THEN insert ELSE w)
    BY <1>12, <1>20, <1>27, <2>1, <2>2, WizardFormGrows
  <2> QED  BY <2>3, <2>4
<1>29. Grown(k6, k5, w + i + u)
  <2>1. WellFormed(k5, w + i) /\ s \in Present(k5) /\ ("update" \in forms => one \in QueryNames(k5))
    BY <1>27, <1>28 DEF Grown
  <2>2. PICK y \in Nat : y = w + i
    BY <1>16
  <2>3. update = y + 1
    BY <1>16, <1>18, <1>19, <1>23, <2>2
  <2>4. w + i + u = IF "update" \in forms THEN update ELSE y
    BY <1>15, <2>2, <2>3 DEF Count
  <2>5. WellFormed(k5, y)
    BY <2>1, <2>2
  <2>6. Grown(k6, k5, IF "update" \in forms THEN update ELSE y)
    BY <1>13, <1>20, <2>1, <2>2, <2>3, <2>5, WizardFormGrows
  <2> QED  BY <2>4, <2>6
<1>30. Grown(j, k6, w + i + u + d)
  <2>1. /\ WellFormed(k6, w + i + u) /\ s \in Present(k6)
        /\ "details" \in forms => one \in QueryNames(k6)
    BY <1>27, <1>28, <1>29 DEF Grown
  <2>2. PICK y \in Nat : y = w + i + u
    BY <1>16
  <2>3. details = y + 1
    BY <1>16, <1>18, <1>19, <1>23, <2>2
  <2>4. w + i + u + d = IF "details" \in forms THEN details ELSE y
    BY <1>15, <2>2, <2>3 DEF Count
  <2>5. WellFormed(k6, y)
    BY <2>1, <2>2
  <2>6. Grown(j, k6, IF "details" \in forms THEN details ELSE y)
    BY <1>14, <1>20, <2>1, <2>2, <2>3, <2>5, WizardFormGrows
  <2> QED  BY <2>4, <2>6
<1>31. Grown(j, k, w + i + u + d)
  BY <1>27, <1>28, <1>29, <1>30, GrownTwice
<1>32. w + i + u + d = n + h
  BY <1>16, <1>18, <1>23
<1>33. createPage => n + 1 \in Present(j)
  <2>1. s \in Present(j)
    BY <1>27, <1>28, <1>29, <1>30 DEF Grown
  <2> QED  BY <1>1, <1>2, <2>1
<1> QED  BY <1>31, <1>32, <1>33

-----------------------------------------------------------------------------
(* What all this is for.                                                   *)

\* References that are kept are intact: links lead to their pages, and those
\* of removed pages to none.
LEMMA KeptIsIntact ==
    ASSUME NEW k, NEW n, WellFormed(k, n), NEW X, RefsOK(k, X)
    PROVE  /\ \A l \in k.links : l.goal \notin X => LinkFollows(k, l)
           /\ Declared(k) /\ NamesDiffer(k)
<1>1. TopDown(k) /\ Rooted(k) /\ Named(k) /\ Present(k) \subseteq Pages
  BY FormedTree DEF WellFormed, RefsOK, Present
<1>2. ASSUME NEW l \in k.links, l.goal \notin X
      PROVE  LinkFollows(k, l)
  <2>1. LinkKept(k, X, l)
    BY DEF RefsOK
  <2>2. CASE l.goal \in Present(k)
    BY <1>2, <2>1, <2>2, Zenon DEF LinkKept, LinkFollows
  <2>3. CASE l.goal \notin Present(k)
    <3>1. l.route[1] = Nameless
      BY <1>2, <2>1, <2>3, Zenon DEF LinkKept
    <3>2. ASSUME NEW p \in Present(k)
          PROVE  Route(k, p) # l.route
      <4>1. Len(Route(k, p)) \in Nat /\ Len(Route(k, p)) >= 1
        BY <1>1, RouteShape
      <4>2. Route(k, p)[1] # Nameless
        BY <1>1, <4>1, RouteNamed
      <4> QED  BY <3>1, <4>2
    <3> QED  BY <2>3, <3>2 DEF LinkFollows
  <2> QED  BY <2>2, <2>3
<1> QED  BY <1>2 DEF RefsOK

LEMMA LinkedIsKept ==
    ASSUME NEW k, Named(k), NamesDiffer(k), Declared(k), Linked(k), NEW X
    PROVE  RefsOK(k, X)
<1>1. Nowhere \notin Present(k)
  BY TreeAssumption DEF Present, Spots
<1>2. ASSUME NEW l \in k.links
      PROVE  LinkKept(k, X, l)
  <2>1. CASE l.goal = Nowhere
    <3>1. l.route = Empty
      BY <2>1 DEF Linked
    <3> QED  BY <1>1, <2>1, <3>1, EmptyShape DEF LinkKept
  <2>2. CASE l.goal # Nowhere
    <3>1. l.goal \in Present(k) /\ l.route = Route(k, l.goal)
      BY <2>2 DEF Linked
    <3> QED  BY <3>1, Zenon DEF LinkKept
  <2> QED  BY <2>1, <2>2
<1> QED  BY <1>2, Zenon DEF RefsOK

=============================================================================
