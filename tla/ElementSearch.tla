----------------------------- MODULE ElementSearch -----------------------------
(***************************************************************************)
(* find_element: the elements of one tree after the other are scored       *)
(* against a query, until one matches for sure or the time is up; the best *)
(* match is exchanged for a control that stands for it.                    *)
(*                                                                         *)
(* A Bug operator is the definition after it with one plausible mistake;   *)
(* no action uses it.                                                      *)
(***************************************************************************)
EXTENDS Naturals, Sequences, FiniteSets, SequencesExt

CONSTANTS
  SearchTrees, \* the trees that may be read: sequences of elements
  MaxPolls     \* bound: trees that are read

ASSUME SearchTreesAssumption ==
  \A tree \in SearchTrees : Len(tree) \in Nat /\ DOMAIN tree = 1..Len(tree)

VARIABLES
  exact,       \* the match has to be exact
  search,      \* the best match, the tree it is of, and what matched in that
  polled,      \* the trees that were read
  searchAnswer \* the answer

searchVars == <<exact, search, polled, searchAnswer>>

SearchInit ==
  /\ exact \in BOOLEAN
  /\ search = [best |-> 0, score |-> 0, tree |-> <<>>, candidates |-> {}]
  /\ polled = {}
  /\ searchAnswer = [state |-> "searching"]

----------------------------------------------------------------------------
(* Scores, in hundredths *)

\* How a field of an element compares with the query: "equal", "part" (the query is a
\* part of it) or "no".
Agrees(field) == field = "equal" \/ (field = "part" /\ ~exact)

Least(s) == CHOOSE i \in s : \A j \in s : i <= j

\* The fields are compared in this order, the first three with the whole query, and the
\* first that matches counts.
TextMatches(e) ==
  LET fields == <<e.text, e.content, e.resource, e.text, e.content, e.resource, e.class>>
  IN  {n \in 1..7 : fields[n] = "equal" \/ (n > 3 /\ Agrees(fields[n]))}

TextScore(e) ==
  IF TextMatches(e) = {} THEN 0 ELSE <<100, 95, 92, 60, 55, 70, 30>>[Least(TextMatches(e))]

\* A role counts when nothing else does, an action in any case, and an adjustable element
\* when the query is about a control and nothing else counts.
SemanticScore(e) ==
  LET text == TextScore(e)
      role == IF text = 0 /\ Agrees(e.role) THEN 50 ELSE text
      action == IF role = 0 THEN 60 ELSE IF role < 65 THEN 65 ELSE role
  IN  IF Agrees(e.action) THEN action
      ELSE IF role = 0 /\ e.adjustable /\ ~exact THEN 45 ELSE role

Interactable(e) == e.trait \/ e.enabled \/ e.semantic

Score(e) ==
  IF ~e.shown \/ SemanticScore(e) = 0 THEN 0
  ELSE SemanticScore(e) + (IF Interactable(e) THEN 5 ELSE 0)

\* The best of a tree is of use when it is better than the best so far; the first sure
\* match ends the search.
BugScoreTree(tree) ==
  LET scored == {i \in DOMAIN tree : Score(tree[i]) > 0}
      sure == {i \in scored : Score(tree[i]) >= 95}
      looked == {i \in scored : sure = {} \/ i <= Least(sure)}
      top == {i \in looked : \A j \in looked : Score(tree[j]) <= Score(tree[i])}
  IN  IF top = {} \/ Score(tree[Least(top)]) <= search.score THEN search
      ELSE [best |-> Least(top), score |-> Score(tree[Least(top)]),
            tree |-> IF search.tree = <<>> THEN tree ELSE search.tree, candidates |-> looked]

ScoreTree(tree) ==
  LET scored == {i \in DOMAIN tree : Score(tree[i]) > 0}
      sure == {i \in scored : Score(tree[i]) >= 95}
      looked == {i \in scored : sure = {} \/ i <= Least(sure)}
      top == {i \in looked : \A j \in looked : Score(tree[j]) <= Score(tree[i])}
  IN  IF top = {} \/ Score(tree[Least(top)]) <= search.score THEN search
      ELSE [best |-> Least(top), score |-> Score(tree[Least(top)]), tree |-> tree,
            candidates |-> looked]

----------------------------------------------------------------------------
(* The control that stands for a match *)

\* The n-th ancestor, 0 beyond the root.
Up(tree, i) ==
  LET up[n \in 0..20] == IF n = 0 THEN i
                         ELSE IF up[n - 1] = 0 THEN 0 ELSE tree[up[n - 1]].parent
  IN  up

\* The nearest ancestor, of twenty at most, that is at least enabled.
Ancestor(tree, i) ==
  LET up == Up(tree, i)
      hits == {n \in 1..20 : up[n] # 0 /\ (tree[up[n]].trait \/ tree[up[n]].enabled)}
  IN  IF tree[i].trait \/ hits = {} THEN 0 ELSE up[Least(hits)]

Encloses(a, b) == a[1] <= b[1] /\ a[2] <= b[2] /\ a[3] >= b[3] /\ a[4] >= b[4]

Area(box) == (box[3] - box[1]) * (box[4] - box[2])

\* The smallest clickable or focusable element around it, which may be itself.
Containing(tree, i) ==
  LET around == {j \in DOMAIN tree : tree[j].trait /\ Encloses(tree[j].box, tree[i].box)}
      small == {j \in around : \A k \in around : Area(tree[j].box) <= Area(tree[k].box)}
  IN  IF small = {} THEN 0 ELSE Least(small)

Enclosing(tree, i) ==
  IF Ancestor(tree, i) # 0 THEN Ancestor(tree, i)
  ELSE IF Containing(tree, i) # 0 THEN Containing(tree, i) ELSE i

\* The clickable or focusable elements among the next seven that lie below a label or
\* hardly above its lower edge, and reach under it.
Near(tree, i) ==
  {j \in (i + 1)..(i + 7) \cap DOMAIN tree :
     LET b == tree[j].box l == tree[i].box
     IN  /\ tree[j].trait /\ tree[j].shown
         /\ b[2] + 32 >= l[4] /\ b[2] <= l[4] + 640
         /\ b[1] <= l[3] + 32 /\ l[1] <= b[3] + 32}

\* Of the elements near a label the one whose shape is most of a control's is taken, if
\* the label is none itself; which that is is left open here.
Stands(tree, i) ==
  LET e == Enclosing(tree, i)
  IN  IF tree[e].trait \/ tree[e].semantic \/ Near(tree, e) = {} THEN {e} ELSE Near(tree, e)

----------------------------------------------------------------------------
(* The search *)

Sure == search.score >= 95

SearchReads(tree) ==
  /\ searchAnswer.state = "searching" /\ ~Sure /\ Cardinality(polled) < MaxPolls
  /\ search' = ScoreTree(tree)
  /\ polled' = polled \cup {tree}
  /\ UNCHANGED <<exact, searchAnswer>>

\* A sure match, or the time is up; three other matches of the tree are named.
SearchEnds ==
  /\ searchAnswer.state = "searching"
  /\ IF search.best = 0 THEN searchAnswer' = [state |-> "absent"]
     ELSE \E i \in Stands(search.tree, search.best) :
            LET others == search.candidates \ {i} IN
            searchAnswer' = [state |-> "found", index |-> i,
                      alternates |-> {j \in others : Cardinality({k \in others : k < j}) < 3}]
  /\ UNCHANGED <<exact, search, polled>>

SearchNext == SearchEnds \/ \E tree \in SearchTrees : SearchReads(tree)

SearchSpec == SearchInit /\ [][SearchNext]_searchVars

----------------------------------------------------------------------------
(* Properties *)

Fields(e) == {e.text, e.content, e.resource, e.class, e.role, e.action}

\* What find_element answers is all of one tree that it has read: the element is the best
\* match or a control around it or near it, and the others match too.  No element of any
\* tree it read matches better, unless the match is sure; an exact match has a field that
\* equals the query; and nothing is absent that some tree showed.
\* (scoreTree 13-29, findElement 30-47, preferActionable 40-49, candidateResult 5-24)
FindIsHonest ==
  /\ searchAnswer.state = "absent" => \A t \in polled : \A i \in DOMAIN t : Score(t[i]) = 0
  /\ searchAnswer.state = "found" =>
       LET t == search.tree
           m == search.best
       IN  /\ t \in polled /\ Score(t[m]) > 0
           /\ exact => "equal" \in Fields(t[m])
           /\ Score(t[m]) < 95 =>
                \A u \in polled : \A i \in DOMAIN u : Score(u[i]) <= Score(t[m])
           /\ \/ searchAnswer.index = m
              \/ (t[searchAnswer.index].trait \/ t[searchAnswer.index].enabled)
           /\ \A j \in searchAnswer.alternates : j # searchAnswer.index /\ Score(t[j]) > 0
=============================================================================
