------------------------------ MODULE Context ------------------------------
(***************************************************************************)
(* kernel/context.c: the locals of a typing context, the innermost first.  *)
(* They are kept in a list of complete binary trees, each in pre-order     *)
(* with its weight, so that a local is found in logarithmic time.  The     *)
(* rules of the checker (Eval) take the locals as the sequence this is.    *)
(*                                                                         *)
(* A tree is a sequence of one or three parts: its local, and the trees on *)
(* both sides.  A loop or a recursion is the function from the number of   *)
(* its steps to where it is; one that has ended stays where it is, and     *)
(* none needs more steps than there are locals.                            *)
(***************************************************************************)
EXTENDS Naturals, Sequences

CONSTANTS Locals,    \* what is known of a local: its name
          MaxLocals  \* bound: how deep a context gets
ASSUME ContextAssumption == MaxLocals \in Nat

VARIABLES trees,  \* the list of weighted trees
          nested  \* the names of the locals that are in scope, as a sequence: history
contextVars == <<trees, nested>>

Cell(weight, tree) == [weight |-> weight, tree |-> tree]
LLeaf(x) == <<x>>
LNode(x, left, right) == <<x, left, right>>
IsLeaf(tree) == Len(tree) = 1
Before(x, xs) == <<x>> \o xs

\* One step more than there can be locals.
Steps == MaxLocals + 1

\* Two trees of one weight in front become one; otherwise the local is a tree of its own.
LCons(x, xs) ==
  IF Len(xs) >= 2 /\ xs[1].weight = xs[2].weight
  THEN Before(Cell(1 + xs[1].weight + xs[2].weight, LNode(x, xs[1].tree, xs[2].tree)), SubSeq(xs, 3, Len(xs)))
  ELSE Before(Cell(1, LLeaf(x)), xs)

\* The local at an index of a tree: at the root, or further down on one of the sides.
Asked(weight, tree, i) == [weight |-> weight, tree |-> tree, i |-> i]
Down(q) ==
  LET half == q.weight \div 2
  IN CASE IsLeaf(q.tree) \/ q.i = 0 -> q
       [] ~IsLeaf(q.tree) /\ q.i > 0 /\ q.i - 1 < half -> Asked(half, q.tree[2], q.i - 1)
       [] OTHER -> Asked(half, q.tree[3], q.i - 1 - half)
Descent(weight, tree, i) ==
  LET at[k \in Nat] == IF k = 0 THEN Asked(weight, tree, i) ELSE Down(at[k - 1]) IN at
LTreeGet(weight, tree, i) == Descent(weight, tree, i)[Steps].tree[1]

\* The local at an index, as a sequence of at most one: in the first tree that is heavier than
\* what is left of the index.
Rests(xs, i) ==
  LET rest[k \in 0..Len(xs)] == IF k = 0 THEN i ELSE rest[k - 1] - xs[k].weight IN rest
LGet(xs, i) ==
  LET rest == Rests(xs, i)
      Inside(k) == rest[k - 1] < xs[k].weight
      cell == CHOOSE k \in 1..Len(xs) : Inside(k) /\ \A j \in 1..(k - 1) : ~Inside(j)
  IN IF \E k \in 1..Len(xs) : Inside(k)
     THEN <<LTreeGet(xs[cell].weight, xs[cell].tree, rest[cell - 1])>>
     ELSE <<>>

\* Mistake: the halves of the first tree change places.
LViewTailSwapped(xs) ==
  LET half == Head(xs).weight \div 2
      tree == Head(xs).tree
  IN CASE xs = <<>> -> <<>>
       [] xs # <<>> /\ IsLeaf(tree) -> Tail(xs)
       [] OTHER -> <<Cell(half, tree[3]), Cell(half, tree[2])>> \o Tail(xs)
\* The locals but the first.
LViewTail(xs) ==
  LET half == Head(xs).weight \div 2
      tree == Head(xs).tree
  IN CASE xs = <<>> -> <<>>
       [] xs # <<>> /\ IsLeaf(tree) -> Tail(xs)
       [] OTHER -> <<Cell(half, tree[2]), Cell(half, tree[3])>> \o Tail(xs)
LViewHead(xs) == Head(xs).tree[1]

\* A tree in pre-order: its local, then what is on the left, then what is on the right.
Push(p) ==
  LET tree == Head(p.todo)
  IN CASE p.todo = <<>> -> p
       [] p.todo # <<>> /\ IsLeaf(tree) -> [out |-> Append(p.out, tree[1]), todo |-> Tail(p.todo)]
       [] OTHER -> [out |-> Append(p.out, tree[1]), todo |-> <<tree[2], tree[3]>> \o Tail(p.todo)]
Trees(xs) == [j \in DOMAIN xs |-> xs[j].tree]
Pushes(xs) ==
  LET at[k \in Nat] == IF k = 0 THEN [out |-> <<>>, todo |-> Trees(xs)] ELSE Push(at[k - 1]) IN at
ToList(xs) == Pushes(xs)[Steps].out

\* The index of the first local of that name, by views, as a sequence of at most one.
Look(name, v) ==
  IF v.view = <<>> THEN v
  ELSE IF LViewHead(v.view) = name THEN v
  ELSE [view |-> LViewTail(v.view), index |-> v.index + 1]
Looks(xs, name) ==
  LET at[k \in Nat] == IF k = 0 THEN [view |-> xs, index |-> 0] ELSE Look(name, at[k - 1]) IN at
NameIndex(xs, name) ==
  LET last == Looks(xs, name)[Steps] IN IF last.view = <<>> THEN <<>> ELSE <<last.index>>

-----------------------------------------------------------------------------
ContextInit == trees = <<>> /\ nested = <<>>
\* context_bind and context_define.
Enter(x) == Len(nested) < MaxLocals /\ trees' = LCons(x, trees) /\ nested' = Before(x, nested)
\* The traversals of context_lview go on with the rest of the locals.
Leave == nested # <<>> /\ trees' = LViewTail(trees) /\ nested' = Tail(nested)
ContextNext == (\E x \in Locals : Enter(x)) \/ Leave
ContextSpec == ContextInit /\ [][ContextNext]_contextVars

-----------------------------------------------------------------------------
\* After any entries and views a de Bruijn index means the local that was entered so many before
\* the last, there are no more locals than those, and a name means the innermost local it has.
LocalsInOrder ==
  /\ ToList(trees) = nested
  /\ \A i \in 0..Len(nested) : LGet(trees, i) = IF i < Len(nested) THEN <<nested[i + 1]>> ELSE <<>>
  /\ \A x \in Locals :
       LET at == {i \in DOMAIN nested : nested[i] = x}
       IN NameIndex(trees, x) = IF at = {} THEN <<>> ELSE <<(CHOOSE i \in at : \A j \in at : i <= j) - 1>>
=============================================================================
