------------------------------- MODULE Order -------------------------------
(***************************************************************************)
(* kernel/order.c and totality.c: the structural recursion certificate of  *)
(* a group of definitions.  It names one argument position, the same for   *)
(* every member, such that each call of a member passes there a variable   *)
(* that a match on the argument of the caller made smaller.                *)
(*                                                                         *)
(* A member is a name and a body.  The walk over a body knows of each      *)
(* variable (innermost first) whether it is the principal argument, smaller*)
(* than it, or neither; chain lists the matches on the way, the last one   *)
(* first.  The work list of the code becomes a recursion that lists the    *)
(* calls in the order in which the list meets them.                        *)
(***************************************************************************)
EXTENDS Terms

LOCAL S == INSTANCE SequencesExt

Member(name, body) == [name |-> name, body |-> body]
GroupNames(members) == {members[i].name : i \in DOMAIN members}
Mentions(group, term) == ExistsName(FALSE, group, term)

\* The body below its leading functions, and how many there are.
RECURSIVE Peel(_, _)
Peel(term, formals) ==
  IF /\ term.kind = "sec" /\ term.shape.kind \in {"pi", "zk"}
     /\ Len(term.legs) = 1 /\ Len(term.legs[1].binders) = 1
  THEN Peel(term.legs[1].body, formals + 1)
  ELSE [inner |-> term, formals |-> formals]

\* The head of nested projections at points, with their arguments and shapes, the first one first.
RECURSIVE CallSpine(_, _, _)
CallSpine(term, args, shapes) ==
  IF term.kind = "out" /\ term.addr.kind = "pt"
  THEN CallSpine(term.head, Cons(term.addr.arg, args), Cons(term.shape, shapes))
  ELSE [head |-> term, args |-> args, shapes |-> shapes]

StatusAt(status, index) == IF index < Len(status) THEN status[index + 1] ELSE "unknown"

\* Mistake: the principal argument itself may be passed on.
GuardedCallEqual(status, args, k) ==
  k < Len(args) /\ args[k + 1].kind = "var" /\ StatusAt(status, args[k + 1].index) \in {"principal", "smaller"}

\* The argument at position k is a variable smaller than the principal argument.
GuardedCall(status, args, k) ==
  k < Len(args) /\ args[k + 1].kind = "var" /\ StatusAt(status, args[k + 1].index) = "smaller"

Under(count, kind, status) == [i \in 1..count |-> kind] \o status

\* Matching on a variable makes the fields smaller only if the variable is the principal argument
\* or smaller itself.
Special(scrut, status) ==
  scrut.kind = "var" /\ StatusAt(status, scrut.index) \in {"principal", "smaller"}

Step(scrut, addr) ==
  [scrut |-> scrut.index, ctor |-> IF addr.kind = "ctor" THEN Just(addr.name) ELSE None]
BranchChain(scrut, special, addr, chain) == IF special THEN Cons(Step(scrut, addr), chain) ELSE chain

Call(callee, chain, valid) == [callee |-> callee, chain |-> chain, valid |-> valid]

-----------------------------------------------------------------------------
(* The calls of a term.  A call is not valid if it is not guarded, or if a *)
(* member is mentioned without being called.                               *)
RECURSIVE Calls(_, _, _, _, _)

CallsOfAll(group, k, status, chain, terms) ==
  S!FlattenSeq([i \in DOMAIN terms |-> Calls(group, k, status, chain, terms[i])])
ShapesPayload(shapes) == S!FlattenSeq([i \in DOMAIN shapes |-> Payload(shapes[i])])

SpineCalls(group, k, status, chain, spine) ==
  LET head == spine.head
      All(terms) == CallsOfAll(group, k, status, chain, terms)
      ofHead == CASE head.kind = "global" ->
                       IF head.name \in group
                       THEN <<Call(head.name, chain, GuardedCall(status, spine.args, k))>> ELSE <<>>
                  [] head.kind = "out" -> All(Payload(head.shape) \o AddrChildren(head.addr) \o <<head.head>>)
                  [] OTHER -> All(<<head>>)
  IN ofHead \o All(ShapesPayload(spine.shapes) \o spine.args)

BranchCalls(group, k, status, chain, scrut, branches) ==
  LET special == Special(scrut, status)
      kind == IF special THEN "smaller" ELSE "other"
      Of(branch) == CallsOfAll(group, k, status, chain, AddrChildren(branch.addr))
                    \o Calls(group, k, Under(Len(branch.leg.binders), kind, status),
                             BranchChain(scrut, special, branch.addr, chain), branch.leg.body)
  IN S!FlattenSeq([i \in DOMAIN branches |-> Of(branches[i])])

Calls(group, k, status, chain, term) ==
  LET All(terms) == CallsOfAll(group, k, status, chain, terms)
      Inside(count, body) == Calls(group, k, Under(count, "other", status), chain, body)
  IN CASE term.kind = "global" ->
            IF term.name \in group THEN <<Call(term.name, chain, FALSE)>> ELSE <<>>
       [] term.kind \in {"lan", "ran"} -> All(Payload(term.shape)) \o Inside(Len(PointDom(term.shape)), term.body)
       [] term.kind = "in" -> All(Payload(term.shape) \o AddrChildren(term.addr) \o term.args)
       [] term.kind = "sec" ->
            All(Payload(term.shape))
            \o S!FlattenSeq([i \in DOMAIN term.legs |-> Inside(Len(term.legs[i].binders), term.legs[i].body)])
       [] term.kind = "out" -> SpineCalls(group, k, status, chain, CallSpine(term, <<>>, <<>>))
       [] term.kind = "elim" ->
            All(<<term.scrut>> \o Payload(term.shape))
            \o (IF term.motive = None THEN <<>>
                ELSE Inside(1 + term.motive[1].indices, term.motive[1].body))
            \o BranchCalls(group, k, status, chain, term.scrut, term.branches)
       [] term.kind = "let" -> All(<<term.ty, term.value>>) \o Inside(1, term.body)
       [] term.kind = "ann" -> All(<<term.body, term.ty>>)
       [] OTHER -> <<>>

-----------------------------------------------------------------------------
(* The search for the position.                                            *)

\* The formals of a body: formal k (from the outside) is the principal argument.
Seed(formals, k) == [i \in 1..formals |-> IF i + k = formals THEN "principal" ELSE "other"]

\* The calls of every member if all of them are valid at position k.
RowsAt(members, group, k) ==
  LET peeled == [i \in DOMAIN members |-> Peel(members[i].body, 0)]
      calls == [i \in DOMAIN members |-> Calls(group, k, Seed(peeled[i].formals, k), <<>>, peeled[i].inner)]
  IN IF \A i \in DOMAIN calls : \A j \in DOMAIN calls[i] : calls[i][j].valid
     THEN Just([i \in DOMAIN members |-> [member |-> members[i].name, calls |-> calls[i]]]) ELSE None

\* How many positions there are to try: those every member that calls one has.
FormalsBound(members, group) ==
  LET counts == {p.formals : p \in {q \in {Peel(members[i].body, 0) : i \in DOMAIN members} :
                                      Mentions(group, q.inner)}}
  IN IF counts = {} THEN 0 ELSE CHOOSE n \in counts : \A m \in counts : n <= m

Certificate(group, arg, rows) == [group |-> group, arg |-> arg, rows |-> rows]

\* None if no member mentions one; the first position that fits; or a refusal.
Certify(members) ==
  LET group == GroupNames(members)
      fits == {k \in 0..(FormalsBound(members, group) - 1) : RowsAt(members, group, k) # None}
      first == CHOOSE k \in fits : \A j \in fits : k <= j
  IN CASE ~\E i \in DOMAIN members : Mentions(group, members[i].body) -> Done(None)
       [] fits # {} -> Done(Just(Certificate(group, first, RowsAt(members, group, first)[1])))
       [] OTHER -> Fail("termination")

-----------------------------------------------------------------------------
(* What the evaluator asks of the body of a certified definition: a match  *)
(* on the principal argument at its head, with a motive, every branch at a *)
(* constructor, and every call under one.                                  *)
ValidRows(rows) ==
  Require(\A i \in DOMAIN rows : \A j \in DOMAIN rows[i].calls :
            LET chain == rows[i].calls[j].chain IN chain # <<>> /\ chain[1].ctor # None, "termination")
ValidBranches(branches) == Require(\A i \in DOMAIN branches : branches[i].addr.kind = "ctor", "wrong_leg")

TranslateInner(peeled, cert) ==
  LET inner == peeled.inner
  IN Then(Require(/\ inner.kind = "elim" /\ inner.scrut.kind = "var"
                  /\ inner.scrut.index + cert.arg + 1 = peeled.formals, "mismatch"), LAMBDA head :
     Then(Require(inner.motive # None, "missing_branch"), LAMBDA motive :
     Then(ValidBranches(inner.branches), LAMBDA branches : ValidRows(cert.rows))))

Translate(cert, body) ==
  IF Mentions(cert.group, body)
  THEN Then(TranslateInner(Peel(body, 0), cert), LAMBDA checked : Done(body)) ELSE Done(body)
=============================================================================
