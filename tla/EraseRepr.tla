------------------------------ MODULE EraseRepr ------------------------------
(***************************************************************************)
(* kernel/eterm.c and erase_util.c: the code the eraser produces, and what *)
(* it knows of the variables of terms and of code.                         *)
(*                                                                         *)
(* In code a variable is an index as in terms, but only variables that     *)
(* exist at run time are counted.  A closure names a lifted function, the  *)
(* number of its parameters and what it captures; the lifted function      *)
(* takes the captures first.  The type that says how a value is laid out   *)
(* has an identifier, a text in the code and a tuple of its parts here.    *)
(* Printing the code is left out.                                          *)
(***************************************************************************)
EXTENDS CheckEngine, FiniteSets

Seqs == INSTANCE SequencesExt

KVar(index) == [kind |-> "var", index |-> index]
KLit(lit) == [kind |-> "lit", lit |-> lit]
KGlobal(name) == [kind |-> "global", name |-> name]
KErased == [kind |-> "erased"]
KLet(value, body) == [kind |-> "let", value |-> value, body |-> body]
KClos(fid, count, captures) == [kind |-> "clos", fid |-> fid, arity |-> count, args |-> captures]
KApp(head, args) == [kind |-> "app", head |-> head, args |-> args]
KTail(head, args) == [kind |-> "tail", head |-> head, args |-> args]
KStruct(tid, fields) == [kind |-> "struct", tid |-> tid, args |-> fields]
KProj(tid, index, value) == [kind |-> "proj", tid |-> tid, index |-> index, value |-> value]
KTag(tid, tag, fields) == [kind |-> "tag", tid |-> tid, tag |-> tag, args |-> fields]
KCase(tid, scrut, branches) == [kind |-> "case", tid |-> tid, scrut |-> scrut, branches |-> branches]
KBranch(tag, count, body) == [tag |-> tag, arity |-> count, body |-> body]
KDelay(fid, captures) == [kind |-> "delay", fid |-> fid, args |-> captures]
KForce(value) == [kind |-> "force", value |-> value]
KFun(fid, params, result, body) ==
  [kind |-> "fun", fid |-> fid, params |-> params, result |-> result, body |-> body]
KRec(tids) == [kind |-> "rec", tids |-> tids]

\* How a value is laid out: a machine word, or by a type of that identifier.
RI31 == [kind |-> "i31"]
RStruct(tid) == [kind |-> "struct", tid |-> tid]
RUnion(tid) == [kind |-> "union", tid |-> tid]
RFunc(tid) == [kind |-> "func", tid |-> tid]
RThunk(tid) == [kind |-> "thunk", tid |-> tid]

-----------------------------------------------------------------------------
(* Lists of indices without repetition, in increasing order.               *)
Sorted(indices) == Seqs!SetToSortSeq(indices, LAMBDA a, b : a < b)

\* What is under a node, with the number of variables that are bound there.
Under(count, node) == [under |-> count, node |-> node]
AllUnder(count, nodes) == {Under(count, nodes[i]) : i \in DOMAIN nodes}
LegsUnder(legs) == {Under(Len(legs[i].binders), legs[i].body) : i \in DOMAIN legs}

\* What of a term may run.
FreeChildren(term) ==
  CASE term.kind = "in" -> AllUnder(0, AddrChildren(term.addr) \o term.args)
    [] term.kind = "out" -> AllUnder(0, Append(AddrChildren(term.addr), term.head))
    [] term.kind = "sec" -> LegsUnder(term.legs)
    [] term.kind = "elim" ->
         {Under(0, term.scrut)} \cup LegsUnder([i \in DOMAIN term.branches |-> term.branches[i].leg])
    [] term.kind = "let" -> {Under(0, term.value), Under(1, term.body)}
    [] term.kind = "ann" -> {Under(0, term.body)}
    [] OTHER -> {}

FromOutside(index, depth) == IF index >= depth THEN {index - depth} ELSE {}

RECURSIVE FreeAt(_, _)
FreeAt(depth, term) ==
  IF term.kind = "var" THEN FromOutside(term.index, depth)
  ELSE UNION {FreeAt(depth + c.under, c.node) : c \in FreeChildren(term)}
FreeVars(term) == FreeAt(0, term)

-----------------------------------------------------------------------------
(* Slots, the innermost first: a variable of the term that is kept at run  *)
(* time or dropped, or a variable that only the code has.                  *)
OfTerm(slots) == {p \in DOMAIN slots : slots[p] # "extra"}
AtRuntime(slots) == {p \in DOMAIN slots : slots[p] # "drop"}
Before(positions, p) == Cardinality({q \in positions : q < p})

\* The slot of a variable of the term.
SlotOf(slots, index) == CHOOSE p \in OfTerm(slots) : Before(OfTerm(slots), p) = index
InSlots(slots, index) == index < Cardinality(OfTerm(slots))

\* Mistake: the variables that only the code has are not counted.
LookupTermOnly(slots, index) ==
  IF InSlots(slots, index) /\ slots[SlotOf(slots, index)] = "keep"
  THEN Just(Before(OfTerm(slots) \cap AtRuntime(slots), SlotOf(slots, index))) ELSE None

\* The variable of the code that a variable of the term is.
Lookup(slots, index) ==
  IF InSlots(slots, index) /\ slots[SlotOf(slots, index)] = "keep"
  THEN Just(Before(AtRuntime(slots), SlotOf(slots, index))) ELSE None

\* What a closure of a term captures, and the slots its body sees the captures in.
CapturesOf(slots, term) == {i \in FreeVars(term) : Lookup(slots, i) # None}
Frame(slots, captures) ==
  LET own == SelectSeq(slots, LAMBDA slot : slot # "extra")
  IN [p \in DOMAIN own |-> IF own[p] = "keep" /\ p - 1 \in captures THEN "keep" ELSE "drop"]

-----------------------------------------------------------------------------
(* Variables of code.                                                      *)
RuntimeChildren(node) ==
  CASE node.kind = "let" -> {Under(0, node.value), Under(1, node.body)}
    [] node.kind \in {"clos", "delay", "struct", "tag"} -> AllUnder(0, node.args)
    [] node.kind \in {"app", "tail"} -> AllUnder(0, Cons(node.head, node.args))
    [] node.kind \in {"proj", "force"} -> {Under(0, node.value)}
    [] node.kind = "case" ->
         {Under(0, node.scrut)}
           \cup {Under(node.branches[i].arity, node.branches[i].body) : i \in DOMAIN node.branches}
    [] OTHER -> {}

RECURSIVE RuntimeAt(_, _)
RuntimeAt(depth, node) ==
  IF node.kind = "var" THEN FromOutside(node.index, depth)
  ELSE UNION {RuntimeAt(depth + c.under, c.node) : c \in RuntimeChildren(node)}
RuntimeVars(node) == RuntimeAt(0, node)

\* The node with every variable from outside renamed.
Shift(amount) == [kind |-> "shift", amount |-> amount]
Prune(params, live) == [kind |-> "prune", params |-> params, live |-> live]
NewIndex(new, i) ==
  CASE new.kind = "shift" -> i + new.amount
    [] new.kind = "prune" ->
         IF i < new.params THEN i
         ELSE new.params + Cardinality({x \in new.live : x < i - new.params})

RECURSIVE Reindex(_, _, _)
ReindexAll(new, depth, nodes) == [i \in DOMAIN nodes |-> Reindex(new, depth, nodes[i])]
Reindex(new, depth, node) ==
  CASE node.kind = "var" ->
         IF node.index < depth THEN node ELSE KVar(depth + NewIndex(new, node.index - depth))
    [] node.kind = "let" -> KLet(Reindex(new, depth, node.value), Reindex(new, depth + 1, node.body))
    [] node.kind \in {"clos", "delay", "struct", "tag"} -> [node EXCEPT !.args = ReindexAll(new, depth, @)]
    [] node.kind \in {"app", "tail"} ->
         [node EXCEPT !.head = Reindex(new, depth, @), !.args = ReindexAll(new, depth, @)]
    [] node.kind \in {"proj", "force"} -> [node EXCEPT !.value = Reindex(new, depth, @)]
    [] node.kind = "case" ->
         [node EXCEPT !.scrut = Reindex(new, depth, @),
                      !.branches = [i \in DOMAIN node.branches |->
                        LET branch == node.branches[i]
                        IN KBranch(branch.tag, branch.arity, Reindex(new, depth + branch.arity, branch.body))]]
    [] OTHER -> node

Shifted(amount, node) == Reindex(Shift(amount), 0, node)

-----------------------------------------------------------------------------
(* Of the captures of a lifted function those that its body still uses.    *)
(* The parameters come first, then the captures, the last one innermost.   *)
LiveCaptures(params, count, used) == {x \in 0..(count - 1) : x + params \in used}
Kept(items, live) ==
  LET at == Sorted({p \in DOMAIN items : Len(items) - p \in live})
  IN [i \in DOMAIN at |-> items[at[i]]]
PruneCaptures(reprs, captures, params, body) ==
  LET live == LiveCaptures(params, Len(reprs), RuntimeVars(body))
  IN [reprs |-> Kept(reprs, live), captures |-> Kept(captures, live),
      body |-> Reindex(Prune(params, live), 0, body)]

-----------------------------------------------------------------------------
(* kernel/erase_repr.c: which types have values at run time, and how those *)
(* values are laid out.                                                    *)
(*                                                                         *)
(* A type has no values at run time if it is a universe, a collection of   *)
(* nothing, or a proposition; and what is bound at quantity Zero does not  *)
(* exist at run time whatever its type.  The context of the eraser has the *)
(* context of the checker, a slot for each variable, and the name of the   *)
(* definition that is erased.                                              *)

EraseCtx(check, slots, self) == [check |-> check, slots |-> slots, self |-> self]
BindSlot(ec, q, ty, slot) == EraseCtx(Bind(q, ty, ec.check), Cons(slot, ec.slots), ec.self)
DefineSlot(ec, q, ty, value, slot) ==
  EraseCtx(Define(q, ty, value, ec.check), Cons(slot, ec.slots), ec.self)
Extra(ec) == [ec EXCEPT !.slots = Cons("extra", @)]
ReplaceSlots(ec, slots) == [ec EXCEPT !.slots = slots]
Fresh(ec) == EraseCtx(MakeCtx(ec.check.g, 0), <<>>, ec.self)
KeepSlot(keep) == IF keep THEN "keep" ELSE "drop"

NextVar(ec) == LocalVar(ec.check.size)
EvalIn(ec, term) == Eval(ec.check, term)
EvalEnv(ec, env, term) == Evaluate(ec.check.g, env, term)
WhnfOf(ec, value) == WhnfIn(ec.check, value)
OpenIn(ec, clo, args) == Open(ec.check, clo, args)
InferTy(ec, term) == Then(InferUses(ec.check, One, term), LAMBDA got : Done(got.ty))

-----------------------------------------------------------------------------
(* What exists at run time.                                                *)
ProofFree(ec, value) ==
  Then(Quote(ec.check.g, ec.check.size, value), LAMBDA term :
  Then(InferUniv(ec.check, term), LAMBDA level :
    Done(~SameLevel(ec.check.arity, level, L!LZero))))

EmptyCollection(shape) == shape.kind = "coll" /\ shape.count = 0
RuntimeNode(ec, value) ==
  IF value.kind = "univ" \/ (value.kind \in {"lan", "ran"} /\ EmptyCollection(value.shape))
  THEN Done(FALSE) ELSE ProofFree(ec, value)
RuntimeTy(ec, ty) == Then(WhnfOf(ec, ty), LAMBDA value : RuntimeNode(ec, value))
PointRuntime(ec, q, dom) == IF q = Zero THEN Done(FALSE) ELSE RuntimeTy(ec, dom)

-----------------------------------------------------------------------------
(* Identifiers.                                                            *)
AnyRepr == RUnion(<<"any">>)
UnitLeg == [kind |-> "unit"]
MuTid(name) == <<"mu", name>>
MuLegTid(name, index, reprs) == <<"leg", MuTid(name), index>> \o reprs

RECURSIVE ReprOf(_, _)

\* The context and the type under a binder of a type.
UnderPoint(ec, q, dom, clo) ==
  Then(OpenIn(ec, clo, <<NextVar(ec)>>), LAMBDA cod :
    Done([ec |-> BindSlot(ec, q, dom, "drop"), cod |-> cod]))

\* At most one, if it is kept.
ReprText(ec, keep, ty) ==
  IF keep THEN Then(ReprOf(ec, ty), LAMBDA repr : Done(Just(repr))) ELSE Done(None)

\* How many arguments a function takes at run time.
RECURSIVE ArityOf(_, _, _, _)
ArityOf(ec, n, shape, clo) ==
  IF PointDom(shape) = None THEN Done(n)
  ELSE Then(PointRuntime(ec, shape.q, PointDom(shape)[1]), LAMBDA keep :
       Then(UnderPoint(ec, shape.q, PointDom(shape)[1], clo), LAMBDA under :
       Then(WhnfOf(under.ec, under.cod), LAMBDA cod :
         LET count == IF keep THEN n + 1 ELSE n
         IN IF cod.kind = "ran" THEN ArityOf(under.ec, count, cod.shape, cod.clo) ELSE Done(count))))

PairTexts(ec, q, dom, clo) ==
  Then(PointRuntime(ec, q, dom), LAMBDA keepFirst :
  Then(ReprText(ec, keepFirst, dom), LAMBDA first :
  Then(UnderPoint(ec, q, dom, clo), LAMBDA under :
  Then(RuntimeTy(under.ec, under.cod), LAMBDA keepSecond :
  Then(ReprText(under.ec, keepSecond, under.cod), LAMBDA second : Done(first \o second))))))

\* The types of the legs of a collection, and whether each exists at run time.
LegTypes(ec, count, clo) ==
  Then(CollLegsOf(ec.check, clo), LAMBDA legs :
    Collect([i \in 1..count |-> CollLegTy(ec.check, legs, i - 1)]))
Flags(ec, types) == Collect([i \in DOMAIN types |-> RuntimeTy(ec, types[i])])
LegFlags(ec, count, clo) == Then(LegTypes(ec, count, clo), LAMBDA types : Flags(ec, types))

\* A member of a sum that has no values at run time keeps its place.
SumTexts(ec, types) ==
  Collect([i \in DOMAIN types |->
    Then(RuntimeTy(ec, types[i]), LAMBDA keep :
      IF keep THEN ReprOf(ec, types[i]) ELSE Done(UnitLeg))])
TupleTexts(ec, types) ==
  Then(Collect([i \in DOMAIN types |->
         Then(RuntimeTy(ec, types[i]), LAMBDA keep : ReprText(ec, keep, types[i]))]),
       LAMBDA texts : Done(Seqs!FlattenSeq(texts)))

RanCollection(ec, count, clo) ==
  IF count = 0 THEN Done(AnyRepr)
  ELSE Then(LegTypes(ec, count, clo), LAMBDA types :
       Then(TupleTexts(ec, types), LAMBDA texts : Done(RStruct(Cons("tuple", texts)))))
LanCollection(ec, count, clo) ==
  IF count = 0 THEN Done(AnyRepr)
  ELSE Then(LegTypes(ec, count, clo), LAMBDA types :
       Then(SumTexts(ec, types), LAMBDA texts : Done(RUnion(Cons("sum", texts)))))

RanRepr(ec, shape, clo) ==
  CASE shape.kind \in {"pi", "zk"} ->
         Then(ArityOf(ec, 0, shape, clo), LAMBDA count : Done(RFunc(<<"fn", count>>)))
    [] shape.kind = "coll" -> RanCollection(ec, shape.count, clo)
    [] OTHER -> Done(AnyRepr)
LanRepr(ec, shape, clo) ==
  CASE shape.kind = "mu" -> Done(RUnion(MuTid(shape.name)))
    [] shape.kind = "pi" ->
         Then(PairTexts(ec, shape.q, shape.args[1], clo), LAMBDA texts : Done(RStruct(Cons("pair", texts))))
    [] shape.kind = "coll" -> LanCollection(ec, shape.count, clo)
    [] OTHER -> Done(AnyRepr)

ReprNode(ec, value) ==
  CASE value.kind = "neutral" /\ value.head = HGlobal("Nat") /\ value.spine = <<>> -> Done(RUnion(<<"nat">>))
    [] value.kind = "ran" -> RanRepr(ec, value.shape, value.clo)
    [] value.kind = "lan" -> LanRepr(ec, value.shape, value.clo)
    [] OTHER -> Done(AnyRepr)
ReprOf(ec, value) == Then(WhnfOf(ec, value), LAMBDA whnf : ReprNode(ec, whnf))

ReprTid(repr) == IF repr = RI31 THEN Fail("mismatch") ELSE Done(repr.tid)
TidOf(ec, value) == Then(ReprOf(ec, value), LAMBDA repr : ReprTid(repr))

-----------------------------------------------------------------------------
(* The layouts of the constructors of a family: for each field its         *)
(* representation, or none.                                                *)
RECURSIVE MuLegReprs(_, _, _), MuParameters(_, _)
MuLegReprs(tele, ec, env) ==
  IF tele = <<>> THEN Done(<<>>)
  ELSE Then(EvalEnv(ec, env, Head(tele).ty), LAMBDA ty :
       Then(PointRuntime(ec, Head(tele).q, ty), LAMBDA keep :
       Then(ReprText(ec, keep, ty), LAMBDA here :
       Then(MuLegReprs(Tail(tele), BindSlot(ec, Head(tele).q, ty, "drop"), Cons(NextVar(ec), env)), LAMBDA more :
         Done(Cons(here, more))))))

MuParameters(tele, ec) ==
  IF tele = <<>> THEN Done(ec)
  ELSE Then(EvalIn(ec, Head(tele).ty), LAMBDA ty :
         MuParameters(Tail(tele), BindSlot(ec, Head(tele).q, ty, "drop")))

MuLayout(ec, family, ctor) ==
  Then(MuParameters(family.params, Fresh(ec)), LAMBDA params :
    MuLegReprs(ctor.args, params, params.check.env))
KeptReprs(layout) == Seqs!FlattenSeq(layout)

MuGroupTids(ec, name, family) ==
  Then(MuCtorNames(family), LAMBDA names :
    Collect([i \in DOMAIN names |->
      LET ctor == CtorOf(names[i], family)
      IN Then(Require(ctor # None, "unbound"), LAMBDA known :
         Then(MuLayout(ec, family, ctor[1]), LAMBDA layout :
           Done(MuLegTid(name, i - 1, KeptReprs(layout)))))]))
=============================================================================
