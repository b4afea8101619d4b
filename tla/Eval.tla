-------------------------------- MODULE Eval --------------------------------
(***************************************************************************)
(* kernel/eval.c: evaluation of terms, weak head normal forms, and reading *)
(* values back as terms.  Evaluation does not unfold globals; Whnf does.   *)
(* A definition by recursion (recArg is its matched argument) unfolds only *)
(* when that argument is a constructor, even in WhnfCore, which evaluation *)
(* of an application ends with; other definitions unfold only in Whnf.     *)
(*                                                                         *)
(* kernel/context.c and kernel/rules.c: the typing context and the helpers *)
(* of the typing rules, with the comparisons of universe levels.  A        *)
(* context has the globals, the values of its variables (innermost first), *)
(* its locals (innermost first, each with a quantity and a type), the      *)
(* number of level parameters, and whether the levels of the term at hand  *)
(* were looked at already.  Whether two levels are equal is decided by     *)
(* their values, which module LevelEq shows level_eq.c to compute.         *)
(***************************************************************************)
EXTENDS Terms

CONSTANTS MaxDepth,  \* bound: binders that are open at one place
          MaxLevel   \* bound: values of a level parameter
ASSUME BoundsAssumption == MaxDepth \in Nat /\ MaxLevel \in Nat

LevelOne == [kind |-> "succ", amount |-> 1, base |-> [kind |-> "zero"]]

-----------------------------------------------------------------------------
(* Primitives on natural number literals.                                  *)
BoolValue(b) == VIn(SColl(2), ALeg(IF b THEN 1 ELSE 0), <<VSec(SColl(0), <<>>)>>)

ApplyPair(op, a, b) ==
  CASE op = "add" -> VLit(LInt(a + b))
    [] op = "sub" -> VLit(LInt(IF a > b THEN a - b ELSE 0))
    [] op = "mul" -> VLit(LInt(a * b))
    [] op = "eq" -> BoolValue(a = b)
    [] op = "lt" -> BoolValue(a < b)

ApplyPrim(op, lits) ==
  IF Len(lits) = 2 /\ \A i \in 1..2 : lits[i].kind = "int" /\ lits[i].value >= 0
  THEN Just(ApplyPair(op, lits[1].value, lits[2].value)) ELSE None

-----------------------------------------------------------------------------
RECURSIVE Evaluate(_, _, _), OutValue(_, _, _, _), ElimValue(_, _, _), WhnfCore(_, _),
          Replay(_, _, _), Whnf(_, _)

EvalList(g, env, terms) == Collect([i \in DOMAIN terms |-> Evaluate(g, env, terms[i])])

EvalShape(g, env, shape) ==
  IF shape.kind \in {"par", "nu"} THEN Fail("not_yet")
  ELSE Then(EvalList(g, env, shape.args), LAMBDA values : Done([shape EXCEPT !.args = values]))

EvalAddr(g, env, addr) ==
  IF addr.kind = "pt"
  THEN Then(Evaluate(g, env, addr.arg), LAMBDA value : Done(APt(addr.q, value)))
  ELSE Done(addr)

CloseLegs(legs, env) == [i \in DOMAIN legs |-> VLeg(legs[i].binders, Close(env, legs[i].body))]

\* The last argument is the innermost variable.
OpenClosure(g, clo, args) == Evaluate(g, Rev(args) \o clo.env, clo.body)

\* The level of a former that has none yet, if the annotation is a universe.
FillLevel(g, env, level, ty) ==
  IF level # None THEN level
  ELSE LET kind == Then(Evaluate(g, env, ty), LAMBDA v : Whnf(g, v))
       IN IF kind.ok THEN AsUniv(kind.val) ELSE None

Annotate(g, env, value, ty) ==
  IF value.kind \in {"lan", "ran"} THEN [value EXCEPT !.level = FillLevel(g, env, value.level, ty)]
  ELSE value

Evaluate(g, env, term) ==
  CASE term.kind = "var" ->
         IF term.index < Len(env) THEN Done(env[term.index + 1]) ELSE Fail("unbound")
    [] term.kind = "univ" -> Done(VUniv(term.level))
    [] term.kind = "lit" -> Done(VLit(term.lit))
    [] term.kind = "lan" ->
         Then(EvalShape(g, env, term.shape), LAMBDA s : Done(VLan(s, Close(env, term.body), None)))
    [] term.kind = "ran" ->
         Then(EvalShape(g, env, term.shape), LAMBDA s : Done(VRan(s, Close(env, term.body), None)))
    [] term.kind = "in" ->
         Then(EvalShape(g, env, term.shape), LAMBDA s :
         Then(EvalAddr(g, env, term.addr), LAMBDA a :
         Then(EvalList(g, env, term.args), LAMBDA values : Done(VIn(s, a, values)))))
    [] term.kind = "sec" ->
         Then(EvalShape(g, env, term.shape), LAMBDA s : Done(VSec(s, CloseLegs(term.legs, env))))
    [] term.kind = "out" ->
         Then(EvalShape(g, env, term.shape), LAMBDA s :
         Then(EvalAddr(g, env, term.addr), LAMBDA a :
         Then(Evaluate(g, env, term.head), LAMBDA v :
         Then(OutValue(g, s, a, v), LAMBDA applied : WhnfCore(g, applied)))))
    [] term.kind = "elim" ->
         Then(EvalShape(g, env, term.shape), LAMBDA s :
         Then(Evaluate(g, env, term.scrut), LAMBDA v :
         ElimValue(g, StuckElim(s, term.q, term.motive, term.branches, env), v)))
    [] term.kind = "let" ->
         Then(Evaluate(g, env, term.value), LAMBDA v : Evaluate(g, Cons(v, env), term.body))
    [] term.kind = "ann" ->
         Then(Evaluate(g, env, term.body), LAMBDA v : Done(Annotate(g, env, v, term.ty)))
    [] term.kind = "global" ->
         IF FindEntry(term.name, g) = None THEN Fail("unbound")
         ELSE Done(VNeutral(HGlobal(term.name), <<>>))
    [] term.kind = "auto" -> Fail("not_yet")

-----------------------------------------------------------------------------
(* Projections.                                                            *)
Stuck(value, frame) ==
  IF value.kind # "neutral" THEN Fail("mismatch") ELSE Done(VNeutral(value.head, Append(value.spine, frame)))

OutPoint(g, shape, addr, value) ==
  IF value.kind = "sec" /\ Len(value.legs) = 1 /\ addr.kind = "pt"
  THEN OpenClosure(g, value.legs[1].clo, <<addr.arg>>)
  ELSE Stuck(value, SOut(shape, addr))

OutColl(g, shape, addr, value) ==
  IF value.kind = "sec" /\ addr.kind = "leg"
  THEN IF addr.index < Len(value.legs) THEN OpenClosure(g, value.legs[addr.index + 1].clo, <<>>)
       ELSE Fail("mismatch")
  ELSE Stuck(value, SOut(shape, addr))

OutValue(g, shape, addr, value) ==
  CASE shape.kind \in {"pi", "arg", "zk"} -> OutPoint(g, shape, addr, value)
    [] shape.kind = "coll" -> OutColl(g, shape, addr, value)
    [] shape.kind \in {"fhc", "mpc"} -> Stuck(value, SOut(shape, addr))
    [] OTHER -> Fail("not_yet")

-----------------------------------------------------------------------------
(* Eliminations.  A branch for a leg or a constructor binds the arguments; *)
(* that of a pair binds the point and the value over it, the value first.  *)
BranchMatch(addr, target) == addr.kind \in {"leg", "ctor"} /\ addr = target

FindBranch(branches, addr) ==
  IF \E i \in DOMAIN branches : BranchMatch(branches[i].addr, addr)
  THEN Just(branches[CHOOSE i \in DOMAIN branches : /\ BranchMatch(branches[i].addr, addr)
                                                    /\ \A j \in 1..(i - 1) : ~BranchMatch(branches[j].addr, addr)])
  ELSE None

ElimNamed(g, data, value) ==
  IF value.kind = "in"
  THEN LET found == FindBranch(data.branches, value.addr)
       IN IF found = None THEN Fail("mismatch")
          ELSE Evaluate(g, Rev(value.args) \o data.env, found[1].leg.body)
  ELSE Stuck(value, SElim(data))

\* A proof value carries its certificate as a second argument; only a proof is opened with one.
ElimPoint(g, data, value, zk) ==
  IF value.kind = "in" /\ value.addr.kind = "pt" /\ Len(data.branches) = 1 /\ Len(value.args) \in {1, 2}
  THEN IF Len(value.args) = 2 /\ ~zk THEN Fail("mismatch")
       ELSE Evaluate(g, <<value.args[1], value.addr.arg>> \o data.env, data.branches[1].leg.body)
  ELSE Stuck(value, SElim(data))

ElimValue(g, data, value) ==
  CASE data.shape.kind = "pi" -> ElimPoint(g, data, value, FALSE)
    [] data.shape.kind = "zk" -> ElimPoint(g, data, value, TRUE)
    [] data.shape.kind \in {"coll", "mu"} -> ElimNamed(g, data, value)
    [] data.shape.kind \in {"arg", "fhc", "mpc"} -> Stuck(value, SElim(data))
    [] OTHER -> Fail("not_yet")

-----------------------------------------------------------------------------
(* Unfolding.                                                              *)
PointFrame(frame) == frame.kind = "out" /\ frame.addr.kind = "pt"
CanonicalCtor(value) == value.kind = "in" /\ value.addr.kind = "ctor"
WithArg(frame, value) == SOut(frame.shape, APt(frame.addr.q, value))

\* The spine with its matched argument in weak head normal form, if that is a constructor and
\* only applications come before it.
GuardedFrames(g, frames, index) ==
  IF index >= Len(frames) \/ \E i \in 1..(index + 1) : ~PointFrame(frames[i]) THEN Done(None)
  ELSE Then(Whnf(g, frames[index + 1].addr.arg), LAMBDA forced :
         IF CanonicalCtor(forced)
         THEN Done(Just([frames EXCEPT ![index + 1] = WithArg(frames[index + 1], forced)]))
         ELSE Done(None))

ForceFrames(g, frames) ==
  Collect([i \in DOMAIN frames |->
    IF PointFrame(frames[i])
    THEN Then(Whnf(g, frames[i].addr.arg), LAMBDA forced : Done(WithArg(frames[i], forced)))
    ELSE Done(frames[i])])

SpineLiterals(frames) ==
  IF \A i \in DOMAIN frames : PointFrame(frames[i]) /\ frames[i].addr.arg.kind = "lit"
  THEN Just([i \in DOMAIN frames |-> frames[i].addr.arg.lit]) ELSE None

UnfoldGuarded(g, def, value) ==
  Then(GuardedFrames(g, value.spine, def.recArg[1]), LAMBDA ready :
    IF ready = None THEN Done(value)
    ELSE Then(Evaluate(g, <<>>, def.body), LAMBDA head : Replay(g, head, ready[1])))

WhnfPrim(g, entry, value) ==
  Then(ForceFrames(g, value.spine), LAMBDA forced :
    LET lits == SpineLiterals(forced)
        result == IF lits = None THEN None ELSE ApplyPrim(entry.op, lits[1])
    IN Done(IF result = None THEN value ELSE result[1]))

\* Mistake: a recursive definition unfolds whatever its argument is.
WhnfCoreUnguarded(g, value) ==
  LET entry == IF value.kind = "neutral" /\ value.head.kind = "global"
               THEN FindEntry(value.head.name, g) ELSE None
  IN IF entry # None /\ entry[1].kind = "prim" THEN WhnfPrim(g, entry[1], value) ELSE Done(value)

WhnfCore(g, value) ==
  LET entry == IF value.kind = "neutral" /\ value.head.kind = "global"
               THEN FindEntry(value.head.name, g) ELSE None
  IN CASE entry = None -> Done(value)
       [] entry # None /\ entry[1].kind = "prim" -> WhnfPrim(g, entry[1], value)
       [] entry # None /\ entry[1].kind = "def" ->
            IF entry[1].reducible /\ entry[1].recArg # None THEN UnfoldGuarded(g, entry[1], value)
            ELSE Done(value)
       [] entry # None /\ entry[1].kind = "axiom" -> Done(value)

Replay(g, value, frames) ==
  IF frames = <<>> THEN Done(value)
  ELSE LET frame == Head(frames)
           applied == IF frame.kind = "out"
                      THEN Then(OutValue(g, frame.shape, frame.addr, value), LAMBDA v : WhnfCore(g, v))
                      ELSE ElimValue(g, frame.data, value)
       IN Then(applied, LAMBDA v : Replay(g, v, Tail(frames)))

UnfoldStep(g, value) ==
  LET entry == IF value.kind = "neutral" /\ value.head.kind = "global"
               THEN FindDef(value.head.name, g) ELSE None
  IN IF entry # None /\ entry[1].reducible /\ entry[1].recArg = None
     THEN Then(Evaluate(g, <<>>, entry[1].body), LAMBDA head :
          Then(Replay(g, head, value.spine), LAMBDA v : Done(Just(v))))
     ELSE Done(None)

Whnf(g, value) ==
  Then(WhnfCore(g, value), LAMBDA core :
  Then(UnfoldStep(g, core), LAMBDA step :
    IF step = None THEN Done(core) ELSE Whnf(g, step[1])))

-----------------------------------------------------------------------------
(* Reading back.  In the mode "quote" a value is read as it is, in the     *)
(* mode "normal" each part is brought to weak head normal form first.      *)
RECURSIVE ReadBack(_, _, _, _)

FreshVars(count, size) == [i \in 1..count |-> LocalVar(size + i - 1)]

QuoteList(mode, g, size, values) == Collect([i \in DOMAIN values |-> ReadBack(mode, g, size, values[i])])

QuoteShape(mode, g, size, shape) ==
  IF shape.kind \in {"par", "nu"} THEN Fail("not_yet")
  ELSE Then(QuoteList(mode, g, size, shape.args), LAMBDA terms : Done([shape EXCEPT !.args = terms]))

QuoteAddr(mode, g, size, addr) ==
  IF addr.kind = "pt"
  THEN Then(ReadBack(mode, g, size, addr.arg), LAMBDA term : Done(APt(addr.q, term)))
  ELSE Done(addr)

QuoteClosure(mode, g, size, clo, arity) ==
  Then(OpenClosure(g, clo, FreshVars(arity, size)), LAMBDA value : ReadBack(mode, g, size + arity, value))

QuoteLegs(mode, g, size, legs) ==
  Collect([i \in DOMAIN legs |->
    Then(QuoteClosure(mode, g, size, legs[i].clo, Len(legs[i].binders)), LAMBDA body :
      Done(Leg(legs[i].binders, body)))])

DiagramArity(shape) == IF shape.kind \in {"pi", "zk"} THEN 1 ELSE 0

QuoteFormer(mode, g, size, value) ==
  Then(QuoteShape(mode, g, size, value.shape), LAMBDA s :
  Then(QuoteClosure(mode, g, size, value.clo, DiagramArity(value.shape)), LAMBDA body :
    LET former == IF value.kind = "lan" THEN TLan(s, body) ELSE TRan(s, body)
    IN Done(IF value.level = None THEN former ELSE TAnn(former, TUniv(value.level[1])))))

QuoteMotive(mode, g, size, motive, env) ==
  IF motive = None THEN Done(None)
  ELSE Then(QuoteClosure(mode, g, size, Close(env, motive[1].body), motive[1].indices + 1), LAMBDA body :
         Done(Just([motive[1] EXCEPT !.body = body])))

QuoteBranches(mode, g, size, branches, env) ==
  Collect([i \in DOMAIN branches |->
    Then(EvalAddr(g, env, branches[i].addr), LAMBDA target :
    Then(QuoteAddr(mode, g, size, target), LAMBDA addr :
    Then(QuoteClosure(mode, g, size, Close(env, branches[i].leg.body), Len(branches[i].leg.binders)),
      LAMBDA body : Done(Branch(addr, Leg(branches[i].leg.binders, body))))))])

QuoteFrame(mode, g, size, frame, head) ==
  IF frame.kind = "out"
  THEN Then(QuoteShape(mode, g, size, frame.shape), LAMBDA s :
       Then(QuoteAddr(mode, g, size, frame.addr), LAMBDA a : Done(TOut(s, a, head))))
  ELSE Then(QuoteShape(mode, g, size, frame.data.shape), LAMBDA s :
       Then(QuoteMotive(mode, g, size, frame.data.motive, frame.data.env), LAMBDA m :
       Then(QuoteBranches(mode, g, size, frame.data.branches, frame.data.env), LAMBDA bs :
         Done(TElim(s, head, frame.data.q, m, bs)))))

RECURSIVE QuoteFrames(_, _, _, _, _)
QuoteFrames(mode, g, size, frames, head) ==
  IF frames = <<>> THEN Done(head)
  ELSE Then(QuoteFrame(mode, g, size, Head(frames), head), LAMBDA term :
         QuoteFrames(mode, g, size, Tail(frames), term))

\* Mistake: the level of a variable is taken for its index.
QuoteHeadLevel(size, head) ==
  IF head.kind = "global" THEN TGlobal(head.name) ELSE TVar(head.level)

QuoteHead(size, head) ==
  IF head.kind = "global" THEN TGlobal(head.name)
  ELSE TVar(IF head.level < size THEN size - 1 - head.level ELSE 0)

ReadBackValue(mode, g, size, value) ==
  CASE value.kind = "univ" -> Done(TUniv(value.level))
    [] value.kind = "lit" -> Done(TLit(value.lit))
    [] value.kind \in {"lan", "ran"} -> QuoteFormer(mode, g, size, value)
    [] value.kind = "in" ->
         Then(QuoteShape(mode, g, size, value.shape), LAMBDA s :
         Then(QuoteAddr(mode, g, size, value.addr), LAMBDA a :
         Then(QuoteList(mode, g, size, value.args), LAMBDA args : Done(TIn(s, a, args)))))
    [] value.kind = "sec" ->
         Then(QuoteShape(mode, g, size, value.shape), LAMBDA s :
         Then(QuoteLegs(mode, g, size, value.legs), LAMBDA legs : Done(TSec(s, legs))))
    [] value.kind = "neutral" -> QuoteFrames(mode, g, size, value.spine, QuoteHead(size, value.head))

ReadBack(mode, g, size, value) ==
  Then(IF mode = "normal" THEN Whnf(g, value) ELSE Done(value), LAMBDA v : ReadBackValue(mode, g, size, v))

Quote(g, size, value) == ReadBack("quote", g, size, value)
Normalize(g, size, value) == ReadBack("normal", g, size, value)

-----------------------------------------------------------------------------
L == INSTANCE LevelVar
U == INSTANCE Quantity WITH Levels <- 0..(MaxDepth - 1), MaxBuilt <- 0, built <- {}

Zero == U!Zero
One == U!One
Many == U!Many
Runtime(mode) == IF mode = Zero THEN Zero ELSE One

-----------------------------------------------------------------------------
(* The typing context.                                                     *)
Local(q, ty) == [q |-> q, ty |-> ty]
MakeCtx(g, arity) ==
  [g |-> g, env |-> <<>>, locals |-> <<>>, size |-> 0, arity |-> arity, checked |-> FALSE]
Define(q, ty, value, ctx) ==
  [ctx EXCEPT !.env = Cons(value, @), !.locals = Cons(Local(q, ty), @), !.size = @ + 1]
Bind(q, ty, ctx) == Define(q, ty, LocalVar(ctx.size), ctx)
Readable(mode, q) == mode = Zero \/ q # Zero

-----------------------------------------------------------------------------
(* Universe levels, up to the values of the parameters.                    *)
Valuations(arity) == [0..(arity - 1) -> 0..MaxLevel]
SameLevel(arity, a, b) == \A v \in Valuations(arity) : L!Value(a, v) = L!Value(b, v)
LevelBelow(arity, a, b) == \A v \in Valuations(arity) : L!Value(a, v) <= L!Value(b, v)

\* Zero, or positive, whatever the parameters are; by the form of the level alone.
RECURSIVE AlwaysZero(_), AlwaysPositive(_)
AlwaysZero(level) ==
  \/ level.kind = "zero"
  \/ level.kind = "max" /\ AlwaysZero(level.left) /\ AlwaysZero(level.right)
  \/ level.kind = "imax" /\ AlwaysZero(level.right)
AlwaysPositive(level) ==
  \/ level.kind = "succ"
  \/ level.kind = "max" /\ (AlwaysPositive(level.left) \/ AlwaysPositive(level.right))
  \/ level.kind = "imax" /\ AlwaysPositive(level.right)

RECURSIVE LevelsInScope(_, _)
LevelsInScope(arity, term) ==
  /\ term.kind = "univ" => L!InScope(term.level, arity)
  /\ \A i \in DOMAIN Children(term) : LevelsInScope(arity, Children(term)[i])

-----------------------------------------------------------------------------
(* Types the rules mention.                                                *)
Arrow(q, dom, cod) == TRan(SPi(q, dom), cod)
TermLegs(items) == [i \in DOMAIN items |-> Leg(<<>>, items[i])]
DiagramOf(items) == TSec(SColl(Len(items)), TermLegs(items))
SumTy(items) == TLan(SColl(Len(items)), DiagramOf(items))
ProdTy(items) == TRan(SColl(Len(items)), DiagramOf(items))
UnitTy(level) == TAnn(ProdTy(<<>>), TUniv(level))
UnitVal == TSec(SColl(0), <<>>)

NatTy == TGlobal("Nat")
BoolTy == SumTy(<<UnitTy(LevelOne), UnitTy(LevelOne)>>)
PrimResultTy(op) == IF op \in {"add", "sub", "mul"} THEN NatTy ELSE BoolTy
PrimTy(op) == Arrow(Many, NatTy, Arrow(Many, NatTy, PrimResultTy(op)))

\* The globals every program starts from: Nat and the primitives on it.
PrimCatalog == [natAdd |-> "add", natSub |-> "sub", natMul |-> "mul", natEq |-> "eq", natLt |-> "lt"]
GlobalInitial ==
  [entries |-> [name \in DOMAIN PrimCatalog \cup {"Nat"} |->
                  IF name = "Nat" THEN Axiom(TUniv(LevelOne))
                  ELSE Prim(PrimTy(PrimCatalog[name]), PrimCatalog[name])],
   families |-> [name \in {} |-> <<>>]]

-----------------------------------------------------------------------------
(* Diagrams of finite collections: a section with one leg per member.      *)
CollLegs(value) == IF value.kind = "sec" THEN Done(value.legs) ELSE Fail("mismatch")
CollLegsOf(ctx, clo) == Then(OpenClosure(ctx.g, clo, <<>>), LAMBDA value : CollLegs(value))
CollLegTy(ctx, legs, index) ==
  IF index \in 0..(Len(legs) - 1) THEN OpenClosure(ctx.g, legs[index + 1].clo, <<>>)
  ELSE Fail("wrong_leg")
ForceLegs(ctx, legs) == Collect([i \in DOMAIN legs |-> OpenClosure(ctx.g, legs[i].clo, <<>>)])

\* The parameters of a family: the legs of its diagram, the last one innermost.
MuParamEnv(ctx, clo) ==
  Then(CollLegsOf(ctx, clo), LAMBDA legs :
  Then(ForceLegs(ctx, legs), LAMBDA values : Done(Rev(values))))

MuFamily(ctx, name) ==
  LET found == FindFamily(name, ctx.g)
  IN CASE found = None -> Fail("unbound")
       [] found # None /\ found[1].status.kind = "complete" /\ ~found[1].positive -> Fail("not_yet")
       [] OTHER -> Done(found[1])

-----------------------------------------------------------------------------
(* Shared computation: the parties are a sum of as many units as there are *)
(* parties, a subset of them a number for each.                            *)
MpcSubTy(count) == IF count < 0 THEN Fail("mismatch") ELSE Done(ProdTy([i \in 1..count |-> NatTy]))
MpcPredTy(count) == Then(MpcSubTy(count), LAMBDA sub : Done(Arrow(Zero, sub, TUniv(L!LZero))))

MpcParty(ctx, value) ==
  Then(Whnf(ctx.g, value), LAMBDA party :
    Require(party.kind = "ran" /\ party.shape.kind = "coll" /\ party.shape.count = 0, "mismatch"))
MpcPartyLegs(ctx, legs) ==
  Collect([i \in DOMAIN legs |->
    Then(OpenClosure(ctx.g, legs[i].clo, <<>>), LAMBDA value : MpcParty(ctx, value))])
MpcParties(ctx, parties) ==
  Then(Whnf(ctx.g, parties), LAMBDA value :
    IF value.kind # "lan" \/ value.shape.kind # "coll" THEN Fail("mismatch")
    ELSE Then(CollLegsOf(ctx, value.clo), LAMBDA legs :
         Then(MpcPartyLegs(ctx, legs), LAMBDA all : Done(value.shape.count))))

-----------------------------------------------------------------------------
(* The type of an elimination: its motive at the indices and the value     *)
(* taken apart, or the expected type.                                      *)
MuResult(ctx, motive, indices, self) ==
  Evaluate(ctx.g, <<self>> \o Rev(indices) \o ctx.env, motive.body)
ElimResult(ctx, motive, expected, self) ==
  CASE motive # None -> Evaluate(ctx.g, Cons(self, ctx.env), motive[1].body)
    [] motive = None /\ expected # None -> Done(expected[1])
    [] OTHER -> Fail("cannot_infer")
=============================================================================
