------------------------------ MODULE Circuit ------------------------------
(***************************************************************************)
(* kernel/circuit.c: the depth of a term read as a circuit, that is, how   *)
(* many primitive operations are nested in it.  Functions are kept as      *)
(* closures and applied at the place of the call; an elimination of an     *)
(* inductive family is allowed when a bound of its argument can be read    *)
(* off a literal, and its branches count once per layer if they read their *)
(* fields.  A term outside this fragment has no depth.                     *)
(*                                                                         *)
(* The globals are the bodies of the definitions.  The memo of the literal *)
(* bounds is left out: it repeats results only.                            *)
(***************************************************************************)
EXTENDS Terms

CONSTANT Ceiling  \* bound: the greatest depth (the code's is 2^62 - 1)
ASSUME CeilingAssumption == Ceiling \in Nat

Depth(n) == [kind |-> "depth", depth |-> n]
CircuitClosure(leg, env, seen) == [kind |-> "closure", leg |-> leg, env |-> env, seen |-> seen]
DepthOf(value) == IF value.kind = "depth" THEN value.depth ELSE 0

Costs == {"natAdd", "natSub", "natMul", "natEq", "natLt"}  \* one each
Greater(a, b) == IF a <= b THEN b ELSE a
RECURSIVE Greatest(_)
Greatest(ns) == IF ns = <<>> THEN 0 ELSE Greater(Head(ns), Greatest(Tail(ns)))
Bounded(n) == IF n <= Ceiling THEN Done(Depth(n)) ELSE Fail("unbounded")

ShapeAllowed(shape) == shape.kind \in {"pi", "arg", "coll", "mu"}
TypeResult(shape) == IF ShapeAllowed(shape) THEN Done(Depth(0)) ELSE Fail("fragment")

-----------------------------------------------------------------------------
(* How many layers of the family a literal has; seen holds the globals     *)
(* that are being read.                                                    *)
RECURSIVE LiteralBound(_, _, _, _)
LiteralArgs(bodies, family, args, seen) ==
  Then(Collect([i \in DOMAIN args |-> LiteralBound(bodies, family, args[i], seen)]),
       LAMBDA bounds : Done(Greatest(bounds)))

LiteralGlobal(bodies, family, name, seen) ==
  IF name \in seen \/ name \notin DOMAIN bodies THEN Fail("unbounded")
  ELSE LiteralBound(bodies, family, bodies[name], seen \cup {name})

LiteralBound(bodies, family, term, seen) ==
  CASE term.kind = "ann" -> LiteralBound(bodies, family, term.body, seen)
    [] term.kind = "lit" -> Done(0)
    [] term.kind = "global" -> LiteralGlobal(bodies, family, term.name, seen)
    [] term.kind = "in" /\ term.shape.kind = "mu" ->
         Then(LiteralArgs(bodies, family, term.args, seen), LAMBDA bound :
           Done(bound + (IF term.shape.name = family THEN 1 ELSE 0)))
    [] OTHER -> Fail("unbounded")

-----------------------------------------------------------------------------
(* Whether a branch reads its fields: a variable among count, below depth  *)
(* further binders.  Types and motives do not count.                       *)
RECURSIVE ReadsFields(_, _, _)
ReadsFields(term, depth, count) ==
  LET SomeOf(terms) == \E i \in DOMAIN terms : ReadsFields(terms[i], depth, count)
      Under(leg) == ReadsFields(leg.body, depth + Len(leg.binders), count)
  IN CASE term.kind = "var" -> term.index >= depth /\ term.index < depth + count
       [] term.kind = "in" -> SomeOf(term.args) \/ SomeOf(AddrChildren(term.addr))
       [] term.kind = "elim" ->
            \/ ReadsFields(term.scrut, depth, count)
            \/ \E i \in DOMAIN term.branches :
                 SomeOf(AddrChildren(term.branches[i].addr)) \/ Under(term.branches[i].leg)
       [] term.kind = "sec" -> \E i \in DOMAIN term.legs : Under(term.legs[i])
       [] term.kind = "out" -> SomeOf(AddrChildren(term.addr)) \/ ReadsFields(term.head, depth, count)
       [] term.kind = "let" ->
            ReadsFields(term.value, depth, count) \/ ReadsFields(term.body, depth + 1, count)
       [] term.kind = "ann" -> ReadsFields(term.body, depth, count)
       [] OTHER -> FALSE

BranchesRead(branches) ==
  \E i \in DOMAIN branches : ReadsFields(branches[i].leg.body, 0, Len(branches[i].leg.binders))

NamesFamily(terms, family) == \E i \in DOMAIN terms : ExistsName(TRUE, {family}, terms[i])

\* The head of nested applications and their arguments, the first one first.
RECURSIVE Spine(_, _)
Spine(term, args) ==
  IF term.kind = "out" /\ term.shape.kind \in {"pi", "arg"}
  THEN Spine(term.head, AddrChildren(term.addr) \o args)
  ELSE [head |-> term, args |-> args]

-----------------------------------------------------------------------------
RECURSIVE CircuitEval(_, _, _, _), CircuitApply(_, _, _, _, _)

Opened(count, depth, env) == [i \in 1..count |-> Depth(depth)] \o env
DeepestOf(results) ==
  Then(Collect(results), LAMBDA values :
    Done(Depth(Greatest([i \in DOMAIN values |-> DepthOf(values[i])]))))

CircuitArgs(bodies, args, env, seen) ==
  DeepestOf([i \in DOMAIN args |-> CircuitEval(bodies, args[i], env, seen)])
CircuitAddress(bodies, addr, env, seen) ==
  IF addr.kind = "pt" THEN CircuitEval(bodies, addr.arg, env, seen) ELSE Done(Depth(0))
CircuitLegs(bodies, legs, env, seen) ==
  DeepestOf([i \in DOMAIN legs |->
    CircuitEval(bodies, legs[i].body, Opened(Len(legs[i].binders), 0, env), seen)])
CircuitBranches(bodies, branches, env, seen) ==
  DeepestOf([i \in DOMAIN branches |->
    Then(CircuitAddress(bodies, branches[i].addr, env, seen), LAMBDA at :
      CircuitEval(bodies, branches[i].leg.body,
                  Opened(Len(branches[i].leg.binders), DepthOf(at), env), seen))])

CircuitIn(bodies, term, env, seen) ==
  CASE term.shape.kind = "pi" ->
         Then(CircuitAddress(bodies, term.addr, env, seen), LAMBDA at :
         Then(CircuitArgs(bodies, term.args, env, seen), LAMBDA values :
           Done(Depth(Greater(DepthOf(at), DepthOf(values))))))
    [] term.shape.kind = "coll" -> CircuitArgs(bodies, term.args, env, seen)
    [] term.shape.kind = "mu" ->
         Then(CircuitArgs(bodies, term.args, env, seen), LAMBDA values :
           IF LiteralArgs(bodies, term.shape.name, term.args, seen).ok
              \/ ~NamesFamily(term.args, term.shape.name)
           THEN Done(values) ELSE Fail("mu"))
    [] OTHER -> TypeResult(term.shape)

CircuitSec(bodies, term, env, seen) ==
  CASE term.shape.kind = "pi" ->
         IF Len(term.legs) = 1 THEN Done(CircuitClosure(term.legs[1], env, seen)) ELSE Fail("auto")
    [] term.shape.kind = "coll" -> CircuitLegs(bodies, term.legs, env, seen)
    [] term.shape.kind = "mu" -> Fail("mu")
    [] OTHER -> TypeResult(term.shape)

\* Application: a primitive costs one more than its arguments.
CircuitCall(bodies, spine, env, seen) ==
  IF spine.head.kind = "global" /\ spine.head.name \in Costs
  THEN Then(CircuitArgs(bodies, spine.args, env, seen), LAMBDA values : Bounded(1 + DepthOf(values)))
  ELSE Then(CircuitEval(bodies, spine.head, env, seen), LAMBDA callee :
         CircuitApply(bodies, callee, spine.args, env, seen))

CircuitApply(bodies, callee, args, env, seen) ==
  CASE args = <<>> -> Done(callee)
    [] args # <<>> /\ callee.kind = "depth" -> Fail("opaque callee")
    [] args # <<>> /\ callee.kind = "closure" ->
         Then(CircuitEval(bodies, Head(args), env, seen), LAMBDA arg :
         Then(CircuitEval(bodies, callee.leg.body, Cons(arg, callee.env), callee.seen \cup seen),
           LAMBDA result : CircuitApply(bodies, result, Tail(args), env, seen)))

CircuitOut(bodies, term, env, seen) ==
  CASE term.shape.kind \in {"pi", "arg"} -> CircuitCall(bodies, Spine(term, <<>>), env, seen)
    [] term.shape.kind = "coll" ->
         Then(CircuitEval(bodies, term.head, env, seen), LAMBDA value : Done(Depth(DepthOf(value))))
    [] term.shape.kind = "mu" -> Fail("mu")
    [] OTHER -> TypeResult(term.shape)

CircuitElimMu(bodies, term, env, seen) ==
  Then(CircuitBranches(bodies, term.branches, env, seen), LAMBDA best :
  Then(LiteralBound(bodies, term.shape.name, term.scrut, seen), LAMBDA layers :
    IF layers = 0 THEN Fail("unbounded")
    ELSE Bounded(IF BranchesRead(term.branches) THEN layers * DepthOf(best) ELSE DepthOf(best))))

CircuitElim(bodies, term, env, seen) ==
  IF term.shape.kind = "mu" THEN CircuitElimMu(bodies, term, env, seen)
  ELSE Then(TypeResult(term.shape), LAMBDA allowed :
       Then(CircuitEval(bodies, term.scrut, env, seen), LAMBDA scrut :
       Then(CircuitBranches(bodies, term.branches, env, seen), LAMBDA best :
       Then(Bounded(1 + DepthOf(best)), LAMBDA branches :
         Done(Depth(Greater(DepthOf(scrut), DepthOf(branches))))))))

CircuitGlobal(bodies, name, seen) ==
  CASE name \in Costs -> Done(Depth(1))
    [] name \notin Costs /\ name \in seen -> Fail("mu")
    [] name \notin Costs /\ name \notin seen ->
         IF name \in DOMAIN bodies THEN CircuitEval(bodies, bodies[name], <<>>, seen \cup {name})
         ELSE Fail("unknown global")

CircuitEval(bodies, term, env, seen) ==
  CASE term.kind = "var" ->
         Done(IF term.index < Len(env) THEN env[term.index + 1] ELSE Depth(0))
    [] term.kind \in {"univ", "lit"} -> Done(Depth(0))
    [] term.kind \in {"lan", "ran"} -> TypeResult(term.shape)
    [] term.kind = "auto" -> Fail("auto")
    [] term.kind = "ann" -> CircuitEval(bodies, term.body, env, seen)
    [] term.kind = "let" ->
         Then(CircuitEval(bodies, term.value, env, seen), LAMBDA value :
           CircuitEval(bodies, term.body, Cons(value, env), seen))
    [] term.kind = "global" -> CircuitGlobal(bodies, term.name, seen)
    [] term.kind = "in" -> CircuitIn(bodies, term, env, seen)
    [] term.kind = "sec" -> CircuitSec(bodies, term, env, seen)
    [] term.kind = "out" -> CircuitOut(bodies, term, env, seen)
    [] term.kind = "elim" -> CircuitElim(bodies, term, env, seen)

\* A function counts as its body, its argument being of no depth.
RECURSIVE Unwrap(_, _)
Unwrap(bodies, value) ==
  IF value.kind = "depth" THEN Done(value.depth)
  ELSE Then(CircuitEval(bodies, value.leg.body, Cons(Depth(0), value.env), value.seen),
            LAMBDA result : Unwrap(bodies, result))

CircuitDepth(bodies, term) ==
  Then(CircuitEval(bodies, term, <<>>, {}), LAMBDA value : Unwrap(bodies, value))
=============================================================================
