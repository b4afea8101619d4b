------------------------------- MODULE Terms -------------------------------
(***************************************************************************)
(* kernel/shape.c, term.c, value.c, prim.c and literal.c: the terms and    *)
(* values of the kernel.                                                   *)
(*                                                                         *)
(* There are two formers, Lan (a sum) and Ran (a product), each over a     *)
(* shape: "pi" (a domain with a quantity, so Ran is a function type and    *)
(* Lan a dependent pair), "arg" (the shape of an introduction or an        *)
(* application at a pi), "coll" (a number of legs), "mu" (an inductive     *)
(* family), and those for proofs, encryption and shared computation.  In   *)
(* introduces a sum, Elim takes it apart, Sec introduces a product, Out    *)
(* projects from it, each at an address: a point, a leg or a constructor.  *)
(* Names of bound variables serve messages only and are left out.  A value *)
(* that may be absent is a sequence of at most one member.                 *)
(***************************************************************************)
EXTENDS Integers, Sequences

None == <<>>
Just(x) == <<x>>
Cons(x, xs) == <<x>> \o xs
Rev(xs) == [i \in 1..Len(xs) |-> xs[Len(xs) + 1 - i]]

\* A result of the kernel: a value, or the kind of an error.
Done(x) == [ok |-> TRUE, val |-> x]
Fail(error) == [ok |-> FALSE, err |-> error]
Then(result, F(_)) == IF result.ok THEN F(result.val) ELSE result
Require(condition, error) == IF condition THEN Done("unit") ELSE Fail(error)

\* The results of a loop that ends at the first failure: the list of values.  (A sequence joined
\* with the empty one is the same sequence; the checker evaluates it once.)
Collect(results) ==
  LET all == results \o <<>>
      failed == {i \in DOMAIN all : ~all[i].ok}
  IN IF failed = {} THEN Done([i \in DOMAIN all |-> all[i].val] \o <<>>)
     ELSE all[CHOOSE i \in failed : \A j \in failed : i <= j]

-----------------------------------------------------------------------------
(* Shapes.  args holds what the shape is over: terms in a term, values in  *)
(* a value.                                                                *)
SPi(q, domain) == [kind |-> "pi", q |-> q, args |-> <<domain>>]
SArg(q) == [kind |-> "arg", q |-> q, args |-> <<>>]
SColl(count) == [kind |-> "coll", count |-> count, args |-> <<>>]
SPar(left, right) == [kind |-> "par", args |-> <<left, right>>]
SMu(name, args) == [kind |-> "mu", name |-> name, args |-> args]
SNu(name, args) == [kind |-> "nu", name |-> name, args |-> args]
SZk(q, domain) == [kind |-> "zk", q |-> q, args |-> <<domain>>]
SFhc(level) == [kind |-> "fhc", args |-> <<level>>]
SMpc(parties, access) == [kind |-> "mpc", args |-> <<parties, access>>]

Payload(shape) == shape.args
Family(shape) == IF shape.kind \in {"mu", "nu"} THEN Just(shape.name) ELSE None
PointDom(shape) == IF shape.kind \in {"pi", "zk"} THEN Just(shape.args[1]) ELSE None

-----------------------------------------------------------------------------
(* Addresses, legs, motives, branches, terms.  A leg binds as many         *)
(* variables as binders has quantities; a motive binds its indices and     *)
(* then the value itself.                                                  *)
APt(q, arg) == [kind |-> "pt", q |-> q, arg |-> arg]
ALeg(index) == [kind |-> "leg", index |-> index]
ACtor(name) == [kind |-> "ctor", name |-> name]

Leg(binders, body) == [binders |-> binders, body |-> body]
Motive(ind, indices, body) == [ind |-> ind, indices |-> indices, body |-> body]
Branch(addr, leg) == [addr |-> addr, leg |-> leg]

LString(text) == [kind |-> "string", value |-> text]
LInt(n) == [kind |-> "int", value |-> n]

TVar(index) == [kind |-> "var", index |-> index]
TUniv(level) == [kind |-> "univ", level |-> level]
TLan(shape, body) == [kind |-> "lan", shape |-> shape, body |-> body]
TRan(shape, body) == [kind |-> "ran", shape |-> shape, body |-> body]
TIn(shape, addr, args) == [kind |-> "in", shape |-> shape, addr |-> addr, args |-> args]
TElim(shape, scrut, q, motive, branches) ==
  [kind |-> "elim", shape |-> shape, scrut |-> scrut, q |-> q, motive |-> motive, branches |-> branches]
TSec(shape, legs) == [kind |-> "sec", shape |-> shape, legs |-> legs]
TOut(shape, addr, head) == [kind |-> "out", shape |-> shape, addr |-> addr, head |-> head]
TLet(ty, value, body) == [kind |-> "let", ty |-> ty, value |-> value, body |-> body]
TAnn(body, ty) == [kind |-> "ann", body |-> body, ty |-> ty]
TGlobal(name) == [kind |-> "global", name |-> name]
TLit(lit) == [kind |-> "lit", lit |-> lit]
TAuto == [kind |-> "auto"]

AddrChildren(addr) == IF addr.kind = "pt" THEN <<addr.arg>> ELSE <<>>
MotiveChildren(motive) == IF motive = None THEN <<>> ELSE <<motive[1].body>>
LegChildren(legs) == [i \in DOMAIN legs |-> legs[i].body]

RECURSIVE BranchChildren(_)
BranchChildren(branches) ==
  IF branches = <<>> THEN <<>>
  ELSE AddrChildren(Head(branches).addr) \o <<Head(branches).leg.body>> \o BranchChildren(Tail(branches))

Shaped == {"lan", "ran", "in", "elim", "sec", "out"}

Children(term) ==
  CASE term.kind \in {"lan", "ran"} -> Payload(term.shape) \o <<term.body>>
    [] term.kind = "in" -> Payload(term.shape) \o AddrChildren(term.addr) \o term.args
    [] term.kind = "elim" -> Payload(term.shape) \o <<term.scrut>> \o MotiveChildren(term.motive)
                               \o BranchChildren(term.branches)
    [] term.kind = "sec" -> Payload(term.shape) \o LegChildren(term.legs)
    [] term.kind = "out" -> Payload(term.shape) \o AddrChildren(term.addr) \o <<term.head>>
    [] term.kind = "let" -> <<term.ty, term.value, term.body>>
    [] term.kind = "ann" -> <<term.body, term.ty>>
    [] OTHER -> <<>>

\* Whether the node itself is named by names: as a global or, if asked, by its family.
NodeName(term, families, names) ==
  \/ term.kind = "global" /\ term.name \in names
  \/ /\ families /\ term.kind \in Shaped
     /\ \E i \in DOMAIN Family(term.shape) : Family(term.shape)[i] \in names

RECURSIVE ExistsName(_, _, _)
ExistsName(families, names, term) ==
  \/ NodeName(term, families, names)
  \/ \E i \in DOMAIN Children(term) : ExistsName(families, names, Children(term)[i])

-----------------------------------------------------------------------------
(* Values.  A closure is a body and the values of its variables, the       *)
(* innermost first; a neutral value is a variable (as a level, counted     *)
(* from the outside) or a global, with what is applied to it, in the order *)
(* of application (the code keeps the reverse).                            *)
HLocal(level) == [kind |-> "local", level |-> level]
HGlobal(name) == [kind |-> "global", name |-> name]
Close(env, body) == [env |-> env, body |-> body]
VLeg(binders, clo) == [binders |-> binders, clo |-> clo]
StuckElim(shape, q, motive, branches, env) ==
  [shape |-> shape, q |-> q, motive |-> motive, branches |-> branches, env |-> env]
SOut(shape, addr) == [kind |-> "out", shape |-> shape, addr |-> addr]
SElim(data) == [kind |-> "elim", data |-> data]

VUniv(level) == [kind |-> "univ", level |-> level]
VLan(shape, clo, level) == [kind |-> "lan", shape |-> shape, clo |-> clo, level |-> level]
VRan(shape, clo, level) == [kind |-> "ran", shape |-> shape, clo |-> clo, level |-> level]
VIn(shape, addr, args) == [kind |-> "in", shape |-> shape, addr |-> addr, args |-> args]
VSec(shape, legs) == [kind |-> "sec", shape |-> shape, legs |-> legs]
VLit(lit) == [kind |-> "lit", lit |-> lit]
VNeutral(head, spine) == [kind |-> "neutral", head |-> head, spine |-> spine]
LocalVar(level) == VNeutral(HLocal(level), <<>>)
AsUniv(value) == IF value.kind = "univ" THEN Just(value.level) ELSE None

-----------------------------------------------------------------------------
(* The entries of the global environment: definitions, axioms, primitives. *)
Def(ty, body, reducible, recArg) ==
  [kind |-> "def", ty |-> ty, body |-> body, reducible |-> reducible, recArg |-> recArg]
Axiom(ty) == [kind |-> "axiom", ty |-> ty]
Prim(ty, op) == [kind |-> "prim", ty |-> ty, op |-> op]

\* globals.entries and globals.families are functions from names.
FindEntry(name, globals) ==
  IF name \in DOMAIN globals.entries THEN Just(globals.entries[name]) ELSE None
FindDef(name, globals) ==
  IF name \in DOMAIN globals.entries /\ globals.entries[name].kind = "def"
  THEN Just(globals.entries[name]) ELSE None
FindFamily(name, globals) ==
  IF name \in DOMAIN globals.families THEN Just(globals.families[name]) ELSE None
=============================================================================
