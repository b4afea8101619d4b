--------------------------- MODULE BudgetPrograms ---------------------------
(***************************************************************************)
(* The programs that the combinators of kernel/budget.c write, what they   *)
(* become (Combine, for the constant Build of Budget) and what they mean.  *)
(*                                                                         *)
(* A program is a tuple: <<"pure">>, <<"fail">>, <<"tick">>, <<"lift">>    *)
(* (budget_lift of the boxed result it is given), <<"bind", a, b>>,        *)
(* <<"recover", a, h>> or <<"attempt", a>>.                                *)
(***************************************************************************)
EXTENDS Budget

Lift(value) == IF value = <<>> THEN Done(value)
               ELSE IF value[1] = "done" THEN Done(Tail(value)) ELSE Fail(value[2])

-----------------------------------------------------------------------------
(* Building computations: bind, recover and attempt act at once on what is *)
(* ready.                                                                  *)
Later(action, of, then) == [kind |-> action, result |-> Done(<<>>), of |-> of, then |-> then]
Allocated(comp) == {Built(comp, FALSE), Built(Ready(Fail("oom")), TRUE)}
After(first, comps) == {Built(b.comp, b.oom \/ first.oom) : b \in comps}

\* The Comps that a program may become when it is given a value; an allocation of its
\* context may fail, which leaves the error "oom" in its place.
RECURSIVE Combine(_, _)
Combine(p, value) ==
  LET Of(Then(_)) == UNION {After(first, Then(first.comp)) : first \in Combine(p[2], value)}
      Bind(comp) == IF comp.kind # "ready" THEN Allocated(Later("bind", comp, p[3]))
                    ELSE IF comp.result.kind = "fail" THEN {Built(comp, FALSE)}
                    ELSE Combine(p[3], comp.result.value)
      Recover(comp) == IF comp.kind # "ready" THEN Allocated(Later("recover", comp, p[3]))
                       ELSE IF comp.result.kind = "done" THEN {Built(comp, FALSE)}
                       ELSE Combine(p[3], <<>>)
      Attempt(comp) == IF comp.kind # "ready" THEN Allocated(Later("attempt", comp, <<>>))
                       ELSE Allocated(Ready(Done(Boxed(comp.result))))
  IN  CASE p[1] = "pure" -> {Built(Ready(Done(<<>>)), FALSE)}
        [] p[1] = "fail" -> {Built(Ready(Fail("error")), FALSE)}
        [] p[1] = "lift" -> {Built(Ready(Lift(value)), FALSE)}
        [] p[1] = "tick" -> Allocated(Later("tick", <<>>, <<>>))
        [] p[1] = "bind" -> Of(Bind)
        [] p[1] = "recover" -> Of(Recover)
        [] p[1] = "attempt" -> Of(Attempt)

-----------------------------------------------------------------------------
(* What a program means, given the answers to its polls: no continuations, *)
(* no records, no eager construction.                                      *)
Meaning(result, rest) == [result |-> result, rest |-> rest]

RECURSIVE Means(_, _, _)
Means(p, value, asked) ==
  CASE p[1] = "pure" -> Meaning(Done(<<>>), asked)
    [] p[1] = "fail" -> Meaning(Fail("error"), asked)
    [] p[1] = "lift" -> Meaning(Lift(value), asked)
    [] p[1] = "tick" -> IF asked = <<>> THEN Meaning(Fail("starved"), asked)
                        ELSE Meaning(IF Head(asked) THEN Fail("exhausted") ELSE Done(<<>>), Tail(asked))
    [] p[1] = "bind" ->
         LET first == Means(p[2], value, asked)
         IN  IF first.result.kind = "fail" THEN first
             ELSE Means(p[3], first.result.value, first.rest)
    [] p[1] = "recover" ->
         LET first == Means(p[2], value, asked)
         IN  IF first.result.kind = "done" THEN first ELSE Means(p[3], <<>>, first.rest)
    [] p[1] = "attempt" ->
         LET first == Means(p[2], value, asked)
         IN  Meaning(Done(Boxed(first.result)), first.rest)

\* Unless the heap is marked as out of memory, the result and the number of polls are those
\* of the program's meaning: acting at once on what is ready changes neither which polls
\* are asked nor who sees a refusal.
RunsAsMeant ==
  control.do = "stop" /\ ~oom =>
    Means(program, <<>>, answers) = Meaning(control.result, <<>>)

-----------------------------------------------------------------------------
(* For TLC: programs of three operations over polls, values and failures.  *)
MCLeaves == {<<"pure">>, <<"fail">>, <<"tick">>}
MCOver(S) == {<<"bind", a, b>> : a \in S, b \in S \cup {<<"lift">>}}
             \cup {<<"recover", a, h>> : a \in S, h \in S}
             \cup {<<"attempt", a>> : a \in S}
MCSmall == MCLeaves \cup MCOver(MCLeaves)
MCSome == {<<"tick">>, <<"bind", <<"tick">>, <<"tick">>>>, <<"recover", <<"tick">>, <<"tick">>>>,
           <<"attempt", <<"tick">>>>, <<"fail">>}
MCPrograms ==
  MCSmall \cup {<<"bind", a, b>> : a \in MCSmall, b \in MCSome \cup {<<"lift">>}}
          \cup {<<"recover", a, h>> : a \in MCSmall, h \in MCSome}
          \cup {<<"attempt", a>> : a \in MCSmall}
=============================================================================
