------------------------------- MODULE Budget -------------------------------
(***************************************************************************)
(* kernel/budget.c: checking is written as computations (Comp) that pause  *)
(* at every poll, so that a runner can charge a budget or ask a callback.  *)
(* A computation that has to wait is a chain of continuation records, each *)
(* taken from the small-block lists of the heap (kernel/common.c) and      *)
(* given back by the one call that reads it; steps are one-shot too.  A    *)
(* state is between two of those calls.                                    *)
(*                                                                         *)
(* A program is what the caller writes with the combinators; Build says    *)
(* what it becomes (BudgetPrograms).  A value is a sequence: <<>> is the   *)
(* unit, and the box that attempt makes of a result starts with its kind.  *)
(***************************************************************************)
EXTENDS Integers, Sequences, FiniteSets

CONSTANTS Programs,   \* the programs run
          Polls,      \* the budgets: numbers of polls, or Unlimited
          Callback,   \* a budget that stands for a caller's poll function
          Unlimited,
          MaxBlocks,  \* bound of the model: how many small blocks are carved
          Build(_, _) \* the Comps that a program may become when it is given a value

ASSUME BudgetAssumption == MaxBlocks \in Nat

VARIABLES program,   \* the Comp that is run
          control,   \* the call about to be made
          mem,       \* the small blocks
          free,      \* the free list of each size class
          carved,    \* how many blocks have been carved
          budget,    \* what is left of the budget
          answers,   \* whether each poll so far was refused
          oom        \* heap->oom

vars == <<program, control, mem, free, carved, budget, answers, oom>>

Classes == {"context", "box", "step"}
Blocks == 1 .. MaxBlocks
FinishedK == 0  \* finished_k, the last continuation

Done(value) == [kind |-> "done", value |-> value, error |-> "none"]
Fail(error) == [kind |-> "fail", value |-> <<>>, error |-> error]
Boxed(result) == IF result.kind = "done" THEN <<"done">> \o result.value
                 ELSE <<"fail", result.error>>

-----------------------------------------------------------------------------
(* A Comp is ready, an error, or an action to start later.                 *)
Ready(result) == [kind |-> "ready", result |-> result, of |-> <<>>, then |-> <<>>]
Built(comp, lost) == [comp |-> comp, oom |-> lost]

-----------------------------------------------------------------------------
(* The small blocks.                                                       *)
Block(tag, then, to, result) == [tag |-> tag, then |-> then, to |-> to, result |-> result]
Garbage == Block("garbage", <<>>, FinishedK, Done(<<>>))

\* heap_alloc_small takes the first block of its class, or carves one, which may fail.
HasBlock(class) == free[class] # <<>> \/ carved < MaxBlocks
NoBlock(class) == free[class] = <<>>
NextBlock(class) == IF free[class] # <<>> THEN Head(free[class]) ELSE carved + 1

Take(class, contents) ==
  /\ mem' = [mem EXCEPT ![NextBlock(class)] = contents]
  /\ IF free[class] # <<>> THEN free' = [free EXCEPT ![class] = Tail(@)] /\ UNCHANGED carved
                           ELSE carved' = carved + 1 /\ UNCHANGED free

\* heap_release_small: the block becomes the first of its class; its first word is lost.
Release(class, b) ==
  /\ mem' = [mem EXCEPT ![b] = Garbage]
  /\ free' = [free EXCEPT ![class] = <<b>> \o @]

NoHeapChange == UNCHANGED <<mem, free, carved>>

Start(comp, k)   == [do |-> "start", comp |-> comp, result |-> Done(<<>>), to |-> k]
Return(result, k) == [do |-> "return", comp |-> Ready(result), result |-> result, to |-> k]
AtStep(step)     == [do |-> "step", comp |-> Ready(Done(<<>>)), result |-> Done(<<>>), to |-> step]
Stop(result)     == [do |-> "stop", comp |-> Ready(result), result |-> result, to |-> FinishedK]

WithoutMemory(next) == control' = next /\ oom' = TRUE /\ NoHeapChange

Init ==
  /\ program \in Programs
  /\ budget \in Polls
  /\ \E first \in Build(program, <<>>) : control = Start(first.comp, FinishedK) /\ oom = first.oom
  /\ mem = [b \in Blocks |-> Garbage]
  /\ free = [c \in Classes |-> <<>>]
  /\ carved = 0
  /\ answers = <<>>

\* budget_start_comp of a Comp that is ready or an error.
StartReady ==
  /\ control.do = "start" /\ control.comp.kind = "ready"
  /\ control' = Return(control.comp.result, control.to)
  /\ NoHeapChange /\ UNCHANGED <<program, budget, answers, oom>>

ClassOf(tag) == IF tag = "attempt" THEN "box" ELSE "context"

\* bind_action, recover_action, attempt_action: a record of the continuation, then the
\* inner action; without a block the continuation is called with an error.
StartLater ==
  /\ control.do = "start" /\ control.comp.kind \in {"bind", "recover", "attempt"}
  /\ LET class == ClassOf(control.comp.kind) IN
     \/ /\ HasBlock(class)
        /\ Take(class, Block(control.comp.kind, control.comp.then, control.to, Done(<<>>)))
        /\ control' = Start(control.comp.of, NextBlock(class))
        /\ UNCHANGED oom
     \/ NoBlock(class) /\ WithoutMemory(Return(Fail("oom"), control.to))
  /\ UNCHANGED <<program, budget, answers>>

\* tick_action, first half: the record that resumes the tick.
StartTick ==
  /\ control.do = "start" /\ control.comp.kind = "tick"
  /\ \/ /\ HasBlock("context")
        /\ Take("context", Block("tick", <<>>, control.to, Done(<<>>)))
        /\ control' = [do |-> "poll", comp |-> control.comp, result |-> Done(<<>>),
                       to |-> NextBlock("context")]
        /\ UNCHANGED oom
     \/ NoBlock("context") /\ WithoutMemory(Return(Fail("oom"), control.to))
  /\ UNCHANGED <<program, budget, answers>>

\* Mistake: the record a step resumes is given back before the step is read.
MakeStepEarly(contents) ==
  /\ HasBlock("step")
  /\ mem' = [mem EXCEPT ![NextBlock("step")] = contents, ![contents.to] = Garbage]
  /\ free' = [free EXCEPT !["step"] = IF @ = <<>> THEN @ ELSE Tail(@),
                          !["context"] = <<contents.to>> \o @]
  /\ carved' = IF free["step"] = <<>> THEN carved + 1 ELSE carved
  /\ control' = AtStep(NextBlock("step"))
  /\ UNCHANGED oom

\* step_poll and step_finished: a new step, or the static step_oom, which ends the run
\* whatever continuations are pending.
MakeStep(contents) ==
  \/ /\ HasBlock("step")
     /\ Take("step", contents)
     /\ control' = AtStep(NextBlock("step"))
     /\ UNCHANGED oom
  \/ NoBlock("step") /\ WithoutMemory(Stop(Fail("oom")))

\* tick_action, second half: the step of the poll.
MakePoll ==
  /\ control.do = "poll"
  /\ MakeStep(Block("ask", <<>>, control.to, Done(<<>>)))
  /\ UNCHANGED <<program, budget, answers>>

\* finished_done: the last continuation makes the finished step.
MakeFinished ==
  /\ control.do = "return" /\ control.to = FinishedK
  /\ MakeStep(Block("finished", <<>>, FinishedK, control.result))
  /\ UNCHANGED <<program, budget, answers>>

\* bind_done: the record goes back to its list, and a value goes on to the next Comp.
BindDone ==
  /\ control.do = "return" /\ control.to # FinishedK /\ mem[control.to].tag = "bind"
  /\ Release("context", control.to)
  /\ IF control.result.kind = "fail"
       THEN control' = Return(control.result, mem[control.to].to) /\ UNCHANGED oom
       ELSE \E next \in Build(mem[control.to].then, control.result.value) :
              /\ control' = Start(next.comp, mem[control.to].to)
              /\ oom' = (oom \/ next.oom)
  /\ UNCHANGED <<program, carved, budget, answers>>

\* Mistake: an exhausted budget is not recovered.
RecoverProbes ==
  /\ control.do = "return" /\ control.to # FinishedK /\ mem[control.to].tag = "recover"
  /\ Release("context", control.to)
  /\ IF control.result.error # "error"
       THEN control' = Return(control.result, mem[control.to].to) /\ UNCHANGED oom
       ELSE \E h \in Build(mem[control.to].then, <<>>) :
              /\ control' = Start(h.comp, mem[control.to].to)
              /\ oom' = (oom \/ h.oom)
  /\ UNCHANGED <<program, carved, budget, answers>>

\* Mistake: the handler runs under its own recovery.
RecoverAgain ==
  /\ control.do = "return" /\ control.to # FinishedK /\ mem[control.to].tag = "recover"
  /\ IF control.result.kind = "done"
       THEN control' = Return(control.result, mem[control.to].to) /\ Release("context", control.to)
                                                                /\ UNCHANGED oom
       ELSE \E h \in Build(mem[control.to].then, <<>>) :
              /\ control' = Start(h.comp, control.to)
              /\ oom' = (oom \/ h.oom)
              /\ UNCHANGED <<mem, free>>
  /\ UNCHANGED <<program, carved, budget, answers>>

\* recover_done: a failure, an exhausted budget included, goes to the handler.
RecoverDone ==
  /\ control.do = "return" /\ control.to # FinishedK /\ mem[control.to].tag = "recover"
  /\ Release("context", control.to)
  /\ IF control.result.kind = "done"
       THEN control' = Return(control.result, mem[control.to].to) /\ UNCHANGED oom
       ELSE \E h \in Build(mem[control.to].then, <<>>) :
              /\ control' = Start(h.comp, mem[control.to].to)
              /\ oom' = (oom \/ h.oom)
  /\ UNCHANGED <<program, carved, budget, answers>>

\* Mistake: the box of attempt_action is not given back.
AttemptKeeps ==
  /\ control.do = "return" /\ control.to # FinishedK /\ mem[control.to].tag = "attempt"
  /\ control' = Return(Done(Boxed(control.result)), mem[control.to].to)
  /\ UNCHANGED <<program, mem, free, carved, budget, answers, oom>>

\* attempt_done: whatever the result is, it is boxed.
AttemptDone ==
  /\ control.do = "return" /\ control.to # FinishedK /\ mem[control.to].tag = "attempt"
  /\ Release("box", control.to)
  /\ \/ control' = Return(Done(Boxed(control.result)), mem[control.to].to) /\ UNCHANGED oom
     \/ control' = Return(Fail("oom"), mem[control.to].to) /\ oom' = TRUE
  /\ UNCHANGED <<program, carved, budget, answers>>

\* run_step and run_poll_step: what the poll is answered.  The predecessor of a budget is
\* a new natural; without memory for it the budget becomes zero, and without memory for the
\* one to be taken away it stays as it is.
Charges(spent) ==
  \/ budget = Unlimited /\ ~spent /\ UNCHANGED <<budget, oom>>
  \/ budget \in Nat /\ budget = 0 /\ spent /\ UNCHANGED <<budget, oom>>
  \/ budget \in Nat /\ budget > 0 /\ ~spent /\ budget' = budget - 1 /\ UNCHANGED oom
  \/ budget \in Nat /\ budget > 0 /\ ~spent /\ budget' \in {0, budget} /\ oom' = TRUE
  \/ budget = Callback /\ UNCHANGED <<budget, oom>>

\* resume_with and tick_resume: the step and the record of the tick go back to their
\* lists before the continuation is called with the answer.
Resume ==
  /\ control.do = "step" /\ mem[control.to].tag = "ask"
  /\ LET tick == mem[control.to].to IN
     /\ mem' = [mem EXCEPT ![control.to] = Garbage, ![tick] = Garbage]
     /\ free' = [free EXCEPT !["step"] = <<control.to>> \o @, !["context"] = <<tick>> \o @]
     /\ \E spent \in BOOLEAN :
          /\ Charges(spent)
          /\ answers' = Append(answers, spent)
          /\ control' = Return(IF spent THEN Fail("exhausted") ELSE Done(<<>>), mem[tick].to)
  /\ UNCHANGED <<program, carved>>

\* A callback has no memory for its answer: the run ends where it is.
CallbackFails ==
  /\ control.do = "step" /\ mem[control.to].tag = "ask"
  /\ budget = Callback
  /\ WithoutMemory(Stop(Fail("oom")))
  /\ UNCHANGED <<program, budget, answers>>

\* step_result: the result is read and the step given back.
Finish ==
  /\ control.do = "step" /\ mem[control.to].tag = "finished"
  /\ Release("step", control.to)
  /\ control' = Stop(mem[control.to].result)
  /\ UNCHANGED <<program, carved, budget, answers, oom>>

Next ==
  \/ StartReady \/ StartLater \/ StartTick \/ MakePoll \/ MakeFinished
  \/ BindDone \/ RecoverDone \/ AttemptDone \/ Resume \/ CallbackFails \/ Finish

Spec == Init /\ [][Next]_vars /\ WF_vars(Next)

-----------------------------------------------------------------------------
Carved == 1 .. carved
Listed == UNION {{free[c][i] : i \in DOMAIN free[c]} : c \in Classes}
InUse == Carved \ Listed

\* No record or step that will be read has been given back: the call about to be made and
\* every record in use go on to a record in use or to the last continuation, and no record
\* is what two of them go on to.
NoneReadAfterRelease ==
  /\ control.to \in InUse \cup {FinishedK}
  /\ \A b \in InUse :
       /\ mem[b].tag # "garbage" /\ mem[b].to \in InUse \cup {FinishedK}
       /\ mem[b].to # FinishedK => mem[b].to # control.to
  /\ \A b, c \in InUse : mem[b].to = mem[c].to /\ mem[b].to # FinishedK => b = c

\* A block is on the free lists once at most, and at the end of a run on one of them:
\* every record is given back exactly once.
EachReleasedOnce ==
  /\ \A c, d \in Classes : \A i \in DOMAIN free[c], j \in DOMAIN free[d] :
       free[c][i] = free[d][j] => c = d /\ i = j
  /\ control.do = "stop" /\ ~oom =>
       carved = Len(free["context"]) + Len(free["box"]) + Len(free["step"])

\* A run ends.
Ends == <>(control.do = "stop")
=============================================================================
