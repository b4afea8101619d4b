# Verification of mechanism-lang

TLA+ models of mechanism-lang, the TLC runs that check them on small instances, and theorems that
the TLA+ proof system checks for all instances. The models are translated from the C sources under
`src/c` and the Python package `src/src/mechanism_cuopt`; `PROJECT.json` maps every definition to
the lines it stands for, lists the hazards of the code with the properties that cover them, and
names for each property a mutation of the model (a plausible bug) that breaks it.

Contents: [The system](#the-system), [The plan](#the-plan), [The models](#the-models),
[Runs and bounds](#runs-and-bounds), [Fairness](#fairness), [Proofs](#proofs),
[Only model-checked](#only-model-checked), [Not modelled](#not-modelled),
[Findings](#findings), [How to run](#how-to-run).

## The system

mechanism-lang is a dependently typed language with linear binders. Its C program reads a source
file, elaborates it declaration by declaration, has a small kernel check each declaration, and
then reports, compiles to WebAssembly, or translates from and to Rust and Lean exports. The Python
package settles auctions of GPU time: it has a solver propose allocations, solves every case again
itself, computes Vickrey-Clarke-Groves payments, and has the C kernel check a certificate of the
arithmetic before anything is published.

A table row gives a component, the state it keeps, its operations, what it calls or shares, and
what is hard about it. The last column is the module that models it.

| Component | State | Operations | Interaction and hard behaviour | Module |
|---|---|---|---|---|
| Publication of a report directory (`cli/io.c`, `cli/host_fs.c`, `rt/effects.c`) | stage directory, loop index, sticky `heap->oom` | check, stage, write files, check again, rename without replacement, clean up | other processes race for the name; any effect fails; a crash between two effects; cleanup that fails itself | `Publish` |
| Publication of auction artifacts (`artifacts.py`) | temporary directory, target | the same with `TemporaryDirectory` and `Path.rename` | POSIX rename replaces empty directories | `CuoptPublish` |
| Allocation model and exact search (`optimization.py`) | capacity rows, shared residuals, best mask, node count | compile, visit, take, restore, skip | state shared by all frames of a recursion; a pruning rule with a tie rule; limits | `Auction`, `BranchBound` |
| Settlement and certificate (`settlement.py`, `certificate.py`) | admitted cases, exact cases, payments | admit, solve, compare, pay, certify | an untrusted solver; truncated subtraction in the kernel; every case must agree, not only the main one | `Settlement`, `Verification` |
| Poll budget and continuations (`kernel/budget.c`, `kernel/common.c`) | chain of continuation records, free lists, budget, `heap->oom` | bind, recover, attempt, tick and their continuations, the run loop | one-shot records that are reused at once; every allocation may fail; callbacks | `Budget` |
| Linear usage (`kernel/quantity.c`) | usage: rows of the completing paths and of all reads | occurrence, sequence, alternative, scale, captures, remove | intervals over many paths; branches that do not complete | `Quantity` |
| Universe levels (`level_var.c`, `level_eq.c`) | cases still to decide, ticks left | collect, split, compare, substitute | exponentially many cases under a budget; impredicative maximum | `LevelVar`, `LevelEq` |
| Global environment (`kernel/global.c`, part of `compact.c`) | immutable row lists and hash index | add, replace, remove, copy | versions share cells; rows and index must agree; allocations fail half way | `Globals`, `GlobalsProof` |
| Typing context (`kernel/context.c`) | skew-binary list of locals | enter, view, look up by index and name | weights of the trees after any sequence of operations | `Context`, `Eval` |
| Terms and evaluation (`term.c`, `value.c`, `eval.c`, ...) | none | evaluate, unfold, read back | when a recursive definition may unfold; indices against levels | `Terms`, `Eval` |
| Type checker (`check_engine.c`, `rules.c`, `conv.c`) | context, uses | infer, check, convert | the order of the conversion rules; uses through closures and matches | `Eval`, `CheckEngine` |
| Declarations and positivity (`check.c`, `positivity.c`) | environment | declare families and constructors, check lists of declarations | provisional families of a group | `Declare` |
| Termination certificate (`order.c`, `totality.c`) | tasks of a walk | certify a group | binders shift indices; what the walk does not look at | `Order` |
| Elaboration (`surface/elab_term.c`, `poly.c`, `elab.c`) | names of locals, catalog of schemes, rows | elaborate a term, a group, a scheme, an instance | names that hide each other; levels substituted after the check | `ElabTerm`, `ElabGroups`, `Program` |
| Compact elaboration (`surface/elab.c`, `surface/compact.c`) | live, keep, base and step arenas; the values in C variables | one run per part of a declaration, copies, swaps | a value read after its arena is freed; some thirty failing paths with their own sets of arenas; order of runs | `CompactElab` |
| Erasure (`erase.c`, `erase_repr.c`, `erase_util.c`), circuits (`circuit.c`) | lifted functions, next number | erase, lift, prune captures; depth | closures whose captures are erased; functions given fewer or more arguments | `EraseRepr`, `Erase`, `Circuit` |
| WebAssembly back end (`wasm/link.c`, `emit.c`) | layout of types and functions | link, emit | tail calls and casts between layouts; partial applications | `Link`, `Emit` |
| Templates of families (`family_poly.c`) | catalog of templates | open, compose, instantiate | reservations of names | order of parts only |
| Sharing memo (`compact.c`), big numbers, runtime containers, host effects | memo, limbs, vectors and maps | copy, arithmetic, insert | addresses that are reused; carries | not modelled |
| Export reader and importer (`import/`) | tables of names, levels, expressions | read a line, translate | references before their definition | not modelled |
| Rust front and back end (`rust/`), lexer and parser, command line (`cli/`), prelude, auction files and formats, build and tests | mostly none | translations, printing, argument handling | | not modelled |

### How they interact

`check_in_compact` (`elab.c`) drives the whole: for each declaration it runs `Comp`s of `budget.c`,
which call the checker; the checker reads and extends the global environment, asks `level_eq.c`
under the same budget, and closes each binder with the usage that `quantity.c` computed. Between
runs it copies what survives (`compact.c`, with `compact_globals` for the environment) and frees
the arena of the run. Reports go to disk through `io_publish`. The Python side calls the kernel
only for the certificate, as a process, and shares nothing with it but files.

The program is single-threaded. Concurrency is between processes and the file system, in the
suspended computations of `budget.c`, and in the lifetimes of memory that several C variables
reach. Failure is pervasive: every allocation may fail, which sets a flag that is never cleared.

### What makes each component correct

- Publication: the name goes from free to one complete report in one step; nothing is replaced;
  the result says what is left on disk, or `heap->oom` that texts are missing; the operation ends.
- Search: the rows mean what the inventory means tick by tick; the residuals are restored on every
  way out; no cut loses the optimum; the result is the documented one, ties included.
- Settlement: nothing unproved is settled, and only what falls short is refused by the comparison;
  the payments are within bounds; every equality and export of the certificate holds; no tenant
  gains by a false report.
- Budget: a run gives the result of its meaning and asks the same polls; no record is read after
  its release, each is released once; a budget never grows; a run ends.
- Usage: intervals bound, and where possible meet, the uses of all runs; a linear binder that is
  accepted is used exactly once on every run that completes.
- Levels: an answer is true of all valuations and does not depend on the budget.
- Environment: the versions are immutable maps although they share cells.
- Context: an index and a name mean the local that was entered.
- Certificate: what is accepted ends; positivity: nothing accepted applies a function to itself.
- Checker: what is declared linear is used once on every run; types are kept by evaluation; two
  terms convert exactly if they mean the same.
- Elaboration: a term means what its names say; a scheme is accepted exactly if its instances are.
- Erasure and back end: the machine computes what the program means.
- Compact elaboration: no freed arena is read, freed again or forgotten, and the parts run in the
  order of the elaboration that is not cut.

## The plan

The order is that of importance, with what is independent of the rest first.

1. *Done.* Publication with an abstract specification (`AtomicPublish`), implemented by both
   publishers; proofs of safety and of the implementation.
2. *Done.* Search and settlement, and their composition (`Verification`): the searches implement
   the settlement. Proofs of the search, the settlement, the payment rule and the composition.
3. *Done.* The bookkeeping of the kernel: budget, usage, and the environment against the
   abstract `GlobalMap`, the context (all with proofs); levels.
4. *Done.* The arenas and order of the compact elaboration; proofs of memory safety and of the order.
5. *Done.* The kernel as operators: terms, evaluation, checker, declarations, positivity,
   termination, checked against runs of the same programs that know nothing of the kernel.
6. *Done.* The elaboration of source terms and schemes, against a typing and an evaluation by names.
7. *Done.* Erasure, linking and emission, against a machine that runs the emitted functions.
8. Templates of families (`family_poly.c`), with the reservation of names; the tables of the export
   reader and the shared dependency sets of `translate.c`.
9. The memo and structural table of a copy, composed with the arenas of `CompactElab`; the scratch
   arenas of nested comparisons.
10. Numbers with their widths: `bignum.c` and the border of small and large naturals in
    `nat_runtime.c`.

## The models

The modules build on each other as the code does: `Terms` < `Eval`, `Circuit` < `CheckEngine` <
`Declare` < `ElabGroups` < `ElabTerm` < `Program` in front, and `CheckEngine` < `EraseRepr` <
`Erase` < `Link` < `Emit` behind. `map` in `PROJECT.json` has a row for the larger definitions; a
small helper stands under the row of what uses it.

### AtomicPublish, Publish, CuoptPublish

`AtomicPublish` is the promise: the output name is `Absent`, `Foreign`, or the publisher whose
complete report it is, and changes by `Commit`, in one step, or from outside.

`Publish` is `io_publish`. A step is one host effect, which is where other processes and crashes
come between; `fs_write` is two effects, as it opens and truncates before it fills. `pc` is the
pending continuation of the C code (`io_publish_exists`, `io_write_more`, `io_publish_written`,
`io_cleanup_more` and so on), `index` the argument of the two loops, `stage` the content of the
publisher's own directory, `owner` and `content` the output, `outcome` the result, and `oom` the
flag that makes `mechanism_fs` refuse every later effect. A failed `stat` answers "does not exist",
as the code has it (`Absence`): so `CheckTarget` and `StatStaged` may go on although something is
there. The heap may run out over the path of a file (`ExhaustHeap`) or over the text of an error
(`TextLost`): `heap_str_cat` then gives an empty text and sets the flag. So the words "temporary
output" that `io_cleanup_error` adds may be lost (`LeaveStage`), and `StageAccounted` promises no
more than the code does: a failure that does not name a temporary directory left none, unless
`heap->oom` is set. The caller has to look at the flag. `rust_out_wrote` does, `mech_published` prints
the message alone. `Crash` and `Outside` are the environment; in a world that is `calm` from the
start nothing fails, dies or interferes.

`CuoptPublish` is `publish_directory` of `artifacts.py`. It differs in what Python does: leaving
the `with` block removes the temporary directory on every way out (`Leave`), and `Path.rename`
replaces an empty directory (`Replaceable`). Its mapping to `AtomicPublish` counts an empty
directory as a free name, and says so.

### Auction, BranchBound, Settlement, Verification

`Auction` translates `compile_model` (`CompileModel`: segments between events, one row per tenant,
per slice and segment, per host and segment, equal rows once) and defines beside it what the rows
are for (`Feasible`, tick by tick) and the documented outcome (`Optimum`: greatest welfare, then the
smallest mask). `BranchBound` is `solve_exact`: a stack of frames stands for the recursion of
`visit`, and `residual`, `best` and `nodes` are the variables the frames share. `GiveUp` is both
limits; the clock may have run out whenever it is looked at. `Settlement` has the
rest: the result that a search promises (`Optimum`, or the limit) in place of the search, a solver
that may send any choice and any claimed welfare for each case, the payments, and the certificate.
The certificate has every equality that `certificate.py` declares, over what the kernel computes:
offers within the horizon, their slices and hosts (`OffersCertified`); for each case the absent bits,
the welfare and the rows, as sums of products with bits (`AllocationCertified`, `SumExpression`); for
each tenant the decomposition, the pivot and the bounds, with the truncated subtraction of the kernel
(`TenantCertified`, `NatSub`); and the exports that are compared afterwards (`ExportsAgree`). What the
checker may fail at for its own reasons is `CertifyFails`. Both take the auction
from `Auction` (variable `auction`, one of `Instances`; `AuctionOK` is what `parse_auction` lets
through). `Verification` extends both and puts the searches of all cases in that place, one after
the other; `ImplementsSettlement` says that the whole is a `Settlement`.

### Budget, BudgetPrograms

A `Comp` is ready or an action to start later. `Combine` makes one from the `Comp`s of its parts,
eagerly as the C combinators do, with each allocation of a context free to fail; which programs
there are and how they are built of combinators are constants of `Budget` (`Programs`, `Build`) that
`BudgetPrograms` gives. `control` is the C call about to be made; `mem` and
`free` are the continuation records and the free lists of their size classes, so that a record that
is released may be the next one handed out. `Means`, in `BudgetPrograms`, is the meaning of a program without
continuations or records: the result and the polls it asks. The pure runner and the callback runner
are one loop that differs in `Charges` and `CallbackFails`.

### Quantity

A usage has at most one set of rows (`paths`) and the rows of all reads. The operations are those of
`quantity.c`; a missing row is a row of no use, so rows are functions. Beside each usage a term
carries its runs (`Runs`), counts of uses of those that complete and of all beginnings, computed by
the definition of each former. The three properties relate the two.

### LevelVar, LevelEq

`LevelVar` has the formers, scope, substitution with merged offsets, and `Value`, the meaning.
`LevelEq` is the budgeted decision with `pending` for the stack of continuations: one frame per case
that is still to be decided. Normal forms are a constant and a function of arms; the ticks of a
collection or a comparison are counted from the code and spent in one step, as nothing can be
observed between them. `LessEqual` and `Equal` are the decision without a budget.

### GlobalMap, Globals

`Globals` has two growing sequences of cells, rows and index leaves, and versions that point into
them. `RemoveRow` and `LeafWithout` copy the cells before what they take out, and share the rest, as
the C code does; `room` is the number of allocations left, after which the operation gives up where
it is. `Compact` is `compact_globals` with the remapping of leaves to the rows of the copy.
The loops that walk a list are `Walk`: the function from the number of steps to the cell met after
them; a search stops at the first number that says so. `ExtendedBy` is `global_extended_by`, which
walks the rows of one version and looks in the index of the other.
`GlobalMap` is the abstract view: a sequence of immutable maps.

### CompactElab

A value is abstracted to the set of arenas its pointers may lead to. `refs` says where each C
variable that outlives a run leads (`state`, `start`, `compose`, `head`, `mapped`, `globals`); `mem`
is the set of allocated arenas and what a sanitizer would have reported. A run reads some values
and its result may lead to all of what they lead to and to its own arena; a copy leads to its own
arena alone. Each action is one part of a declaration with everything the code does after it on each
of its paths: done, refused (the error is copied first, `CompactFailure`, then every arena of that
path is freed), out of memory, copied or not. `at` is the position in the C code, `decl`, `line`
and `i` its loops, and `trace` the parts run so far. `Parts` are those of the program, and `Before`
is the order in which the elaboration that is not cut would run them: by declaration, place in the
declaration, line, place in the line, and number.

### Context

The list of weighted trees of `context.c` beside the sequence of names that were entered and not
left. The rules in `Eval` take locals to be that sequence, which this module justifies. A loop or a
recursion of the code is the function from the number of its steps to where it is (`Descent` into a
tree, `Rests` of an index along the list, `Pushes` of a traversal, `Looks` for a name); it stays
where it has ended, and is read after `Steps`, one more than a context can be deep.

### Terms, Eval, Circuit, CheckEngine, Declare, Order, ElabGroups

The kernel is functional code, so these modules are operators. A term is a record; a result is
`Done(value)` or a failure with its kind, and `Then` continues only a `Done`, as `bind` and the early
returns do. Each operator is one function of the C code, or one and its continuations, with its
conditions in their order. Binder names and the wording of errors are left out. Levels are closed up
to parameters, whose equality is decided by values: `DecisionExact` is about the code that does it.
`CheckEngine` returns uses as the operations of `Quantity`. `Order` is the walk of the certificate,
and `ElabGroups` what `elab.c` does with groups: headers, then constructors; postulates, then bodies,
then the certificate.

`Build` starts what explores them: a behaviour builds a program by small extensions and gives it to
the elaborator in one step, `Submit`. A property says what must be true of that step, of the program
as it was built (`[][Submit => ...]`); so a counterexample shows the program and its making.

- `MCRecursion`: definitions that call themselves, alone or with a second function. The reference
  counts the calls of a run by value. Accepted ones end, and the evaluator gives what the run gives.
- `MCKernel`: groups of two families, beside the others. The reference writes out the term that would apply a function
  to itself through the field and asks the checker for it.
- `MCUsage`: programs of functions of each quantity, applications, sums, pairs, tuples. The reference
  runs them and counts reads.
- `MCConversion`: pairs of terms. The reference is their meaning in small sets.

### ElabTerm, Program

`ElabTerm` has a case for each source term; an expected type is a sequence of at most one value.
`Program` is `poly.c`, one walk under an action that maps levels and names, and the declarations of
`elab.c` in turn. `MCProgram` builds source terms in which locals called `x` and `zero` hide each
other and the constructor `zero` of two families, and schemes over two universes.

### EraseRepr, Erase, Link, Emit, MCErase

Identifiers of layouts, texts in the code, are tuples of their parts, so that two are the same
exactly if the texts are; the number a type or function gets is left out. `Emit` yields a tree of
instructions for each function. `MCErase` has the machine, which is external: the WebAssembly
instructions that occur, with the checks that a validator and a cast make; and the five functions on
naturals of `nat_runtime.c` (`RunRuntime`: the path of small operands, the slow path, the normal form
of a result, without the limbs). It erases, links and emits
the accepted programs of `MCRecursion` and `MCUsage`, runs them, and compares.

## Runs and bounds

| Run | What is asked | Bounds, and why they are enough |
|---|---|---|
| `publish` | whatever fails, whoever races or dies: the output is complete and never replaced, the result or `heap->oom` accounts for what is left, the promise is implemented, calls return; when calm, somebody wins and nothing is left | 2 processes, 2 files, every effect failing, the heap ending over any path or error text. Two processes suffice for every race on one name; two files separate first, middle and last step of each loop. The proofs remove the bound. |
| `cuopt_publish` | the same promises for the Python publisher | 2 processes, 2 artifacts, every call raising |
| `settlement` | residuals, cuts, the searches implement the settlement, exactness of every case, refusal for cause only, bounds, certificate, truthfulness | 2 tenants, 3 offers with clashing and touching intervals, ties, zero bids; every candidate with a right or wrong welfare; other reports 0, 1, 2 and 4; node limits 5 and 20, so that searches are cut short and finished; a look at the clock every 4 nodes instead of 256. The proofs hold for every auction and every limit. |
| `budget` | meaning, one-shot records, end | every program of two operations and many of three over polls, values and failures; budgets 0, 1, 2, none and a callback; `MaxBlocks` 8 records, a bound that also makes allocations fail. The proofs about records remove all of these. |
| `base` | usage, level decision, environment, context: four explorations in one run, told apart by `subject` | terms of up to six parts over two binders (`MaxBuilt`), proved without bound; pairs of levels over 2 variables with offsets, with a budget that suffices and one that may not, and values up to 4, beyond every offset; 3 versions, 3 names of which two share a bucket, allocations ending after 0, 3 or never; contexts of up to 10 locals (`MaxLocals`), where trees of weight 1, 3 and 7 merge and split |
| `elaboration` | memory safety, no leak, order of runs; names; schemes | every pair of declarations of five kinds and one of three; source terms of 2 extensions (`MaxSourceSteps`) and schemes of 2 (`MaxSchemeSteps`), instances at levels up to 2 (`MaxInstance`), which is past every offset of the levels used. The proofs remove the bound for memory and for the order. |
| `kernel` | termination, evaluation, positivity, uses, types kept, conversion | bodies of 3 extensions with up to 3 open variables (`MaxBodySteps`, `MaxOpen`), run on numbers up to 2 with at most 16 calls (`Fuel`, more than any run that ends here makes); fields of 3 constructions for both families (`MaxFieldSteps`); programs of 2 (`MaxBuildSteps`); sides of 2 and together 3 (`MaxGrown`, `MaxBoth`) |
| `compile` | what is emitted is valid and computes what the source does | the recursions and programs of `kernel` |
| `cuopt_publish_race`, `recursion_annotation`, `conversion_carrier`, `nullary` | violated: see Findings | the smallest instances that show it |

`MaxDepth` (open binders) and `MaxLevel` (values tried for a level parameter) bound the sets that
operators range over, and `Ceiling` stands for the greatest depth of a circuit; all are larger than
any program here needs. `FamilyOrder` is the order of the names of families.

The properties of the kernel are properties of steps for a second reason: evaluated on every state
they would run the kernel on programs that are still growing.

`CHECK_DEADLOCK FALSE` is set where the system stops: a publication or a run that has ended, terms
that have reached their size, a program that has been submitted, versions that have reached their
number. `MCElaboration` says with actions of its own that a behaviour has ended, and is checked for
deadlock.

Each of the passing runs' properties has a mutation that breaks it (`PROJECT.json`, "mutants"; the
mutated definitions stand beside the ones they mutate and are marked "Mistake").

## Fairness

`Publish` has weak fairness of each process's own steps, not of the heap running out, of crashes or
of the environment: `io_publish` is straight-line code, and a process that has not died runs on.
`CuoptPublish` has the same. `Budget` is a sequential program with fairness of its next step. All
other runs check safety only and assume no fairness.

## Proofs

Eight modules, thirty-five listed theorems, all proved for every value of the constants. The assumptions
are those the modules declare: `PublishAssumption` and `CuoptPublishAssumption` (numbers are numbers,
the marks for an absent or foreign output are no publishers, and the Python publisher has an artifact
to write), `AuctionAssumption` (auctions satisfy `AuctionOK`, what `parse_auction` checks),
`SettlementAssumption` (reports are amounts), `VerificationAssumption` (limits are positive, and the
clock is not looked at before every node), `BudgetAssumption` and `ProgramsAssumption` (declarations
have their fields), `GlobalsAssumption` (every name hashes to a bucket, and room is a number),
`ContextAssumption` (the depth is a number).
`Quantity` needs none. TLC evaluates all of them on the runs. Each module has one inductive
invariant; where a run checks an invariant, the theorem names it.

`PublishProof`, for any number of publishers and files. The inductive invariant joins `TypeOK`
(which has, by label, the range of the loop index and whether the stage exists), `WrittenSoFar`
(the files before the index are full, and all of them at the rename) and `StageAccounted` (what
was returned, and the flag of the heap, tell whether the stage exists). The
properties alone are not inductive: that the output is complete (`PublicationComplete`) follows at
the rename only from what the loop has written; what the outcome says of the stage
(`OutcomeAccounts`) follows from the cleanup's labels. `PublishImplementsAtomic` shows that each step
is a step of `AtomicPublish` or a stutter; `Rename` is the commit point.

`CuoptPublishProof`, for the Python publisher. `Progress` says by label what of the temporary
directory exists and is written; `TemporaryGone` follows at `done`, as every way out of the `with`
block goes through `Leave`. `ContentsNeverReplaced` is an action property that rests on the guard of
`Path.rename`, and `CuoptImplementsAtomic` maps an empty directory to a free name.

`VerificationProof`, for every auction, exclusion and node limit. What the operators of `Auction` do comes first, for every auction: sums over finite sets add,
are monotone and split by tenant; sorting by a strict order lists each member once; masks are totally
ordered, so there is exactly one `Optimum`; and the rows that `compile_model` makes of segments and
drops when equal allow exactly the choices that are feasible tick by tick (`RowsMeanFeasible`: the
load of a tick is that of the last event at or before it). Induction over a finite set is done as
the library permits it: the strict subsets of a finite set are well-founded, so a set of
counterexamples has a smallest one.

Then the rule, for any amounts: payments are within bounds, the kernel's truncated
subtraction agrees, and no report beats the true one. Last the settlement: `ExactPivot` gives the
hypothesis of the rule (the optimum without a tenant is between what the others get and the welfare
of all) from exactness of the cases, and the invariant says of each stage how many cases are
admitted, solved and paid for, and that those solved are optima. From it follow
`PaymentsRational` and `SettlementExact`, and `OnlyWorseRefused` as the comparison fails only where
an optimum has more welfare. `CertificateNeverRefused` needs besides that a sum of products with
bits is the sum over the chosen (`SumExpressionIs`), so that what the certificate computes is the
welfare, the value won and the load of the settlement (`CertifiedFigures`); its bounds then follow
from `AuctionOK` and `RowsMeanFeasible`, its identities from the rule (`CertificateHolds`).
`NoLiePays` shows that another
report changes neither what is feasible nor what the others get without the tenant.

On both rests the composition with the searches. The invariant of the search is a
chain of frames: every frame below the innermost has taken its offer, the mask of the next is its
mask with that offer, and a mask holds only offers before the frame's position, so those held are
distinct. So the residuals are capacities less the load
of what is held (`ResidualsRestored`), and are restored on each way out. The heart is
`NoOptimumCut`: as long as the record is not the optimum, the optimum extends the mask of an open
frame by offers still to come. It is kept by a cut because the bound (per tenant the best offer that
fits) is above the welfare of everything below the frame, and a tie is cut only when its mask cannot
be smaller. So a search that ends has the optimum: `SearchesImplementSettlement` maps its last step
to the `Solve` of `Settlement` and all others to stutters, and `VerifiedSettlement` transfers the
settlement's invariants and `RefusedForCause` to the composition.

`BudgetProof`, for any programs, any way to build them, any budgets and any number of blocks. The
records in use can be numbered from the outermost: each goes on to the one before it, and the call
about to be made goes to the last. Those and the free lists are disjoint, and the lists hold a block
once. Neither property is inductive without the numbering: that a record is not read after its
release (`RecordsWhole`) and not released again (`ReleasedOnce`) is because nothing else leads to it.

`QuantityProof`, for any number of binders and terms of any size. The invariant is the soundness of
each term (`UsageBounds`); each former preserves it by monotonicity of the saturating sum and product
on `{0, 1, many}`. `UsageExact` is the converse: each former meets the bounds again, with a run that
completes, where no closure is involved. Linearity (`LinearBinders`) follows from the bounds.

`GlobalsProof`, for any names, entries, hash and room, and any number of versions. The invariant
`IInv` says, as long as memory lasts: the rows of a version are a list (`Chain`) in which names
differ; each bucket is a list in which keys differ, whose leaves belong to the bucket and lead to
rows of their key (`Homed`); and a name has a row with an entry exactly if the index leads from it to
such a row (`HasRow`, `Sees`). `RowsMatchIndex` is not inductive without the lists: it does not say
that a walk ends, nor that a name is once in its bucket, which is why removing its first leaf removes
the name. The cells are parameters of the lemmas, so that they speak of a version before and after a
step: `VersionKept` is that cells added behind those there are change no version, and is all that
sharing needs. `WithoutStep`, `AddStep` and `CompactStep` say what each operation does to what is seen.
In the bucket of a name that is replaced or removed, the leaves before its own are copied and those
after it stay shared, and the list that results is the old one without the name (`CopiedList`,
`DropIsWithout`, `LeafWithoutIs`); the other buckets are as they were (`BucketChanged`). A
compaction numbers the cells that are reachable anew, and its leaves find the first copied row of
their name (`RemapIs`), which is the only one. From the same invariant: lookups see a map that each
operation changes as `GlobalMap` says (`EnvironmentIsMaps`), and a version extends another by
`global_extended_by` exactly if its map does (`ExtensionRead`; no run states it). Walks are recursive functions; that they meet the cells of a list in order is
induction over the numbers, done by a least counterexample (`LeastMember`, `WalkAlong`).

`ContextProof`, for any names and any depth. What a tree lists is not computed, as that would be
recursion over trees; the invariant says that there are `Contents` that agree with one another, in
which the list of a tree is its local and then the lists of its sides, equally long, and in which the
cells list the names that are nested, each with the length of its list as weight (`CellsListed`).
`LocalsInOrder` is not inductive by itself: it does not say that the sides of a tree weigh the same,
on which the halves of a view and the descent by an index rest. Taking the first local away leaves
trees that list the rest (`Uncover`, `View`), and adding one gives contents to one tree more (`Cons`).
That an operation of the code ends where it should is an induction over its steps, each of which
stays in a set of places that are right: `Passed` for a name, `Output` for a traversal, `Asks` for the
descent, which reaches its local because the weight falls (`Iterates` is that such a function of the
steps exists at all).

`CompactElabProof`, for programs with any number of declarations, lines and members. That nothing is
reported and nothing leaked is not inductive by itself. The invariant is a discipline: for each
position in the code, certain arenas are owned (`Owned`: live, and by position keep and base), no
others are allocated, and the values still needed (`Held`) lead to owned arenas only. A schema needs
one clause more (`Apart`): what goes on after it leads to live alone, as its two arenas are freed.
The lemmas `Refused`, `Kept`, `Copied`, `Opened` and `MemberKept` prove the five ways in which a step
may go on, and one lemma per action cites them.

The order (`PartsInOrder`) has an invariant of its own, `InOrder`. Every part has five numbers
(declaration, place, line, place in the line, number), and so has the place where the loops stand
(`Here`); what is done is exactly what is before that place. While the members of an instantiation
are checked, the place counts the members that a copy has dropped, `i + (Decl.members -
Len(members))`, which is what the index that is set back must agree with. `Moves` is the common
argument: a step keeps the invariant if the part it runs is not before the place, and the place
moves behind this part and no other. What is left for each action is arithmetic on five numbers
(`Follows`). That everything has been run when the result is returned is the case of a place behind
the last declaration.

## Only model-checked

- Liveness (`SomeoneSucceeds`, `NothingLeft`, and `Ends` of `Budget`), which is outside the prover.
- Everything about the kernel, the elaboration of terms and the back end, which are recursive
  operators, and with them `RunsAsMeant` of `Budget` (against the recursive `Means`) and
  `DecisionExact` (normal forms of levels).

The type invariants of the modules with proofs are proved and not listed in a run.

## Not modelled

- *Templates of families* (`family_poly.c`): renaming and substitution over catalogs; their order and
  their memory are in `CompactElab`.
- *Importer, Rust front and back end, lexer and parser, printing*: translations between formats. The
  export reader is the part that most deserves a module.
- *Numbers by limbs, the binary encoding*: a number is a number in `Emit` and in the functions of
  `nat_runtime.c` that `MCErase` has. They take the paths for small and for large operands, but the
  loops over limbs are left out, and no program that is run comes near the border.
- *The budget inside the kernel operators*: a tick either refuses or does nothing; `Budget` is about
  what a refusal does to the computation. Scratch arenas of comparisons, and allocations that fail
  inside the kernel, are left out too.
- *Copies.* `CompactElab` takes a copy to be complete; that the copying functions reach everything,
  and their memo, is not modelled. The shared sets of `translate.c` are in the plan.
- *Values and contents.* Files, entries and errors are opaque; wording, formats and paths are left
  out.
- *Memory inside an arena.* An arena is allocated or freed as a whole, as in the code.
- *Durability.* Neither publisher syncs; a crash of the machine, as opposed to the process, is not
  modelled, as the code promises nothing there.

## Findings

`cuopt_publish_race`: `publish_directory` (`artifacts.py:30`) checks a second time that the output
does not exist, with the message "output directory appeared during publication", and then calls
`Path.rename`. The check and the rename are two calls, and the rename replaces an empty directory:
one that appears between them is replaced and not refused. Nothing that has contents is lost
(`ContentsKept` holds). `io_publish`, which uses a rename without replacement, does not have the gap
(`NeverReplaced`, proved).

`recursion_annotation`: the walk of the termination certificate takes the leading functions off a
body without visiting the types of their arguments (`order.c:169`). A definition that calls itself in
such a type is certified, and evaluating it does not end. The documentation says that recursion that
is not structural is refused. With types that do not call, all accepted definitions end (`kernel`).

`conversion_carrier`: compared functions are opened with placeholders for the types of their
arguments (`check_engine.c:4785`). A type variable is then taken for a proposition and its values for
proofs, so that two functions that return different ones of their arguments convert. With
arguments of a concrete type, conversion separates what differs (`kernel`).

`nullary`: a global whose arguments are all erased is called where it is handed over
(`emit.c:279`), while the caller of the parameter expects a closure; the cast traps. A lambda in its
place works (`compile`).

## How to run

    tlc -config Publish.cfg Publish.tla
    tlc -config Elaboration.cfg MCElaboration.tla
    tlapm CompactElabProof.tla

`PROJECT.json` ("runs") has the module and configuration of every run; each ends within minutes.
