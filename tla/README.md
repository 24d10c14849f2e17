# A TLA+ verification project for Serberus (LLSCT passes)

Serberus is a set of LLVM passes that protect code from Spectre attacks at
compile time.  Analyses find the loads that may return a secret under
speculation and the instructions that may transmit one; the mitigation pass
turns them into *STs*, sequences of instruction sets that speculative execution
must not visit in order, and places fences on a cheap set of control-flow edges
that cuts all of them.  A cut that is not a cut is a silent loss of protection,
and a cut that is larger than needed is a loss of speed, so the cut engine and
the analyses it relies on are the core of the system and of this project.

Paths are relative to the repository (`src/src/...` is its `src/` directory).

## 1. Inventory

| Component | State | Operations | Talks to |
|---|---|---|---|
| Local cut, `FordFulkerson.cc` | layered graph, residual graph, per-search parents | `find_st_path_multi`, augmentation, `find_reachable_multi`, projection | called by the global cut, once per ST and round |
| Global cut, `MinCutGreedy.h` `run` | working graph, one cut per ST, mode, history of cuts | rounds, Replace/Augment, loop detection, timeout | local cut; result read by the mitigation pass |
| ST optimisation, `MinCutGreedy.h` `optimize_sts` | vector of STs | join, cull unreachables, cull sources, remove empty, internal and duplicate sets | before the global cut |
| Cut self-check, `MitigatePass.cc` `checkCutST` | particles, parents, stack | search per set, verdict, path report, abort | after the global cut, with `CHECKCUT` set |
| Speculative taint, `SpeculativeTaintAnalysis.cc` | taint sets of this and the last pass | fixpoint over the instructions | alias and constant-address analyses; read by the mitigation pass |
| Leak analysis, `LeakAnalysis.cc` | set of leaked values | fixpoint over a set that grows while it is iterated | transmitters, alias analysis; read by the mitigation pass and the inliner |
| Nonspeculative taint, `NonspeculativeTaintAnalysis.cc` | public values, accesses already propagated | four-part fixpoint, `secret` | the same |
| Constant addresses, `ConstantAddressAnalysis.cc`, `Attributes.cc` | arguments taken to be constant addresses | module-wide fixpoint, tagging of stores | read by everything that asks about addresses |
| Stack initialisation, `StackInitAnalysis.cc`, `Frontier.cc` | frontier of a load | forward and reverse frontier, recording of stores | leak analysis, alias analysis |
| Mitigation pass, `MitigatePass.cc`, `Mitigation.cc`, `MemIntrinsicPass.cc` | STs, weighted graph, inserted fences | seven kinds of STs, graph with back edges, edge splitting, fence insertion | all of the above |
| Inlining, `InlinePass.cc` | bodies, inline counts, calls given up | choice of a call, inlining, removal of old fences | analyses as of before the first inlining |
| Duplication, `DuplicatePass.cc` | use lists | cloning, redirection of calls | run first |
| Function-local stacks and frame promotion | one stack pointer per function | code at entry, at calls and at returns | `doesNotRecurse`; the code generator |
| Contract checker, `check/ContractChecker.cc` | public values and memory | two-way fixpoint, verdict | alias and dependence analysis |
| Control-flow helpers, `CFG.cc` | queue and marks | reachable from, between | none at present |
| Benchmark harness, `bench/serial-main.cc`, `mem-main.cc` | three processes, shared flag, pipe | fork, attach, release, wait, kill, read | the benchmark's child process and perf |
| Lowering, tracing, logging, options | none of their own | single-instruction rewritings, output | everything |

The compiler is sequential: no threads, no messages, nothing persisted.  What is
hard there is of another kind.  Only the benchmark harness has several processes.

* **Order.**  Searches and passes run in the order of addresses or of blocks, and
  a result must not depend on it (self-check, taint, optimisation of sources).
* **Sets that change while they are iterated** (leaks, use lists, arguments that
  lose their assumption), where the order decides what is seen.
* **Staleness.**  The inliner goes on with analyses of code that it has replaced.
  A cut is computed in a graph from which other cuts have been
  removed, and those change later; a taint is compared with that of an earlier
  moment.
* **Termination.**  Cuts chase each other, optimisations undo each other,
  fixpoints are detected by comparing with a copy, flow is augmented with
  unsigned weights that can wrap around.
* **Assertions.**  `-UNDEBUG` (`src/src/CMakeLists.txt:3`) keeps every `assert` in
  the release build: one that fails aborts the compilation.
* **The timeout** turns Replace mode into Augment mode at an arbitrary round.
* **What is compiled also runs**: frames and stack pointers must survive recursion,
  callbacks and unwinding, which no unit test of a pass executes.

`PROJECT.json` lists every component, modelled or not, and the hazards at their
lines with the properties that would notice them.

## 2. Modules

| Module | Models | Source |
|---|---|---|
| `Waypoints` | graph, STs, what it means that a graph has no walk through an ST | `MinCutBase.h`, searches of `MinCutGreedy.h` |
| `CheckCut` | the self-check | `MitigatePass.cc:199-304`, `MinCutGreedy.h:487-541` |
| `FordFulkerson` | the local cut, and what it promises of its result | `FordFulkerson.cc` |
| `SourceSideCut` | reference: the minimum cut closest to the sources | none (a definition) |
| `MinCut` | abstract: what a min-cut algorithm promises | `MinCutBase.h` |
| `MinCutGreedy` | the global cut | `MinCutGreedy.h:311-482` |
| `OptimizeSTs` | the optimisation of STs | `MinCutGreedy.h:59-307` |
| `SpeculativeTaint` | the speculative taint analysis | `SpeculativeTaintAnalysis.cc:32-206` |
| `ControlFlow` | what control reaches along a set of edges | `MitigatePass.cc:821-832`, `util.cc:290-300` |
| `Instructions` | what is asked about instructions: control flow, calls, incoming loads, sensitive operands | `util.h:57-83`, `util.cc:83-168, 278-300`, `Transmitter.h` |
| `GenerateSTs` | what becomes an ST, with MemIntrinsicPass before it | `MitigatePass.cc:362-499, 592-1062` |
| `FencePlacement` | graph for the cut, fences for its edges | `MitigatePass.cc:1064-1124, 1277-1358`, `Mitigation.cc` |
| `LeakAnalysis` | values that may leak | `LeakAnalysis.cc:30-218` |
| `NonspeculativeTaint` | values that are public without speculation | `NonspeculativeTaintAnalysis.cc:32-272` |
| `ConstantAddress` | arguments and stores with constant addresses | `ConstantAddressAnalysis.cc`, `Attributes.cc` |
| `Frontier` | stack initialisation of one load | `Frontier.cc`, `StackInitAnalysis.cc:35-100` |
| `ContractChecker` | the contract checker | `ContractChecker.cc:32-302` |
| `Inlining` | the inlining pass over a module | `InlinePass.cc:86-209` |
| `Duplicate` | cloning and redirection of calls | `DuplicatePass.cc` |
| `FunctionStacks` | the stack code that the pass adds, and programs that run it | `FunctionLocalStacks.cc:36-130`, `FramePromotion.cc`, `util.cc:170-216` |
| `BenchHarness` | harness, benchmark and perf | `bench/serial-main.cc`, `bench/mem-main.cc`, `bench/shared-pseudo.h` |
| `Analyses` | the five fixpoint analyses side by side | |
| `Passes` | the passes and their searches side by side; the mitigation pass as a whole | `MitigatePass.cc:592-1358` for the latter |
| `CheckCutProofs` | theorems about `CheckCut` | |
| `FordFulkersonProofs` | theorems about `FordFulkerson`: the searches and the cut, then the residual weights, then that the cut is a minimum | |
| `MinCutGreedyProofs` | theorems about `MinCutGreedy`, and that it implements `MinCut` | |
| `AnalysesProofs` | theorems about the five analyses | |
| `PassesProofs` | theorems about `Frontier`, `Inlining`, `FunctionStacks` | |
| `OptimizeProofs` | theorems about `OptimizeSTs` | |
| `MitigationProofs` | theorems about `GenerateSTs`, `FencePlacement` and the mitigation pass as a whole, and the lemmas about `ControlFlow` | |
| `BenchHarnessProofs` | theorems about `BenchHarness` | |
| `MC...` | the inputs for TLC | |

`MinCutGreedy` is composed with `FordFulkerson` by contract: its constant
`LocalCuts` is any operator that satisfies `LocalCut`, which is
`FordFulkerson!Contract`.  The runs instantiate it with the cuts that
`ford_fulkerson_multi` returns (`SourceSide`, equal to them for two sets by theorem
`SourceSideResultHolds`).

`Analyses` and `Passes` INSTANCE components that never run at once in the
compiler (each is called, runs to its end and returns).  A variable `pass` says
which component a behaviour is about; `Init` chooses it together with an input,
`Next` is the next-state relation of that component, and the variables that it
does not use are idle.  The variables of the components are mapped to shared ones
by the `WITH` of each instance.  A property `P` of a component `C` becomes
`pass = "c" => C!P`; nothing of the components is replaced.  What the passes are
run on are constants, of which only well-formedness is assumed; `MCAnalyses` and
`MCPasses` give them values, and the proofs are about all others too.

One `pass` of `Passes` is itself a composition: `"mitigate"` is `runOnFunction` from the
first ST to the last fence.  `Generate` runs to its end; `RunMinCut` takes any cut of the
STs that `MinCut` allows, in the graph of `Fences`; `Fences` puts in the fences for its edges.
An input is one function in the two views of these modules, which `SameFunction`
relates; `CopiesInlined` keeps the second up to date when MemIntrinsicPass has inlined
copies.  `x7` is the function as it becomes, `in` as it was when the cut was made.
`NoLeakIsLeft` then speaks of the leaks that `Generate` defines and of the function that
comes out.  A leak may begin at the function's entry: if that is a branch and nothing
else, a fence may be put before it, so that the function begins with the fence (`Begin`).

### How state and actions correspond to the code

**Separated.**  That no walk of a graph realises an ST is stated by a
certificate: sets `B[i]` closed under the edges that contain whatever a walk that
has visited sets 1..i can reach, and of which the last does not meet the last
set.  A walk makes at least one step between two sets, because the searches of
this code mark successors of their sources and never the sources.  Run
`check_cut` compares the certificate with enumerated walks.

**CheckCut.**  `S`, `particles`, `parents`, `todo`, `reach` are the code's
variables; a parent map is total with `None` for absent.  `StartStage`, `Pop`,
`EndStage` are the loop over the sets, `Accept`/`Reject` the test after it,
`StepBack`/`Abort` the rebuilding and printing of the path.  `todo` is popped in
any order, since the order in the code follows instruction addresses.
`AcceptedHasNoWalk` speaks of walks of up to `MaxWalk` nodes; the theorem is for
every `MaxWalk`.

**FordFulkerson.**  The graph classes (`DupGraph`, `ScopedGraph`) become a
function from pairs of nodes to weights, 0 for no edge; a node of copy l is a
pair.  The pop order of the searches is kept exactly (`IsTop`), because with
three waypoint sets the result depends on it.  Weights are unsigned with `Width`
bits and wrap around.  An edge of the input graph is assumed to have a weight
greater than 0, which `compute_edge_weight` gives with the options' defaults.

**MinCutGreedy.**  One `CutST` per iteration of the loop over the STs (put back
the old cut, cut, take out the new one, compare); `Record`, `Loop`, `Abort`,
`Finish` are the cases of the end of a round.  The clock is a free choice when
`Timeout > 0`.  With the option set the pass also installs a `SIGALRM` handler
that exits the compiler (`MitigatePass.cc:129-146`); that exit is not modelled.

**OptimizeSTs.**  One action per optimisation and position.  Vectors of STs are
sets: an ST given twice costs the code one more round and nothing else.

**SpeculativeTaint.**  One action per kind of instruction visited.  The class of an
instruction and the alias relation are inputs (`Programs`), as the analyses that
compute them are other components.

**Instructions, GenerateSTs.**  `STKinds` is the order of the loops in `runOnFunction`; one action
adds the STs of one instruction for one kind, under the options that enable it.
`getSourcesForNCAAccess` with its assertion is an operator and a condition
(`SourcesFail`).  What the analyses say is part of the input.  The property
compares with a threat model that the module states (`Leaks`): a load from a wrong
address and an instruction that gives its value away, or a store of a secret to a
wrong address and what may then read it.  With `-clou-expand-sts` an access is wrong
by where speculation began: at the entry, after a call, or at a branch that
decides whether the access is reached.  The entry does not count if a phi makes the
address a constant on some way to the access (`ConstantOnSomeWay`): the code then
takes the load on the other way as the source, not the entry.  Without that exception
`CutsStopLeaks` fails for `Merge` in `MCPasses`.

Of taints it is assumed that they go up the operands of all that computes, which
`SpeculativeTaintAnalysis.cc:181-190` sees to; of how secrets spread nothing is.  A
value that is computed from a secret may be public for the analysis: an element of a
vector that is given away has to be, and `NonspeculativeTaintAnalysis.cc:228-230` does
not look from there at the vector.  If such a value is stored, the pass sees that its
labels do not agree (`Mismatched`), warns ("mismatch in nt-secret labels",
`MitigatePass.cc:385-388`) and makes no ST for the store. What that store may leak
stays, so the threat model excepts `Warned`, these stores and no others; with
`-llsct-ncas-all` there are none, as all stores are in `ncas` then. `Lanes` in
`MCPasses` is such a function, and without the exception both `CutsStopLeaks` and
`NoLeakIsLeft` fail for it.

All transmitters of `Transmitter.h` have a kind: the addresses of loads, stores and atomic
accesses, the operands of divisions, branches, calls, returns and `resume`, and the
arguments that some intrinsics give away.  Atomic accesses have an address but are
neither loads nor stores for the pass: they are no NCALs and are not in `ncas`, in the
model as in the code.  `Arg` stands for all arguments, so accesses through different
arguments are given pointers of their own where the difference matters.

**FencePlacement.**  A function is its instructions with *sequences* of successors,
so that a switch may name a block twice.  `G` adds the edges from exits and calls
to entries and returns.  One action per case of `getMitigationPoint`; the edges of
the cut are taken in any order.  `llvm::SplitEdge` is external.

**LeakAnalysis, NonspeculativeTaint, ConstantAddress, ContractChecker.**  One action
per value visited, one per end of a pass, and an abort for instructions that the
code does not handle.  Numbers of values are the order of the visits: addresses
for the leak analysis, whose iterator meets what is inserted behind it; program
order for the others.  The constant-address analysis gives up on pointers it does not
know (casts between address spaces), but only if it gets to ask about them: it stops at
the first operand that decides, in an order that the model leaves open (`MayMeetUnhandled`,
`MayAnswer`).  Each result is compared with the least (for constant
addresses: greatest) set closed under the rules, defined without visits or order.

**Frontier.**  The two frontiers share their code, as in `frontier_impl`; `nexts`
is the direction.  `Record`, `Fallback` and `RecordFallback` are the cases of
`StackInitAnalysis`, and `AbortFallback` its assertion (`StackInitAnalysis.cc:80`): the
reverse search must have found a write.  As it starts at the entry, which has no
predecessors, it finds one only if the entry itself is a write; for all other functions
that need the fallback the compiler aborts, which `FallbackFindsEntry` states.

**Inlining.**  Instructions carry what is true of them (`secret`) and whether the
analyses know them (`stale`), so that the choice of the code and the truth can
be told apart.  `Inline` copies the callee's present body, which may have grown.

**FunctionStacks.**  The pass decides per function (`shouldRestoreOldSP`,
`shouldSaveNewSP`, `Promoted`); the actions are the program that runs afterwards:
`Enter` with the prologue (`Start`), `Return`, `Unwind`.  Programs are single-threaded, as the pass
assumes; frames have size 1.  `doesNotRecurse` is written as the condition for the
search in `util.cc` to succeed: there is a set of functions, the ones it sees, that
is closed under the calls and in which no function is called twice.

**Duplicate.**  Use lists are sequences; a use that is set to the clone moves to the
head of the clone's list, and the loop goes on from there, as LLVM's lists do.

**BenchHarness.**  One action per system call of the harness and per step of the
child; stops, breakpoints and statuses follow ptrace.  Every system call may fail.
Assertions may be compiled out (`NDEBUG`).  What becomes of the processes after
the harness has failed is not modelled.

## 3. Runs

| Run | Instance | Shows |
|---|---|---|
| `check_cut` | all cuts of a complete graph of 3 nodes with a self-loop, all pairs of sets, 27 triples | accepts exactly the cuts; the parent lookup is safe; the printed path is real |
| `ford_fulkerson` | all graphs of 3 nodes: weights 0..2 with 9 STs of two sets, weights 0..1 with 48 of three | result is a cut, with two sets *the* minimum cut closest to the sources; assertions hold; residual weights balance with two sets; ends |
| `greedy` | a cycle of 4 nodes with chords and three STs, and one more input | rounds end, in an irredundant cut of all STs; implements `MinCut` |
| `analyses` | one family of functions per analysis, see below | each result is exactly what its rules say; each ends |
| `passes` | one family of inputs per pass, see below | each pass does what it is for; each ends |
| `bench_harness` | both harnesses, with and without assertions, 2 repetitions | measures the call, and only it; ends |
| `ff_mincut` (violation) | one graph of 4 nodes | with three sets the result need not be minimal |
| `greedy_assert` (violation) | one graph of 4 nodes | an assertion fails in Augment mode |
| `spec_taint_sound` (violation) | `y = x; x = p[i]` in a loop | a taint is missing |
| `generate_sts_entry` (violation) | a store as the first instruction | an assertion fails |
| `fence_switch` (violation) | a switch with two cases to one block | the second case has no fence |
| `duplicate` (violation) | all lists of 3 uses | calls are left with the original |

The families of `analyses` and what they show:

| Analysis | Instance | Shows |
|---|---|---|
| speculative taint | functions of 6 instructions, all aliasings | no false taint (`NoFalseTaint`); nothing missing unless a value goes back to a store (`SoundUnlessLate`) |
| leaks | 5 values at all addresses, all operands; all answers of the alias analysis | the least closed set (`LeaksExact`) |
| nonspeculative taint | functions of 6 instructions with shared memory, calls, unexpected instructions | secret exactly if no chain makes it public (`PublicExact`) |
| constant addresses | 3 functions that call each other and themselves, pointers that are not handled | a store is tagged exactly if it is never dynamic (`TagsExact`) |
| contract checker | 6 values, rules in both directions | accepts exactly what the rules make public (`VerdictExact`) |

The families of `passes`:

| Pass | Instance | Shows |
|---|---|---|
| `optimize_sts` | 32 graphs of 3 nodes, 21 sets of STs | no walk lost (`Covers`), no cut asked for that was not needed (`NothingAdded`) |
| generation of STs | 10 functions of up to 7 instructions, all choices of secrets that agree with the analysis, 7 sets of options | whatever cuts all STs cuts all leaks, but for stores warned of (`CutsStopLeaks`) |
| fences | 5 functions, every cut of up to 3 edges, every order | no path without a fence where the cut has none (`FencesRealiseCut`) |
| mitigation as a whole | 6 functions of up to 6 instructions with secrets, a copy and a store that is warned of, 2 sets of options, every cut of up to 3 edges, every order | no leak without a fence in the function that comes out, with the same exception (`NoLeakIsLeft`) |
| inlining | 3 functions, all callees, limit 3 | ends within the limit (`InlineBounded`); no secret store before a call that could be inlined (`SecretStoresHandled`) |
| function-local stacks | call graphs of 3 functions with up to 2 calls, depth 4 | frames are disjoint (`FramesDisjoint`); only unwinding loses space (`SPTracksFrames`) |
| stack initialisation | all graphs of 4 instructions, all stores | every way to the load passes a recorded store; the fallback aborts exactly if the function does not begin with a write (`InitialisedOnAllPaths`) |

**Bounds.**  Three nodes are enough for cycles through sources, for sets that overlap,
for nodes that are source and sink, and for an augmenting path that must take back flow;
four are needed for three cuts that chase each other and for the two violations.  Two
weights distinguish a path flow that saturates an edge from one that does not.  STs have
two or three sets in `add_sts`; longer ones do not occur.  Six instructions hold two
stores with a definition between them and a load on either side.  `Width = 16` keeps
wrapped weights apart from real ones; with the code's 32 bits TLC's integers would
overflow.  Cuts of three edges have two fences at one place and one elsewhere; functions
of six instructions have an access with a branch before it, one around it, a store that
a later load reads, and one whose labels do not agree, and cuts of three edges separate
all of their STs.  Five values are two more than a chain through memory, so that it can
be met in each order.  Three functions have direct and mutual recursion and a caller
outside; a stack depth of 4 has one of them three times.  An inline limit of 3 is met by
growing callees and by recursion. Two repetitions of a measurement show what the first
leaves for the second.

**Fairness.**  Every component but the benchmark harness is a sequential function, so
weak fairness of the whole next-state relation (it keeps running) is all that is
assumed.  In the harness the program itself, the child and perf are processes of the
operating system, each of which gets its turn: weak fairness of each; failures and
crashes need not happen.

**Deadlock** is checked everywhere; the end states stutter explicitly.  The stack code
has no end: programs call and return for ever, up to the depth.

### Findings

1. *`FordFulkerson.cc:910`*: paths of `find_st_path_multi` are concatenated from
   one search per set, so an edge may occur twice; its residual weight then wraps
   around.  With two sets this cannot happen (`ResidualBalance`), with three it
   makes the cut larger than the "optimal min cut" of `MinCutGreedy.h:330`.  The
   result is still a cut: theorem `ContractHolds` makes no assumption on the
   residual weights.
2. *`MinCutGreedy.h:448`*: `assert(mode == Mode::Replace)` fails when cuts repeat
   after the switch to Augment mode.
3. *`SpeculativeTaintAnalysis.cc:88`*: "This is sound, right?"  A store only
   passes on a taint that differs from that at the start of the pass.  A taint
   that its value gets later in the pass is not passed on in the next pass either.
   `SoundUnlessLate` states when nothing is missing.
4. *`MitigatePass.cc:1353`*: `SplitEdge` splits one of the edges between two blocks.
   When a switch has two cases with the same destination the other keeps its path
   without a fence.  The self-check looks at the pairs, before the fences.
5. *`MitigatePass.cc:853`*: the STs of stores ask for sources without the check for
   the entry that those of loads have (`:899`); the assertion at `:408` fails.
6. *`DuplicatePass.cc:66`*: "Replace all direct calls": only the first, and only of
   those without arguments.

Noted, without a violation run: the reverse frontier (`Frontier.cc:38`) starts at the
function's entry, as the forward one does, but goes to predecessors, so the assertion of
`StackInitAnalysis.cc:80` fails in all fallbacks but those of functions that begin with
a write (`FallbackFindsEntry`, checked and proved as a part of `InitialisedOnAllPaths`);
the sets that `MitigatePass.cc:599` calls "secret, speculatively out-of-bounds stores
(speculative or nonspeculative)" leave out those that are warned of at `:386`
(`Warned`); `CFG.cc:41` marks the successors of the start early and then does not search
them (`getInstructionsBetween` has no caller); `InlinePass.cc:190` compares the count
with the limit before the callee's count is added, so the count may get past the limit;
a fork, attach or wait that fails leaves the benchmark's child spinning
(`bench/mem-main.cc:51`); `tools/memusage.c:64` returns success if the command fails and
failure if it succeeds; `std::unique` without a resize (`MinCutGreedy.h:465`) makes the
check for redundant edges pass always (what it means to check is proved, `GraphExact`);
an internal set that shares nodes with the set after it is removed although it is not
redundant (`NothingAdded` excludes overlaps), which only costs larger cuts.

## 4. Proofs

TLAPS checks the theorems for all graphs, STs, weights, functions, options and
choices of local cuts.  Every theorem is of the form `Spec => []P`: an inductive
invariant, one lemma for each action that keeps it, and a last one that it
implies `P`.

**CheckCutProofs.**  The inductive invariant says of every completed search that
what it found is closed under the edges and contains the successors of its
particles (`StageInv`), of the current one that this holds up to `todo`
(`SearchInv`), and that every node found has a parent that is a particle or was
found (`ParentInv`).  The nodes found are the certificate: `Acceptance`.
For `Rejection` the converse is needed, that only reachable nodes are found: any
certificate contains them, stage by stage.  `ReportSafe` and `ReportIsReal` follow
as the report only meets nodes found by its search, and each is a successor of its
parent.  `NoWalkIsLeft` follows a walk through the certificate by induction over its
places, and so ties the definition of `Separated` to walks.

**FordFulkersonProofs.**  The same for the searches in the layered residual graph,
and in addition: a residual edge is an edge or the reverse of an edge of the
layered graph (`ResidualInv`); after a search without a path, what was found in
all stages together is closed, so the sources do not reach the last waypoints
(`ReachInv`); and if the graph has no walk to start with, a certificate for it
bounds every search, so nothing is augmented or cut (`NoWalkInv`).  `LeavingIsCut`
turns the edges that leave the reachable part of the copies into a certificate
for the original graph: `ContractHolds`.  No fact about the amounts of the weights
is needed, which is why wrapping around does not invalidate it.

The second half is about the amounts.  `FlowInv` (parents are followed along edges
of positive residual weight) makes every augmentation positive, for any number of
sets.  With two sets the parents of the one search form a forest rooted in the
sources (`ForestInv`: no set of nodes found has all its parents inside it), so the
path that is rebuilt meets no node twice (`SimpleInv`); then an edge and its
reverse keep their sum while the path is augmented (`BalanceInv`), nothing wraps
around, and neither `ResidualBalance` nor the assertion fails.  With three sets
`SimpleInv` is what breaks, as finding 1 shows.

The third part is max-flow min-cut for two sets.  `CutInv`: for every set of nodes that
contains the sources and none of the transmitters, what may still flow out of it in the
residual graph and what has flowed so far add up to what its edges weigh in the
graph.  An augmentation lowers all of these by the same flow (`CutStep`): its path has
no node twice, so it leaves the set once more often than it comes back.  The last search
finds a set that nothing flows out of, hence the least of these weights, and every
set as cheap has the found one in it (`LeastReachStep`).  Sets of the layered graph
become cuts of the given one in `LayeredValue` and `CopyCost`, so that the result is the
reference, `SourceSideResultHolds`, no cut weighs less, `TwoSetsMinCut`, and no edge of
it can be put back, `TwoSetsIrredundant`.  Sums over sets of edges are the folds of the
specification; `WeightUnfolds` to `SumNatural` derive what is needed of them.

**MinCutGreedyProofs.**  The invariant is `GraphExact` (the graph is the original
without the cuts, which are disjoint) with `UnchangedIsCut` (in a round without
change so far, every visited ST is separated in the graph as it is) and what the
result is.  `Correct` follows as the last round is one without change, and
`Implementation` maps `pc` to the status of `MinCut` and every step to `Cut`,
`Abort` or a stutter.  The assumption `LocalCutsAssumption` is what `ContractHolds`
proves of the local cut.  `NoRedundantEdge` adds that in such a round every cut
visited is one that the local cut would still choose.

**AnalysesProofs.**  All five have the same argument, for every function and, where
it matters, every order of addresses.  *Nothing without a reason*: what has been
found lies in the least set closed under the rules (or, for constant addresses,
what has been taken back lies outside the greatest), as each visit adds what a rule
adds.  *Nothing is missing at the end*: as long as the current pass has changed
nothing, the rules hold for all that it has visited, and the last pass changes
nothing.  The invariants differ in what "visited" means: places of a set that
grows while it is iterated (`LeakInv`), accesses that were propagated once and are
never looked at again (`PublicInv`), rules that work in both directions
(`CheckerInv`), arguments that were judged while others were still trusted
(`AddressInv`).  The speculative taint analysis keeps the taint at the start of the
pass, and a store compares with it (finding 3); `TaintInv` therefore says only of
functions without a late store that nothing is missing:
`ComparisonIsSoundUnlessLate` is the exact extent to which line 88 is right.

**PassesProofs.**  `FrontierInv`: until it meets a store of the frontier the walk
stays in the part of the function from which the load is reached without one.  For the
fallback it says that the walk sees the entry and nothing else; that the entry is among what
lies before the load (`EntryBefore`) makes it count if it is a write.
`InlineInv`: the bodies that have been run on, and not met the limit, have no call
left that the search would choose; what really is secret looks secret
(`LooksSecret` errs on the safe side), so the search from the true stores finds no
more.  `StackInv`: each activation is entered from a caller of it (`CallsInv`),
frames of one function lie below one another and a stack pointer at or below the
newest (`FramesInv`), exactly at it before the first unwinding (`ExactInv`).  The
lemma `DoesNotRecurse` shows `util::doesNotRecurse` sound: a function that it
accepts is not called, directly or indirectly, by itself.  Its heart is that
in the set of functions that the search sees, each is called from one place only,
so that a smallest cycle would have to contain the function itself.

**OptimizeProofs.**  `CoverInv` and `InVainInv` are the two properties themselves,
which are inductive once the current STs are known to be STs; the work is in one
lemma per optimisation, which turns a certificate for the STs before into one for
the STs after, or back.  `Regions` is a certificate in a form in which it can be
shifted (`InternalRemoved`), shrunk (`UnreachableCulled`, `SourceCulled`) and united
(`JoinedSeparated`).  The loops over sources and columns are recursive functions,
unfolded by `Recursion`; only `InternalRedundant` needs that an internal set does
not meet a later one.

**MitigationProofs.**  First what the searches compute: `Reach` and `get_incoming_loads`
are recursive functions that stop after a fixed number of rounds, and the lemmas show
that these are enough (`ReachClosed`, by counting what is found) and find no more
(`ReachLeast`).  Then each kind of leak has its lemma.  `SourceOnTheWay`: on a walk to
an access from where speculation went wrong there is a source of
`getSourcesForNCAAccess`, at or after that place.  `OverwritesAreStores`: a store of
what is computed from a secret is in `ncas` unless its labels do not agree: taints go up
the operands (`TaintsUp`), and nothing is needed of secrets.  `NcalStopped`,
`NcasStopped` and `CtrlStopped` turn a leak that is left into a walk of the ST that was
made for it.  The invariant `GenerateInv` says that each loop has made the STs of what
it has visited, and that MemIntrinsicPass leaves a well-formed function.

The second part is about the fences.  `FenceInv` says of the function as it is: it is
the given one with some slots led over fences (`Grown`), none of its ways without a
fence is new, no instruction has got a second predecessor, and the edges that still
wait for their fence and need a slot have it (otherwise SplitCriticalEdge would have
nothing to split).  An edge that has its fence stays `Handled`, whatever is put in
later: control does not step along it any more; or it steps to phis that it does not
get out of, as the fence comes after them; or it would step from a branch that it does
not get to, as the fence comes before it.  `HandledBefore`, `HandledCritical` and
`HandledSource` are the three cases of getMitigationPoint; `DistinctSlots` is needed in
the second only (finding 4 shows what happens without).  Neither phis nor such branches
are named by STs, so a way without a fence is one without an edge of the cut, up to its
end.  `NonPhiStep` shows that CreateMitigation finds an end of the phis in every function.

The third part puts the pipeline together: `MitigationSuffices`, the statement for which
everything else is there.  `MitigateInv` carries three facts from stage to stage.  While
STs are made, `GenerateInv` holds and the two views of the function agree (`Views`).
When the cut is made, `MadeStops` gives for its certificates that no leak is realised along
the control flow without its edges (`SeparatedStops` follows a walk through the
certificate; the graph of the cut has more edges than the function, which only asks for
more).  While fences are put in, that stays as it is, the views agree (`Matches`), and
`FenceInv` holds.  At the end, `LeaksFenced` takes a leak apart: it leads from the entry, an
access, a call or a branch that decides, over accesses, to something that is not a phi
(`LeakForms`), and these are places that the fence lemma `FenceWays` speaks of
(`LeaksAtPlaces`).  A way between them in the new function without a fence is
therefore one in the old function without an edge of the cut, and there is none.
What is needed of the cut is only the contract of `MinCut`, and that is where the
other theorems come in: `ContractHolds` proves it of a local cut, `Correct` and
`Implementation` of the global one, `OptimizationForgetsNothing` makes a cut of the
optimised STs one of those that were generated, and `Acceptance` shows that the self-check
would have noticed otherwise.

**BenchHarnessProofs.**  The invariant relates the place of the harness to what the
child and perf may be doing meanwhile: the child does not get to the call
before it is traced (`ChildInv`), perf counts only what it was started on
(`PerfInv`), and where the counts were taken is where the child stood (`SeenInv`).

**Assumed of the constants**: inputs are well formed, graphs are finite, `None` is no node, weights
have at least one bit, local cuts satisfy the contract, what perf prints fits into
the pipe.  Three theorems have a hypothesis of their own:

* `WeightsFit` (`ResidualExact`, `NoAssertionFails`, `SourceSideResultHolds` and
  the other theorems about minimum cuts): an edge and its reverse together
  weigh less than the greatest unsigned number.  Weights are 1 or 1000 times a
  factor for the depth of loops, in 32 bits (`MitigatePass.cc:326-345`).
* `n = 2` (the same): two waypoint sets.  With three the weights do wrap around.
* `MinimalLocalCuts` (`NoRedundantEdge`): no edge of a local cut can be left out.
  `TwoSetsIrredundant` proves it of STs of two sets; with three it may fail (finding 1).

TLC evaluates the assumptions, and these hypotheses, on the instances of the runs.

**Only model-checked**: termination and `Ends` (liveness is outside the prover), and
the upper half of `FlowAssert` with three sets.  Every safety property that holds in
a run is also a theorem.

## 5. Not modelled

Not modelled on purpose:

* SMT-based and second-generation cut algorithms, NCA store and log passes, the
  wrappers in `FunctionLocalStacks.cc:135-560`, the path counting at the end of
  `MinCutGreedy.h`, and whatever is disabled by `#if 0`, the search in `CFG.cc`: not built or not called;
* `StackInitPass`, `NoSpillPublic`, `NoSpillLowering`, `TracePass`: one rewriting per
  instruction, without state;
* the amounts of edge weights (`compute_edge_weight`): the cut engine is checked and
  proved for all weights;
* statistics, log files, graphs in DOT, debug locations, profiling, and the
  `SIGALRM` exit;
* threads in compiled programs, which neither the stacks nor the promotion of
  frames support;
* benchmarks that run in one process, scripts, plots, Pin tools.

Possible extensions: the chain from `OptimizeSTs` over `MinCutGreedy` to `RunMinCut` is by
contract (each link a theorem, the contract the same formula) and not one
specification; a way to remove `DistinctSlots` from `NoLeakIsLeft` would need a change of
the code (finding 4).
