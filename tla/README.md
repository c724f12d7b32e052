# Dippin in TLA+

Dippin is a language for workflow graphs (`.dip` files) and its tool chain, a Go
program with one command, `dippin`. This directory models three parts of it:

- what runs a workflow: the simulator and what is said about a run before or
  after it (validator, path enumerator, coverage, lint's reachability, tests);
- what moves files: the bundle format `.dipx` (open, pack, extract, the `pack`
  command) and the `watch` command, with failures, crashes and concurrency;
- what reads and writes text: lexer, parser and formatter of `.dip` files,
  the inlining of subgraphs, the export to DOT, its reader, the migration back
  and the parity check, each as the round trip a user makes with it.

TLC checks the modules on small instances; TLAPS proves part of the results for
all instances.

    tlc -workers 2 -config Simulate.cfg MCSimulator     # a run: <name>.cfg, module in PROJECT.json
    tlapm SimulatorProofs.tla                           # a proof module

Contents: 1 the system, 2 the modules, 3 the runs, 4 fairness and deadlock,
5 the proofs, 6 where code and documents differ, 7 what is not modelled,
8 the plan.

## 1. The system

| Component | State it keeps | Operations | Works with | What is hard |
|---|---|---|---|---|
| `ir` workflow graph | nodes and edges in declaration order | lookups, `EdgesFrom` with implied fan-out and join edges | read by all | order decides, implied edges are easily forgotten |
| `simulate` one run | context, visit counts, path, step count, event log | visit, choose an edge, fork, walk branches, rejoin, prompt | conditions, `ir` | two loops over one budget; loops, labels, scenario values over many steps |
| `simulate` path enumerator | the recursive call's copies of path, context, visits; the results | explore, record, return | same graph, other rules than the run | limits cut silently; copies must not leak |
| `validator` | diagnostics; BFS queue; DFS colours, parents, reported heads | DIP001 to DIP009 | runs before simulate, test, pack | three-colour search with one report per head; explicit against implied edges |
| `cmd` simulate, test | none | load, validate, run or enumerate | all of the above | what validation promises the run |
| `cmd` watch | pending file, debounce timer, watcher's queue | event, expiry, lint | editors, fsnotify | event, timer and save race |
| `cmd` pack | a temporary file next to the output | validate, create, write, close, rename, remove | `dipx.Pack`, other commands, editors | concurrent commands, kills, failing calls |
| `dipx` open | verified contents, byte budget, search stack | nine stages, each an early return | zip, manifest, parser | order of stages; shared budget; cycle search |
| `dipx` pack | walk queue, visited set, packed files | walk, manifest, write | sources on disk | sources change meanwhile; disk and bundle resolve refs differently |
| `dipx` extract | destination, staging and backup directories | check, open, stage, swap, clean up | other callers | errors and crashes between any two calls |
| `parser` | the lexer's stack of columns and its tokens; the blocks entered, the node or edge under construction, diagnostics | lex a line, one turn of each loop | text in, `ir` out | made-up levels, blocks that end early, loops that must consume |
| `formatter`, `cmd` fmt | none | write a workflow as text | parser | quoting decided per field, read back by other rules |
| `flatten` | refs under way, depth | inline, prefix, rewire | workflows of other files | recursion, renaming, ends |
| `export` | none | write DOT | `flatten` | one namespace for attributes of several origins |
| `migrate` | the DOT reader's place, defaults and statement; the workflow so far | read DOT, convert, infer lists, format | formatter, parser | order of statements and of a map; two grammars of conditions |
| `migrate` parity | none | compare two workflows | parser | different graphs must not pass for one |
| conditions | none | tokenize, parse, evaluate | simulator, lint | precedence, quotes, names |
| `coverage`, `validator` lint | none | searches of the graph, rules about conditions | the runs they speak of | explicit, implied and restart edges |
| `testrunner` | none | judge a run, check off edges | simulator | repeated nodes |
| `dipx` source | cache under a mutex | load | other programs | |
| `lsp` | open documents under an RW lock | open, change, close, query | the editor's client | the connection runs one handler at a time |
| `unused`, `diff`, `cost`, `doctor`, `optimize`, `feedback`, `scaffold`, `graph` | none | pure functions of a workflow | | |

What makes each modelled component correct:

- *Run*: it ends; it respects its budget; its status, path and events tell the
  truth; branches are walked before the join; scenario values win over node
  defaults; a loop is broken when its limit says so and not before.
- *Validator*: it returns; DIP004 reports exactly the unreachable nodes; DIP005
  touches every cycle and reports nothing that is not one.
- *Enumerator*: it returns; it lists exactly the paths within its limits, once.
- *Commands*: a validated workflow fails only for reasons validation does not
  cover; a run is one of the paths announced; it stops only at what coverage
  calls a sink, and is forced along an edge only where lint warned; a test case
  passes on the runs it describes.
- *Parser and formatter*: what can be written is read back as it was, a second
  `fmt` changes nothing; an accepted file loses nothing out of its middle; the
  parser gets through any file.
- *DOT and back*: what DOT can carry comes back; inlining opens and closes no
  way; what `migrate` writes `validate-migration` passes, and what that passes is
  the same graph with conditions of the same meaning.
- *Open*: what it accepts is verified, closed and acyclic; a refusal has its
  cause, in the order of the stages.
- *Pack*: the bundle is the closure of what was read, with digests of the bytes
  it holds; `Open` accepts it unless for what `Pack` does not look at.
- *Extract, pack command*: whoever looks at the output sees all of a bundle or
  none of it, whatever failed before.
- *Watch*: what was saved is linted.

`PROJECT.json` lists the places where these can go wrong (`hazards`) and the
properties that watch them.

## 2. The modules

`PROJECT.json` maps every definition to its lines; here is how to read them.

**Workflow** (`ir/`): a workflow is a record of node and edge sequences.
`EdgesFrom` is the list every consumer walks: explicit edges, then the implied
ones of a fan-out and of the joins that name the node, dropped if an
unconditional edge already leads there. Labels are the set of answers their text
contains, conditions are values of their own.

**ConditionParser** (`simulate/condition.go`): tokens, then the descent through
`or`, `and`, `not` and comparisons, over words and marks; an expression or an
error. `Migrate` has its own, the other grammar (`TryCondParsers`).

**ConditionEval** (`simulate/defaults.go`): evaluation of a parsed condition. A
variable is looked up as a context key without its `ctx.`, then under its full
name, which only a scenario sets; `graph.goal` falls back to the workflow's goal,
the constant `Goal`. Recursive over the expression, so only TLC's runs use it; `Simulator` takes the
result as the constant operator `Holds`, and its proofs hold for any.

**Simulator** (`simulate/simulate.go`, `parallel.go`, `defaults.go`,
`interactive.go`, `events.go`): `simulate.Run`. One action is one turn of the
main loop (`Advance`, `ReachExit`, `Fork`) or of the branch loop (`NextBranch`,
`BranchStep`, `BranchArrives`, `Rejoin`), or one of their early returns
(`UnknownNode`, `PromptError`, `StepLimit`, `Fail`). `NoBranch` stands for a branch
that is not being walked: a quoted `""` is a name. `Visit` is the whole of
`visitNode` and `ChosenEdge` the whole of `resolveNext`: unconditional single
edge, label, loop break, first true condition, fallbacks. `NotSet` stands for a
key the context does not have, which is not the same as one that is set to the
empty text. Context-update events
are left out: no code reads them back.

**Validator** (`validator/validate.go`): the checks in the order of `Validate`;
those over single nodes and edges are one action (`CheckLocally`), breadth-first
reachability one action per node taken from the queue, the cycle search one
action per call, per neighbour and per return.

**PathEnumerator** (`simulate/path_enumerator.go`): the call stack of `explore`
as `trail`, `taken` and `tried`; one action per turn of `exploreEdges`.

**SimulateCommand** (`cmd/dippin/cmd_simulate.go`): instances of the last two
around a `Simulator` over the same workflow: validate; when clean, enumerate;
then run. In the program the last two are two commands (`--all-paths` or not);
putting them in one behaviour lets the properties compare them. `dippin test`
validates and runs alike (`cmd_test_runner.go`, `testrunner/runner.go:35`).

**Coverage** (`coverage/coverage.go`), **LintReachability**
(`validator/lint_reachability.go`) and **TestRunner** (`testrunner/`): operators
over the workflow, or over a run's result, which `SimulateCommand` sets against
its runs. Coverage's two adjacency maps are sets of pairs, built apart as in the
code. `Exhaustive` is lint's judgement of the conditions of a node: a known set
of values, a partition of one variable, or a condition and its negation; to lint
a variable is its name as written, so `outcome` and `ctx.outcome` are two.

**DipxBundle**: contents, manifests, zip entries, and what is wrong with a
manifest (`ShapeError`). A content is a record of its refs, its size and whether
it and its conditions parse; its digest is the content itself, so equal digests
mean equal contents. Path rules (`Canonicalize`, `resolveLexically`) are the
constants `Unsafe` and `Resolve`.

**DipxOpen** (`dipx/dipx.go:71-215`, `helpers.go`, `resolve.go`, `zipio.go`):
one action per stage, the hash loop per file, the cycle search per ref. The
model says which error a call returns, so that the order of stages shows.

**DipxPack** (`dipx/dipx.go:225-259`, `helpers.go:243-533`): the walk, one file
per action, with an editor (`Edit`) between any two. **DipxRoundTrip** gives its
output to `DipxOpen`.

**DipxExtract** (`dipx/dipx.go:261-377`): three directories as functions from
file names to the bundle their bytes come from, one action per file system call,
`os.RemoveAll` file by file. `IOError` makes any call fail, `TornWrite` leaves
half a file, `Crash` stops the process between two calls; a caller may call
again after each.

**PackToFile** (`cmd/dippin/cmd_pack.go`): several commands with one output;
unique temporary names, writes chunk by chunk, failures of every call, that of
the removal which cleans up after a failure included, and kills. `stuck` remembers
of a file that could not be removed with which exit code its command ended: the code
drops that error, so a temporary file may stay, but never behind exit code 0
(`NoLitter`).
**AtomicFile** is the promise: a call settles what it means to write, puts that
very bundle in place, whole and in one step, or leaves the file alone, and exits
with 0 only if it did the first. What a command settles on is the bundle of the
sources it read.

**Watch** (`cmd/dippin/cmd_watch.go`): the `select` loop, the debounce timer, the
remembered file; the environment saves in place or by renaming.

**SourceText**: text as a sequence of words and marks, a mark being any character
that some conversion treats specially; trimming, splitting, quoting, comments,
numbers and durations as the code does them, on these pieces. A line is a column
and a text, so indentation is kept.

**DippinLexer** (`parser/lexer.go`): one action per source line. `lines` is the
source, `stack` the columns of the open levels, `toks` the tokens; a `key:` line
takes the block below it along as one raw token.

**DippinParser** (`parser/parser.go`, `parse_*.go`): `ctx` is the stack of the
loops the code is in (file, workflow body, node, params, edges, ...), and one
action is one turn of the innermost; `node` and `part` are what is under
construction. Values are taken from the line, as `readFieldValue` does. An
attribute that is zero is not set, as in Go. `diags` keeps kinds, no places.

**DippinFormatter** (`formatter/format.go`): `Format(w)`, the lines of a workflow,
field by field in the formatter's order, each written as its kind of field is.
**FormatLimits** says what can be written and read back (`Carried`) and what of
it comes back (`Kept`). No text of the code says this; it was found with TLC.

`ReadStep`, a step of the lexer or of the parser, is what the round trips and
`ReadSpec`, the reading of any text, have in common.

**FormatRoundTrip** (`cmd/dippin/cmd_fmt.go`): `fmt --write`, twice.

**Flatten** (`flatten/`): `FlattenWorkflow(w)` with the depth bound, the list of
refs under way, prefixed IDs and rewired edges, start and exit.

**DotExport** (`export/dot.go`): `ExportDOT(w, opts)`, in pieces of text.
**DotParser** (`migrate/dot_parser.go`): one action per turn of a loop of the
reader; defaults apply from where they stand, nodes are made by edges too.
**Migrate** (`migrate/migrate.go`): node kinds, configs, conditions, lists
inferred from edges, graph attributes (`ApplyGraphAttr`). **Parity**
(`migrate/parity.go`): the differences between two workflows.

**MigrateRoundTrip** (`cmd_export.go`, `cmd_migrate.go`): flatten and export, or
a DOT file; read it, migrate, format, parse the result, migrate the DOT once
more, compare. The attributes of the graph are taken one by one in any order
(`TakeGraphAttr`), as a Go map is walked, and the second time in another.

`MC…` modules hold TLC's instances, `…Proofs` modules the TLAPS proofs.
Operators marked *Mutant* in a module are plausible bugs of the definition that
follows; each property of a passing run fails when one of them takes that
definition's place (`mutants` in `PROJECT.json`).

## 3. The runs

| Run | Question | States |
|---|---|---|
| `Simulate` | Does a run obey its budget, its labels, scenarios and limits, and tell the truth about itself? | 76 300 |
| `Command` | What do validator, enumerator, coverage and lint promise a run, and does it keep it? Are both searches exact? What does a passing test mean? | 118 100 |
| `ValidatedJoin` | (fails) Is the join of a validated fan-out the one that waits for its branches? | |
| `OpenChecks` | What does an accepted bundle guarantee, and is every refusal earned? | 161 600 |
| `PackAndOpen` | Is a bundle the closure of its sources although they change, and will it open? | 55 000 |
| `ExtractAlone` | Is the destination whole after any errors, crashes and retries of one caller? | 27 000 |
| `ExtractLost` | (fails) Does a pre-existing tree survive a crash and a failed retry? | |
| `PackFile` | Is the output of concurrent pack commands replaced atomically? | 416 600 |
| `WatchOne` | Is the last save of a file linted? | 5 500 |
| `WatchTwo` | (fails) And if there are two files? | |
| `Format` | Does the formatted file hold what the file held? Can the parser lose a line, or stand still? | 151 000 |
| `Migrate` | Does a workflow survive DOT, in any order of attributes, and does the parity check tell? | 9 400 |

### Bounds

- *Simulate.* Loops: two inner nodes and Exit, each inner node with every list
  of at most two of four edges, for three kinds of nodes and five option sets.
  A loop, its break, the node after it and a label spent too early need no more
  nodes. Forks: two or three targets, three joins (exact, smaller, unmatched),
  five sets of branch edges (none, longer branch, self-loop, through Exit,
  circle), with scenario values, visit limits and selected branches. Variables:
  every list of at most two out of four conditions on the goal and on the outcome
  in both spellings, with scenarios that set `ctx.outcome`, `graph.goal` or the
  empty text.
  `MaxSteps = 9` (500 in the code) is longer than the longest way through the
  largest instance and short enough for circles to hit it, in either loop.
- *Command.* Every graph of three inner nodes with at most two outgoing edges
  each out of three (four, with a restart edge): nested, overlapping and
  unreachable cycles all occur. Forks whose joins match, almost match, repeat a
  source or name a missing node; broken starts, exits and edges; the loops of
  `Simulate` closed by restart edges; straight workflows, forks with
  conditions, and nodes with every list of two out of six conditions among
  which are a value twice, both values lint knows, a condition with its
  negation and negations of different things. `MaxDepth = 6`, `MaxResults = 8` (200 and 100 in the code): both
  are reached by some graphs and not by others. The options are those
  `dippin simulate` and `dippin test` can give, the latter's visit limit being 1
  and not 3.
- *OpenChecks.* All reference graphs of three files with at most two refs each
  (self-loops, repeated refs, diamonds, all cycles); pairs of files with sizes
  on both sides of the file cap 3 and of the total cap 4, empty files included;
  bundles with a fault in the zip, the manifest, a digest, a path or two of
  them, a file that is too large and differs among them; both modes; cancellation wherever the code looks for it. `MaxDepth = 1`
  (64) makes chains of three too deep.
- *PackAndOpen.* Trees of an entry and two further files with every fault the
  walk looks for, diamonds, circles and a ref that leads elsewhere on disk than
  in the bundle; two edits, so that one file can change and change back, or
  two files once each, between two readings.
- *ExtractAlone.* Two bundles that share a file name and differ in another, so
  that a mixture is recognised; three calls, so that what a crash left is met
  by a call and by the call after that.
- *PackFile.* Two commands, two invocations, three temporary names, two writes
  per bundle, one edit: two commands at once is what a name collision needs,
  a second write is what half a file needs, and the third name keeps `os.CreateTemp`
  going when a file could not be removed.
- *Format.* Four files use every section, every kind of node and all its fields,
  those that the formatter writes for some kinds only on the others, too, every
  default and every field of a branch, with comments, quotes, escapes, blocks, odd
  indentation and durations below a second; a fifth has much that the parser
  refuses. Each is also read with any one line missing, any
  one line a column further in or out, and any one field with a value that is no
  number, duration or boolean: what one line can do to the levels and the blocks
  around it. `RoundTripKeeps` is about workflows that are `Carried`;
  the rest is in section 6. Every file is formatted twice (`MaxRuns`).
- *Migrate.* Exports: every kind of node and every attribute DOT has; variables
  named like defaults; delimiters and percent signs in `steer_context`;
  subgraphs nested, repeated, circular, at the start, at the exit, without a way
  through, under two spellings, to the depth bound. DOT files: statements in
  several orders, defaults, chains, edges before nodes, broken ones, and
  conditions of up to three comparisons with every operator, quotes and groups.
  `ExportComesBack` is about what is `Exportable`; `MigrationValidates` leaves out
  two names for one default (`TwoNamesOfOne`), parts of seconds and conditions
  the parser spaces anew; `ConditionsKeepMeaning` leaves out words of logic
  inside values (`WithoutLogic`) and, for what must be accepted, values of
  several tokens (`InOneToken`). Section 6 says what happens to those.
- *WatchOne.* One `.dip` file and one other file in a watched directory, five
  saves: more than one debounce period, in which events come before, during and
  after the expiry.

## 4. Fairness and deadlock

`Simulator`, `Validator`, `PathEnumerator`, the stages of `DipxOpen` and the walk
of `DipxPack` run in one goroutine that waits for nobody, so weak fairness of
the next step is what the Go scheduler gives. `SimulateCommand` has it for its
whole next-state relation, `DipxRoundTrip` for the steps of `Pack` and `Open`
but not for edits or cancellation. In `DipxExtract` and `PackToFile` each
process's steps are fair, errors, crashes, kills, calls and edits are not: a
process may crash, it need not. In `Watch` a ready `select` case is taken at some
time (Go picks at random among the ready ones), the timer expires at some time,
and nobody is obliged to save. No property needs strong fairness.

`Format` and `Migrate` state safety and assume no fairness. That the parser does
not stand still is there an action property, `EveryTurnAdvances`: each turn
consumes a line or a token or leaves a loop, so no file is read for ever. TLC's
deadlock check is on for these two: `Ended` lets a finished round trip stutter,
and any other state without a step would be a loop of the reader that the model
does not know how to leave.

The other runs switch the deadlock check off: runs, calls and commands end, and
then nothing more happens. That they do end is the subject of `Termination`,
`CommandEnds` and `RoundTripEnds`, which therefore carry the deadlock question
for the sequential parts.

## 5. The proofs

All constants are arbitrary up to the named assumptions in the modules
(`WorkflowsAssumption`, `OptionsAssumption`, `BundlesAssumption`,
`SourcesAssumption`, `PathsAssumption`, `MarkerAssumption`, ...), which say no more
than that data has its type, that limits are numbers, that markers such as
`Absent` or `NoBranch` are not data, and that `Holds`, which stands for the evaluation
of conditions, is right about equalities and negations (`EqualitiesAssumption`,
`NegationsAssumption`, in which `Resolved` is the look-up of a variable; TLC evaluates
both with `ConditionEval`). TLC evaluates the assumptions in the runs, and each
inductive invariant was checked with TLC before it was proved.

- **SimulatorProofs**: first what the operators of `Workflow` return: choosing
  elements of a sequence keeps exactly those and their order (`KeepElements`,
  `KthPosition`), concatenation and flattening add nothing, every edge of
  `EdgesFrom` leaves its node; the command's proofs rest on these, too. Then every
  safety property of `Simulator`, for every workflow, option set, evaluation of
  conditions and step limit, from three invariants.
  `IInv` is about counters and places: `StepBudget` alone is not inductive, since
  the branch loop tests the budget before a visit, so that on the way back to the
  main loop `steps` may be at the limit but not above; `BranchesKnown` says so,
  and also that `current` is the parallel node being walked and `join` its join,
  which `StatusIsEarned` needs. `LogKnown` says what the event log tells half-way
  (`Tells`): each visit has its events, whose counts are those of the path up to
  there; `EventsMatchPath` and `BreaksAreEarned` follow. `WalkKnown` says how the
  loops stand between two visits: there is an edge from the last node of the path
  to the next one (`OnTheWay`), and inside a fan-out each branch owed has been walked
  since, is being walked or is `pending`, and the join was not visited since
  (`InBranches`);
  `PathFollowsGraph` and `BranchesWalkedBeforeJoin` follow. `ScenarioPrevails`
  and `LabelSpentOnce` relate a state to the one before or to the options, and
  need `IInv` only.
- **SimulateCommandProofs**: what the validator's verdict is worth, for every
  workflow. `UnreachableIsExact`: the invariant `Reached` says that only queued
  nodes lead out of what the breadth-first search has visited, and that nothing
  was visited without need. `CyclesAreExact`: `CyclesKnown` says that the calls
  under way are a path (`OnStack`), that what was looked at was left, reported or
  entered (`Seen`), and that what was left has no cycle but through reported
  nodes (`Acyclic`); that a report names a cycle although only parents are
  remembered is `CycleOfPath`, which climbs them, and `CycleIsGenuine`.
  `FailuresAreExplained` joins both sides: `Vetted` is what the validator's
  silence says of the graph (`EndsOK`, `ForksPaired`), `Arrived` how a run comes
  to the node it looks up next, and `IInv` and `WalkKnown` are carried over from
  `Simulator`, whose steps are steps of the command. The validator's module is
  instantiated here, so its operators and those it takes from the libraries are
  other operators to the provers: `SameOperators`, `SameKeep` and `SameEdges` say
  that they are equal.
- **PredictionProofs**: what is said about runs before they are made, and of a run
  afterwards. First the enumerator's list, for every graph and all limits. `Walks` is a recursive function of the length; `WalksAre` shows once
  that it is `IsWalk`, a statement about the nodes and edges of one path, by which
  all else is proved. `ResultsAreThePaths` follows from `EnumerationKnown`: the
  calls under way are a walk that is not at an end, each but the last waiting for
  the edge it explored last (`OnTrail`), and of the complete walks each is in the
  results or leaves the calls under way by an edge not yet explored (`Ahead`),
  never both unless an edge is declared twice (`Found`). At the end no call is
  under way, so nothing is ahead. That no complete walk goes on by an edge that
  `shouldExplore` turns down, unless the results are full, is `WayOut`.
  `RunsAreAnnounced` adds
  `RunTraced`: a run without fan-outs left every node but the last by an edge and
  passed Exit nowhere before its end, so that its path, with an edge chosen for
  each step, is a complete walk (`PathCompletes`), and those are all listed.
  `RunsAreForeseen` needs the invariant `Foreseen`: the log's edges are edges of the
  graph (`LoggedEdges`); the path, the place of the run and all it still has to walk
  lie inside what the searches reach (`Inside`, once for coverage's adjacency and,
  without restart edges, once for lint's); and a run without a way on stands where
  there is none (`Stuck`). The searches are least closed sets, so that a run stays
  inside because they are closed and a sink is one because they are least. That a
  forced edge was warned of is an argument about conditions: an exhaustive set of
  them misses no value (`EqualitiesAssumption`, `NegationsAssumption`: what lint
  reads as an equality or a negation evaluates as one). `TestsJudgeThePath` rests
  on `Walked`: without fan-outs the path is the log's edges, one after the other.
- **DipxExtractProofs**: `ExtractIsWhole`, `ExtractSucceeds`, `ExtractKeepsOld`,
  `ExtractRespectsForce` under `Procs = {p}`: one caller, any bundles, any
  number of calls, errors, torn writes and crashes. The invariant follows the
  call: before the swap the destination is what it was (`Untouched`), the
  staging directory holds exactly the files written so far (`Staged`), during
  and after the swap the old tree is where `OldPlace` says. That no rename goes
  over a whole tree (`NoRenameOverWhole`) rests on every bundle having a
  manifest. With two callers the theorems are false (section 6).
- **PackToFileProofs**: `PackedIsWhole`, `NothingIsLeft` and `PackIsAtomic`, that
  `PackToFile` implements `AtomicFile`, for any number of commands, names,
  versions and writes. The invariant says that a command that has a temporary
  file is alone with it (`OwnFiles`) and that the file is whole, and the bundle of
  what its command read, when it comes to the rename (`ReadyIsWhole`); every step
  but the call, the end of the reading, the rename and the ends is then a stutter.
  `NothingIsLeft` follows each file from the step that lets go of it (`LettingGo`):
  that step removes it, renames it, is a kill, or notes the exit code it fails with.
- **LoopProofs**: the two loops that take whatever comes. `ReadingAdvances` is
  `EveryTurnAdvances` for `ReadSpec`, lexer and parser over any sequence of lines:
  every line, every token, every kind of block. The invariant `Reads` says that the
  tokens end with a `newline` while lines are left, and at the end with an `eof`
  behind a `newline` or an `outdent` (`EndsFile`), that the parser stands on a token
  or behind the last, and that the file is the outermost block. So each search
  for an end (`LineEnd`, `CommaListEnd`, `ConditionEnd`, a raw block's) finds one
  ahead (`...Ahead`), a name is never among the last two tokens, and a turn reads
  a token and moves on (`Onward`) or closes a block that is not the file (`Leaves`).
  That the tokens of a line are a sequence at all (`LineTokens`) is an induction over
  its pieces, by the least counterexample. Then `TimerForPending` for any watch, and
  `OneFileIsRemembered` under `DipFiles = {d}` and `DirTarget`, whose extra conjunct
  says that every queued event of a `.dip` file passes the filter (a watched
  directory reports writes and creates only).
- **DipxOpenProofs**: every safety property of `DipxOpen`, for every bundle, cap
  and depth. `OpenedRefsAreClosed` and `OpenedRefsAreAcyclic` rest on the
  invariant of the three-colour search (`Coloured`): black nodes are closed and
  acyclic, grey nodes are the stack, and what a grey node has looked at is black
  or further up. `Searched` carries the result from root to root, colours being
  fresh each time: each file lies in some closed acyclic part (`GoodIn`), and
  `GoodNodes` joins the parts. `ContentsAreVerified` and `RefusalsAreEarned` follow
  from `Checked`: what each stage that is behind has established (`Passed`), and
  that the stack of the search is a chain of refs (`Chained`), which earns the
  refusals for a circle or the depth. In the hash loop it says that the files so
  far are present, match and fit (`InOrder`) and that the budget spent is the sum of
  their sizes (`SizeUpTo`), so that the file the loop stops at is the first at
  fault, and the fault the one that is reported (`HashAtFault`). A refusal by a later
  stage then finds all digests in order, one for a ref all texts parsed, and one for
  a condition no other fault at all. Of a cancellation the theorem says only that it
  hides no fault found before.
- **DipxPackProofs**: `BundleIsClosure` for every source tree and every order of
  edits, from `Walked`: what was packed refers to what is packed or queued
  (`NothingForgotten`), what is packed or queued can be reached from the entry by
  refs of packed texts (`NothingElse`), and after the walk the files are sorted
  and written as they were read. That sorting loses nothing is a lemma about the
  definition of `SortSeq`, which the provers do not know. `RefusedForCause` follows
  such a bundle through `Open` (`Opening`): the zip, the manifest, the digests and the
  entry's text pass because `Pack` wrote them so (`WellWritten`), the budget counts the
  sizes so far, the search's stack is a chain of refs; each refusal that is left is
  one of `Causes`, at the file or the chain it is for. `Packed` joins both halves.

Only model-checked: liveness and what depends on ENABLED (`Termination`,
`CommandEnds`, `RoundTripEnds`, `EverySaveIsLinted`), out of TLAPS's reach; and what
the text means. `RoundTripKeeps`, `AcceptedInOrder` and the invariants of
`MigrateRoundTrip` are about what the formatter, the converters, the condition
parsers, `Eval` and `Flatten` compute from texts and trees of any length, by folds and
recursion over which TLAPS cannot induct; that lexer and parser get through the text
is proved, what they make of it is checked.

## 6. Where code and documents differ

Three of these are runs that fail, with their traces (`findings`):

- `ExtractLost` (`dipx/dipx.go:291`): "any pre-existing destDir is preserved".
  After a crash between the two renames the old tree is only in
  `destDir.bak`, which the next call removes before it has put anything in
  place; when that call fails, nothing whole is left.
- `WatchTwo` (`cmd/dippin/cmd_watch.go:102`): "re-run lint on save". One file is
  remembered per debounce period; of two only the last is linted.
- `ValidatedJoin` (`simulate/parallel.go:72`): "locates the fan_in node whose
  sources match the given targets". A subset is enough, so an earlier, smaller
  join is taken although the validator found the equal one.

Others were met while modelling. No run is kept for them, but the models behave
as described here and not as the quoted texts say:

- `Simulator`: a parallel node *inside* a branch is left along one edge, its
  other branches are not walked (`simulate.go:194` says all are). A stopped
  run has the status `dead_end`, which the comment at `simulate.go:66` does not
  know. `MaxNodeVisits` (`simulate.go:40`) limits nothing for a node with a
  single unconditional edge or one chosen by label. The branches share one
  context, which `docs/nodes.md:358` says they do not.
- `DipxExtract` with two processes: the staging directory has a fixed name, so
  the destination may hold parts of both bundles (`dipx.go:261` "atomically";
  `cmd_pack.go:112` avoids the same for pack). The check for an existing
  destination comes long before the swap, which replaces without asking. With
  one process: between the two renames there is no destination
  (`dipx.go:283` "atomically replaces"), and after a double failure of rename
  and rename back there is none for good, the tree being left in the backup.
- `Watch` with `DirTarget = FALSE`: a watched *file* that an editor replaces is
  never linted again.
- `DipxOpen`: the depth cap is one of the search, not of the graph
  (`resolve.go:203`): a node that turned black along a short way hides a longer
  one. A ref out of `workflows/` is reported as an unsafe path, not as an
  escape, and a mismatch in an early file before a cap of a later one, unlike
  the format's design document, lines 221 and 497.
- `DipxRoundTrip`: `Pack` writes bundles that `Open` refuses, for the causes in
  `RefusedForCause` (the same document, line 412, says it never does). One of them
  came up in the proof: `Open` gives up when nothing of the total cap is left
  (`helpers.go:104`), before it sees that the next file is empty, and an empty
  `.dip` file parses (`parser.go:43`). Files that fit exactly are refused if one
  of them is empty (`TooLarge`).
- `Validator`: cycles through the implied edges of a fan-out pass, although
  `docs/validation.md:136` asks for a DAG; a fan-out to a missing node passes
  when a join names the same ID (`docs/nodes.md:353`).
- A quoted `""` is a name like any other to the parser, and no name to the code
  behind it. An edge to it passes DIP003 (`validate.go:92`) and ends the run as a
  dead end (`simulate.go:203`, `parallel.go:103`), on a path the enumerator does
  not list; a join of that name counts as none; a DIP005 is cut short where the
  parents lead through it. Properties that exclude these say so (`EmptyNames`,
  the hypothesis of `CyclesAreExact`).
- `Simulator`: an `answers_key` (`interactive.go:50`) that is the key of a scenario
  value or of the label overwrites it, and `ScenarioPrevails` allows for that.
- `SimulateCommand`: with a fan-out no enumerated path is that of the run
  (`docs/cli.md:402` "all possible paths"); `RunsAreAnnounced` is therefore
  about workflows without.
- `PackToFile`: the entry is validated from one reading and packed from another,
  so an edit between them packs an invalid workflow (design document, line 542).
  The error of `os.Remove` is dropped (`cmd_pack.go:123`, 127, 132), so a failed
  command may leave its temporary file and not say so.
- `LintReachability`: conditions on `outcome` for `success` and `fail` count as
  exhaustive ("every branch is guaranteed to match", `lint_reachability.go:211`),
  but an agent without `auto_status` leaves the outcome unset, a scenario may set
  another, and the run is forced along an edge whose condition fails, without a
  warning. A partition needs "2+ distinct values" (line 253); the code counts
  edges, two that ask for the same value included. `outcome` and `ctx.outcome`
  read the same key (`defaults.go:125`) but are two variables to lint, so a set or
  a pair in mixed spelling is not seen.
- `TestRunner`: `immediately_after` looks at the first visit only
  (`docs/testing.md:68` does not say so); edge coverage takes two edges of the
  same ends for one.
- `Coverage`, outside the model: a tool with declared outputs whose command
  yields none is reported as "unknown" (`coverage.go:107` looks at the
  extracted ones only).

`fmt` (run `Format`; what `Carried`, `Kept` and `AcceptedInOrder` leave out):

- `README.md:549` calls the formatter idempotent. It is not for edge labels that
  contain a colon or begin with `-`, `/` or a backslash, for prompts of blanks
  or with an indented first line, and for list items with ` #` in them; a label
  in block form breaks the file.
- Lost without a word: an agent's `system_prompt`; the retry fields of human,
  tool, conditional and subgraph nodes, `reads` and `writes` of a subgraph; the
  part of a duration below a second when it is longer than one. A node with no
  other fields becomes a header without a body, which the parser refuses.
- The lexer drops a `-` before a number (`weight: -1` is 1); the words `label`,
  `weight` and `restart` end a condition even inside quotes; `goal: "x" # c` keeps
  quotes and comment; `cache_tools: yes` in the defaults reads as false.
- A header one column too far in or out ends the workflow's body, and the rest
  of the file is passed over silently (`docs/evolution_report.md:962` knows); a
  second `workflow` is merged into the first.

DOT and back (run `Migrate`; what `Exportable` and the conditions of the other
properties leave out):

- `Flatten` prefixes IDs, edges, start and exit, but not the targets, sources and
  retry targets in configs; an ID such as `s_k` of the parent merges with `k` of
  subgraph `s` in DOT; params are dropped; a circle under two spellings of a ref
  is stopped by the depth bound only.
- Lost in DOT: defaults other than the tool lists, the goal, retry fields, the
  kind of a start or exit node that is no agent, an exit that is also the start,
  a human node's prompt, an agent's model and prompts without `--prompts`, the part of
  a poll interval below a second. Nodes called `node`, `edge` or `graph` are read
  as defaults; a backslash before `n` becomes a line break.
- Conditions: in `a and b` only the first variable keeps its `ctx.`; `==` comes
  out as `= =`, which the simulator refuses. Migration writes parentheses for
  `and` inside `or` and the reverse, and the simulator has none and refuses
  them, although `docs/edges.md:151`, `docs/syntax.md:285` and
  `site/content/language.md:321` say that they override precedence. A list
  after `in` is spaced anew and refused. The words `and`, `or` and `not` inside
  values change the meaning. The `.dip` parser spaces conditions anew, so the
  parity check can report a difference where there is none.
- A node that has nothing but its kind migrates to a header without a body,
  which the parser refuses. A timeout of 1500ms is written as 1s.
- The parity check does not compare labels, weights, restarts and `satisfies`.
- Two attributes for one default (`fidelity` and `default_fidelity`,
  `max_retries` and `default_max_retry`) make `validate-migration` fail or pass
  with the order of a Go map.
- A `-` that begins no arrow is an empty name for the DOT lexer, which does not
  move on; where a statement begins, the reader does not end.

Language server, outside the models: parse errors are never published
(`lsp/diagnostics.go:32`), which `README.md:478` and `docs/editor-setup.md:21` promise.

## 7. What is not modelled

- The language server: its connection (`lsp/server.go`) answers one request
  before it takes the next, so the document store is a map behind a lock that
  nobody contends for, and each handler is a function of one text.
- `dipx/source.go`: no command uses the cached loader of plain trees.
- Lint beyond DIP102 and DIP105: checks of single nodes, edges and texts, and
  warnings of what *may* happen (DIP101, DIP112), which no run refutes. The
  outputs coverage extracts from shell commands, by a shell parser.
- Pure functions of a workflow or of text without control worth checking: cost,
  diff, doctor, optimize, feedback, unused, scaffolds, drawings.
- In the text modules: characters inside words, places and wording of
  diagnostics, blank lines between sections, alignment; in the export, the
  highlighting of goal gates, which no command asks for; refs that are relative
  to more than one directory.
- Below the models: zip and JSON decoding, SHA-256 (a digest is its content),
  path canonicalisation (a constant), fsnotify and the file system beyond what
  the code relies on, and the buffering of the terminal's input.

## 8. The plan

Done, in this order: `Workflow`, `Simulator`, its proofs; `DipxExtract` and its
proofs; `Watch`; `DipxOpen` and its proofs; `DipxPack`, `DipxRoundTrip`;
`Validator`, `PathEnumerator`, `SimulateCommand`; `PackToFile`, `AtomicFile` and
the refinement proof; the lexer, the parser, the formatter and their round trip;
flattening, DOT, migration, parity, conditions and their round trip; coverage,
lint's reachability and the test runner against the runs.

Left, the most valuable first:

1. Proofs of the round trips, should the provers learn to induct over data: the
   formatter's lines are what the parser reads back, field by field.
2. The directory source, should a command come to use it: its cache under a lock
   while files change.
3. The checks of lint that look at several nodes (DIP101, DIP112), should they be
   made to say what cannot happen.
