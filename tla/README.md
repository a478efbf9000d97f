# A verification model of smart-dynamic-hedge

TLA+ modules that model the program, TLC configurations that check them on
small instances, and TLAPS proofs of what matters most for every instance. Paths
below are relative to the repository; crates are named without their
`smart-hedge-` prefix, and files of a crate without `src/rust/crates/…/src/`.

## The system

A recommendation is computed per symbol: market data and evidence in, a C++
core prices the option and says how much stock would hedge it, an adviser (a
deterministic heuristic or a language model) may widen or narrow the no-trade
band, a policy gate decides, and the decision is stored before anybody sees it.
A command line, a dashboard, an MCP server and an unattended loop ask for
recommendations; a backtester and a portfolio report use the same parts without
the store.

| Component | State it keeps | Operations | Talks to | Module |
|---|---|---|---|---|
| quotes (`models`) | none | midpoint, spread, age | gate, features, providers | `MarketQuote` |
| policy gate (`policy`) | none | `evaluate_policy` | engine, backtester | `PolicyGate`, `GateSession` |
| decision store (`store`) | the SQLite table | `append`, `get`, `recent` | one connection per call | `DecisionStore`, `DecisionHistory` |
| engine (`engine`) | none of its own | `recommendation`, `replay`, `recent`, `health` | provider, core, adviser, gate, store | `Engine`, `DecisionLog`, `Core` |
| market data (`data`) | none | `snapshot`, one per provider | HTTP, files | `Observation`, `Evidence`, `FeedText` |
| features (`features`) | none | `build_features` | engine | `Features` |
| adviser (`model-advisor`) | none | `assess` | HTTP for the model | `Advice`, `Program` (its choice) |
| core bridge (`core-bridge`) | the binary on disk | `ensure_core`, `build_core`, `run_core` | subprocesses | `CoreBuild`, `TimedCommand` |
| the core (`cpp/`) | none | price, Greeks, hedge | run by the core bridge | `Core` |
| dashboard (`dashboard`) | the cache | five routes | engine, a thread per connection | `Dashboard`, `HttpRequest` |
| MCP server (`mcp`) | none | JSON-RPC requests, one per line | engine | `McpServer`, `McpSession` |
| MCP clients (`mcp-client`, `guard-client`, `intelligence-client`) | a child process, a request number | `spawn`, `call`, `Drop` | sibling servers | `McpSession`, `Autonomous` |
| autonomous loop, guard demo (`cli`) | an iteration and an error counter | a cycle, a stop file | engine, two sibling servers | `Autonomous` |
| command line (`cli`) | none | twelve commands | everything | `Arguments`, `Program` |
| configuration (`config`) | none once loaded | `load_config` | files, environment | `Configuration` |
| backtester (`backtest`) | the simulated day, the shares held | `run_backtest` | core, gate, heuristic | `Backtest`, `ReportCommands` |
| portfolio (`portfolio`) | positions priced so far | `build_portfolio`, `summarize` | provider, core | `Portfolio`, `ReportCommands` |
| source audit (`audit`) | none | scan of the repository's text | files | not modelled |

What is hard about it:

* **Time passes inside a decision.** The clock is read once, before three
  calls that may each take seconds. What is judged and dated by that reading is
  used long after it.
* **Several callers.** Dashboard threads, MCP servers and command lines share
  one database, one binary and, within a dashboard, one cache without a lock
  over the computation. Several processes build the core in one directory.
* **Every step may fail**, the process may die between any two, and the audit
  trail must be right all the same.
* **Processes on pipes.** The core, the build tools and the sibling servers are
  child processes, which may hang, die at any time, write more than a pipe holds,
  or leave children of their own behind. A protocol of one line per request holds
  only as long as nobody writes a line too many.
* **An unattended loop**, whose stop file, cap and breaker have to work in whatever
  state a cycle is when they are called for.
* **Untrusted words.** Feeds, files and a model say what they like; it enters the
  decision within bounds that are arithmetic, or a schema, at the edges of which a
  test seldom stands.
* **Layers.** Arguments in two spellings, a file over defaults and an environment
  over both: what is meant, and whether it is paper trading, shows in the end only.

What makes each component correct:

* gate: limits hold after rounding; a rebalance ends at the target and stays
  there; the adviser neither sizes a trade nor lifts a block of the market data;
  waiting does not unblock.
* store: the first row of an identifier stays as it was appended; a replay tells
  when a row lost its text or its hash; a history is the newest decisions.
* engine: nothing is released before it is stored; a decision follows from what is
  stored with it; the audit record tells whether the fallback decided; a call ends
  unless the core never returns.
* data, features, adviser: every source is heard whatever becomes of the others;
  the outside words of items stay marked; an assessment keeps to the schema whoever made it.
* core bridge: the whole output of a command or a timeout, and nothing left
  running, unless a process the child left behind holds the pipes; one usable binary
  however many build it; an audit record names what ran, or what was linked there since.
* dashboard: what is shown can be replayed; `fresh=true` means fresh.
* MCP server and client: the line taken for an answer is the answer; whoever
  waits is answered; whoever was told of a decision can replay it.
* autonomous loop: an order is what its decision approved, on evidence older than
  itself; the loop halts on errors in a row, of whatever kind, on its iteration cap and
  on the stop file, unless an engine or a sibling that never answers holds it; at most
  one order follows the stop file; no sibling outlives its cycle.
* command line and configuration: a command line means what its pieces say, or
  nothing is run; every setting comes from the topmost layer that makes it; nothing
  happens unless all layers together say paper; whoever fails prints no result of its own.
* backtester: the shares of one day are the position of the next; each day ends
  hedged or blocked. Portfolio: one valuation time.

## Modules

```
MarketQuote <- PolicyGate <- GateSession              the gate, evaluated again and again
                   ^  ^
                   |  +------ Backtest --+
           Results <- Core <---+         +- ReportCommands     reports without a store
                               Portfolio +

DecisionStore <- DecisionHistory
      ^  ^
      |  +------ McpServer <- McpSession               two ends of two pipes
      +--------- Engine (over PolicyGate) <- Dashboard (over HttpRequest)
                   |
                   +-- implements DecisionLog

FeedText <- Evidence <- Features <- Advice <- Observation      from the world to an assessment
Arguments <- Configuration <- Program                          from argv to the exit status
CoreBuild      processes, build tools and one binary
TimedCommand   a command with a timeout, its pipes and its readers
Autonomous     the loop, a guard cycle, two sibling processes
```

Where one module needs another component's work only by its outcomes, it has the
outcomes: `Engine` takes any typed market, core answer and assessment (of which
`Observation` has the making), `McpServer` any engine's decision, `Autonomous` and
`Program` any result of a recommendation. The `MC…` modules hold the small
instances, the `…Proofs` modules the theorems.

**MarketQuote** is `models/quote.rs` and `build_quote` of `data/alpaca.rs`. Prices
are integer ticks; the midpoint is kept doubled and the spread is compared by
cross-multiplication, so nothing is rounded.

**PolicyGate** is `evaluate_policy` and `round_half_to_even`. Shares are counted
in quarters and multipliers and confidences in tenths, the coarsest grid on which
every rounding case occurs (down, up, tie to even, tie to odd). The code's f64
is replaced by exact integers: rounding errors of the floating-point products are
not modelled. Warnings are left out, nothing reads them. **GateSession** puts one
set of inputs through the gate at several times and with several assessments: that
is how a loop, the backtester and the fallback use it, and relations between two
evaluations become action properties.

**DecisionStore** is the table: `append` as an insert into a set of rows with a
unique identifier, `get` with its re-computed hash, `recent` with the clamped
limit and the order. Each operation opens its own connection and runs one SQL
statement, so it is one atomic step. A stored text stands for the JSON value it
parses to, since the hash is taken over the canonical form of that value.
**DecisionHistory** exercises it and lets the file be damaged from outside: all columns
of a row but its key may change, text and hash together too; no row is taken away.
**DecisionLog** is the abstract promise: a log that only grows, one decision to
an identifier, nothing released before it is recorded.

**Engine** is `recommendation_at` as a sequence of steps of each caller:

| `call[c].step` | Action | Code |
|---|---|---|
| idle | `Start`: the clock reading | `engine.rs:71-85` |
| snapshot | `Snapshot`: provider, contract | `engine.rs:86-97` |
| core | `RunCore` | `engine.rs:98-106` |
| adviser | `AdviserAnswers`, `AdviserFails`: adviser or fallback, gate, identifier, audit record | `engine.rs:108-182` |
| append | `Store` | `engine.rs:184` |
| return | `Return` | `engine.rs:185-186` |

The clock is finer than what is written down: the gate is given the full reading, the
decision its date, truncated to a timestamp (`to_iso_string`; `Stamp` readings of the
clock have the same one). Between two steps the clock may tick, another caller may run, the core may be
rebuilt, and a process may die with any set of its callers' calls. Gate, identifier
and audit record are one step with the adviser's answer: they touch nothing shared
except the file of the binary, whose replacement may come before or after
(`CoreBuild` has that in detail). Identifiers are a counter: `new_unique_id` hashes
the time, a counter and a stack address, and its collisions are left to the primary
key (`DecisionHistory` appends one identifier twice). `rows` and `binary` survive a
crash. `released` and `origin` are history variables.

**Core** has `resolve_contract`: configured values, overrides of a call, a date
or a number of days, a strike or "at the money". NaN and infinity are two integers
of their own, so that `max(0.0)` and the validations meet them. It also has the C++
program seen from outside: what it parses, what it refuses, its delta at expiry, and
any delta within the bounds of an option before. **Backtest** is the loop over the
days, one action to a stage (`Snapshot`, `Price`, `Decide`, `Report`), over
`PolicyGate` itself; **Portfolio** prices one symbol after the other while the clock
goes on; **ReportCommands** are the two commands over them.

**Observation** is one snapshot with its assessment: quote and bars of the
read-only provider (or the synthetic market), the evidence file, FRED series and RSS
feeds in turn, features, adviser. Each request answers or fails on its own.
**Evidence** has what becomes of a row, an observation and an entry; **FeedText** how
entries are found in a feed, with prolog, CDATA, comments and broken tags as pieces of
markup, and names of end tags that only begin like the one that is looked for (`Longer`); **Features** what goes into each feature, when it is missing, and the quality
of the data; **Advice** the heuristic, the prompt and the schema. The prompt has the items of
evidence and the features, whose keys are made of titles. A spread that is infinite is
a null among the features (`build.rs:90-93`), which the heuristic reads as zero
(`heuristic.rs:37`) and the gate refuses all the same. Standard deviations
and regressions are CONSTANT operators: the model decides when they are computed and
from what.

**CoreBuild** is the core's binary without a lock: callers go through `ensure_core`,
`build_core`, `run_core` and the hash of the audit record (`call[c].at`), while the
tools they started compile and link on their own (`tool[c]`), fail, die, or outlive
their caller, and the source is edited. A linker replaces the file, so that of two
that link at once the second has it and the first writes to a file without a name.

**TimedCommand** is `run_command_with_timeout`, which runs the core and the build
tools: the calling thread polls (`TryWait`, `CheckClock`), joins (`Join`) and
returns; two threads read (`ReaderReads`, `ReaderEnds`); the child writes by a script
and may block on a full pipe, exit, hang or fork. The polling interval is the
interleaving itself. A failing `spawn` or `try_wait` returns at once and is left out.

**Dashboard** is every route over the engine. A look-up of the cache is one step, a
put is one step, and the engine's steps of all threads run in between.
**HttpRequest** reads a request: its sizes, percent-decoding, the last of repeated
keys, what counts as true and as a symbol. The page and the writing of an answer are
text.

**McpServer** handles a line to its end before it reads the next; **McpSession** puts
at the other end this repository's client or any other host, which writes ahead,
sends notifications and garbage, and may go at any time, as may the server. `said`,
`heard` and `exchange` are history variables.

**Autonomous** is `cmd_autonomous` with `run_guard_cycle`:

| `phase` | Action | Code (`cli/commands.rs`) |
|---|---|---|
| top | `Halt`, `BeginCycle` | 584-606 |
| recommend | `Recommend`: an error, nothing to trade, or a verdict to act on | 310-328 |
| spawn_…, initialize_… | `Spawn`, `SiblingAnswers` | 330, 417; `mcp-client/lib.rs:80` |
| ingest, history, bundle | `SiblingAnswers` | 336-381 |
| build_intent | `BuildIntent`: the second clock reading, side and size | 383-415 |
| submit, await_guard | `Submit`, `GuardActs`, `GuardReplies`, `GuardBreaks` | 423-435 |
| sleeping | `Wake` | 625 |

However a cycle ends, it goes through `Report` or `Error`, which drop the clients and
so kill their processes. Errors keep their kind. `elapsed` counts from the
recommendation's clock reading; it is a bound from below on the age of the quote.
The guard executes an order before it answers, so that its answer can be lost.
`order`, `cycles`, `outcomes` (only the last few) and `late` are history variables.

**Arguments** is `parse_args` over tokens (words, flags, `--flag=value` pairs),
**Configuration** `load_config` over JSON values, **Program** the commands from their
arguments to their exit status. `did` records what a process has done that others can
see, `printed` what it said, or what was said on its output: the core that `self-test`
runs shares it.

## Runs

Eleven runs pass; one shows a disagreement.

| Run | Properties | Instance |
|---|---|---|
| `gate_whole` | `LimitsHoldAfterRounding`, `RebalanceIsFinal`, `AdviserCannotSizeTrade`, `AdviserCannotLiftDataBlock`, `WaitingNeverUnblocks` | Whole shares. Every state is an initial one or one step from it: nine books (nothing quoted, each side missing, tight, wide, crossed, unparseable and future times), gaps on and off the rounding ties, confidence on both sides of the floor, known and unknown citations, each limit on both sides. |
| `history` | `ReplayVerdictIsRight`, `HistoryIsNewest`, `AppendedIsImmutable` | Five decisions (two of one identifier, two of one time) appended in every order, any columns of a row changed, every replay and history. |
| `engine` | `DecisionIsReproducible`, `FallbackIsAudited`, `ImplementsDecisionLog`, `OnlyTheCoreHangs` | Two callers, one with a fallback and one without, two decisions, three readings of the clock with two to a timestamp, quotes on the edge of staleness between them, one rebuild; a core that may never return. |
| `dashboard` | `ShownIsReplayable`, `FreshIsFresh` | Two threads, one symbol with a contract and one without, a model without a fallback, fourteen requests (encoded, repeated and malformed ones among them), server crashes. |
| `autonomous` | `OrdersFollowDecisions`, `EvidencePrecedesIntent`, `BreakerCountsEveryError`, `StopFileStopsOrders`, `NoSiblingIsLeft`, `StopFileHaltsUnlessHeld` | Caps of three and none, a breaker at two, verdicts of every kind, every failure of every sibling, the stop file at any moment; an engine and siblings that may never answer. |
| `command` | `OutputIsWhole`, `NothingIsLeft`, `OnlyHeirsHoldTheCall` | Five scripts (nothing, a little, more than a pipe holds to either pipe first, in turns), a child that may hang and may leave a process behind that never ends, a clock that passes the timeout at any step. |
| `mcp` | `AnswerIsForRequest`, `AnswersInOrder`, `ToldIsStored`, `ClientIsAnswered` | A client that uses every tool, with arguments of the wrong type and an unknown method; another host with fourteen kinds of line; two servers in turn, killed at any step. |
| `core_build` | `HashNamesWhatRan`, `BuildsLeaveWholeBinary` | Two processes, every configuration, with and without build tools, three versions of the source of which one does not compile, one tool that dies. |
| `reports` | `SharesAreCarried`, `DaysEndHedged`, `OneValuationTime` | Contracts that expire within the run, name a date, have no strike, are short, are refused by the resolver, by the core, or unknown; books that are tight, asymmetric and blocked. |
| `program` | `ArgumentsAreMeant`, `LayersAreOrdered`, `NothingWithoutPaper`, `FailureSaysNothing` | Every command with every tail of at most two tokens of a small alphabet and some of three; every command under each of twelve configuration files and several environments. |
| `evidence` | `EverySourceIsHeard`, `FeedsAreReadAsMeant`, `UntrustedStaysMarked`, `AssessmentKeepsToSchema` | Three series and three feeds where two are the cap, both asked, either alone or neither; feeds in RSS and Atom, with and without prologs and names that begin like the entries'; broken files, bars with holes, a model that breaks the schema in every place. |
| `program_paths` | *violated:* `StoreIsWhereConfigured` | The instance of `program`; see "Where the code and its documents disagree". |

**Bounds.** Two callers are enough for every interleaving property stated: each
relates one decision, one binary or one answer to one other. Two decisions give a
second one to overwrite, outlive or be confused with the first. `MaxClock = 2`
lets the clock tick at any two steps, with `Stamp = 2` within a timestamp or into the
next one: in `dashboard`, with `cache_seconds = 0`, a cached decision is good at its own
reading and stale at the next; in `engine`, a quote (`Lags`) is within its limit of two
at a decision's date and past it at a later reading of the same date. `MaxRecent = 3` stands for 200 and is passed by the
limits 0, 2 and 4; `MAX_SERIES`, `MAX_FEEDS`, `MAX_HEADERS` and `MAX_SYMBOL` are two
and are passed as well, and so is `MaxSummary`. `MaxDamaged = 1` is one row, since a
replay reads one. `Longer` gives two names one longer name each, `Reason` is an error
with a word of an outsider's. In `Autonomous`, `MaxElapsed = 2` puts bundle, intent and
decision at different times in every order, `MaxCount = 4` is past the cap, and
counters that reach it stay there: without a cap nothing reads them. In
`TimedCommand` a pipe holds two units, a child writes up to three to each, and
`MaxElapsed = 3` is two past the timeout. In `McpSession`, `MaxLines = 3` lets a host
be two lines ahead of the answers, `MaxCalls = 4` leaves calls for a second server, and
`MaxSpawns = 2` gives one. In `CoreBuild`, `MaxCalls = 3` lets one process come back
while the other's tool still works, `MaxVersion = 2` gives two different binaries past
the one that was there. A backtest of three days passes the expiry of a contract with
two left; `LastDay = 2` passes midnight between any two symbols. `MaxRounds = 2` sends a loop
round once. Bounds appear in guards under their names. The runs that stop when the
bounds are used up do not check for deadlock; gate, history and autonomous do (a loop
that has halted is a step of its own, `Gone`).

**Fairness.** It is assumed of nothing that the code does not bound itself.
`FairEngineSpec` has it for a caller's steps that stay possible, but not for `RunCore`:
the HTTP calls have a timeout (`alpaca.rs`, `openai.rs`), SQLite has a busy timeout, the
rest is computation; the core has a timeout too (`run.rs:65`), but the call that runs it
may wait for a pipe for ever (`CallReturns` below). `Start`, `Crash`, `Tick` and
`Rebuild` need not happen. `LoopSpec` has it for the loop's own steps (`OwnStep`), and
neither for the engine nor for the siblings, who may never answer. `FairSpec` of
`TimedCommand` schedules its three threads and lets a child with room to write do so;
children need not exit, nor what they leave behind, nor time pass. `McpSession` assumes
that the server's steps outside the core and the client's read are taken: the server is
a loop over its standard input whose handlers are computation and the engine, and a
killed server closes its pipe; hosts need not send anything. The liveness properties say
so in their first disjunct: all goes well unless the run is held for ever by what is not
assumed to answer, which `StopFileHalts` and `CallReturns`, without it, show to be
possible. `ReportCommands`, `Observation`, `CoreBuild` and `Program` are checked for
safety only.

## Proofs

`PolicyGateProofs` has the arithmetic: rounding moves a trade by at most half a
share, the preview is nothing or the whole trade, a decision is typed.
`GateSessionProofs` proves for every configuration, book and answer that limits hold
after rounding, that a rebalance reaches its target and settles there, that an adviser
cannot size a trade, is not heard below its floor, lifts no block of the data, and that
waiting unblocks nothing. The inductive fact is `Evaluated`: the decision on show is the gate's verdict on
the inputs beside it; the safety properties follow from the definition of the
verdict, but none of them is inductive without it.

`DashboardProofs` begins with the engine. It proves for any number of callers, any provider, core and adviser, and
any failures and crashes: the type invariant, `StoredBeforeReturned`,
`DecisionIsReproducible` and the refinement of `DecisionLog`. The inductive invariant
`AuditInv` adds to them: every row is the row of its payload, identifiers of rows are
unique, a decision in a call's hands already follows from its inputs at some reading of
the clock its date stands for (division with remainder by `Stamp`), and a
call about to return has its row. Without the last two, a store or a return step could
not be shown to keep the property. `FallbackIsAudited` needs an invariant of its own,
`FallbackInv`: who failed is recorded under an identifier before the row is, so every
identifier of an origin, a row or a call is below `next_id` (`IdentifiersAreSpent`) and
none is met twice; and a decision in a call's hands already says who made it.

Its second part first shows that the dashboard takes only steps of the engine
(`DashboardRunsEngine`), so `AuditInv` holds under it for any number of threads and any
requests. To that, `DashboardInv` adds what each of the dashboard's own variables
holds: a thread is where its request and its call of the engine say (`ThreadsInv`), every cached
decision has its row and its symbol (`CacheInv`), and so has everything in the last answer
(`ServedInv`, which also dates it). `ShownIsReplayable` is about the store, the
cache, the route and the thread at once; rows never change, so what had its row once
keeps it.

`AutonomousProofs` proves all safety properties of the loop for any caps, error
limit, verdicts and sibling behaviour. `IInv` strengthens them with what a cycle has in
hand in each phase (`ReadyInv`), which processes run (`ChildrenInv`), that the
uncounted cycle is the one under way (`CountInv`), that an order after the stop file is
the last step of its cycle (`LateInv`), and that the error counter is the length of the
run of errors the outcomes end in (`StreakInv`), which is what makes the breaker trip
exactly then. Every way to end a cycle is one of two lemmas, `ReportKeeps` and
`ErrorKeeps`.

`ReportCommandsProofs` proves the three properties of the reports for runs of any
length and any configuration, book, core and opinion. For the backtest, `TestInv` ties
the three records of a position together: the shares held, the current shares of the
hedge in hand (`InHand`) and where the last day left off. That a day ends hedged rests
on `VerdictIsRight`: an approved trade reaches the target up to rounding, a held day was
inside a band that no opinion widens past `Widest`. `PortfolioInv` says of every
position so far that it was priced at the reading of the clock that all share.

`CoreBridgeProofs` proves for any number of processes, configurations, tools and
versions: the type invariant, that tools run only where building is allowed or was
asked for, that a recorded hash which does not name what ran names something linked
since, and that builds leave no half binary. The invariant adds what a call knows where
it stands (`CallInv`), that a half file is being written by the tool that began it
(`FilesInv`: while two link at once, the file is always the later one's), and, between
run and hash, that the configured file is what ran and the default file is still
there (`RanInv`). Actions fall into those that move a call (`GoesKeeps`) and those of a
tool (`ToolKeeps`). For the command with its time limit, `CommandInv` says that what was
written is what was read and what is in the pipe, that a reader ended only where the pipe
is empty and nobody can write to it any more, that readers are joined in
order, and what the caller's status says of the child.

`DecisionStoreProofs` is about what is read back. Of a history of appends, reads and
damage from outside, `TableInv` says which forms a row may have come to have (`FormsOf`:
any with its key, once it was damaged) and that no identifier has two rows; `TheNewestAreSelected` is the lemma about the query,
which holds for every table because an ordering of a finite set leaves none of it out
(by the pigeonhole theorem of the library). Of the MCP session, `SessionInv` says that
between a client and its server there is one line at most, the request, the answer being
made, or the answer (`PipesInv`), that rows are numbered without gaps or repeats
(`NumbersInv`), and that what is on its way or was told is in the table (`ToldInv`). That
is why a client that never compares the identifiers gets its own answer. Of a host that
does not wait, `OrderInv` says that the pipe to the server holds the last lines that were
said (`LastAreInPipe`), and that what the host heard, has in its pipe or is about to be
told is in order for the lines before those. `InOrder` counts the lines that ask
(`Due`), so that a line read adds one to both counts or to none (`InOrderWithLine`), and
a server that stops can only leave answers out at the end (`InOrderCutShort`).

`ProgramProofs` is about the program as one: every command, from its arguments to its
exit status, under any defaults, file and environment. What it rests on is that the merge of the
layers, a recursion over two JSON trees, gives each setting the value of the topmost
layer that makes it (`LoadedIsLayered`). A step of `deep_merge` is the lemma that the
merged tree has a child where one of the two has (`Follows…`), by induction over the length of a path; that
the recursive function exists at all is an induction over what is left of `MaxNesting`
(`MergedIsDefined`). Both are done with the least number that fails
(`LeastNumber`), which the library's well-foundedness of the natural numbers gives
without an operator parameter. `LoadedInv` carries it over the steps of a command: whatever
works has loaded, and what it loaded is `load_config` of its file and environment;
`PrintedInv` says what has been printed where, and by whom: results of the program's own
only in the step that ends it well.

Its second part is about one observation, for any file, quotes, bars, series, feeds,
model and prices. `Sound` says what an item of evidence must be, in form and in whom its
words are from, and `ObservationInv` that the market has nothing but sound items from
the first answer on, and that the features are those of that market; that is what the marks of
the prompt (`OutsidersStayMarked`) and the bounds of the heuristic
(`AssessmentsKeepToSchema`) follow from, and neither is inductive alone. For `SourcesAreHeard`,
`HeardInv` says after each answer how far the gathering has come: the evidence is the
file's, then an item for each series asked so far, each right about its failure, then what
each feed so far adds. The induction is over the steps, and what a step appends is compared
with the property's concatenation through `OneMoreFlattened`. Every recursive function on
the way (`Ascending`, `Mean`, `extract_blocks`, the library's `FlattenSeq`) is a CHOOSE to
the provers, so that it exists and what it holds is again shown with the least number that fails.

The strengthened invariants of the history, the session and the observation were checked
by TLC on the instances of the runs before they were proved (`HeardInv` with its
witnesses taken from the evidence).

Assumptions are named beside the constants, and TLC evaluates them on the runs.
`ConfigAssumption` says that the configuration has its types; no order of its limits is
assumed, so a swapped minimum and maximum are covered. `SessionAssumption`,
`EngineAssumption`, `AutonomousAssumption`, `CoreAssumption`, `BacktestAssumption`,
`BuildAssumption`, `CommandAssumption`, `CacheAssumption`, `RecentAssumption`,
`LimitAssumption`, `NumeralAssumption`, `DecisionAssumption`, `CapAssumption` and
`FeatureAssumption` give the other inputs their types, and so does `AdviceAssumption`,
with room for the heuristic's four shocks (`MaxShocks`; the code's is seven).
`SourceAssumption` has what comes from outside as lists, and says whose words are whose:
a row that is marked as trusted, the names of configured series and the program's own
phrases have none of `OutsideWords`. It is what the operator vouches for, and nothing is
assumed of the other rows, of observations, of what feeds say, of the errors of requests
(`Reason`) or of the model.
`UpperAssumption` says that a text that passes for a symbol is one, once in upper case. The rest (`FloatAssumption`, `TextAssumption`, `AnswerAssumption`,
`MessageAssumption`, `HostAssumption`, and those of the gate) say that the values standing
for an unparseable time, a non-finite number, a garbled text, a missing id or nobody are
none of the ordinary values; `LineAssumption`, that only a message has fields. Of JSON:
`NestingAssumption` bounds its depth as `serde_json` does (128 levels; any bound of three or more
will do), `KeyAssumption` says that the keys the program looks for are strings, which no
backend knows of a literal, and `SymbolAssumption` that so are the keys of `contracts`.

Proved and not run: the type invariants of the gate, the engine, the loop and the core's
builds, `IterationsAreCapped`, `StoredBeforeReturned` and `BuildsOnlyWhenAllowed`.

Only model-checked:

* Liveness under fairness (`OnlyTheCoreHangs`, `StopFileHaltsUnlessHeld`,
  `OnlyHeirsHoldTheCall`, `ClientIsAnswered`): out of the prover's reach, as is `ENABLED`.
* `ArgumentsAreMeant` and `FeedsAreReadAsMeant`: what a parser finds in every text that
  another function wrote. That is an induction over the text, with two recursive functions
  to keep in step at each token or tag, and was not attempted. `OutsidersStayMarked` and
  `SourcesAreHeard` do not need them: they hold of whatever the reader of feeds returns.

No module declares a RECURSIVE operator: recursion is a recursive function or a fold.

## Where the code and its documents disagree

**Run: `program_paths`.** `lexically_normalize` pops ".." from a path that is already
empty and loses it (`config/paths.rs:42`). With `--config my.json` the directory of the
file is "" (`loader.rs:83-86`), and a store given as `../shared/db`, in the file or by
`SMART_HEDGE_DB` as in the trace, becomes `shared/db`, below the working directory; with
the file named by its full path, the same setting puts the store where it says. `requirements/LLR.md:215-217`, SDH-LLR-024: "A configured relative
path shall resolve against the directory containing the config file".

**Stated, violated, without a run.** Each of these is a definition of the modules, and
TLC finds it violated when it is added to the configuration named:

| Definition | To see it | What the code does | What is said |
|---|---|---|---|
| `ApprovedIsFresh` | `MCEngine.cfg` | The quote is judged by the clock read before the market data, the core and the adviser were asked (`engine.rs:76`, passed on at `:130`), however long they took. | HLR.md:93-101, SDH-HLR-050, the gate "shall fail closed" "whenever the quote is invalid, stale, ..." |
| `ApprovedIsGrounded` | the same | The model is shown the first `max_evidence_items` items, the gate accepts a citation of any (`features/build.rs:138`, `policy/evaluate.rs:90`). | HLR.md:180-183, SDH-HLR-090, "every evidence ID a model adviser cites was actually present in the evidence supplied to it for that decision" |
| `HistoryIsVerified` | `MCDecisionHistory.cfg` | `recent` returns payloads without re-computing a hash; only `get` does. | LLR.md:585-587, SDH-LLR-072, "Reading a stored decision shall recompute its content hash" |
| `EmptyBookIsBlocked` | `MCGateSession_Whole.cfg` | Where nothing is quoted both sides become the last close (`alpaca.rs:148`): no spread, a valid midpoint, an approved preview. | THREAT_MODEL.md:10-11, "Invalid, stale, illiquid, over-limit, or ungrounded results fail closed" |
| `AuditNamesWhatRan` | `MCCoreBuild.cfg` | The core's binary is hashed after its run (`engine.rs:148`, `:163`), and a build may have replaced it in between. | HLR.md:124-126, SDH-HLR-060, "A debugging/audit trail that can silently drift from what actually happened is worse than no audit trail" |
| `BreakerCountsHardErrors` | `MCAutonomous.cfg` | The breaker counts errors of the engine and failures a tool reports like the rest (`commands.rs:616`). | `commands.rs:286-287`, a cycle is an error when "a sibling process failed to spawn or spoke a broken protocol"; `:544-549` and rust/README.md:474-478 speak of hard errors |
| `StopFileHalts` | `MCAutonomous.cfg` | `read_line` has no time limit: a sibling that hangs holds the cycle, and the stop file is not looked at again. | `commands.rs:540-541`, "an operator drops a file, the loop notices within one interval" |
| `CallReturns` | `MCTimedCommand.cfg` | After the kill the readers are joined, who read until the last write end is closed: a grandchild holds it open. | LLR.md:342-343, SDH-LLR-036, "shall fail with a timeout error (not hang indefinitely)" |
| `NoPartialPass` | `MCProgram.cfg` | `self-test` lets the core print to its own output (`commands.rs:183-185`), and that says "self-test: PASS" (`cpp/smart_dynamic_hedge.cpp:432`) before the checks that may still fail. | LLR.md:1047-1048, SDH-LLR-142, "rather than printing a partial pass" |
| `WholePromptIsMarked` | `MCObservation.cfg` | The prompt has the features too (`openai.rs:173`), keyed by titles whoever wrote them (`features/build.rs:110-112`, `evidence_summary.rs:13-21`); the error of a feed, which may name the address it was redirected to, goes into an item that counts as trusted (`rss.rs:32-44`, `:91`). | THREAT_MODEL.md:17, "Evidence text is labeled untrusted" |

**Met in the source while modelling**, part of the models where they touch state, and
without a property:

* Two dashboard threads that compute at once may put in either order, so the cache "of the
  last computed recommendation" (`dashboard/cache.rs:5`) can hold the older one until it expires.
* An order is submitted whatever became of its quote's age while the evidence was
  collected (`commands.rs:423`).
* `build-core` and `mcp` do not look at what follows them: unknown flags are ignored,
  where LLR-140 has them refused.
* A DOCTYPE without an internal subset is skipped up to the next "]" in the whole feed
  (`rss_xml.rs:45`), a CDATA section of an entry for one; entries before it are lost.
  A feed that breaks off yields nothing and no error item. An end tag is looked for
  without its ">" (`rss_xml.rs:163`, `:242`): `</items>` closes an `<item>`.
* The heuristic takes an infinite spread for a spread of zero (`features/build.rs:90-93`,
  `heuristic.rs:37`): not "illiquid". The gate blocks it.
* A replay checks the text against the hash; symbol, date, action and adviser stand in
  columns of their own, by which a history selects and orders, and nothing checks those.
* A backtest of a contract with a configured expiry reports the days counted down from
  `days_to_expiry` (`backtest/lib.rs:114`, `:158`), not those it was priced with; and it
  reads today's evidence file for every simulated day.
* `--interval inf` panics (`commands.rs:115`, `:579`); `--days nan` becomes 0.
* An empty `SMART_HEDGE_CONFIG` counts as a path; a model URI without "://" is a scheme
  (`model_uri.rs:41-42`); the placeholder for a model's name is refused when it is
  configured by kind only; `replay` and `recent` need the adviser's key if the
  configuration names a model.
* Evidence items that report an error carry a quality of 1.0, like an observation.
* A bar that is not a number fails the whole snapshot, where other sources are heard
  one by one.
* The refusal of a non-finite core answer cannot be reached through the core, which
  prints finite numbers or fails.
* One `accept` that fails ends the dashboard (`dashboard/server.rs:92`), and a request
  line is read whole before its size is looked at (`http.rs:54`).

## Not modelled

* Option pricing in the C++ core (floating point): any delta within an option's bounds.
* Feature statistics: CONSTANT operators; f64 rounding everywhere.
* HTTP and TLS, the trading calendar, the truncation of long texts, the page of the
  dashboard, tool descriptions, log lines: input, or text nobody's control depends on.
* Numeric settings and their defaults in the configuration, beyond the size of a contract.
* The Windows fallback path of the core bridge.
* The source audit: a scan of the repository's text; nothing happens over time.

## Plan

1. Done: gate, store, engine, dashboard with all routes, command, autonomous loop, MCP
   server and client, core builds, reports, program, evidence, with the proofs listed.
2. Proofs still open: `FeedsAreReadAsMeant` and `ArgumentsAreMeant`, by induction over the
   text; `HistoryIsVerified` as it would hold of `get` alone.
3. Larger instances where they fit the time of a run: three callers of the core's
   build, two days' rebuilds of the core in `engine`.
