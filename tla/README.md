# TLA+ models of Knolo Agents

Knolo Agents runs agents as graphs: a scheduler executes one node at a time,
logs events, saves checkpoints and can be stopped, suspended and resumed. The
same core runs in a process, in an Internet Computer canister, in WASM and, in
a smaller version, in TypeScript; a TypeScript harness wraps agents of any kind
with knowledge, skills, recovery and learning.

This directory models the parts of it whose correctness depends on the order in
which things happen. Line numbers below are those of the repository's files;
`PROJECT.json` maps every definition to the lines it stands for.

## 1. The system

Each component with its state, its operations, and what makes it correct.
(M) marks what is modelled, (P) what the plan in section 6 takes up.

| component | state | operations | must hold |
|---|---|---|---|
| (M) Scheduler, `knolo-agent/src/runtime/mod.rs` | locals of `run_from`: node, snapshot, sequence, steps, tokens, cost, visits, attempt | `run`, `resume`; calls the executor, the event sink, the clock, the checkpoint store | log and checkpoints agree through crashes; limits hold over all calls; one node at risk; every call returns |
| (M) Checkpoint store, `knolo-agent/src/checkpoint/mod.rs` | `<id>.json`, `<id>.json.tmp` | `save`, `load` | no partial or stale load |
| (M) Canister host, `knolo-agent-icp` | one `AgentEngine` in RAM, a snapshot in stable memory | update calls, effect drain with inter-canister awaits, timers, upgrade | one engine at a time; RAM and stable memory agree at rest; nothing acknowledged is lost; no gate passed unapproved |
| (M) Canister event log, `engine.rs`, `stable_store.rs` | events of an execution, event map in stable memory | merge of a report, cap, reload | newest kept in order; reload loses nothing |
| (P) Graph compiler, state reducers, handoff narrowing (`knolo-agent-core`) | none | pure functions | equal to their definition |
| (P) Tool gate and budget ledger, `host/mod.rs`, `policy/mod.rs` | reservations and charges per tool, audit sequence | `execute` | charged once, never over budget by more than a call, audited in order |
| (M) Dependency activation and harness session (TypeScript) | active and staged packs, frozen root, acquired packs | `add`, `stage`, `activateStaged`, `freeze`, `run` | what a run reports is what it ran with |
| (M) Recovery, local experience, skill acquisition | strategies used; records, lesson, approvals; packs acquired | retry loop; `record`, `approve`, `promote`; acquire | every run ends; nothing promoted unearned or unapproved; the indexed release of a pack is the one in the root |
| (M) Pack registry clients, `registry/` | cache of manifests and bytes; what a registry in memory holds | `search`, `resolve`, `pull`, `yank`, `publish`, the offline view | bytes are the manifest's; pins and yanks hold for calls that overlap |
| (M) Capability index, authority, skill resolution, `capabilities/`, `skills/` | skills by id | `add`, `tryAdd`, `intersectAuthority`, `resolveSkills`, gaps | an id is one skill; no skill beyond any grant |
| (M) Context compiler, `context/` | items selected and dropped | `compileContext`, `applyBudget` | required texts reach the agent or the run is refused; the budget is kept and used |
| (M) Evaluation, `evaluation/` | none | `evaluateInvocation`, usefulness, score, comparison | the four verdicts on one result agree |
| (M) Adapters, `adapters/` | what each drives: a child, an execution, an engine, tool calls | `invoke`, `resume` | one answer to each attempt, true to what was driven |
| (M) TypeScript engine and replay | locals of `runFrom`; a recorded trace | `execute`, `resume`, `replayDeterministic` | a replay that is accepted is the same run |
| (P) WASM bridge and engine | session of one execution | start, resume, callbacks | same contract as the scheduler |
| Packs, contracts, builder, core v5 bindings, ICP client | none that outlives a call, or I/O | parsing, conversion, requests | not modelled, or only as far as an adapter drives it: see section 7 |

How they interact: a caller owns a scheduler and lends it `&mut` its executor,
sink and store, so one execution is one thread, and what is hard is not
parallelism but that any of these may return an error, or the process die,
between two durable effects. The canister host calls the scheduler from
message handlers; a canister runs one message at a time, but every
inter-canister call is an await at which other messages are delivered while
the engine is inside the suspended future. Upgrades drop the RAM. The TypeScript
harness is one process whose awaits are where its parts interleave: several
callers share one registry client and its cache, a run awaits hooks, sources, the
adapter and the learner, and an adapter's child process, canister or tool calls
go on while the attempt that started them has been answered.

What is hard, each at its line, is the list `hazards` of `PROJECT.json`: crashes
between log and store, sequence numbers after a resume, limits across resumes,
the engine that is moved out during an await, an effect that is cached before its
resume fails, the order of restoration in an upgrade, events renumbered and then keyed by number, answers that overtake a
yank, a child that ignores its signal, tool calls that outlive their attempt.

## 2. The modules

**RunContract** is the abstract specification of an execution: a path through
the graph, committed one node at a time, with a patch at most once per node,
charges within budget and the same artifacts throughout. Crashes, retries and
events are invisible in it.

**Scheduler** is `run_from` cut at each durable effect. `pc` names where it
stands: `boot` before ExecutionStarted, `head` at the checks at the head of the
loop, `start`/`executing`/`failing` in the attempts, `charged` after the
outcome was charged, `commit` before the Checkpointed event, `save` between
that event and the store. Each check of the loop's head is an action, in the
code's order by its guards; each outcome kind is an action. `Abort` is a `?`
or a crash anywhere: it discards the locals and leaves `log` and `store`.
`Redeploy` changes the artifacts between calls, `Cancel` flips the caller's
closure at any moment. Snapshots are their revision, a patch `fits` or is
`rejected`. The refinement mapping (`Contract`) makes the contract's frontier
what the store holds, so the module shows that durable state alone follows the
contract, whatever the locals were doing when they were lost.

**CanisterHost** is the canister with one action per update call, per turn of
the effect loop (`continue_effects_inner`), per reply, reject or trap, and the
upgrade. `engine` is the thread-local ENGINE; `waiting[s]` holds the engine
that `std::mem::take` moved into a suspended future, with the call it belongs
to; `running` is the call being drained, and while there is one no message is
delivered (atomicity of canister messages); `stable` is the persisted snapshot.
The scheduler appears as `Ran`: from a checkpoint to the next stop of a line of
nodes. Nothing checks that the executor knows the node ids of a definition
(`definition.rs:136-152`); a run that reaches an `alien` one is an error
(`RunErrs`; `executor.rs:115,147,207,334`), which leaves what the code had stored by
then: the checkpoints saved on the way (`store`, which is RAM only), and after an
effect the record with the filled cache (`Filled`; `engine.rs:348-351`). The first
record of an id is made by a start that ends; later calls change the one there is.
`Schedule`, `TimerFires` and `Slice` are `auto_continue`: `timers` counts the timers
that are set, the flag `timer` of a record says that one is. History variables record
what was promised or happened: `approved`, `begun`, `ordered`, `failed`.
`CarefulOperator` says whether controllers wait for outstanding calls
(as `stop_canister` makes them) before they load, limit or upgrade, and
`LlmMayTrap` whether the LLM callback may trap.

**ExecutionLog** is the event log of one execution in that host: reports of the
scheduler appended by `merge_step_report`, cut by `truncate_events_if_needed`,
and rebuilt by an upgrade from a map keyed by sequence number. An event carries
the number it got and, as its name, the position in which it was reported, so
that reordering and loss are visible.

**CheckpointFile** is `FilesystemCheckpointStore` at the granularity of the file
system: names refer to files, open files survive renames, a save is
create-or-truncate, write, rename, and may stop anywhere.

**HarnessSession** is the runs of one TypeScript harness session, one after the
other, cut at the awaits at which the application can interfere: resolving the
skills, taking the root, searching and pulling, invoking the adapter, recording.
It composes two modules that have no next-state relation of their own:
**DependencyActivation**, the active and staged packs and the frozen root, and
**LocalExperience**, records, lesson, approval and promotion. A dependency list
is a function from pack to version and stands for its root (SHA-256 of its
canonical encoding is injective for the purpose). `Reject` is anything a run
awaits that throws; the session keeps what it had by then. A release of a pack has the id
its document gives itself (`DocId`) and the skills it holds (`Skills`); packs may
call themselves what others are called and share skills. Hits are skipped by name
against those ids (`Here`; `acquire.ts:75`), and what was acquired is indexed by
the next run first come, first kept (`TryAdd`; `catalog.ts:54-55`). Pulls of the
application land at any state (`PullPack`), approvals too. `PullsAnytime` says
whether a pull may land in the one await where the code loses it.

**PackRegistry** is the registry clients for one pack, its versions and the
contents they may have: `HttpPackRegistry` over a hub, `MemoryPackRegistry`, the
cache both fill and the offline view of it. A call is cut at its awaits: sending
a request and being served (`Ask`, `Serve`), the answer being taken in
(`Receive`), the bytes fetched (`Fetch`) and their digest computed (`Keep`); the
`Memory...` actions are the same for the registry in memory. The hub publishes,
yanks and may hold bytes that are not those of the manifest (`HubPublish`,
`Fetch`). The memory registry's `add` is given a digest and bytes that it does not
compare (`MemoryAdd`), and the cache given to a client may be one that another
registry fills (`CacheAdd`; `options.cache`). The offline view is over either kind
(`OfflinePull`): `offline.ts:15` builds it for any registry with a remote origin. `PullHit` is acquisition, which pulls what a search found;
`PullHeld` pulls a manifest resolved earlier; `PublishLearned` is
`publishLearnedSkill`. Bytes are named by their digest, so comparing digests is
comparing names. `added` are the digests whose bytes were last set by an `add`. A call carries,
as history, what the cache knew when it began
(`since`, `dead`) and the digest of the hit it follows (`hit`).

**HarnessPipeline** is one run of a session from the indexing of its packs to its
score, and composes three modules that have no next-state relation of their own.
**SkillIndex** is `CapabilityIndex`, the intersection of grants and the local
resolver; **ContextPlan** is `compileContext`, with one turn of `markRequired`
and of `applyBudget` as an operator each; **Evaluation** is `evaluateInvocation`,
`isUsefulExperience`, the score and its comparison with a baseline. A text is the
set of its words: that one text includes another is that its words do, and its
length is their number; `source` is the words of an item's ids, in which requirements
are looked for as well (`Hay`; `compiler.ts:101`). `semanticRerank` may return any
documents of a set (`Rerankings`): fewer than it was given, others, or the same ones
no longer required. The hook between compilation and invocation may replace
the envelope (`Hook`) and is refused what it may not change.

**AdapterRuns** is the attempts of a run over an adapter of each kind. It composes
**AdapterInvocation** (asking, aborting, and normalising what came:
`normalizeInvocation`), **ChildProcess** (`processAgent` and `nodeSpawn`: the
child, its timer and the promise; the child of an attempt lives on when its timer
has fired), **IcpExecution** (`icpAgent` and the execution it starts in a
canister, whose replies may be lost), **PortableEngine** (`nativeKnoloAgent` over
the TypeScript engine, node by node, with `recordReplayTrace` and
`replayDeterministic` under the same or edited handlers) and **ToolBridge**
(`toolAwareAgent` and the MCP bridge: tool calls that overlap, end late, or fail
in a hook). What an agent gives (`Forms`) may list tool calls of its own; the bridge
puts its list after that one (`tool.ts:52`). A `start_execution` or `resume` of the
canister may be refused. A resumed native run has no signal to abort it
(`native.ts:33`). The codes of MCP replies are left out.

**SchedulerProofs**, **CanisterProofs**, **ExecutionLogProofs**, **CheckpointProofs**,
**HarnessProofs**, **RegistryProofs**, **PipelineProofs** and **AdapterProofs** hold
the theorems of section 5, each about the module (or composition) it is named after.

**MCScheduler**, **MCCanisterHost**, **MCHarness**, **MCRegistry**, **MCPipeline**
and **MCAdapters** give the constants their values for TLC.
Definitions whose comment starts with "Fault:" are slips that could be made in
the definition after them. They are not used by the specifications; they serve
to show that each property can fail (`mutants` of `PROJECT.json`).

## 3. The runs

| run | question | bounds, and why they are enough |
|---|---|---|
| `scheduler` | through any crash, error, cancellation, redeployment and resume, do log, store and report agree, stay within limits, and implement RunContract; does every call return | 3 nodes with a bounded cycle and a node without `continue`, each limit reached and exceeded (3 steps, 2 tokens, 2 cost, 2 time), 1 retry, 2 calls: a run or resume that dies and one that continues it. About 600,000 states |
| `replay_after_resume` (violation) | is the log of an execution that only suspends and resumes contiguous | the same instance, nothing fails |
| `canister` | two executions, controllers that wait: one engine, durability, nothing acknowledged lost, upgrades keep runs | both built-in graphs with all three effects and the human gate and one that runs into an unknown node past its effects, `auto_continue`, capacity 1 or 2, 5 user calls, 2 await slots, two loads and two upgrades (an upgrade between two loads and one after); symmetric in the two executions. About 1,040,000 states |
| `unsupervised` | controllers that interfere, callbacks that trap and runs that fail: human gate, step slices, drains end | the same graphs and one that fails past the human gate, 1 execution, 3 calls (a start whose drain fails, a `step` into a slice, and one more), timers of `auto_continue`, 2 loads, 1 upgrade, no symmetry (liveness) |
| `upgrade_records` (violation) | do handoff records and the budget survive an upgrade | one graph |
| `event_log` | up to an upgrade, is the log the newest events in order; is the outcome always kept | 4 reports of up to 2 passed nodes, cap 9 (a report has up to 9 events, so the cap cuts within and across reports), 2 reloads |
| `event_reload` (violation) | does an upgrade keep all events | cap out of the way, 1 reload |
| `checkpoint_file` | what can loads observe while a saver saves, fails and dies | 1 saver, 4 saves, 2 readers, 4 files: a leftover temporary, the current file and one held by each reader |
| `harness` | are the packs of a run fixed and its skills backed, is no pull forgotten, is what is learned earned; does every run end | 3 runs (acquire, activate, learn or fail), 2 hub packs that cover overlapping needs, one of which calls itself something else, and whose releases share skills; a pull budget of 1, 2 releases of every pack and one pinned by the lockfile, 1 retry, promotion after 2 useful runs of the 2 records retained. About 1,145,000 states |
| `registry` | two callers of one client, of a hub or in memory: are bytes those of the manifest, do pins and yanks hold, is what acquisition stages what it judged | 2 versions, 2 contents, the lockfile pins one; 2 callers and 4 calls: a resolve, a yank and two pulls that cross, or a search, a new publication and the pull that follows, or an `add` of other bytes and the offline view of them; symmetric in the callers. About 1,936,000 states |
| `pipeline` | which skills and texts reach the agent, and do the verdicts agree | 3 tasks that pin, need, forbid and bound tokens; own, acquired and learned packs of which two clash and one is ambiguous; no grant, one, one within another, and two that allow different things; 3 documents, one of which meets a requirement by its source alone, two rerankings, one of which returns nothing and one other documents, and a memory, against a budget that two texts overflow; results of every status with and without the prohibited call. About 5,712,000 states |
| `adapters` | is every attempt answered, and is the answer true to what was driven | 2 attempts, so that what the first left behind meets the second; a timed child or not; every outcome of the canister; programs that end a two-node cycle in each way, with fitting and unfitting patches and each limit exceeded; 2 tool calls of a served, a prohibited and an absent tool, by agents that list none themselves or two, one of them prohibited. About 484,000 states |

The runs that stop (`CHECK_DEADLOCK FALSE`): calls, saves and upgrades are
bounded in every instance, and an execution may be over.

The violations are disagreements with the repository's own statements; each is
a finding in `PROJECT.json` with the quotation.

- After a resume the scheduler numbers events from the checkpoint's cursor,
  while the events of the suspended node already follow it in the sink: replay
  rejects the log of every execution that was suspended and resumed.
- `restore_from_stable` loads the definition after it restored budget and
  handoffs, and loading clears both.
- `merge_step_report` moves some numbers past the end and not others; they
  collide later, and the stable map, keyed by number, drops one of each pair.

Statements met that no run is spent on, because each follows from a line or two:

- Limits set during another call's await are overwritten by the engine that call
  puts back (`lib.rs:517`), while `adr-001` (lines 30-33) counts the limits among
  what is durable. `LimitsKept` says when they are kept. A call that sets some of
  the limits gives the others their defaults.
- `step(id, n)` loses its budget at the first effect: `engine.rs:353` resumes
  without one, while `icp-cost-guide.md:39-41` bounds a step by it.
- A pull that lands while `freeze` awaits the root (`activation.ts:47`) is added
  to the active packs, which `freeze` then overwrites: neither this run nor the
  next has the pack, while `CHANGELOG.md:88-89` has it staged. `PacksKept` is
  therefore checked, and proved, for pulls at every other moment.
- README.md:156 says of `suspend` "checkpoint first", and the scheduler saves none
  for the suspending node (`AtMostOneUncommittedStep` bounds what that loses).
  `definition.rs:36` documents `max_effect_rounds` as a limit per call, and nothing
  compares it.
- The offline view (`offline.ts:27`) serves a cached manifest that is yanked or not
  the pinned one, where `CHANGELOG.md:85` calls offline mode "pinned cache only"
  and the HTTP client's own `offline` option refuses both. Nor does it hash the bytes
  (`offline.ts:46-48`): what `add` was given (`fake.ts:47-55`) is served as it is, until
  a pull that is not offline has verified it. `BytesVerified` allows these bytes only.
- `icp-cost-guide.md:37-44` and `adr-001` (lines 27-28) have `step` yield step slices,
  and `auto_continue` continue them by timers. `step` re-enters at the node that
  suspended, which suspends again, and what follows an effect is resumed without a
  budget: a slice arises only when an effect was cached and its resume then failed
  (`SlicedAfterFailure`). Until the next success, `continue_effects` of such an
  execution calls the effect again (`lib.rs:475`).
- An upgrade drops the timers of the canister, while `timer_scheduled` is restored as
  true: no timer is set for that execution again before a report clears the flag. A
  timer that fires while another call awaits meets the default engine and is lost in
  the same way.
- A document whose id is not the name its pack has in the registry is not found by
  `acquire.ts:75`, and two releases of such a pack can be staged: the root then has the
  last (`root.ts:17-20`), the index the first (`catalog.ts:54-55`). The model reaches
  this; `SelectedBacked` is of the documents that go by their pack's name, as those of
  `buildCapabilityPack` do, whatever the others call themselves.
- The TypeScript engine's `resume` compares the graph's hash only and begins
  visits and cost anew, against README.md:325 and README.md:318.
- The comment at `budget.ts:36-39` puts other evidence before constraints;
  `compiler.ts:54` passes constraints first, and the model follows the call.

What the models showed and a caller should know: `isRedundant` drops a required
text that includes a shorter one already selected, and looks at the text alone, so an
item that meets a requirement by its ids (`compiler.ts:101`) can be dropped for a text
that does not meet it; `semanticRerank` may drop required evidence or make it optional
(`RequiredReaches` says how far either goes);
`isUsefulExperience` does not read `evaluation.passed` (`VerdictsAgree` holds
nevertheless, in the direction it states); acquisition authorises with the
parent's grant alone, and its index lacks the promoted pack; `toolReceipts` is one
variable for all attempts of a run, so a call that ends late is received for the
attempt that is on then (`ToolsTold` allows receipts of earlier attempts); a tool
whose after-hook throws has run and is no receipt; calls over the MCP bridge are
not recorded; what an agent lists as its tool calls is believed, so that a tool which
never ran is told, and one twice when the agent lists a call that it made through the
bridge, as the adapters under `examples/adapters` list the calls they make; a retry may run while the child of the attempt that timed out still
does; a fixed `executionId` fails on the second run of an `icpAgent`; a replay
compares events and snapshots, not the result, the tokens or the cost; the events
of a resumed run start after the cursor and are rejected by the replay.

## 4. Fairness

`Scheduler!FairSpec` assumes weak fairness of the loop as a whole: it runs on
the caller's thread and an executor returns. It does not assume that a call
succeeds, is resumed or is not aborted. `CanisterHost!FairSpec` assumes that a
message that has begun executes to its end (`DrainStep`) and that every
inter-canister request is answered or rejected (`Settle`, `PeerAnswers`), which
the platform guarantees. No user call, controller action or timer is fair.
`HarnessSession!Spec` assumes that what a run awaits answers or throws
(`RunStep`), and that the hash of a promoted skill is computed (`Push`); no pull,
approval or new run is fair. `AdapterRuns!Spec` assumes that a timer that is set
fires or is cleared, as the event loop has it; nothing is assumed of the child,
which may ignore its signal and never end, nor of any service.

## 5. What is proved

Every safety invariant and action property that a passing run checks is a theorem,
for all values of the constants that the modules' ASSUMEs allow; they say no more
than that graphs, limits and bounds are what the code's types admit. Each argument
is an inductive invariant, given below with the reason it is needed.

*Scheduler* (`GraphAssumption`, `LimitsAssumption`). `TypeCorrect` (TypeOK),
`BudgetsAlwaysHeld`, `OneStepAtRisk` (AtMostOneUncommittedStep), `LogHasNoGaps`,
`CheckpointAlwaysExplained`, `CyclesAlwaysBounded`, and
`SchedulerImplementsContract`, the refinement.
Neither budgets nor the log are inductive by themselves, since what a call may
still commit depends on where it stands. The invariant is in layers:
`IInv` adds to the types that the outcome in hand is one the current node can
have (`OutcomeOK`), where the locals stand relative to the last checkpoint
(`Position`: equal at `head`, one step ahead between the charge and the save)
and `BudgetsHeld`; `LogInv` adds which event the log ends with at `save`, that
the patch of the current revision is in it, and that the sequence number of a
live call is never past the log's last. `CountInv` counts the starts of a node in
the log against what the calls may have spent on it (`Allowed`): all of it for a
call that is over, the visits times the tries for the one that is on, less the
tries its current attempt has left. Refinement follows from `Position`: only
Start, Save and the returns move the contract's variables, every other step is a
stutter.

*Canister* (`HostAssumption`). `HostTypes`, `SlicesFollowFailures` (SlicedAfterFailure), `DurableAtRest` and the
action property `UpgradeKeeps`, for any controllers; `EngineIsOne`, `RunsAreKept` and
`LimitsAreKept` under `CarefulOperator`, since a load, a limit or an upgrade during
another call's await breaks them (section 3); `GateHolds` under
`CarefulOperator \/ OneExecutor`, where `OneExecutor` says that a graph with the human
gate has no effects: a definition names one implementation, which runs all its nodes,
and of those that exist one has the gate and another the effects
(`executor.rs:70-75`). A load forgets who approved what, and an engine that a reply
brings back does not, so without either the property would ask the wrong run.
`Types` carries what the properties rest on: record and saved checkpoint are at nodes
of the loaded graph, which has what the execution waits for, and a drain that awaits a
reply awaits that effect. `SlicesExplained` is the argument about slices: every
execution of every engine, at hand, awaited or stored, either failed past an effect or
is `Clean`: it waits for the effect of the node it re-enters at, whose result its cache
lacks, or at the gate, and is no slice. A step from a clean execution stops where it
began, and a resume at the next stop, which is clean again. `GateHeld` says that what
is past the gate of a graph, in record or store, was approved.
`RunsHeld` says where what was acknowledged is: with the engine, or with the one
call that awaits a reply, and comes back with it.

*Event log* (`LogAssumption`). `LogIsNewest` and `OutcomeIsKept`. The first needs the
log to be exactly the newest events (`Newest`), and that appending and cutting the
oldest commute with it. The second needs more than that the outcome is in the log: no
event after it has its number (`Outcome`), so that it is the one the map keeps. What an
upgrade reads back is the value of the i-th number, and that there is one for every i
is a lemma (`PlaceTaken`), from the well-foundedness of the naturals.

*Checkpoint store*. `LoadsNeverPartial` and `LoadsAlwaysFresh` under `OneSaver`,
which the scheduler's `&mut` store justifies: the saver alone refers to the
temporary file, the checkpoint is the last one saved, and a reader holds a file
that nobody writes.

*Harness* (`VersionAssumption`, `SessionAssumption`, `ExperienceAssumption`).
`ActiveAlwaysFixed` and `SelectedAlwaysBacked`, for pulls that land anywhere, and
`PulledPacksKept`, for pulls that do not land while `freeze` awaits, the one place
where the code loses them (section 3). `PackInv` says why: an unfrozen set has
nothing staged, hub packs are pulled only by the run itself after the freeze, and
an acquired release whose document goes by the pack's name is the last that was pulled
of it (`Last`): once it is here its name is, and no other release is pulled.
`SessionTypes` (TypeOK) needs that a run in progress may still be recorded once
(`CountersHeld`).
`PromotionAlwaysEarned`: the useful records that are retained never exceed the useful
runs (`RetainedUsefulness`, an injection of the retained into all), the lesson never
exceeds them either, and approvals are never withdrawn.

*Registry* (`RegistryAssumption`). `BytesAreVerified`, `PinIsKept`,
`YankedIsNotServed` and `HitIsStaged`, and the action property `YankIsRemembered`,
for any number of callers, versions and contents. An answer is given several
awaits after the checks it rests on, and meanwhile other callers publish, yank and
fill the cache, so the properties are made inductive by what each call may have in
hand at each await. `BlobsTrue`: the cache holds verified bytes, or those `add` was given for the digest.
`PinAsked`: what is being fetched is not against the pin. `DeadStopped`: a pull of
what was known to be yanked ends before it has bytes. `HitsFollowed`: a pull that
follows a search has the digest of the hit, unless the version was published anew.
`YanksTrue` and `SinceTrue`: a manifest that says a version is yanked is right, or
the version was published anew; and what a call knew as yanked is still gone, and
its answer says so. Together with the types they are `RegistryInv`.

*Pipeline* (`PipelineAssumption`: texts are sets of words of a finite vocabulary, the
learned skill is one skill, a task has a criterion, which `harness/task.ts` validates).
`OwnSkillsAreKept`, `AuthorityIsNarrow`, `RequiredAreReached`, `BudgetIsFilled`,
`VerdictsDoAgree`, for any packs, grants, texts and budget. `OneSkillEach` keeps an id
one skill over the index, the merge and what was learned. `AuthorityInv` follows a
skill text from resolution to the context. `RequiredInv` says that each requirement is
carried by an item somewhere between the sources and the context until the compilation
is over, unless a reranking took it away, and that what was dropped meanwhile was for a
text that stays selected; `BudgetInv` that what was dropped for the budget still does not fit after
every later turn: the budget used only grows. The verdicts are a matter of arithmetic
over the counts of criteria.

*Adapters* (`ToolAssumption`: finitely many calls; an agent lists tools). `IcpDoesAgree`, the action
property `ToolsAreTold`, and `ReplayIsFaithful`. `IcpInv` says what a report on its way
is about. For the tools, `ListsTell` bounds what a list tells of a tool, on both sides,
by the calls whose stage has pushed to it: a step moves one call and adds one entry, or
neither counts; what is told is then the agent's list and the bridge's, entry for entry
(`InConcat`). For the replay, `EngineInv` relates the replayed run to the recorded one: while no divergence
was possible they go along one path of the same deterministic steps (`Path`, `Along`),
so that the recorded end is reached. Paths are functions on 1..n and are extended by one
step at a time, which needs no induction over their length.

While proving, three things in the models were put right. Arms of a CASE that overlap
leave its value open in TLA+, while the code takes the first that applies: they
are disjoint now in ContextPlan and PortableEngine. The assumptions on the
constants of the pipeline and of the tools are stated. And the reload of the event log
is written as what it is, one value per number in the order of the numbers, in place of
a filter and a sort defined by recursion.

Only model-checked: the liveness properties `EveryCallReturns`, `DrainsEnd`, `RunsEnd`
and `ProcessAnswers`, since the provers reason neither about fairness nor ENABLED. The
provers cannot instantiate the library's induction theorems; where an argument needed
induction it is made with a least element, a path or an injection instead.

## 6. Plan

What is left, in this order:

1. *Proofs*: every safety property of the runs is proved. Left is a refinement: an
   abstract specification of the canister's executions (begun, suspended, approved,
   over, never lost) that CanisterHost implements under `CarefulOperator`.
2. *Tool gate and budget ledger* (`host/mod.rs`, `policy/mod.rs`): reserve,
   execute, charge and audit, with failing tools, packs and audit sinks; the
   abstract ledger it implements.
3. *Pure operators in Rust*, each against a reference definition over bounded
   inputs: graph validation, state patches and reducers, handoff narrowing.
4. *WASM bridge and engine*: sessions, tool callbacks and resumption, where a
   cancelled report has neither state nor events.
5. *Overlapping runs of a session*, which nothing in the code forbids.

To keep the checks affordable there is one run per question. New modules of the
plan share runs with the ones they compose with: the tool gate with `adapters`,
the bridge with `scheduler`.

## 7. What is not modelled, and why

- HarnessSession sees of compilation, evaluation and hooks that they answer or
  throw; what they make is HarnessPipeline, for one run. Recovery events, receipts
  and observation are reports.
- Runs of one session that overlap.
- A skill resolver of the application's own (`passthrough` skills are not checked
  against the authority at all), and the ranking of search hits. HarnessSession's index
  is of acquired packs; the application's own skills and packs, and the entries that
  selected skills add to the root themselves (`session.ts:346-353`), are left out there.
- More than one pack in the registry: packs share the cache under different keys.
- `observe` mode, HITL types and the WASM engine; the ICP client's methods that no
  adapter uses, each one canister call.
- The builder, whose validation is one pass over a value, and the contracts.
- The tool gate of a Rust host (`host/mod.rs`), the graph compiler, the reducers
  and handoff narrowing: planned in section 6.
- Hashing, canonical encodings, JSON and CBOR, pack parsing, Candid types:
  conversions of values with no effect on control beyond accept or reject.
- Authority, cycles and size refusals of the canister: a refused call changes
  nothing. `knowledge_agent_id` and the query calls likewise.
- A start that runs into a node the executor does not know: it leaves no record.
- Power loss and the durability of a rename: a matter of the file system.
- The services behind ports (LLM, knowledge canister, peers, tools): their
  answers are nondeterministic.
- The codes of MCP replies, and requests of it other than for a tool, which run nothing.
- Errors of the canister's executors other than an unknown node, which is the one the
  built-in executors have.
