# Verification of Dao Browser: agent control, conversation and release

Dao Browser is a desktop browser built on Chromium in which programs drive
pages on the user's behalf: Dao Agent (the built-in chat agent), external agents
that connect over MCP, and both of them in *Agent Spaces*, background task
windows of their own. This directory models three parts of it:

* the *control plane*, which decides **who controls what**: which agent controls
  which tab or task, when the user has consented, when control ends, and what happens
  to the calls that were running or waiting at that moment;
* the *conversation* of Dao Agent: turns between the sidebar's page and the browser,
  the runs of the model, and what is shown, saved and compacted around them;
* the *release* of the desktop browser, a command that changes files, publishes and
  tags, or puts back what it changed.

Everything is plain TLA+, model-checked with TLC on small instances and proved with
TLAPS for every value of the constants.

Paths below are relative to `src/` of the repository; `browser/` stands for
`src/dao/browser/`.

Contents: [1 Inventory](#1-inventory) · [2 Hard behaviours](#2-what-is-hard-here)
· [3 Modules](#3-modules-and-code) · [4 Runs](#4-runs) · [5 Fairness](#5-fairness)
· [6 Proofs](#6-proofs) · [7 Disagreements found](#7-where-code-and-documents-disagree)
· [8 Not modelled](#8-abstractions-and-what-is-left-out) · [9 Plan](#9-plan)

## 1 Inventory

| Component | State it keeps | Operations | Correct when |
|---|---|---|---|
| **Lease manager** `browser/automation/dao_agent_lease_manager.*` | per profile, a table target → (owner, lease id) and the next id; move-only `DaoAgentLease` handles in its clients | `TryAcquire`, `Release`, move assignment, `Reset`, destruction with the profile | one controller per tab, also against a lease on the whole browser; every entry can be released by the handle that owns it and by no other |
| **MCP service, pages** `browser/mcp/dao_mcp_service.cc` | per connection: hello, approval state, target contexts with their leases, page request and its candidates, pending, active and running calls, retry and approval timers | hello and eviction, tools/call, tools/cancel, approval and page-picker answers and timeouts, lease retry, completion, revocation, stop, disconnect, tab invalidation | control per tab is exclusive, what is granted is what the user saw, every call is answered once, nothing is stranded |
| **MCP service, space calls** same file, 2044–2388 | pending space approvals, one-hour grants, remembered clients, yolo mode | approval, timeout, dispatch, cancellation | a space call runs only under a grant that holds when it runs |
| **MCP service, skill calls** 1800–2042 | one pending approval or save per call | approve, save, time out | one answer per call |
| **MCP listener and transport** `dao_mcp_service.cc` 965–1103, `dao_mcp_transport.cc`, `dao_mcp_connection.cc` | runtime generation, sockets, request and byte budgets | start, stop, accept, read, acknowledge, drain | a stale preparation opens nothing; budgets never under- or overflow |
| **MCP helper** `browser/mcp/helper/` | pending map, browser socket | stdin request, browser answer, reconnect | every request answered once, over reconnects |
| **Agent Spaces** `browser/agent_space/dao_agent_space_service.cc`, `dao_agent_space.cc` | per space: state, handoff reason, tab lock, deferred hide, pending dialog, permission prompt; service-wide: running calls, help requests, closed records and their saved history | create, execute, cancel, ask for help, finish, stop, take over, hand back, hide, dismiss, idle check, restart | the agent works only where it has control, nothing of it survives a takeover or an end, records survive restarts |
| **Space tabs** `dao_agent_space.cc` | tabs the agent opened, tabs claimed from the user, popups | open, claim, close, limit of eight | the agent never touches a tab of the user it did not claim |
| **Script runs** `dao_agent_script_run.*` | outstanding calls, call count, deadline; in the hidden page: pending calls, stopped flag, report | start, set up, call, answer, report, deadline, cancel, page crash, delete | the caller is answered and the run goes, no late call survives it, stopped output is dropped, the limit holds |
| **Tool executor** `browser/automation/dao_browser_tool_executor.cc` | pending requests with deadlines, flags for shutting down and cancelling | execute, cancel, cancel all, deadline, complete | every accepted call completes exactly once |
| **Jev tasks** `dao_jev_task.cc` | steps, unchanged and stale counters, one child call | observe, decide, act | bounded, finishes once |
| **Dao Agent sidebar** `browser/ui/webui/dao_agent_ui.cc` | turn: active id, pending begin, lease, session, snapshots awaited | begin, cancel and end of a turn, loss of the page, tool calls | no turn or lease is left without a page that has it; what is late of one turn does not touch the next |
| **Dao Agent chat** `browser/ui/webui/resources/agent/dao_chat_view.ts`, `dao_compact.ts`, `agent_bridge.ts`, `dao_chat_history_panel.ts` | the page's turn, the run, the messages shown, session id, compaction and its controller; records in IndexedDB | send, retry, edit, stop, new chat, load, resume, delete, rewind, compact, prompt of the command bar, reload | a run is inside a turn the browser has, every turn ends, what is shown is saved, an aborted run or a late summary changes no other conversation |
| **Dream service** `browser/agent/dao_dream_service.cc` | scheduler epoch, active request, attempts | tick, storage replies, timeout, result | one run at a time, at most three attempts a night, one result persisted |
| **Memory, skills, workspace** `browser/agent/` | SQLite and files on one background sequence | read, write, patch, quota | sequential |
| **Proactive engine** `dao_agent_proactive_engine.cc` | navigation generation, dwell timer, shown scenarios | navigate, dwell, score | never a suggestion for an earlier page |
| **Home projects** `browser/home/` | drafts, revisions on disk, connector grants, bootstrap transaction | draft, publish, roll back, import | disk, versions and grants agree, over failures of each step |
| **Updater** `browser/updater/` | update state, cached installer, hand-off | check, download, verify, apply, exit | an installer is told to go ahead only when the browser exits |
| **Import** `browser/import/` | categories with phases | run, progress, cancel | one category at a time, cancel at a batch boundary |
| **Foreground activity** `browser/activity/` | open segment, pending deltas | focus, suspend, checkpoint | time counted once |
| **Split view, sidebar, command bar, PiP, Little Dao, approval dialog** `browser/ui/`, `browser/pip/` | view trees, lists in preferences | synchronous UI commands | layout |
| **Release pipeline** `scripts/commands/release.ts`, `release-transaction.ts`, `scripts/windows-update.ts` | managed files as they were and as the run wrote them, the tag it made, artifacts in `dist/` and in public, the abort signal | preflight, bump, build, upload, metadata, tag, commit, rollback, retry | the maintainer's edits and tags are never overwritten, a failure restores, a success is whole, what is public is never rebuilt |
| **Web search (TypeScript), CLI, QR, telemetry, performance, legacy extensions** | – | – | – |
| **Android, iOS, website, build scripts, vendored code, Chromium patches** | – | – | – |

How they interact:

* Everything in the control plane runs on the **UI thread**; handlers run to
  completion. Concurrency is the order of handlers: socket messages, dialog
  answers, timers, posted tasks, tab-strip and navigation notifications, the user.
  Sockets live on the IO thread and files on background sequences, and reach the UI
  thread as messages.
* `DaoMcpService` and the sidebar both take tab control from the
  **lease manager**; that table is the only thing that keeps them apart.
* `DaoMcpService` runs page calls on per-context **executors**, and hands space calls to
  `DaoAgentSpaceService`, which has an executor per space. The sidebar calls both.
* An executor promises one completion per accepted call, at its deadline at the
  latest; cancelling completes synchronously.
* A script run is a client of `DaoAgentSpaceService` inside it: calls and the report
  come from its page as DevTools events, in order; it executes each call through
  `ExecuteTool`, sends the answer back as an evaluation in the page, and cancels with
  `CancelTool`. A stop of the space reaches it only as the answer of a call.
* The chat's page and the sidebar's handler talk through `callNative`: messages to the
  browser arrive in order, an answer that is late meets nobody, and giving up a begin
  sends a cancel after it. The page itself is single-threaded; whatever awaits the
  browser, the model or IndexedDB resumes in an order nobody chose.
* The release shares the checkout, the tag and the public bucket with its maintainer
  and with its own earlier runs.
* The approval dialog is a queue in the UI: it calls back with an answer, later,
  if it is not cancelled first.
* `DaoAgentSpaceService` keeps its records in a preference and reads them when the
  browser starts.

## 2 What is hard here

`PROJECT.json` lists each hazard at its line with the properties that watch it.
The kinds that matter:

* **Consent and its subject drift apart.** A dialog is open for minutes; the page
  behind it navigates, closes or is revoked (`ConsentIsForThePageShown`,
  `NoRegrantByPicker`).
* **Control is taken away under running work.** Takeover, permission prompt, dialog,
  tab closing, revocation, lease loss, disconnect: each must stop calls already
  running *and* those parked for something (`DrivesOnlyLeasedTabs`,
  `ImplementsTaskControl`, `PromptStopsCalls`, `DialogStopsCalls`).
* **Several want one tab.** Approval, retry, picker, auto approval and `open_tab` each
  check and then lease, for clients and Dao Agent alike (`ImplementsTabControl`).
* **One call, many ends.** Answer, timeout, cancel, revoke, evict, disconnect and
  restart race for the same call (`EveryCallAccounted`, `EndingAnswersCalls`,
  `HelpIsAnswerable`, `CallsEnd`).
* **Messages that cross.** A stop on its way to a script while its report is on its
  way back; calls that arrive between the end of a run and its posted deletion
  (`StopDropsOutput`, `LateCallsEnd`); a begin the page gave up and the browser
  answers, a snapshot or an end of a turn before last (`TurnsAgree`, `RunHasItsTurn`,
  `ImplementsAgentTurn`, `TurnsEnd`).
* **Awaits in the page.** Between a check and its use stand seconds of a model or a
  database, and another conversation (`LeftRunsStayOut`, `CompactionKeepsMessages`,
  `ShownIsSaved`).
* **Stale handles, ids and timers.** Moved leases, prompts for old questions,
  retries after the deadline, a hide deferred past the end of its space
  (`NoStolenLease`, `PromptsAreCurrent`, `QueueIsWatched`, `ControlIsConsistent`).
* **Limits.** Admission with eviction, open spaces, kept records (`AdmissionBound`,
  `EvictionSparesWork`, `Bounded`), calls of a script (`BudgetKept`, a theorem).
* **Restart.** Records, and only records, come back (`HistoryIsTheRecord`,
  `EndsForGood`).
* **Undoing half of something** while others work on the same files, tag and bucket,
  and while the undoing fails too (`EditsSurvive`, `FailureRestores`, `TagsAreKept`,
  `CommitIsWhole`, `PublicBytesAreKept`, `ReleaseEnds`).

Hazards met and not covered, besides those `PROJECT.json` notes: a second hello on an
approved connection (`dao_mcp_service.cc` 1349), status observers that call back
(3261), `save_skill` that goes on after its call was cancelled (1972), stale runtime
files of the listener (984), request budgets decremented from two sides
(`dao_mcp_transport.cc` 323), `CancelAll` of tasks with child calls
(`dao_browser_tool_executor.cc` 263), the budgets of a Jev task (`dao_jev_task.cc`
332), epochs of the Dream scheduler (`dao_dream_service.cc` 414), and the updater's
hand-off against the exit (`dao_windows_updater.cc` 453).

## 3 Modules and code

| Module | Models | Promise it implements |
|---|---|---|
| `TabControl` | abstract: a function from tabs to at most one controller. In `Spec` control is never passed on, in `MovableSpec` a holder may pass all its tabs to another | – |
| `AgentLease` | lease table and handles | `TabControl` with moves (`ImplementsTabControl`) |
| `McpPages` | connections, consent and page calls of `DaoMcpService`, with the turns of Dao Agent | `TabControl` (`ImplementsTabControl`) |
| `TaskControl` | abstract: who controls a task, and what is at work in it | – |
| `AgentSpace` | `DaoAgentSpaceService` and `DaoAgentSpace` | `TaskControl` (`ImplementsTaskControl`) |
| `ScriptRun` | `DaoAgentScriptRun`, its page and the space as it sees it | `TaskControl` (`ImplementsTaskControl`) |
| `AgentTurn` | the protocol of a turn between page and browser | – |
| `AgentChat` | the conversation, with `AgentTurn` inside it | `AgentTurn` (`ImplementsAgentTurn`) |
| `Release` | the combined release, its rollback and its maintainer | – |
| `AgentLease_proofs`, `McpPages_proofs`, `AgentSpace_proofs`, `ScriptRun_proofs`, `AgentTurn_proofs`, `AgentChat_proofs`, `Release_proofs` | theorems | – |
| `Control_proofs` | what the two abstract promises mean for whoever implements them | – |
| `MCAgentLease`, `MCMcpPages`, `MCAgentSpace`, `MCScriptRun`, `MCAgentChat`, `MCRelease` | values of the constants for TLC | – |

A handler is one action, with every call it makes folded in; the definitions are
named after the methods. `PROJECT.json` "map" gives the lines of each. Definitions
called *Mutant* are plausible bugs; each shows that one property notices it, and no
specification uses them.

**AgentLease.** `leases` is the manager's table, `handle` the `DaoAgentLease`
variables in circulation: what `TryAcquire` returned, moved between variables.
`alive` is the profile's manager; after `DestroyManager` handles are inert, as the
weak pointer makes them. `Whole` is the lease on the whole browser, which gets in
the way of every tab and the other way round (`InTheWay`). `Move` releases what the
target variable held and empties the source, as `operator=` does. `reply` is the
error of the last refusal. The callers under `src/dao` take the lease of one tab
(`dao_agent_ui.cc` 834, 1025, 1680; `dao_mcp_service.cc` 2957); the whole-browser
overload is public and only the browser tests call it, so `Whole` covers the
manager's promise rather than a use of it.

**McpPages.** `conn[c]` is a `ConnectionState`, one field per member that control
depends on. `tab` is what each tab shows: a document number that `Navigate` advances,
and whether it is absent, eligible, ineligible or gone. `agent` has the tab Dao
Agent leases and the tab its session drives, which `AgentSwitchTab` moves without
the lease. Operators rewrite a record in the order the methods do
(`RejectConnection`: prompts cancelled, calls answered, contexts dropped, only then
closing), so order matters in the model where it matters in the code. Lease
acquisition is the guard `CanGrant`; `AgentLease` shows that this guard is what the
manager provides. Both modules implement the same `TabControl`, which is where they
meet: `AgentLease` with handles as holders, which can be moved, `McpPages` with
connections and Dao Agent as holders (`Owners`). `Owners(t)` is the *set* of those who
have the tab, so that the mapping is no function of a tab to one holder by construction:
two owners at once are no state of `TabControl`.

**AgentSpace.** `phase[s]` is the state of a space, `unused` before it is created
and `gone` once dismissed. `callState` follows a call: `waiting` is parked for the
first commit (and in no table, as in the code), `active` is in `calls_`, `help` waits
for the user. `dialogs` are the tabs really blocked, `pending` the one the space
remembers; `posted` are the tasks that will cancel the calls behind a dialog. `covered`
is a history variable: the blocked tabs whose dialog a later one displaced from
`pending_dialog_`, which is exactly where `DialogStopsCalls` lets a call run. `Close`
is everything `CloseSpace` does: help answered, calls cancelled, window let go,
records pruned, history saved. `Restart` is a crash or exit at any moment followed by
`LoadHistory`.

**ScriptRun.** `run` is open while `done_` is set, ended once `Finish` took it, and
gone after the posted deletion. `toBrowser` is the page's messages in order, `Report`
the last of the script itself; answers travel the other way (`answered`) and are
`settled` when the page has them. `callState` follows a call through the space:
`active`, `parked` for a first commit, `help`. `report.seen` remembers which answers
the script had when it reported. `missed` is a history variable: the calls at work that
the end of the run could not cancel, because they were parked (in no table of the
service) or because `Finish` passed them over. `control` is who controls the one space: `TakeOver`,
`HandBack`, `StopSpace` and the help call change it as `AgentSpace` does, and both
modules implement the same `TaskControl`, which is where they meet. `Finish` cancels
outstanding calls while it iterates over their set, and a cancellation erases from
that set: undefined behaviour. The model lets it cancel any non-empty part of them
(`Finish`) or end the browser (`FinishCrashes`); every property holds in both.

**AgentTurn.** `phase` is what the page's `agentTurn_` is doing, `begun` the number of
its last turn, which stands for the callback id and the turn id alike. `toBrowser` are
the page's messages in order; `answer` is what the pending `callNative` will get.
`activeTurn`, `pendingBegin` and `lease` are the handler's `active_turn_id_`,
`pending_begin_callback_id_` and `agent_turn_lease_`; `snapshots` are the turns whose
answer waits for a snapshot of Dao Home. `OpenTurn` may open without the lease, as the
code does when another agent controls the tab.

**AgentChat.** `work` is the turn's closure: what it does, how far it is, and the
messages a retry or an edit captured. `run` is pi-agent's run, `discard` the flag
`discardRunOutput_`, `shown` the page's own `isStreaming_`. `messages` are what is shown,
each with an identity and who made it; `records` what IndexedDB has. A save waits
(`saves`) and then writes what is shown *then*, as `saveSession` is given `agent.state`
after its await. `jobs` are compactions that await their summary; `same` is the array
identity `compactAgentMessages` compares. An edit of a running chat waits in `edit` until
the run and its turn are over and then goes on at once, before any other handler
(`EditMayGoOn`: a microtask). `external` is a prompt of the command bar.

**Release.** `original` and `owned` are the transaction's maps; `window` is the file
between the check and the rename of `atomicWrite`. `step` walks through `Steps`, which
is the bump, `plannedReleaseSteps` and the mutations after each phase, in order.
`mine` remembers what the maintainer wrote during the run. `published` and `dist` say
which run built what is public and what lies in `dist/`; `told` is the retry command
with `--skip-build` that the failed run prints. `opts` are the two flags, each given or
not in every run; `local`, a history variable, are the runs started with `--skip-upload`,
which the preflight does not ask about what is public.

## 4 Runs

| Run | Instance | Shows |
|---|---|---|
| `lease` | 3 handles, 2 tabs and the whole browser, ids up to 4; 1.7 k states | releasable, never stolen leases; `TabControl`, exclusive control, is implemented |
| `pages_one` | 1 connection, 2 calls, 2 tabs, 1 navigation each; 680 k states | consent, accounting, queue and prompt properties under every order of prompts, timers, revocations and turns |
| `pages_two` | 2 connections and Dao Agent, 2 tabs (one opened later), 1 call each, fair; 117 k states | `TabControl` is implemented: exclusive control among clients and Dao Agent, never passed on; every call is answered or its connection ends, also when it waits for a tab somebody else holds |
| `pages_evict` | 2 connections, room for 1; 54 k states | eviction keeps the limit and spares the busy |
| `pages_agent` | as small as possible | *violated*: Dao Agent drives a tab an MCP client leases |
| `spaces_one` | 1 space, 3 calls (one `list_tabs`), 2 tabs with dialogs, fair; 190 k states | control, help, prompt, dialog, `TaskControl` and termination |
| `spaces_records` | 3 spaces of two clients, 3 calls, limits 2 open and 1 record; 307 k states | limits, history, and ends that last |
| `spaces_cancelled` | as small as possible | *violated*: see section 7 |
| `script` | one run, 3 calls, a limit of 2, fair; 397 k states | dropped output, late calls ended, `TaskControl`, and that the run always ends |
| `chat` | 2 turns, 3 messages made, 3 session ids, 2 compactions at a time, 1 waiting save, 1 act of the user besides turns, fair; 566 k states | page and browser agree on turns, runs keep theirs, left runs stay out, compaction keeps messages, the history is what is shown, turns end, `AgentTurn` is implemented |
| `chat_prompts` | the same with 1 compaction | *violated*: a prompt of the command bar is dropped |
| `release` | 2 runs, 1 edit of the maintainer (a file, HEAD or the tag), all flags, fair; 1.3 M states | edits and tags survive, failures restore, success is whole, public bytes are kept but for local builds, runs end |

Why the bounds are enough for the question: exclusion needs two clients and one tab
to go wrong, a stale id needs a tab leased twice (`MaxId` 4 lets three leases follow
each other); consent needs one navigation under a dialog (`MaxDoc` 1, and 0 where
consent is not the question); queue and accounting need a call waiting behind
another (two requests); eviction needs a hello beyond the limit. Pruning by age
needs a third space created after the second closed. Three calls with a limit of two let one call be stopped,
one help call interrupt it and one go past the limit. Two tabs let one dialog displace
another and be answered first, with calls before, between and after; `MaxPosted` 2 lets
the second open before the first one's task has run. Requests and generations are used
once, as in the code, which bounds every history. In `chat`, two turns let
one be late for the other, two compactions let one clear the other's controller, and one
act between them is any of: stop, new chat, load, delete, rewind, compact, abort, edit
while streaming, prompt, resume or reload; with two acts and one compaction (2.9 M
states, checked by hand) the properties hold as well. In `release`, two runs are a
failure and its retry, and one edit is what a conflict needs. Deadlock checking is off where the
system may rest: once every request, generation and space of the instance is used
there is nothing left to do but wait for the user.

Symmetry is not used: the refinement and liveness properties would make it unsound,
and numbers order generations and spaces.

## 5 Fairness

Only what has a timer or a posted task behind it is fair, always weakly, and per
call or connection. Nothing the user, a client or a page does is ever assumed.

* `OnApprovalTimeout`, `OnPageTimeout`, `RetryLease`: `base::OneShotTimer`s that run
  while armed (`dao_mcp_service.cc` 2525, 2628, 2812).
* `CompleteCall`, `Complete`: every tool has a deadline in the executor
  (`dao_browser_tool_executor.cc` 172–187, 375).
* `CreateReply`, `Dispatch`: `FirstCommitWaiter` gives up after fifteen seconds and
  then answers by a posted task.
* `OnHelpTimeout`: fourteen minutes (`kHelpTimeout`).
* `Deadline`, `Delete`: the run's `deadline_`, armed in `Start`
  (`dao_agent_script_run.cc` 346), and `DeleteSoon`, which `Finish` posts.

* `TurnBegins` or `TurnFails`, `TurnReturns`: `callNative` has a timeout of its own
  (`agent_bridge.ts` 233).
* `SaveReturns`, `EditIsSaved`, `RunStarts` or `RunFailsToStart`, `RunEnds`: IndexedDB
  answers, and a run ends or fails; both are outside the repository, and `TurnsEnd`
  needs them because `runAgentTurn_` awaits them without a limit.
* `Run` in `Release`: the process goes on unless it is killed, which `Crash` allows.

With the timers alone `CallsEnd` holds in `McpPages` and `AgentSpace`, and `RunsEnd` in
`ScriptRun`: neither a user who ignores a dialog, nor a page that never loads, nor a
script that never returns can keep a call or a run.

## 6 Proofs

The proof modules assume only the named assumptions of the modules they extend
(`LeaseAssumption`, `PagesAssumption`, `SpacesAssumption`, `ScriptAssumption`,
`ChatAssumption`, `ReleaseAssumption`): which constants are numbers, that
the sets of connections, requests and spaces are finite, that the null values are not
elements. There is no bound on handles, clients, tabs, calls or spaces.

**Leases.** The inductive invariant is the conjunction of the safety properties with
`DeadIsEmpty` (a destroyed manager has no table). None is inductive alone: a release
is harmless only because ids are fresh and the handle that owns an id is unique, and
exclusion survives a move only because table and handles agree. Acquire, move and
reset each have a lemma; `ReleasedFacts` is the one fact about release they share.
`LeaseRefinement` then shows each step to be a `TabControl` step: `ControllerIsUnique`
makes the refinement mapping's CHOOSE a function, `Take` needs the guard to see both
the tab and whole-browser entries, and `Move` is a `HandOver`, for which the abstract
promise is `MovableSpec`.

**Control.** What the two abstract specifications mean is proved about them alone and so
holds of every module that implements one. `NobodyIsDisplaced`: a controlled tab goes
to nobody before it goes to another. `TabsMoveTogether`: where handles move, a tab is
passed on only with all the others of its controller. `WorkNeedsTheAgent` and
`OverIsForever`: nothing is at work in a task the agent does not control, and a task that
is over stays over. The promises say the steps; these theorems say what a reader expects
of them, and that no step was stated too loosely to give it.

**Pages.** A handler of the service rewrites one connection in many small steps, and
loops over its calls; the proof follows the code in that. `Sound(w, held)` is what
holds of the connection and its window all along a handler, `held` being the calls
the handler has taken from their place and not yet answered; `Settled` is what holds
when it returns, `Sound` with nothing held and with a timer behind everything that waits
(`Watched`); `Moves` bounds what a handler may change. `IInv` is that every connection
is settled, that their leases are disjoint, and that a tab not yet there is nobody's
(`Unseen`), without which `open_tab` could grant a tab twice. Its conjuncts need one
another: `Drives` (what runs is leased) holds after a retry only because a queue with an
unleased default tab is never dispatched (`Watched`), and that holds only because no
other context lacks its lease. `Accounts` says that each call is at one place, with its
one answer when it has left all of them; `AnswersSettle` is the lemma that answering what
is held restores it, and every refusal and completion goes through it. The loops,
`DispatchPendingCalls` over the queue and `AnswerAll` over connections, are recursive
functions on the number of steps done; induction is by the least number of steps at
which the claim fails (`LeastNumber`), since the induction theorems of the library
take an operator. `DispatchRuns` shows that after as many steps as calls the queue is
empty, and `AnswerRuns` that a connection not yet answered is as it was.
What only takes away (cancel, revocation, reject, completion) shares one lemma,
`ShrinkKeepsInv`; what may grant shares `YieldKeepsInv`, where exclusion between
connections comes from `free`. The action properties follow from `Progress`, the summary
of what any step but a hello does to a connection, and from `HelloStep`;
`AdmissionIsBounded` counts the clients before and after a hello and its eviction.

`PagesRefinement` takes the same lemmas one level up. That `Owners` is one holder or
nobody is `OneController`, which `IInv` gives before *and* after the step
(`StepOfControl` needs both); what is left is that whoever gains a tab found it free and
that nobody's gain is another's loss. Every handler of a
connection, and each end of a turn of Dao Agent, changes the leases of one holder and is a
`Take`; so is a hello, which evicts at most one client and leases nothing itself. A
navigation or a closed tab changes none: the service hears of it in a handler of its own.
Switching on auto approval may serve
several connections in one step and is a `Serve`; it cannot take a lease away, because a
connection that waits for its approval leases nothing yet. Sharper than exclusion in every
state is `TabsAreNotPassedOn`: in no step does a tab go from one agent to another, so
whoever waits for it sees it free. `CallsAreAccounted` covers connections that have ended
too: none of their calls was answered twice.

**Spaces.** `IInv` is

    TypeOK /\ CallsNeedTheAgent /\ HelpIsAnswerable /\ Settled /\ Undisturbed /\ DialogsKnown

with `Settled` = `ControlIsConsistent /\ HistoryIsTheRecord` and `Undisturbed` =
`PromptStopsCalls /\ PendingStopsCalls`, the latter about the one dialog the code
remembers. `DialogsKnown` ties that one to the tabs really blocked: it is the dialog of
every blocked tab no later dialog has displaced. `DialogStopsCalls` follows from the two
(`BlockedTabs`). The parts lean on one another:
`HelpIsAnswerable` needs the phase to be the user's, so that hand back, stop and the
timeout, the three that answer, are the only ways out of it; dialogs and prompts
need a call's space to be running. Each of the six parts has a lemma
*part* `/\ [Next]_vars => part'` with one step for each of the actions; the helpers
the actions are built from (`Close`, `HandOff`, `ReturnToAgent`, `Admit`, `Answered`)
have a lemma each per part, so an action's step is usually one line. `LimitsHold` is
a counting argument: pruning leaves exactly the closed spaces with fewer than
`MaxClosed` newer ones, and the oldest of what is left (`OldestSpace`, by
well-foundedness of the naturals) has all the others newer than itself. `EndingsLast`
and `SpaceRefinement` are action properties that follow: `PhasesMove` says what
any step may do to a phase, and each action is matched with `Begin`, `Work`,
`ToUser`, `ToAgent`, `End` or `Rest` of `TaskControl`. `CallsGoForward` says how a call
moves: answered for good, and at work only out of its wait for a commit; with `CallsEnd`,
which TLC checks, every call is answered and stays so. `OnlyWaitsOutliveCancelling` is the
exact extent of disagreement 2 of section 7: a cancelled call that works all the same was
waiting for a commit when it was cancelled, and no other can.

**Scripts.** `IInv` adds to `TypeOK` and `OutstandingIsAtWork` what the queue and the
page guarantee: nothing happens before `Start` (`Fresh`), every message travels once
and a call in the queue is still only sent (`SentOnce`), the page knows each stop it
was told of (`StopIsKnown`), and a report is made once and does not claim the output
of a stopped script (`ReportIsTrue`). `StopDropsOutput` needs all of them: a report
under way was true of the answers the script had, and those can no longer change.
Three lemmas carry the steps, one for each way the bookkeeping moves: `Answering`
(calls at work are answered), `Arriving` (a call enters, perhaps answering others) and
`Ending` (the run ends and some of its calls with it); they hold for *any* subset
cancelled, which is how the undefined iteration is covered. `LimitHolds` counts:
`ExecutesOne` shows that a step executes at most one call that was not executed before
and then counts it. `AnswersAreFinal` says that the end of a run, a cancellation, the
deadline and the late result of a tool never answer what another of them has answered;
the undefined iteration of `Finish` is among the steps. `LateCallsCancelled` is about
calls and the end of the run over many steps: `Remaining` says that what is at work for an
ended run is in `outstanding`, from which the destructor cancels, or was missed, and that a
deleted run gets no message; it needs `OutstandingIsAtWork` for the moment the run ends,
and that every call that enters is noted, open run or not. `ScriptKeepsControl` goes
through `Mapped`, the five ways control and the calls at work may move together.

**Turns.** The invariant of `AgentTurn` is about messages under way. `Numbers` bounds
every number by the turns begun. `BeginIsNew` says that a begin under way is the page's
last turn and the first message of it, `BeginIsWanted` that the page still waits for it
or that its cancel follows, and `ActiveIsWanted` the same of the turn the browser has;
`OpenIsSafe` and `BeginIsSafe` say that nothing that could abort the page's turn is under
way, and `Rest` is `TurnsAgree` with `OpenTurnIsActive`. `AgentChat` inherits all of it:
`ChatImplementsTurn` matches each of its actions with one of `AgentTurn` or a stutter,
`ChatTurnsAgree` follows through the refinement, and `RunsHaveTheirTurn` needs only that
a run is going exactly while the turn's work is at its run. `LeftRunsAreSilent` needs
that a left run is discarded or no longer where it could add a message;
`CompactionsKeepMessages` that a compaction saw the messages whose array identity it
compares; `HistoryIsWhatIsShown` that where the record is behind, a save waits or the
turn is at a step that ends with one (`WillSave`).

**Release.** `IInv` adds to the types: what the maintainer writes differs from all a
release writes (`EditsAreNew`); an open window is at a file the transaction may write
(`WindowIsOpen`); a file the rollback has looked at without a problem is as it was
or as the maintainer left it (`RollbackRestores`); a tag of this run is the one it
remembers, unless git denied making it (`OwnTagIsKnown`). `PublicBytesStay` and
`CommitsAreWhole` each add an invariant of their own (`NothingPublicYet`: a run that
builds to publish finds nothing public until it uploads; `LocalIsKnown`: one that does
not upload is in `local`, so what it builds is exempt; `BehindTheRun`: what is behind
the current step is written, built and published). Both hold of every mix of flags.
`RunsAreFinite` bounds a run: `Left` counts the steps it may still take (steps of the plan, files of a rollback, artifacts of an upload),
is at most 94, falls with every step of the run and rises only when the maintainer starts
one. It needs `BuiltSoFar`, that a run past its build has the artifacts it uploads; an
upload of one that is missing would change nothing and could repeat for ever. With
`ReleaseEnds` in mind it says that a run can go round in no circle; what is left to TLC is
that it is never stuck.

Every safety and action property of the passing runs is a theorem. Some
theorems state more than a run checks: types, the invariants `Exclusive`, `OneController`,
`CallsNeedTheAgent`, `OutstandingIsAtWork` and `BudgetKept`, and the action properties
`TabsAreNotPassedOn`, `CallsGoForward`, `OnlyWaitsOutliveCancelling`, `AnswersAreFinal` and
`RunsAreFinite`.

Only model-checked: liveness (`CallsEnd`, `RunsEnd`, `TurnsEnd`, `ReleaseEnds`), which
the prover does not reach, fairness and ENABLED being outside it; and the three
disagreements of section 7, which are counterexamples.

## 7 Where code and documents disagree

Each is a run that TLC must find violated; `PROJECT.json` "findings" quotes both
sides.

1. `pages_agent`: `docs/mcp-server.md` promises exclusive control per tab, but Dao
   Agent's `switch_tab` retargets its session without a lease for the new tab.
2. `spaces_cancelled`: a call parked for the first commit is in no table, so
   cancelling it, or ending the turn, misses it and it runs later.
3. `chat_prompts`: `submitExternalPrompt` promises a fresh session and an immediate
   submit (`dao_chat_view.ts` 5333), but `runAgentTurn_` returns at once while a turn, or
   the run it has just aborted, is still there: the chat is cleared and the prompt lost,
   with the home history claim it carried.

Seen while modelling, without a run of its own:

* Agent Spaces. `CloseSpace` prunes records by the age of the space, so a long task that
  finishes after newer ones closed loses its record in the step that finishes it
  (`dao_agent_space_service.cc` 1695; `docs/features.md` 614 says results replace the live
  view), and `OnBrowserClosed` (814) uses the space after that. `pending_dialog_` holds
  one dialog: with dialogs on two tabs the first is forgotten when the second closes,
  still blocking its page (`dao_agent_space.cc` 851, 862), and calls run behind it, which
  `docs/features.md` 607 has fail until it is answered. `DialogStopsCalls` names this case
  (`covered`) and shows that it is the only one; without the exemption `spaces_one` finds
  it in seven steps: two dialogs open, the second is answered, both posted tasks run and
  find none. Help
  requested after the user took over keeps the reason `manual_takeover`, for which the
  sidebar shows no request (`dao_agent_space_service.cc` 1063; comment at
  `dao_agent_space.cc` 728). The model has all three behaviours.
* Release. `docs/development.md` 87 says that preflight blocks rebuilding a public
  candidate so that a retry uses identical bytes; `release.ts` 549 asks only
  runs that upload, so `--skip-upload` after an interrupted upload rebuilds `dist/`.
  `PublicBytesAreKept` names this case (`local`) and shows that it is the only one; without
  the exemption `release` finds it: one artifact is uploaded, the process is killed, and a
  run with `--skip-upload` builds again. A retry with `--skip-build` after
  HEAD moved tags a commit its artifacts were not built from.
* Chat. A retry or an edit puts back messages it captured before `beginAgentTurn` was
  answered, over whatever chat was opened meanwhile; a run started while a load awaits is
  overwritten when it returns; a send whose begin is pending lands in the new chat; a
  save that awaits its metadata while the user starts a new chat writes a stub, which the
  comment at 5310 means to avoid.
* Scripts. `docs/features.md` line 612 says that
  a script's output is dropped if the user takes over or stops the space mid-run. The
  code drops it only if one of the script's *calls* was answered with the stop; a
  takeover while the script sleeps or computes and then returns leaves its output.
  `StopDropsOutput` states what the code ensures.

## 8 Abstractions and what is left out

* *McpPages*: one approved window and profile, in which all tabs are; `tool` names
  reduce to six kinds by what they need (no tab, a new tab, a page request, a page, a
  switch, a close); listing, opening and switching finish at once. The order of
  dialogs in their queue and of idle clients by last activity is left open, which
  admits more behaviours than the code. The approval deadline may have passed or not
  whenever it is read. A second hello, an unauthenticated one and a hello timeout are
  one action, since all end a connection that has nothing. Status observers do not
  call back. Space and skill calls of the same connection are left out.
* *AgentSpace*: space ids are their creation ranks (`space_order_`); one client key
  for each of the two kinds of client; a tool is `list_tabs` or another. Tab
  ownership, limits and arguments are the free choice of an admission that fails.
  Whether a page has committed is a free choice. The idle time may have passed
  whenever it is checked. The preference is durable at once: Chromium's delayed write
  of preferences is outside the repository. Downloads, kept tabs, the event
  list, the cursor and window bounds are left out.
* *ScriptRun*: one run in one space, whose other calls are left out. Tools reduce to
  the ways a call can end (at work, parked, help, finishing the space, at once); a
  refused call is one answer for malformed, nested, unknown and excess calls. The set-up
  commands are one step that succeeds or fails. Answers reach the page in any order,
  which admits more than the code. A report is `ok`, `failed` or `error`; output
  and its size are data.
* *AgentTurn*, *AgentChat*: a message is its identity and its maker (user, agent,
  summary, notice). Titles, metadata and ages are left out: whether a session is stale is
  a free choice, and so is whether the last turn fits a compaction's kept tail. A load
  reads and shows its record in one step, at most one load of the history panel waits at
  a time, a save beyond `MaxSaves` joins one that waits, and opening the database takes
  no time of its own. Storage does not fail. A reload replaces the document at once. Tool
  calls of a run are left out; `RunHasItsTurn` says what they rely on.
* *Release*: one candidate version, both platforms, with the bump; one process at a time,
  which the documents ask for. A build, an upload and a git command are steps that
  succeed or fail, and a tag command may fail after its effect (`stray`). A signal is seen
  where the run awaits. An edit in the window of a rename is lost: the code cannot see
  it, and `EditsSurvive` exempts it. An upload process that outlives its run is left out.
* *Tool executor* and *approval dialog* are used through their promise only.
* Whole components left out, with the reason, are in `PROJECT.json`. In short:
  views and other WebUI are layout and message plumbing; memory, skills and workspace are
  sequential storage; import is file formats; mobile applications share no code.

How much of the source this is: the repository has some 170 000 lines of JavaScript and
TypeScript: half are the vendored uBlock Origin of the Android application, and most of
the rest presentation (sidebar, Dream, home, import and settings views). What decides something there and has state to interleave is the chat, the bridge,
compaction, the history panel and the release scripts; those are modelled. The rest of
the control logic is C++, where the other modules are. A share of the whole cannot be
large without modelling code that is not this project's or has no behaviour to check.

## 9 Plan

Done: the inventory, `AgentLease`, `McpPages`, `AgentSpace`, `ScriptRun`, `AgentTurn`,
`AgentChat`, `Release`, their abstract specifications and the proofs above. Next, most
important first:

1. **ToolExecutor** and **JevTask**: the promise of one completion that McpPages,
   AgentSpace and ScriptRun assume, stated as an abstract `OneAnswer` and implemented;
   tasks and child calls under `CancelAll`.
2. **McpSpaces**: grants with expiry, remembered clients, approval queue and skill
   calls, and that a space call runs only under a grant.
3. **SpaceTabs**: claimed tabs, popups and the tab limit.
4. **McpListener** and **McpHelper**: generations, budgets, reconnects.
5. **HomeStore** (publish with failures and crashes), **WindowsUpdater** (hand-off
   against exit), **DreamScheduler** (epochs), **SplitTree** (a pure algorithm against
   a reference definition).
