# A TLA+ verification of CompText Phone Agent

CompText Phone Agent is a Python program for Termux on Android: it analyses the
phone's storage, plans clean-ups and backups, and changes files only under an
approval a person gave. An agent loop lets a language model propose tool calls,
and an Android app (Kotlin) serves a local model over loopback HTTP.

This directory models the parts of the program that decide what happens to the
user's files, how an agent run and a chat proceed, and how the broker serves
calls; it checks them with TLC on small
instances and proves the central results with TLAPS for every value of the
constants. Paths below are relative to the repository; `pkg/` stands for
`src/comptext_phone_agent/`, `app/` for the Kotlin sources of `android-broker/`.

## 1. The system

| Component | State | Operations | What is hard |
|---|---|---|---|
| Approval engine (`pkg/approvals/`) | tables `plans`, `approvals`, `audit_events`; token files; key file | save_plan, load_plan, approve, verify | verify reads, then updates, in two statements; plans are edited, tokens expire and are passed on; a process dies between two transactions |
| Reversible trash (`pkg/storage/trash.py`) | files, trash directory, table `trash_items`, audit records | move, restore, purge | each changes a file and a row, one after the other; several processes; a stop at any point; one write lock |
| Commands (`pkg/cli.py`, `pkg/agent/executor.py`, `pkg/storage/cleanup.py`) | the command's own variables | cleanup plan / approve / apply, trash restore, trash purge | state read before an approval and used after it; a batch that breaks off |
| Agent loop (`pkg/runtime/loop.py`, `state.py`, `limits.py`, `policy.py`) | run state machine, budget, proposals | run (start, resume) | errors and kills anywhere, a cancel at any time, resumption, what the machine allows |
| Runtime store (`pkg/runtime/store.py`, `events.py`, `signals.py`) | tables `agent_runs`, `agent_events`, `agent_signals`, `tool_executions` | create, update, append, consume, save result | select-then-write by several processes; a hash chain |
| Exclusions and paths (`pkg/storage/exclusions.py`, `pkg/paths.py`) | configuration | evaluate, assert_can_* | a verdict that is stale when used |
| Tool registry, model adapters (`pkg/agent/`, `pkg/runtime/*model.py`) | registered tools | schemas, execute | any answer of the model |
| TUI and chats (`pkg/tui/`, `pkg/agent/terminal_chat.py`, `chat_store.py`, `ollama_chat.py`) | sessions, the active run | run in a worker, new session, cancel | a worker thread beside the user's actions |
| Orchestrator (`pkg/orchestrator/`) | none | route, with a fallback | timeouts and bad answers |
| Scanner, duplicates, digest cache (`pkg/storage/`) | table `file_hash_cache` | get, put, prune | files that change while they are read |
| Backup (`pkg/backup/`) | destination | apply, with retries | a token consumed before an upload that fails |
| Inference broker (`app/inference`, `app/server`, `BrokerService`) | engine, mutex, rate window | infer, load, unload, start, close | timeouts against blocking calls |
| Broker models and tokens (`app/model`, `app/security`) | model files, registry, token | import, regenerate | crash between a file and its registry entry |
| Dashboard, Termux API, reports, doctor | — | read-only | nothing shared |

The command-line program is started anew for every command: concurrency is
between processes that share one SQLite file and one file system. They interact
as follows: a plan is saved; a person types a phrase and an approval is inserted;
the token is written to a file or kept; the executor verifies and consumes it,
then drives the trash, whose rows cite the approval; everything is recorded in
`audit_events`. The agent loop can only *save* a plan (tool `cleanup_plan`); it
never applies one. `PROJECT.json` lists every component with its status, and
every hazard at its line.

**What makes each component correct.** Approvals: what is done is what was
confirmed, once, on record. Trash: rows and files agree, no file is lost,
protected files stay. Commands: nothing beyond the approved plan is done, and
records tell what was done. Agent loop: forbidden tools never run, limits hold,
a run ends in the state it reports, a cancel is heeded. Runtime store: the event
log of a run is one chain, in order and without gaps, whoever writes it. Chats:
what a chat says is kept in its own session, and a cancel stops the run that is
shown. Router: only a tool that was asked for and is allowed runs, and every
answer of the broker is understood. Broker: no inference
uses an engine that is being closed, admission counts are exact, the engine is
unloaded at the end (it is not always: a load that was waiting may outlast it),
the token stored now decides, the rate is bounded in every
window, the registry names only whole models. Backup: what the destination holds
stays, and is whole (but for names that serve as `.part` files, or two processes
use at once). Duplicates: files called equal are equal.

## 2. Modules

| Module | Models |
|---|---|
| `Approvals` | approval engine, with several processes that each run one command at a time |
| `TrashStore` | trash: every rename, unlink, transaction and audit record is a step |
| `FileFate` | abstract: the life of a file (unborn, stored, trashed, purged) |
| `PlanExecution` | the commands; composes `Approvals` (as `A`) and `TrashStore` (as `T`) |
| `AgentRuntime` | one durable run of the agent loop |
| `EventLog` | events and signals of one run, written and read by several invocations at once |
| `ChatSessions` | the sessions and messages that the interface's worker threads and a terminal chat share |
| `ClassicChat` | the older chat with its history file |
| `Routing` | one routing command: router, broker answer, fallback, catalog, policy, tool |
| `BrokerEngine` | HTTP calls, service jobs and `onDestroy` around one engine and two fair mutexes |
| `BrokerAccess` | the token of the broker and its rate window |
| `ModelStore` | imports of models, the registry file, kills between any two steps |
| `Backup` | plan, approve and apply of a backup by several processes, local and through rclone |
| `DigestCache` | digests, their cache and the duplicate search, against files that change |
| `MC*` | the instances TLC checks |
| `Subsequences` | the elements of a sequence that are in a set (`Among`), as a recursive function |
| `Approvals_proofs`, `TrashStore_proofs`, `PlanExecution_proofs`, `AgentRuntime_proofs` | theorems about the module they are named after |
| `Broker_proofs` | theorems about `BrokerEngine`, `BrokerAccess`, `ModelStore` and `Routing` |
| `Sessions_proofs` | theorems about `EventLog`, `ChatSessions` and `ClassicChat` |
| `Storage_proofs` | theorems about `Backup` and `DigestCache` |
| `Lemmas` | what those proofs share: induction about sets of naturals and of sequences, least elements, sums over finite sets, `Among` |

`map` in `PROJECT.json` gives the source lines of every definition.

**How state corresponds.** `Approvals`: `plans`, `rows` and `audit` are the
tables (a row's `phrase` is history: what was typed for it), `tokenFile` the files
`tokens/<plan>.token`, `copied` every token that was ever in one; `pc`, `held`,
`token`, `readAt` are the local variables of the command a process runs.
`TrashStore`: `disk`, `trash`, `aside` are the files at the user's places, in
the trash, and at the `-restored-` names; `rows` is `trash_items` as committed;
`writer` is the process in an open write transaction; `at`, `item`, `path`,
`batch`, `todo`, `done` are locals; `born`, `purged`, `torn` are history
(`torn`: items whose command stopped after it had begun to change them).
`PlanExecution` adds the running command, what a purge listed, what is left to
do, the `approval_id` column (`citing`) and the `plan.applied` records.
`AgentRuntime`: `row`, `reason`, `closed`, `saved`, `signal` persist, the other
variables die with the invocation, and `asked`, `ran`, `late`, `wanted` are
history. `EventLog` has the tables `agent_events` and `agent_signals` of one run;
`ChatSessions` and `ClassicChat` the session tables and the history file beside
the locals of each thread. `BrokerEngine` has the controller's engine field, the
two mutexes as queues in arrival order, and one program counter per call;
native memory is state of its own, so that an engine closed under an inference
shows. `ModelStore` has the model directory, the registry file and the `.part` files;
`DigestCache` the files and the cache table. `Backup` has the destination, one
directory in which a `.part` file is a name like any other: `PartOf` gives a
place's `.part` name, which may be another file's place; `target` is what each
name holds, `writing` the name under which a process is filling a file (a rename
takes it along, an unlink takes it away), and `whole`, `used`, `clash` are history:
what a name held first, names that served as `.part` files, names that two
processes used at once. `Routing` has no state but the command's own: what a
text looks like to its readers (`Output`), `Rendered` what the Android broker makes of it
before it goes out (every field named, null members dropped), and `ClientReads` what
the client makes of what it gets.

**Composition.** `PlanExecution` composes engine and trash, which share a
database. The parts that `MCBroker` and `MCRecords` put side by side share
nothing: a variable (`part`) says which of them moves in a behaviour, so that
their states add instead of multiplying. What a run shows of a part is what a
run of that part alone would show. `MCTrashStore` (`alone`) and `MCPlanExecution`
(`part`) use such a variable to explore one specification under two bounds.

**Grain.** A SQLite transaction, a rename, an unlink and an existence check are
one step each. `verify` is a claims check, a SELECT, an UPDATE and an audit
record, because `sqlite3` opens a transaction only at the first write. `purge` is
one transaction whose rows become visible at its commit, while its unlinks are
visible at once; from its first UPDATE to its commit it owns the write lock.
Loads of a plan and creations of one are single reads and writes. In the broker
a step is what runs between two suspension points or two native calls; a file
that is written or renamed is one step each, a copy is two (begun, complete).
In the chats every SQLite transaction and every hand-over between the
interface's thread and a worker is a step.

**Environment.** A process may be killed, or a step may raise, anywhere
(`Stop`, `Exit`, `Abort`, `Raise`, `Crash`). The user saves new files at free
places. The stored body of a plan may be edited. The model gives any answer and
any call id. Another process may post a cancel at any time. Calls of the broker
arrive, time out and are cancelled at any moment; a model file may be cut short;
the clock of the rate window may be set back. A file may be rewritten while it
is digested, an upload may fail or time out before or after it took effect.

**Operators under a `Mistake:` comment** are not part of the specification. Each is a wrong
version of the definition that follows it (a dropped guard, a missing update, a
wrong order). `PROJECT.json` lists, under `mutants`, the property that TLC finds
violated when it takes the definition's place: it shows that the property can
fail.

## 3. What the runs check

| Run | Instance | Distinct states | Shows |
|---|---|---|---|
| `records` | *approvals*: 2 processes, 1 plan id with two possible bodies, 2 approvals, clock 0..1, lifetime 0; *log*: 2 writers, 4 events, 2 signals; *interface*, *both*: 2 texts in the interface, or 1 there and 2 in the terminal, 2 sessions, small context limits, 1 clear; *classic*: 2 older chats, 3 exchanges, 2 kept, 1 death; *backup*: 2 files, of which one has the other's `.part` name, 2 commands that apply, 1 retry, copy numbers to 2, 1 edit, 2 approvals; *digest*: 2 paths, 3 contents of which two agree in size and both ends, 2 commands, 1 write | 1,061,696 | `TypeOK`, `GrantedAsApproved`, `WorkIsOnRecord`, `ReuseBound`; `RecordHolds`; `ConversationKept`, `CancelStopsShownRun`; `HistoryWhole`; `BackupKeeps`; `DuplicatesAreSame` |
| `trash` | 2 free places and a protected one, 3 files, 2 items, 2 processes: at once with 1 stop, or one at a time with 2 | 909,955 | `TypeOK`, `ClosedRowHasNoFile`, `RowsMatchFiles`, `TrailComplete`, `LockIsHeld`, `ProtectedUntouched`; one at a time: `KeptAlone`, refinement of `FileFate` (`ReversibleAlone`) |
| `execution` | 2 processes, 2 plan ids, 2 approvals, 1 stop; *pair*: at once over 1 free and 1 protected place, 1 file, 1 item; *batch*: one after the other over 2 free places and a protected one, 2 files, 2 items, plans of up to 2 files | 514,580 | `TypeOK`, `ActsWithinPlan`, `RowsCiteTheirApproval`, `AppliedMeansMoved`, `DeletionConfirmed` |
| `runtime_loop` | 4 tools (two read-only, planner, approval), 3 call ids, 2 turns of up to 2 proposals, 3 calls, 2 identical, 2 invocations, 1 fault | 927,110 | `TypeOK`, `ForbiddenNeverRuns`, `BudgetHolds`, `OncePerFault`, `ResultSettled`, `CancelIsPrompt`, `Ends` |
| `broker` | 3 calls, 1 service job, 2 models, 1 call admitted to wait; 3 callers, limit 2, window 2, time 0..3, 2 tokens, clock set back once; 2 importers, 2 names, 3 contents of which one is implausible, 3 imports, 1 kill; every routing command | 632,587 | `UsesOpenEngine`, `AdmissionExact`, `OnlyLateJobsLeak`, `Answered` (calls); `TokenDecides`, `WindowHolds` (access); `ModelsWhole` (imports); `OnlyAskedRuns`, `BrokerUnderstood` (routing) |

and seven runs whose property is a statement of the repository that the code
does not keep; TLC prints the behaviour:

| Run | Property | Statement | What happens |
|---|---|---|---|
| `approvals_race` | `SingleUse` | approvals are single-use (`README.md` line 11) | two processes read the approval as unused before either marks it (`engine.py` lines 72-80) |
| `trash_restore_race` | `FilesKept` | a restore does not overwrite (`tests/unit/test_trash.py` line 27, `docs/security.md` line 14) | two restores both find the place free; the second replaces the first file (`trash.py` lines 50-52) |
| `execution_analysis` | `AnalysisChangesNothing` | analysis mode cannot move files (`README.md` line 7) | no command asks `config.mode`; the plan's own mode is organize or controlled |
| `runtime_approval` | `ApprovalPersists` | a request for approval persists as `waiting_approval` (`docs/runtime.md` line 23) | after `cleanup_plan` the machine is in `running_tool`, from where that transition is not allowed; the run ends failed |
| `broker_end` | `UnloadedAtEnd` | the engine is closed and the service unloads on destruction (`docs/security/threat-model.md` line 25) | a load that a job asked for gets the lifecycle mutex after the unload of `onDestroy`, and its engine stays (`BrokerService.kt` line 97); `OnlyLateJobsLeak` says that nothing else stays |
| `routing_ambiguous` | `AmbiguousNeverRuns` | malformed or ambiguous model output never executes (`docs/architecture/orchestrator-contract.md` line 30) | a field named twice counts with its last value, and an object inside of malformed text is found (`parser.py` lines 11-31); with `--execute` its action runs. Only a server other than the Android broker sends such a text |
| `backup_overwrite` | `OverwritesNothing` | an overwrite needs the controlled mode and `DELETE PERMANENTLY` (`docs/security.md` line 14) | a copy to `a.zip` is written to `a.zip.part` first, whatever file that is (`rclone.py` lines 66-67) |

**Why the bounds are enough.** Every race in this code is between two commands
over one row or file, so two processes and two items (or approvals) show it;
three files let one place be taken again while two files that lay there are in
the trash. `UserWaits` keeps the user from saving files while a command runs,
which only takes away interleavings of `UserCreate`; the race of a restore with
a file saved meanwhile has the same shape as the one in `trash_restore_race`.
`MaxFaults` bounds stops. Clock 0..1 with lifetime 0 lets an approval be used in
its last second, and expire between any two steps. In `runtime_loop` two turns of two proposals
with limits 2, 3 and 2 reach every limit: a second read-only tool makes the call
limit reachable, a third call id the limit on identical calls (a call under the
same id is answered from `tool_executions`), and a limit of two lets one call be
proposed twice in one invocation. `Proposal` lets only one tool appear under the
second and third id. Two invocations show a resumption. A tool the registry does
not have is not in the instance: it takes the step of a modifying tool in safe
mode (`RefuseCall`).
In `broker` one call works, one waits and one is turned away at the same time,
beside a job that loads or unloads; limit 2 in a window of 2 lets a request
leave the window, and be forgotten, while a later one stays. Two
importers of two names collide on a name and on the registry. In `records` two
writers of one run collide on a sequence number, and the limits are small enough
for a context to be compacted. A name of the backup's destination is taken by another
file (one lies there at most before), by an earlier try, by another command and by the
`.part` of another copy (the second file is called like the first with `.part` added); to a remote
one order of the plan is enough, since rclone copies in any order. Two contents of
the digests differ only where the quick digest does not look; one of the two searches at
least verifies. A plan is edited from the reversible body to the irreversible one,
the direction in which an approval could be stretched. Approvals and the terminal's
texts are interchangeable, and the second is not used before the first.
In *batch* of `execution` an apply stops or raises after the first of two files, or moves both,
and a purge lists one or two of them; in *pair*, where commands race, a plan names one
file, since two commands at once over two files are beyond five minutes. The
theorem `RecordsAreTrue` covers both together.
In `execution` time stands still and plans are not edited: `records`
covers both for the approval engine.

**Symmetry.** Processes, approvals, items, files and (in `execution`) plan ids
are interchangeable: no definition orders them or names one; so are the
processes of `records`, where they are also the appliers and the searching commands. No liveness
property is checked under symmetry; `runtime_loop` and `broker` use none.

**Deadlock** is off in the runs where item ids, approvals, invocations, calls, texts,
imports or commands run out: all but `approvals_race`, `trash_restore_race`,
`execution_analysis`. That a call of the
broker is not stuck is what `Answered` says, and `Ends` says it of an agent run.

**Fairness.** `Ends` assumes weak fairness of `Loop`, the steps of the loop
itself: the loop is straight-line Python whose every call returns or raises (the
model client has a timeout, SQLite gives up after five seconds). `Answered` assumes `EngineFair`:
the two mutexes are fair (Kotlin's `Mutex` is, and hands over in arrival
order), a native call returns, and a stop that has begun goes on; nothing makes a
call arrive or time out. Nothing is
assumed of cancels, faults or new invocations. Tools that never return are
excluded by this assumption; no code bounds them.

## 4. What is proved

Every safety property that a passing run checks is a theorem as well, checked by TLAPS
for arbitrary sets of processes, plans, approvals, paths, files, items, tools,
calls, writers, importers, texts, sessions and limits. The only assumptions are
those named in the modules: constants are well typed, the sets of processes, calls,
proposals and chats are finite, absent values (`NoRow`, `NoToken`, `NoInode`,
`None`, `Torn`, ...) are different from the real ones, and the tail that a context
keeps is no longer than what makes it be compacted. Each is a theorem of the
module's own specification (`Spec`, or `EngineSpec`, `ChatSpec`, `BackupSpec`, ...),
without fairness; the few that hold only of one process at a time say so.

*`Approvals_proofs`*
- `TypeCorrect`. Typing alone is not inductive: `Typed` adds that a process past
  "loaded" holds a plan, one past approval holds a token with a row, and tokens
  that left a process name rows.
- `ApprovalBinding` (`GrantedAsApproved`). The invariant adds that every row was
  confirmed with the phrase its own plan demands and that a process past the
  claims check holds the plan of its row. It rests on `RowsKeep`: a row never
  changes its hash, expiry or phrase.
- `AuditTrail` (`WorkIsOnRecord`), from the order in which records are written.
- `BoundedReuse` (`ReuseBound`). An approval not marked has not been used; each
  use takes a process out of the window between SELECT and UPDATE, and nobody
  enters the window of a marked approval.
- `SequentialSingleUse`: with one process an approval *is* single-use.

*`TrashStore_proofs`*
- `TypeCorrect`, `ClosedRowsAreEmpty` (`ClosedRowHasNoFile`). `TrashInv` adds what
  each process relies on: a move's id is its own until its row is inserted;
  restores and purges work on items that have a row, and what they are about
  to close they have emptied; rows point to unprotected places only.
- `LockReleased` (`LockIsHeld`) and `ProtectionHolds` (`ProtectedUntouched`).
- `RowsFollowFiles` (`RowsMatchFiles`) and `TrailIsComplete` (`TrailComplete`), for
  several processes: while a row and its file differ, or a mark of a row is not on
  record, some process at work owes the missing step (`Owes`, `OwesMove`, `OwesRestore`,
  `OwesPurge`); when it stops instead, the item is among the torn ones.
- `NothingIsLost` (`FilesKept`), `RowsHaveOneFate` (`OneFate`, no row is both restored and purged) and `TrashIsReversible`
  (`Reversible`: the trash implements `FileFate`) under `OneAtATime`: no two processes,
  and the user saves nothing while a command runs. The run `trash` checks the first and the last
  on the instance where commands run one at a time (`KeptAlone`, `ReversibleAlone`). Two
  commands at once lose a file (`trash_restore_race`). `KeptInv` says that no two places hold one file
  (`OnePlace`), that what was born lies somewhere until it is purged (`Alive`), and
  that nothing lies where a command is about to put a file (`FreePlaces`); `RowsOpen`
  that restores and purges work on active rows.
- `RowsStay`, `RowsAreWritten`: no step takes a row away, and none but an
  insert changes the path of a row.

*`PlanExecution_proofs`*
- `RefinesApprovals`, `RefinesTrash`: `PlanExecution` implements `A!Spec` and
  `T!Spec`. Every command step is a step of the engine and of the trash, or leaves them alone.
  The second needs an invariant, because a purge is handed what was listed long
  before: whatever it listed still has a row. TLC checks the same two
  refinements on the instance of `execution`, but needs as long for them as for
  everything else, so no run repeats it.
- `CommandsActAsApproved`, `CommandsLeaveNoFile`, `CommandsProtect`: what was
  proved of the parts holds of the composition.
- `CommandTypes` (`TypeOK`), `CommandsStayWithinPlan` (`ActsWithinPlan`), `RowsCite`
  (`RowsCiteTheirApproval`), `RecordsAreTrue` (`AppliedMeansMoved`) and
  `DeletionsAreConfirmed` (`DeletionConfirmed`), from `PlanInv`: it joins the
  invariants of both parts with what ties them together. A command holds plans of
  its own kind only (`Kinds`); whoever changes files holds a consumed approval whose
  plan names what it changes (`Bound`); and each file of a cleanup under way is
  left, on its way, or has its row under that approval (`Progress`), so that when
  nothing is left every file has its row.

*`AgentRuntime_proofs`*
- `RunTypes` (`TypeOK`), `OnlyAllowedRuns` (`ForbiddenNeverRuns`), `RepeatsArePaid`
  (`OncePerFault`), `ResultIsRecorded` (`ResultSettled`) and `CancelIsHeeded`
  (`CancelIsPrompt`), from one invariant, `RunInv`. It adds that a proposal is
  there while one is handled; that the call about to be executed was allowed
  (`Allowed`); that a call has run at most once per fault, and once more only if
  its result is saved or about to be (`Paid`); that the way out carries a
  consistent outcome and no result is there before it (`Leaving`); and that a turn
  about to begin has seen every signal but the newest (`Prompt`).
- `BudgetIsKept` (`BudgetHolds`). The counters of a budget begin anew with every
  invocation while the history goes on, so the invariant says that what has been
  spent together with what this invocation may still spend is at most the limit times
  the invocations (`Fresh`, `Affordable`): turns, calls, and calls of one tool, where
  the calls are the sum of how often each one ran.

*`Sessions_proofs`*
- `RecordIsKept` (`RecordHolds`). The invariant: rows form a chain without gap or
  fork, a sequence chosen follows a row that is in the log, a reader's position
  has been reached, and a closed invocation's events end with its closing one.

- `CancelReachesShownRun` (`CancelStopsShownRun`), from `CancelInv`: a run that never
  overlapped another one is the only one at work (`ByItself`), and if its event was
  the last it is the active one (`OnShow`); a run that a cancel was for has its signal
  until it ends (`Reached`), and once it has begun a turn after that it is on its way
  out (`Counted`).
- `ConversationIsKept` (`ConversationKept`), from `KeptInv`: a message is in a session
  once (`Once`), and only if its run has come that far (`Said`); a run at work on the
  app's session is at home there (`AtHome`); and what a run sends follows from the
  messages before its question (`InOrder`): before the question is stored, from all that
  are there, and afterwards from those before it, which no later message changes. That
  a context compacted once fits what it was made from (`ContextFits`) is a lemma about
  sequences: the protected messages of the older part and the tail are the history's
  subsequence of what they contain, and the message left out that is in no summary has
  at least `MaxFacts` left out after it. It needs that no message is there twice.
- `SavedHistoryWhole` (`HistoryWhole`), from `ClassicInv`: two chats that save at once
  have noticed each other (`Noticed`), nobody writes to the file that counts, which is
  not the temporary one (`Apart`), and a save that met no other has its history in the
  temporary file (`Alone`).

*`Broker_proofs`*
- `EngineTypes`, `InferenceIsSafe` (`UsesOpenEngine`), `AdmissionCounts`
  (`AdmissionExact`) and `EndUnloads` (`OnlyLateJobsLeak`: the leak that `broker_end`
  shows is the only one), from `EngineInv`: where
  each call is decides in which queue it stands, once (`Placed`, `Lined`); whoever
  works is first in its mutex's queue; whoever changes the engine is alone with what
  it has made of it, and otherwise the field names the open engine or nobody is left
  to use it (`Memory`); only the end of the service cancels, and it cancels every
  call (`Cancelled`, `Unloaded`); and the counter of admitted calls is the number
  of calls between admission and answer (`Admitted`), which needs that the set of
  calls is finite.
- `StoredTokenDecides` (`TokenDecides`) and `RateIsBounded` (`WindowHolds`). The
  second invariant says that the limiter's list holds the last grants, each under a
  reading of the clock that is by now no earlier than its time, and that the grants
  it forgot are a window old, though the clock may have been set back in between.
- `ImportsStayWhole` (`ModelsWhole`). `StoreInv` says what the imports under way
  rely on: whatever is recorded, or was read from the registry, has its file
  (`Recorded`); an import that none overlapped still finds the file it moved and the
  records it read (`Undisturbed`); a name that nobody is importing, and whose imports
  were neither killed nor overlapped, has the record of its file (`Settled`).
- `OnlyWhatWasAsked` (`OnlyAskedRuns`) and `ClientUnderstandsBroker`
  (`BrokerUnderstood`), from `RouteInv`: what is known wherever the command has got to
  (`Places`), and that a decision about to be handled is the user's own word, as the
  mode asks for or falls back to, or what the client made of the text that arrived
  (`Accounted`, from `FromKeyword` and `FromServer`). What arrives from the Android
  broker is its own rendering, so the second theorem rests on what a rendering keeps
  (`RenderedFields`).

*`Storage_proofs`*
- `BackupLosesNothing` (`BackupKeeps`). `BackupInv`: a process past the checks consumed
  an approval and copies no file that a rule named (`Authorized`); what it copied,
  skipped and has left is the plan (`Progress`), and what it reports as done is
  (`Reported`); a process writes the `.part` file of its place, or one that another
  process using the same names renamed (`Placed`, `Writing`); two processes that use a name
  at once have clashed (`Unshared`), and where none did, the name that was found free
  is free until the copy, which is whole, is moved there (`Vacant`); and a name that never
  served as a `.part` file is not emptied (`Kept`), and stays as it was put unless
  there was a clash (`Held`). The invariant assumes nothing of which name is whose `.part`,
  except that none is its own. The free names looked for are bounded by `MaxCopy`.
- `DuplicatesAreDuplicates` (`DuplicatesAreSame`). `DigestInv`: no time of a file or of
  a row is in the future (`Dated`), so that a row which fits its file is right unless it
  was stored under a write (`RowsTrue`); what a command has read of a file that nobody
  wrote meanwhile is right (`ReadsTrue`); and of the files that stayed as they are
  (`Clean`) what it noted is right (`NotesTrue`), none is left out (`Complete`), and
  the groups are theirs (`Sorted`): equal files have one size, one partial digest and
  one digest, and pass every phase together.

**Sums and recursive functions.** The library's induction theorems take an operator
as a parameter and cannot be used. That `<` on the naturals is well-founded can be
stated of a set instead, and gives induction about sets of naturals, of finite sets by
their size, and of sequences (`NatInduct`, `FoldInduct`, `SeqInduct` in `Lemmas`). This
carries the sums of `BudgetHolds` and the recursive function `Among`; `SelectSeq`,
whose definition TLAPS does not have, is why `Among` is written as one.

**Only model-checked.** `Ends` and `Answered` are liveness under fairness, which TLAPS
does not prove. That `Among` is `SelectSeq` with a test of membership is read off both
definitions.

## 5. What is abstracted, and what is left out

- The HMAC signature and SHA-256 are taken as given: the only tokens are those
  `approve` issued, and different plans have different hashes. `revoked` is never
  set by the code. The installation, user and session checks compare values that
  the program itself fills in, and are left out.
- A file is its content. The trash lies on the same file system as the storage
  (the default), so `shutil.move` is an atomic rename that replaces its
  destination; on another file system it is a copy followed by an unlink.
- Exclusion rules are a constant verdict per path; a configuration edited
  between a move and a restore is not modelled, nor are symbolic links.
- A restore creates missing parent directories; directories are not modelled.
- A tool call stands for its name with its arguments. Tool results matter only
  for whether they say `approval_required`.
- `AgentRuntime` keeps only the last closing event of a run; the log itself, with
  several invocations of one run at once, is `EventLog`.
- `resume_run_id` is passed by tests and callers of the API only; `AgentRuntime` lets a run be resumed
  in any state, as the code does, and claims nothing about what that should mean.
- `max_calls_per_run` is declared in the tool policy and read nowhere.
- Compaction of a context protects a message only by the literal words "approval"
  and "plan_id"; a session's summary grows with every compaction, and its
  `summary_message_id` is never read.
- The terminal chat catches some exceptions only; any other ends it, as a kill does.
- In `Backup` the `.part` name of a place is a constant function, so that TLC can be
  given a directory in which one file is called like the `.part` of another; on a
  remote rclone's own temporary files are not modelled.
- In `Routing` a text is what its readers see of it. An object is alone, inside of other
  text, names a field twice, or is the readable part of malformed text. Null members
  of the arguments are the one thing that the broker's rendering changes and the
  client's reading can tell; that is why a decision of the broker may run with
  arguments that its model gave with nulls.
- A failed backup leaves the copies it has made, without a record
  `backup.apply`; a retry may find its own earlier copy there.
- In `DigestCache` every write gives a file a new modification time; a write that
  restores the old one (or falls into the same tick) is not seen by the code.
  Groups of the quick mode share a partial digest only, and claim no more.
  `prune_missing` is called by tests only; symbolic links are never digested.
- In `BrokerEngine` an unload that is cancelled while it closes leaves the field
  on a closed engine; the only caller that is cancelled there is the service
  that ends, and nobody uses the engine after it.
- A clock that jumps forward, as it does when a set-back is corrected, lets the rate window
  forget too early; only a clock that is set back is modelled.
- `orchestrator.enabled` is never asked, and the client of the broker waits 20
  seconds where the broker may work for 60: `Routing` treats what it then gets as no
  answer. An audit record says "ok" for a tool result whose status is "error".
- The copied Termux configuration names a model that an imported file, whose
  name is made lower case, never has.

**Not modelled, and why.** Model adapters: any answer is possible, the rest is
I/O. Dashboard, reports, doctor, mocks, Termux commands: formatting or I/O without
state. The bodies of requests to the broker: read and refused without any state.
How exclusion patterns and roots decide a path: a constant verdict. The rendering
of the interface. Build, packaging and repository scripts.

## 6. Plan

The order was: what endangers files first, then what endangers a run, then the
broker, then what is shared on the side. The models are complete in that order.
Their safety properties are all proved. What is left are the refinements that no
abstract specification states yet: an event log that is one list, and a cache of
digests that is transparent to the search.
