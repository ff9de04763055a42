# Open Executive in TLA+

A verification project for Open Executive (`src/`): a Python FastAPI service with
a SQLite database that runs an "AI executive" - it answers in chat and mail, runs
multi-step workflows that stop for a person's decision, and acts on its own
schedule. The language model's output is unconstrained input to everything here;
what is modelled is the machinery that stores, schedules, claims, retries and
asks.

Contents: 1 inventory, 2 plan, 3 the modules, 4 the runs, 5 fairness, 6 what is
proved, 7 where code and documentation disagree, 8 limits.

Paths below are relative to `src/packages/core/openexecutive/`.

## 1. Inventory

One API process holds one asyncio loop. Every component below runs on it, as
request handlers, background tasks or endless loops, and shares the SQLite files.
`docs/architecture.md` requires a single instance for most of the program; the
workflow resumer claims to be safe with several (`workflows/resumer.py`, module
comment), and the model takes it at its word.

| component | state | operations | interacts with | hard behaviour |
|---|---|---|---|---|
| workflow runs (`workflows/persistence.py`, `resumer.py`, `gate.py`, `inbound_resolver.py`, `wait_for_human.py`, `api/routes/workflows.py`) | table `workflow_runs`: status, checkpoint, answer, claim, attempts, stamps | start, park at a gate, answer, time out, kick, poll, claim, heartbeat, finish, abandon, requeue, give up, delete | chat and mail replies, pause switch, artifacts | two executors for one run, workers declared dead that are alive, lists that are stale when used, a failure between two writes |
| workflow definitions (`workflows/dynamic*.py`, `action_step.py`, `designer.py`) | definitions as JSON | run steps in order, pause, hold writes | workflow runs, tools | writes repeated when a step is replayed |
| scheduler (`scheduler/runner.py`, `memory/episodic.py`) | table `scheduled_actions`: status, due time, attempts | tick, claim, execute, retry, reschedule, cancel, requeue at boot, chain the next occurrence | authority gate, alerts, departments, held messages, the model | crash between sending and marking, retry limits, chains that break or double |
| nudge engine (`scheduler/nudge_engine.py`) | caps and keys in several tables | scan, propose, send | scheduler, alerts | caps counted before an await |
| authority and approvals (`departments/authority.py`, `alerts/approvals.py`, `api/routes/alerts.py`) | cards in `alerts`, table `alert_approvals` | propose, escalate, approve, claim, carry out, finish, fail at restart | scheduler, chat | one approval carried out twice, a held action that no card shows |
| alerts (`alerts/*.py`) | alerts with a dedup key and a status | raise, deduplicate, acknowledge, review, snooze | UI event bus, mail | a one-shot key that suppresses a second, different alert |
| held messages (`people/held_messages.py`) | messages with a claim and its time | hold, claim, send, mark, release, unclaim, expire | notifications, working hours | a claim that expires during the send |
| decision ledger (`memory/decision_ledger.py`) | table `decision_instances`: status, gate mode, payload | propose, resolve, claim, finish, release, close, hand back, reverse | the three callers below | each statement compares the status only |
| delegated mail (`delegation/inbox.py`, `reply_send.py`, `card_drafts.py`, `replies.py`) | reply cards, drafts in the mailbox, three in-process guards | draft, edit, send, dismiss, reconcile, settle an unconfirmed send | mail providers, ledger | an answer from the provider that never arrives, a draft edited while it is checked |
| meetings (`api/routes/decisions.py`, `orchestrator/calendar_tools.py`) | scheduling cards and calendar events | propose, approve, book at once, cancel | calendar service, ledger | the event is made before the row is won |
| action cards (`delegation/action_cards.py`) | cards of a few actions, a lock, the day's count | propose, tap, run on its own, dismiss | tools, ledger | two turns and a tap on the same card |
| people and roster (`people/*.py`) | people, contact data, roster requests | request, approve, merge | chat, alerts | a request decided twice |
| client slots (`clients/slots.py`, `clients/rotation.py`, `cli/fixture_loader.py`) | one live database, a directory per client, the sentinels of the active client and of a demo, a rotation marker | create, save, switch, delete, load and unload a demo, reset, rotate by night | every store (they live in the slot) | a save-back that writes one company into another's slot; a failure half-way; the rotation lets go of the lock between its steps |
| onboarding (`onboarding/*.py`) | interview answers, written profile | interview, commit | departments, people, scheduler | a commit that fails half-way |
| knowledge (`knowledge/*.py`) | documents, sync cursors, review queue | sync, review, retrieve | Chroma, Notion, Drive | a sync and a review of the same document |
| monitoring (`monitoring/*.py`) | signals, findings | scan, triage, raise | alerts, the model | deduplication across overlapping scans |
| departments (`departments/*.py`) | configuration, cadences | edit, bootstrap, enqueue next, switch between solo and team | scheduler | a recurrence lost between two statements |
| chat and mail integrations (`integrations/*`) | channel identities, cursors | receive, send | everything | redelivery, order |
| orchestrator, briefing, memory, attunement, audit, providers, agents, UI, CLI | text, logs, configuration | - | - | mostly data |

What makes each correct, in a line: a workflow run has one owner, asks each
question once, never acts on an answer it was not given and always ends; a
scheduled action is not lost, not run by two tasks, not retried for ever, and a
gated one is not sent without its approval; an approved card is carried out once;
a held message is delivered once and not forgotten; a drafted reply is sent at
most once; a recurrence has exactly one next occurrence; a roster request has one
decision; a client switch keeps every client's newest state and never saves one company
into another's slot.

## 2. Plan

| order | modules | abstract specification | theorems (section 6) |
|---|---|---|---|
| 1, done | `WorkflowRuns`, `RunLifecycle`, `MCWorkflowRuns`, `WorkflowRuns_proofs` | `RunLifecycle` | eleven |
| 2, done | `ScheduledActions` (the queue's statements), `Runner` (what holds a tick), `GatedActions` (scheduler, authority gate, approvals), `MCGatedActions`, `GatedActions_proofs` | - | seven |
| 3, done | `HeldMessages`, `HeldMessages_proofs` | - | three |
| 4, done | `DecisionLedger` (the ledger's statements) and its three callers: `ReplySend`, `Bookings`, `ActionCards`; `ReplySend_proofs`, `LedgerCards_proofs` | `CardPromise` | fourteen |
| 5, done | `Cadences`, on `ScheduledActions`, `Cadences_proofs` | - | two |
| 6, done | `ClientSlots`, `ClientSlots_proofs` | - | three |
| 7, done | `MCOffice`, the parts that share nothing side by side; `Office_proofs` | each part's own specification | four |
| 8, left | nudge caps, the onboarding commit, roster requests, the knowledge review queue, reconnects of the MCP gateway, the rest of the alert pipeline (section 8) | - | - |

Modules are written to be proved about: parameters are constants with named
assumptions, a row's updates are operators of a row, an action is one handler
between two awaits, and no module uses a RECURSIVE operator.

## 3. The modules

### WorkflowRuns

A run executes until its definition reaches a gate, parks its row
(`awaiting_human`), is answered from chat, mail or the web page (`resolved`), and
is resumed - by a kick task at once, or by the resumer's poll within a minute.
A gate that nobody answers meets its timeout policy.

| state | code |
|---|---|
| `rows` | `workflow_runs`; one record per run. `gate` stands for the checkpoint in `state_json`, `payload` for the gate `resume_state_json` continues from, `claim` for `resume_claim`, `stale` and `expired` for the comparisons of `resumed_at` and `awaiting_until` with the clock, `artifacts` counts the artifacts stored |
| `driver` | the process whose response generator executes `workflow.run` for a run that has not met its first gate |
| `work` | what each kick task and each poll is resuming: the claim it holds and the payload and answer *as it loaded them* |
| `tick` | the phase of a poll's iteration and the rows it listed and has not handled: `run_resumer`, `_tick`, `_process_resumable` |
| `replies` | answers matched to a gate whose parse (a model call) is awaited, or that a browser page is showing |
| `paused`, `crashes` | the executive control switch; restarts so far |

Actions by code: `Start`, `DriverParks`, `DriverEnds`, `DriverCancelled` -
`api/routes/workflows.py` and `gate.py`; `ReplyRead`, `ReplyApplied`,
`ReplyDropped` - `inbound_resolver.py` and the decision route, ending in
`apply_resolution`; `Tick*` - one statement each of the poll's iteration;
`KickClaims`, `KickClaimBusy` - `_kick_resume`; `WorkerHeartbeat`, `WorkerParks`,
`WorkerFinishes`, `WorkerAbandons` - `_drive_resume`; `ClaimAges`, `GateExpires` -
the clock; `Delete`, `SetPaused`, `Crash`. The SQL statements are the operators of
a row (`Parked`, `Resolved`, `Claimed`, `Finished`, `Requeued`, ...), with the
WHERE clause as the guard.

The grain of an action is the stretch of code between two awaits. `LoopFree(p)`
is the asyncio rule: while a poll is between two statements of its tick, no other
task of that process runs; it yields only when it sleeps or drives a resume. Two
processes interleave at every statement. A workflow definition is reduced to its
gates in step order (`GateKind`): an approval gate continues on an approval or an
automatic one, a question continues on any answer, a "held" pause occurs only if
the step has writes to hold.

`DbFaults` adds SQLite's "database is locked" at the statements whose errors the
code swallows one at a time: every prefix of `_abandon_resume` and of
`_handle_timeout` may be what is left.

### RunLifecycle

What the engine promises, without claims, polls or processes: a run asks, is
answered once, proceeds from an accepted answer, may redo that work from the same
answer, and when it is over it never works, asks or is answered again.
`WorkflowRuns!ImplementsLifecycle` instantiates it with the run's status as its
phase and the stored answer as its verdict.

### ScheduledActions

The SQL statements of `scheduled_actions` (`memory/episodic.py`), one operator of a
row each: `Taken` is `claim_due_actions`, `TakenBack` is `reschedule_action` with the
attempt it gives back, `FailedOrRetry` is the retry, `Orphaned` the sweep at start. It
has no variables; the modules that keep rows EXTEND it.

### Runner

`holding`, the gate of a tick: while the operator has paused the Executive, no company
profile is there or a rotation is under way, `run_scheduler` starts and claims nothing
(`scheduler/runner.py:344-382`). The modules of what a tick starts EXTEND it: `GatedActions`,
`HeldMessages`, `ReplySend`, `Cadences`.

### GatedActions

A scheduled follow-up of a department does not go out by itself. The scheduler claims
it, the authority gate turns it into a card for an approver and marks the row done;
approving the card queues a copy without a department, which goes out. If the text was
edited, or the card holds no action, a chat turn does the work.

| state | code |
|---|---|
| `rows` | `scheduled_actions`. `due` stands for `run_at` against the clock, `gated` for a department, `content` for what is sent to whom, `via` for the card whose approval queued the row |
| `task` | the asyncio task of `_execute_action`, by the statement it is at |
| `sent` | messages sent while executing the row |
| `cards` | `alerts` with source `authority_gate`, the action each holds (`alert_held_actions`) and its last approval (`alert_approvals`) |
| `handler` | an `approve_alert` request, then the chat turn it started |
| `reviewed` | cards the alert review has read and not yet acted on |
| `holding` | of `Runner`: the tick claims nothing |

A card is named by its external id: `Cards` are records of the kind, the key and, for
unrouted proposals and escalations, the row's id. `FilesCard` is `propose_via_alert`
with its two store calls. Actions by code: `Schedule`, `BecomesDue`, `CancelAction`,
`ClaimDue`, `SetHolding` - queue and tick; `Dispatch`, `Defer`, `Propose`,
`ProposeFails`, `Bind`, `GateMarks` - the gate in `_execute_action`; `TaskSends`,
`TaskEnds`, `TaskLost` - the turn that sends; `Approve*`, `ChatEnds` -
`approvals.claim`, `_requeue_scheduled_action`, `finish`; `Click`, `Reopen`, `Expire`,
`ReviewReads`, `ReviewActs` - what else changes a card; `Restart` - a crash, then
`fail_stale_running` and `requeue_orphaned_running`.

The gate has no await between filing the card and marking the row, and neither has an
approval between its claim and its end when it only queues. `LoopFree` keeps other
tasks out of these stretches; a crash, a database error and the synchronous routes,
which FastAPI runs in threads, get in.

### HeldMessages

A person whose settings say "digest", or whose quiet hours have begun, gets no direct
message: it is held. Two kinds of sender compete for a held message: the release pass of
the scheduler's tick, and the morning and end-of-day briefs, which carry the digest
messages of each principal.

| state | code |
|---|---|
| `held` | the table of `people/held_messages.py`. `when` is `release_at` against the clock (none for the digest), `age` the two thresholds `DIGEST_FALLBACK_AFTER` and `GIVE_UP_AFTER`, `claim` who stamped `claimed_at` and whether that is older than `CLAIM_TTL` |
| `pass` | `release_due`, the one task of it (`_task`): the rows it listed, those it judged by the clock of its start, and what it is sending |
| `brief` | the fan-out of a brief over its principals |
| `delivered`, `mishaps` | how often each message arrived; the mishaps so far |

Actions by code: `Hold` with the cap; `ChangesDelivery`, `ReleaseQuietNow` - a person's
settings; `Pass*` - one person's bundle at a time: drop, postpone, claim and send, mark,
unclaim; `Brief*` - `claim_digest`, the send, `mark_sent`; `ComesDue`, `GrowsOld`,
`Lapses` - the clock; `HeldCrash`. `PassRunsLate` and `BriefRunsLate` are a send that
takes longer than the time to live of its claim. Whether a person's settings hold a
message at all is an input.

### DecisionLedger

The statements of `memory/decision_ledger.py`, one operator of a row each, with the
WHERE clause as the guard. It has no variables; the next three modules EXTEND it.

### ReplySend

One reply card of "Act as me" and everything that may send, change or close it.

| state | code |
|---|---|
| `card` | its row: status, gate mode and what the card knows of its draft |
| `sending`, `making`, `editing` | `inbox.SENDING`, `card_drafts._MAKING`, `_EDITING` |
| `sender` | the send path of each tap, and of the watcher's own send ("own") |
| `editor`, `dismisser`, `scan` | a change on the card, the clean-up after a reject, the reconciler's turn for this card |
| `seenOnce` | the `unconfirmed_seen` flag: not there ("no"), set while the send was unconfirmed ("once"), or set on a send that was refused meanwhile, so that it says nothing of a later one ("stale") |
| `misjudged` | ghost: the reconciler released or closed the card by a stale flag while the service still had the request, or had sent and did not show it yet |
| `mail`, `replied` | the drafts made for the card, where each is, and whether the other side's thread has moved; external |

A send goes through eight awaits of the mail service: make the draft if the card has
none, read it, read the thread, claim, read it again, send, finish or undo. `Tap*`,
`Making*`, `Send*` are the stretches between them (`reply_send.py`, `card_drafts.py`);
`Edit*`, `Reject`, `Dismiss*`, `Scan*`, `ReconcileDecides`, `Settle*` the others;
`MailEdits`, `SelfHandles`, `SelfReplies` the person in their own mailbox;
`MailSettles`, `MailShows` what the service does with a request it had taken;
`ReplyCrash` a restart, after which a request at the service is still there.
`SettleDecides` is `_settle_unconfirmed_send`. Its first sight of an unconfirmed send sets the
flag, the second judges (`MayJudge`); between two sights lie the minutes between two scans, by which
time the service has settled the request (`ServiceSettled`). A stale flag has no such minutes: the
first sight judges at once, as the code does, and when the request was still under way that is
remembered in `misjudged` (section 7).
`mail` has two ghosts, `swapped` and `checked`, that no action reads: they say which
version the sender had read.

### Bookings

One meeting card and its calendar events. An approval books first and records after, by
compare-and-set; the one that loses deletes its own event.

| state | code |
|---|---|
| `booking` | the row; its payload is `external_event_id` |
| `approver` | each approve request (`approve_decision`, `resolve_in_chat`, `_book`), and the tool's turn that books at once ("auto", `calendar_tools.py`) |
| `canceller` | each cancel request, of the web app and the tool |
| `event`, `slips` | the events made; lost answers, answers without an event's id, failed clean-ups and interrupted requests so far |

`BooksUnnamed` is a booking that goes well although the answer names no event: the approval is
recorded without one, a loser has nothing it could delete, and a cancel is refused
(`_NO_EVENT_ID`). Each is a slip, because its meeting stays on the calendar unaccounted for.

### ActionCards

Cards of a few actions, carried out on a tap or, where every rule allows, by the
Executive's own turn. `suggested` are the rows, `turn` what a tap or a turn is doing,
`lock` is `_ON_ITS_OWN_LOCK`, `today` the cards that count towards `ON_ITS_OWN_PER_DAY`,
`done` how often each action happened. `ProposeCard`, `ProposeToRun` are `propose`;
`ApproveCard`, `OwnHeldBack`, `OwnTooLate`, `OwnRuns` the claims; `DoAction`,
`CardFinishes` the loop over the actions and `finish_execution`.

### CardPromise

What Act as me promises about a card, without claims, mailboxes, turns or scans: a card
is made, offered, *taken* before anything is done on it, and over for good when it is
closed; what it asks for is done once each, and only while somebody is at work on it; it is
offered again only while nothing was done and nothing is under way any more.

| `CardPromise` | `ReplySend!ReplyPromise` | `ActionCards!ActionPromise` |
|---|---|---|
| `standing` | `proposed` is offered, `executing` taken, any other status over | the same; no row yet is unmade |
| `atWork` | a sender is at the send, or the service has a request | a turn carries the card out |
| `times` | the messages sent for the card | `done`, per action |

A meeting does not fit it, and is not meant to: `_book` makes the event before it tries
to win the row, and deletes it when it lost (`Bookings`).

### Cadences

A department's recurring check-in, as the chain of `dept_cadence` rows that queue one
another, and everything that edits it. `checkIns` are its rows, `checkTask` the task of
each claimed one, `saver` a `PATCH /departments/{slug}` (a route in a thread, under a
lock from its second half on), `switcher` `set_workspace_mode`. The module's grain is the
statement, because routes run in threads; `LoopFreeFor` keeps two tasks of the event loop
apart. `adrift` remembers that one of three things has happened that take the department off
the calendar until the next start or edit (section 7): the workspace was switched to team while a
check-in or a save was between two of its statements, the department was made, or a save
crossed with another. `OnTheCalendar` is about the rest; a switch to solo, and one to team while
everybody is through, are part of it.

### ClientSlots

One company is live: the user's own, a demo, or that of a client. Each client has a slot;
switching saves the live company back into the slot of the client the sentinel names, and
restores another.

| state | code |
|---|---|
| `slot` | what each client's directory holds: nothing, a seed without `state.db`, the newest state of its company, an older one, or another company |
| `live` | whose company the live database is, and whether it is that client's newest state |
| `active`, `fixture`, `backup` | the sentinels `.active_client` and `.fixture_active`, the snapshot `_user_backup` |
| `op` | the operation that holds `_FIXTURE_OP_LOCK` while it awaits the search index |
| `rotation` | `run_client_rotation` and the delivery of its digest |
| `worked`, `mishap` | clients with a state beyond their seed; a failure or an interleaving the code does not protect the companies from has happened (the list is at the head of the module) |

`SavesClient`, `DeletesClient`, `Creates*`, `Snapshots` run without an await. An
activation is two actions, with `SaveBackFails` and `RestoreFails` before the await and
`ActivationFails` after it; so are a demo's load and unload (`Swap*`) and the reset.
`Rotation*` are the steps of the rotation, which takes the lock for each of them anew;
`RotationForces` is `_force_restore`.

### MCOffice

`GatedActions`, `HeldMessages`, `ReplySend`, `Bookings`, `ActionCards`, `Cadences` and
`ClientSlots` share no variable. `MCOffice` puts them into one instance: `part` says which of
them a behaviour is about, the others stay as they begin, and a run of it is seven runs in
one. `SecondBrief` bounds the held messages' states. `Holdable` names the parts in which `holding` comes and goes besides the *gate*.
`MaxUpsets` bounds what makes the reply card's states many: further drafts, changes
and troubles together. `OfficeParts` (section 6) proves that a behaviour of the office is
one of each part. It declares no symmetry: permuting that many variables costs more than it saves.

## 4. The runs

| run | instance | shows |
|---|---|---|
| `workflow_one` | 1 run, 1 process, 1 kick, a question then an approval, 2 tokens, 2 attempts, 1 restart, all policies, fairness | `TypeOK`; `StarterOwnsTheRow`: the statements without a status guard are safe; `WaitingRunsAreClean`; `ResumedRunsAreFindable`: no run falls out of every queue; `KicksReplayTheRow`: a kick that holds the claim replays what is in the row; `AcceptedAnswersStand`; `ImplementsLifecycle`, the refinement; liveness: `AnsweredRunsMove`, `ResumedRunsSettle`, `GatesClose` |
| `workflow_procs` | 1 run, 2 processes, a kick each, 3 tokens, an approval and then held writes, 1 restart, database errors | `OneOwner`, `OneArtifact` |
| `gated_propose` | 3 rows, 2 texts with one beginning, proposals, cancels, clicks back to "read", rewriting review, 1 restart | `NothingUnapprovedGoesOut`: what goes out was approved and is what the card said; `CarriedOutOnce`; `SettledStays` |
| `gated_faults` | 2 rows with and without a department, the decisions execute, propose and escalate, edited approvals, database errors, 1 restart | `WorkedRowsAreRunning`: no row has a task and another state; `RetriesBounded`, deferrals included |
| `office` | the seven parts one after the other, see below | types (`OfficeTypeOK`) and, by part: *gate* `HeldWorkHasACard`; *held* `SentAgainOnlyAfterAMishap`, `HeldRowsAreRight`; *reply* `ClaimIsExclusive`, `OneMessagePerCard`, `ReplyCardIsRight`, `SentAsChecked`, `NoDraftLeftBehind` and the refinement `ReplyKeepsPromise`; *booking* `CalendarMatchesTheCard`; *cards* `ActionHappensOnce`, `OwnWithinTheDay`, `SuggestionIsRight` and the refinement `ActionsKeepPromise`; *cadence* `OnTheCalendar`; *slots* `ClientsAreKept`, `RotationGivesBack` |
| `office_live` | the parts that have fairness, smaller | `DueActionsSettle`, `ApprovalsEnd`, `HeldMessagesEnd`, `UnconfirmedSettles`, `OffMeansOff` |
| `workflow_done_flips`, `workflow_snapshot`, `workflow_late_reply`, `gated_folded`, `gated_review`, `slots_both` | as small as the disagreement allows | section 7 |

The passing runs have, in this order, 26 646, 1 098 116, 986 050, 190 220, 1 199 651
and 44 234 distinct states; the longest, `office` and `office_live`, take two to three minutes with two workers.

Bounds of the workflow runs. Two gates are the least for which anything of the first can survive into
the second; with three, gate 2 and 3 repeat gate 1 and 2 because a park resets
everything a gate leaves (`WaitingRunsAreClean`). Two attempts distinguish "retry"
from "give up". A worker, its replacement and the next claim need two tokens when
a row and one worker can hold them, three with two processes; a token is free
again when no row and no worker holds it, as a random id would never be met
again. Two runs are needed only where a list has an order (`workflow_snapshot`): rows of
different runs share nothing but their poll. One restart suffices because a restarted
process has no memory; a second one meets a state the first could have left. At most one
reply is parsed at a time, two in `workflow_late_reply`. Deadlock is checked: the pause
switch can always be turned.

Bounds of the gated runs. Three rows are two actions and the copy one approval queues,
or one action, a first and a wrong second copy; an approval needs a free row
(`ApproveClaims`), which bounds the copies. Two texts under one subject are what a
one-shot key can confuse. Two attempts distinguish "retry" from "give up"; under
faults one attempt is enough, because what is bounded there is what a
lost update adds.

Bounds of the `office` runs.
*gate*: two rows of one text, which is when an escalation folds into another's card.
*held*: two messages, a cap of one, a principal and another person, two briefs (both at once only while
all messages are the principal's, `SecondBrief`: a brief claims no others), one mishap:
with none a second arrival is impossible, with one it can be told from a third.
*reply*: a tap and the watcher's own send (two rival senders), a card with and without a
draft, and two of these three: a second draft, an edit, a lost answer or restart
(`MaxUpsets`). The theorems hold for any number.
*booking*: two approvals, two cancels, three events, two slips.
*cards*: two cards of two actions, two turns, three actions a day, one restart.
*cadence*: three rows (a check-in, its successor, one of a save or a rerun), two saves,
two edits; in `office_live`, where it is switched off, the check-in and its successor, one save.
*slots*: two clients - a rotation then has one target besides the original - and one
operation that fails; a second failure meets a state for which `mishap` is mostly
set. The proof covers every number of clients.
`CHECK_DEADLOCK FALSE` in the runs of `MCOffice` and in `slots_both`: a card that is sent, a
meeting that is over or a state in which every bound is used up has no next step.
`Holdable` is empty in `office`: holding only keeps steps of the poll, the pass and the claims from being
taken, so that a state met with it is met without it. In `office_live` it comes and goes in all four
parts that have a liveness property, the others are left out; its card is one a
person taps on (`CardGates`), and its watcher's own send is in `office`.

## 5. Fairness

`FairSpec` (workflow runs) adds what the runtime gives: each poll's next statement runs (weak
fairness of `TickStep`: the loop sleeps a minute and wakes, asyncio runs a ready
task); a queued kick runs when its loop keeps becoming free, and a worker that can
go on ends its resume when its loop does (strong fairness, since `LoopFree` comes
and goes; specialist calls have timeouts); clocks pass deadlines (`GateExpires`,
`ClaimAges`). The liveness properties are conditional on the operator's pause ending
for good, because the poll does nothing while it lasts.

`GateFairness`: clocks advance (`BecomesDue`), the poll polls whenever it again and again
may (`ClaimDue`), a task and a request run on, and a turn ends, by its answer or its
timeout. The gate's decision gets strong fairness: a deferred row comes back at the start
of its approver's hours, so it is not deferred for ever. `DueActionsSettle` is conditional
on the scheduler not being held for good.

The same condition, `<>[]~holding`, stands in all liveness properties of what a tick starts or
claims: `DueActionsSettle`, `HeldMessagesEnd`, `UnconfirmedSettles`, `OffMeansOff`. A tick that is held
beats and does nothing else, so neither a pass, nor a scan, nor the claim of a check-in is
enabled or fair then, and a person may stop and go on for ever. `ApprovalsEnd` needs no
tick: a request or the next start ends an approval.

`HeldFairness`: time passes, a tick nothing holds starts a pass every minute, and each send ends.
The start of a pass is strongly fair at moments when some open row has no live claim
(`BriefCanTake`): the briefs go out twice a day and hold a row for one send only, so
passes also start while they do not.

`RequestsRunOn` and `WatcherScans` (replies): a request that was begun runs on, the mail
service settles what it was asked, the watcher scans every few minutes while nothing holds it. For replies
`holding` stands for an active client slot and a disconnected mailbox too
(`delegation/inbox.py`, module comment); a scan they meet half-way ends without a
word on the card (`ScanFails`).
`ChecksRunOn` and `ClockRuns` (check-ins): a poll that nothing holds goes on, a check-in ends, a request
that was begun is carried out, a row comes due.

In `office_live` these are merged (`FairOfficeSpec`): the watcher and the clock of the check-ins
could move a part the behaviour is not about, so their fairness is conditional on `part`.
Of the operator it is assumed only where a property says so: that the pause, the missing profile
or the rotation ends for good. Nothing is assumed of other people, of what the model or a mail
correspondent answers, of cancels or of processes staying up. `Bookings`, `ActionCards`
and `ClientSlots` have no liveness property: nothing in the code ends an interrupted
booking or card, and what ends in them ends in one request.

## 6. What is proved

Every safety invariant, action property and refinement of the passing runs is a theorem,
for every value of the constants. Every proof rests on the named assumptions of its module and on
nothing else. They say that null values are none of the values, that bounds are numbers,
that a finite set is finite where the proof counts it, and that choices are those of the code.

`WorkflowRuns_proofs`, for every number of runs, processes, kick tasks, tokens,
gates, gate kinds, policies, attempts and restarts, from `WorkersAssumption`,
`NullAssumption`, `DefinitionAssumption` and `BoundsAssumption`:

| theorem | property | database faults |
|---|---|---|
| `TypeCorrect`, `ShapeInvariant` | `TypeOK` and its strengthening | any |
| `OneOwnerHolds` | `OneOwner` | any |
| `StarterOwns` | `StarterOwnsTheRow` | any |
| `WaitingClean` | `WaitingRunsAreClean` | any |
| `DeliversOnce` | `OneArtifact` | any |
| `AcceptedStands` | `AcceptedAnswersStand` | any |
| `KicksReplay` | `KicksReplayTheRow` | any |
| `ResumedFindable` | `ResumedRunsAreFindable` | none |
| `OverStays` | `OverStaysOver` (implied by the refinement in the runs) | none |
| `Implements` | `ImplementsLifecycle` | none |

The argument. The thirty actions change a row in ten ways only, and the lemma
`NextMoves` says so: every step makes each run *begin*, be written by its
*starter*, be *answered*, *timed out*, *requeued*, *abandoned*, *claimed*, written
by the *owner* of its claim, *aged* or *deleted*, with the little each of these
says about driver, workers and tick. One lemma per group of actions proves it;
all invariants are then proved over the ten moves and never see the actions.

`Shape` strengthens the type invariant with what types alone do not give: a run
that waits, and one the timeout loop listed, is at some gate; a busy worker has a
run and a claim. `RowInv(r)` is the inductive invariant of a run: while its
starter is alive the row is untouched (`Owned`); a row has a claim only while it
is running or over (`ClaimsFit`), an answer only once it was asked (`AnswersFit`)
and an artifact only when it is done or failed after that (`ArtifactsFit`).
`ClaimsDiffer` says that two workers of one run have different claims, which is
what `OneOwner` rests on: a claim is fresh, and every write compares it.
Without `ClaimsFit` the fenced checkpoint could not be shown to leave a waiting run
alone, and without `Owned` the starter's unguarded statements could bring back a
run that is over.

`ResumedRunsAreFindable` is not inductive because the requeue adds an attempt to a row it
listed earlier. `RequeueFits` closes the gap: what a poll has listed for requeueing and is still
stranded has attempts left, since the list is worked off without an await and no claim
ages meanwhile; `PollsWork` says that a poll drives a resume in the last loop of its
tick only, so none of its own can end inside that stretch. `KickFits` is
the same with a claim that is still in the row in place of `Holds`: a row that has a claim is
not waiting, so no answer reaches it, and whatever else changes its payload or its answer
clears or replaces the claim.

`GatedActions_proofs`, for every number of rows, texts, subjects, attempts and
restarts, whatever the gate may decide, people click and the review does, from
`GateAssumption`, `GateNullAssumption` and `AttemptsAssumption`:

| theorem | property | database faults |
|---|---|---|
| `GateTypeCorrect` | `GateTypeOK` | any |
| `WorkedRunning` | `WorkedRowsAreRunning` | any |
| `SettledStay` | `SettledStays` | any |
| `RetriesAreBounded` | `RetriesBounded` | any |
| `NothingUnapproved` | `NothingUnapprovedGoesOut` | any |
| `CarriedOnce` | `CarriedOutOnce` | none |
| `HeldOnACard` | `HeldWorkHasACard` | any for escalations, none for proposals nobody can approve |

The argument. `GateShape` is inductive: types, every row in the table says what to send
(a card's key is made of it), and a row with a task is running. The last conjunct is
what makes the unguarded `mark_action_done` safe, and so gives `SettledStays` step by
step. `RetriesCounted` counts: before a task sends, its row has one attempt more than
messages, and a waiting row has one left - without it a deferral could not give its
attempt back. `CardsSpeak` is the invariant behind `NothingUnapprovedGoesOut`. A card
*stands for* a text when it is a proposal filed with it (or rewritten by the review), or
an escalation whose key it is; a held row, a task between filing and binding, and a
queued copy each have a card that stands for their text. It needs that an approved card
is never an empty one, because filing overwrites an empty card only, and that folding
touches escalations of the same key and unrouted proposals, which hold nothing.
`CopiesCounted` counts a card's copies against its approval: one that has not queued
yet has none but those that restarts cut off.
`HeldOnACard` is a statement about one step: only filing takes a claimed row to
its card, and an insert that is ignored found the action's own card. Its hypothesis, that the gate
files no routed proposals, is needed: those share a key per subject and do lose actions
(`gated_folded`, section 7).

`HeldMessages_proofs`, for any number of rows, people, principals and briefs, any cap
and number of mishaps (`HeldAssumption`): `HeldTypeCorrect`, `SentOnceButForMishaps`
(`SentAgainOnlyAfterAMishap`), `HeldRowsRight` (`HeldRowsAreRight`). `HeldShape` relates table and
senders (who has a claim has the row on its list, a message marked sent arrived).
`LoadsBounded` counts: the *load* of a message, its arrivals and the sends of it under way, is
at most one more than the mishaps, and at most the mishaps while somebody may still
claim the row, so that every claim has one to spare. It needs a third part for a pass that runs late:
what it has not reached yet it will take with a claim that has lapsed already.

`ReplySend_proofs`, for any number of taps, drafts, changes and troubles
(`ReplyAssumption`):

| theorem | property |
|---|---|
| `ReplyTypeCorrect` | `ReplyTypeOK` |
| `OneClaimant` | `ClaimIsExclusive` |
| `OneReplyGoes` | `OneMessagePerCard` |
| `CardSaysWhatBecameOfIt` | `ReplyCardIsRight` |
| `CheckedIsSent` | `SentAsChecked` |
| `DraftsAreKnown` | `NoDraftLeftBehind` |
| `ReplyPromised` | `ReplyKeepsPromise` |

`OneMessagePerCard`, the second half of `ReplyCardIsRight` and `ReplyKeepsPromise` speak of what
happens until a send is misjudged (section 7); `ClaimIsExclusive`, `SentAsChecked` and
`NoDraftLeftBehind` need no such exception.

`ReplyInv` has three parts: what a sender past the claim relies on (the card is executing and in
`SENDING`, it is the only one: `SenderFits`), what holds once a request is out
(the card is not on offer, nobody is about to send, no other draft is out - until one was
misjudged - and it is the version that was checked, always: `DraftFits`), and the card's word. Most steps carry no send on; the lemma `ReplyQuietKeeps` proves
the invariant for all of them from what they may do at most, and only the claim, the
second read, the send and its ends are proved one by one. `NoDraftLeftBehind` has an invariant
of its own (`DraftInv`): without trouble either the watcher's draft is on the card for good or every
draft has the request that made it still at work.

The refinement of `CardPromise` rests on `ReplyInv`. `EveryMove` maps each step to what it
does to three things - the card's status, whether a send is under way, the drafts that went
(`PromiseMove`) - and most steps are quiet (`QuietPromise`). `OfferedIsFree` carries the promise: a
card on offer has no sender at the send, no request at the service and no message in the thread,
so that a refused send and the reconciler's verdict may put it back. The messages of a card
count as no deed or one by `NoneOrOne`, from the invariant that no two drafts go.

`LedgerCards_proofs`, for any number of approvals, cancels and events (`BookingAssumption`):
`BookingTypeCorrect`, `StraysAreSlips` (`CalendarMatchesTheCard`). `BookingFits`: the row names an event
only once it recorded one, an event in the hands of an approval is live and nobody else's, a
cancel works on the event the row still names. The events nobody answers for are then
counted: each of them cost a slip, an unnamed one when it was made (`UnnamedStep`).

The same module, for any finite set of cards, any card size, turns and daily limit
(`ActionCardsAssumption`): `CardsTypeCorrect`, `HappensOnce` (`ActionHappensOnce`), `SuggestionRight`
(`SuggestionIsRight`), `WithinTheDay` (`OwnWithinTheDay`), `ActionsPromised`
(`ActionsKeepPromise`). A turn that carries a card out is alone in
that and knows what is left (`TurnFits`); a card nobody claimed did nothing
(`CardFits`). The daily limit needs that the turn that runs on its own holds the lock
(`LockFits`), and counts what it has claimed with what is recorded. The refinement follows
action by action: proposing offers a card, a claim takes it and puts it to work, and the turn's
end or a crash is the end of that work (`TurnsEnd`), because no other turn is at that card.
An action of a card performs a deed not done before by `TurnFits`.

`Cadences_proofs`, for any number of rows, saves and edits (`CadenceAssumption`):
`CadenceTypeCorrect`, `StaysOnTheCalendar` (`OnTheCalendar`). `OnTheCalendar` speaks of moments when
everybody is through. In between, `CalendarKept` says where the chain will go on from: a row that
waits, a task that still has the chain to see to, a save that is still to queue
one, or a switch to team that is under way and will queue what is missing (`SomebodyGoesOn`). A save cancels the other rows only after it inserted its own, and `SaverFits` says
that nobody has touched that row meanwhile; where the check-in was off when it
looked, whoever switched it on since is still to re-time it.

`ClientSlots_proofs`, for any number of clients and failures (`SlotsAssumption`):
`SlotsTypeCorrect`, `KeepsClients` (`ClientsAreKept`), `GivesBack` (`RotationGivesBack`). `Sound` is
what the code relies on between two steps while no mishap has happened: the sentinel names the
live company, except within an operation and while the rotation recovers; then every
client's newest state is in its slot, so that nothing is lost by discarding the
live one (`AllHeld`).

`Office_proofs`, for any set of parts and any values of their constants:

| theorem | says |
|---|---|
| `OfficeParts` | a behaviour of `MCOffice` is one of each of the seven components |
| `OfficeTypeCorrect` | `OfficeTypeOK` |
| `OfficeIsRight` | the sixteen safety invariants the runs check of the parts, together |
| `OfficeKeepsPromises` | `SettledStays`, `ActionsKeepPromise`, `ReplyKeepsPromise`, `RotationGivesBack`; without database errors `CarriedOutOnce`; under the hypothesis of `HeldOnACard`, `HeldWorkHasACard` |

`OfficeParts` is composition: the office starts as every part does, and a step of
it is a step of one part and leaves the variables of all others alone, a stutter to them. What is
proved of a part then holds of the office by temporal logic alone, so that the runs of
`MCOffice` are small instances of theorems too.

Only model-checked: the liveness properties (`AnsweredRunsMove`, `ResumedRunsSettle`, `GatesClose`,
`DueActionsSettle`, `ApprovalsEnd`, `HeldMessagesEnd`, `UnconfirmedSettles`, `OffMeansOff`), which
are out of the prover's reach.

## 7. Where code and documentation disagree

Each of these is a run that TLC must find violated.

- `workflow_done_flips`: `_abandon_resume` writes without the claim. The kick's resume says
  nothing for 90 minutes, the poll requeues the run and its own resume finishes it; then the
  kick's fails and turns `done` into `error` - what `finish_resumed_run` says its fence is for.
- `workflow_snapshot`: the poll lists rows, awaits the resumes before, claims by the
  row as it is now and executes the row as it was. A run whose kick took it to a second
  gate, where it was rejected, is claimed by that rejection and replayed with the first gate's
  approval: it parks at the second gate anew, the rejection is gone and the question asked again.
- `workflow_late_reply`: a second answer read at gate 1 is recorded for gate 2;
  `store_resolution` compares the status and not the gate.
- `gated_folded`: a proposal without a suffix has a one-shot key of 60 characters; a
  second action that begins alike - or the same one, after its card was handled - is
  marked done without a card, where the runner's comment has it folded into an open one.
- `gated_review`: the alert review sets the status of a card it read before its model
  call; an approved card whose approval failed can then not be retried.
- `slots_both`: a demo is loaded between two steps of the rotation; the forced restore
  does not look at the demo's sentinel, and a client and a demo are active together.

The models also take these steps, which a property had to be stated around; no run is
dedicated to them:

- Workflow runs, with database errors: a kick that meets a locked database when it claims
  (`KickClaimBusy`) fails the run, which the poll would leave for its next tick; the two
  writes of `_abandon_resume` fail separately, and with the first lost the run is in no
  queue; with the second lost a failed run keeps its claim, and the fence of
  `save_checkpoint` (`workflows/persistence.py:387`) compares the claim and not the
  status, so a run that is over can come back.
- Approvals, with database errors: when the copy of an approved action is queued and recording
  that fails (`ApproveFails`), the answer is "It couldn't be queued." and the approval
  may be given again.
- Replies: `_settle_unconfirmed_send` takes `unconfirmed_seen` away only when it releases the
  card (`delegation/inbox.py:1778-1779`). A scan that listed a send and sets the flag after that send was
  refused, and the card offered again, leaves it for the next one: the first sight of a
  later unconfirmed send then releases the card, or closes it where the draft is gone, while the
  service may still carry the send out, and the reply can go twice. "Check now"
  may scan sooner than the minutes between two scans as well. The model takes the first of these
  (`misjudged`), and the properties of replies say where they stop.
- Replies: taking back the draft of a refused tap deletes the draft another tap is about to
  send (`card_drafts.py:188`); the comment in `reply_send.py` that an edit "is never sent
  unchecked" does not cover one between the second read and the send; `_hand_back` may
  overwrite the id of a draft that a concurrent tap made, and the reconciler then never
  settles that card (`inbox.py`, `if not draft_id`); a draft whose creation was not
  confirmed stays in the mailbox.
- Meetings: a booking whose answer names no event is recorded without one
  (`orchestrator/calendar_tools.py:1109`); the person is told to delete it in the calendar, and
  of one that lost to another approval nobody is told.
- Meetings: the tool's own booking does not look at what `mark_executed` returns
  (`calendar_tools.py:903`); its event stays when the row was resolved meanwhile.
- Action cards: a restart after the claim leaves a card executing for ever, and what it
  did does not count towards the day. Nor does what happened on a card that then failed:
  `OwnWithinTheDay` measures the day as the ledger counts it.
- The alert review rewrites a proposal's text and not the action its card holds
  (`alerts/review.py:713`): `NothingUnapprovedGoesOut` takes either text for the card's.
- Held messages: a row that the cap closes while it is being sent arrives all the same;
  `HeldRowsAreRight` leaves out what the cap closed.
- Held messages: an error in the claim of `release_due` leaves the pass, although the
  function says it never raises.
- Check-ins: a switch to team in the middle of a check-in's or a save's statements, two saves that
  cross, and a department just made can leave no check-in queued until the next start or edit
  (`adrift`); two chains of one department at once are possible too, and no property denies them;
  a rerun is queued without its department (`workflows/failure_alerts.py`,
  `queue_rerun`), so the sweep at start takes it for an orphan.
- Client slots: "nothing is lost by discarding the live state" (`_force_restore`) fails
  when the save-back within the rotation's activation had failed, and when a waiting
  save gets the lock before the recovery; after a person's failed activation the
  sentinel names the previous client, so that the next save-back spoils its slot;
  what is done for a client while a demo comes in, after its park, is lost; a failed
  park is logged and the demo comes in with the client's sentinel set. All of these are
  `mishap`.

## 8. Limits

- One process, except for workflow runs: the scheduler says it assumes a single worker
  (`claim_due_actions`), and the guards of replies and action cards are in-process.
- Clocks. A claim of a workflow run ages (`ClaimAges`) while no poll is between two statements
  of its tick: the guarded requeue compares with the cutoff of its listing. A
  check-in row comes due only once no save has it in hand. The mail service has
  settled a send by the second scan in a row that sees it unconfirmed (not by the first
  one, even if a flag is there: `misjudged`), which "Check now" may bring nearer than the
  interval the watcher waits.
- Troubles. Mishaps, troubles, slips, stops, faults, restarts and edits are bounded by constants
  in TLC's runs; the theorems hold for every bound. Where a property is weakened by one it
  says by how much (`1 + crashes`, `1 + mishaps`, `slips`).
- An unrouted proposal that folds into an open card replaces its text;
  `HeldWorkHasACard` speaks of the moment of filing only.
- A restart between queueing a copy and recording it lets a second copy go out: the bound of
  `CarriedOutOnce` grows with restarts, and so does that of `RetriesBounded`, because
  an attempt a restart cut off is tried again.
- A run whose client hangs up before its first gate stays `running` for ever: nothing
  in the code looks for it. The model has the step (`DriverCancelled`) and no
  liveness property covers it.
- A resume that never ends blocks its poll. `FairSpec` assumes it ends.
- An artifact is stored and then delivered; the delivery a crash loses is not
  modelled. The heartbeat tasks of the scheduler besides the check-ins are not either.
- Client slots: routes in threads that write between a save's copy and the restore, and tasks that
  mark rows by their id in whatever database is live by then, are not modelled; nor is an end of
  the rotation under fairness.
- What a step computes, the text of a question, how an approver is notified, and
  writes to outside services are not modelled.
- Components whose status in `PROJECT.json` is `not_modelled` carry the reason there. Of
  these the nudge caps, the onboarding commit, roster requests (a decision, the replay of the
  messages held for it, a crash between the two), the knowledge review queue and the
  gateway's reconnects keep state that a model could say more about.
