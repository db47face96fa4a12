# Outreach Hub in TLA+

Outreach Hub takes lists of prospects, enriches them, drafts one email per
prospect and sends it from a pool of mailboxes within daily caps. Everything
that takes longer than an API request runs through one durable queue in
Postgres, worked off by a small fleet of Node processes that may crash, pause,
be stopped or be cut off at any moment. This directory holds

- a model of that queue and of the workers on it (`OrchestrationQueue`,
  `OrchestrationWorker`), the abstract job lifecycle it implements
  (`JobLifecycle`), and proofs for every number of jobs, workers and lanes;
- a model of the outbound email queue on top of it (`EmailSendQueue`) with
  proofs about who may send an email, and how often, and of the daily slots it
  shares out (`InboxSlots`);
- a model of the drafting pipeline (`DraftingStore`, `DraftingWorker`,
  `DraftingRecovery`) with proofs that an item has one execution, a company one
  paid research, and that the money of open jobs is reserved;
- a model of an enrichment run (`RunLifecycle`) with proofs that it is complete
  only when all of it was asked for;
- a model of the answers to leads who write back (`ReplyThread`) and of the probes
  of mailboxes (`MailboxProbe`), with proofs that nothing is sent twice;
- a model of the lock file that keeps one worker per checkout (`WorkerLock`) and of
  the daily cycle of the auto campaigns (`AutoCampaign`), with proofs that one
  worker runs, that quotas are kept and that nobody is paid for twice.

`PROJECT.json` lists, for each definition, the lines of the source it
translates, the runs, the hazards and the theorems. Paths below are relative to
the repository.

To check something:

    tlc -workers 2 -config queue_safety.cfg MCWorker.tla
    tlc -workers 2 -config queue_timely.cfg MCOrchestration.tla   (and the other queue_*)
    tlc -workers 2 -config pipelines_safety.cfg MCPipelines.tla
    tlc -workers 2 -config pipelines_liveness.cfg MCSourcing.tla
    tlc -workers 2 -config send_safety.cfg MCEmailSend.tla        (and send_race)
    tlc -workers 2 -config send_liveness.cfg MCMail.tla
    tlapm OrchestrationProofs.tla         (and DraftingProofs, WorkerLockProofs,
                                           EmailSendProofs, RunProofs, ReplyProofs,
                                           MailProofs, CampaignProofs)

## 1. The system

### 1.1 Components

| Component | State it keeps | Operations |
|---|---|---|
| **Orchestration queue** `lib/orchestration/repository.ts`, `db/orchestration_schema.sql` | `orchestration_jobs` (one row per kind and dedupe key: status, attempts, lease owner and expiry, `available_at`), `orchestration_workers`, `orchestration_lane_controls` | enqueue, claim, heartbeat, complete with children, retry, fail, cancel, reschedule, reclaim, release at boot, registry register / heartbeat / unregister / collect |
| **Orchestration worker** `lib/orchestration/worker.ts`, `fleet.ts`, `config.ts` | in memory: the `active` map, `stopping`, whether `poll` is in a cycle | boot, poll, execute and settle, timers, drain and unregister |
| **Job handlers and reconciler** `handlers.ts`, `enrichment-finalize-guard.ts` | none of their own; runs, drafting, sends | one handler per kind; the reconciler re-enqueues what is stranded |
| **Worker lock file** `worker-lock.ts`, `scripts/orchestration_worker.ts`, `scripts/dev_with_worker.js` | a file with a token and a pid | acquire, terminate the holder and rotate, release; a wrapper restarts its worker when the source changes |
| **Mailbox probes** `mailbox-probe.ts`, `mailbox-verify*.ts` | `orchestration_mailbox_probes`: the intent to send, per address; `leads.email_verification` | intend, send, acknowledge, withdraw after a rate limit, give the rest of the run up |
| **Drafting jobs and items** `drafting/jobs.ts`, `repository.ts`, `state.ts`, `db/drafting_schema.sql` | `drafting_jobs`, `drafting_items`, company-research leases, reservations on the run | claim, finish, defer, cancel, advance an item, own or wait for company research, pause, resume |
| **Drafting transport** `drafting/transport.ts`, `queue-orchestration.ts` | the orchestration row of each drafting job | dispatch, hand over in the completion of another row, reconcile |
| **Drafting rescue and late sync** | items and runs | reset stranded items, wake parked ones, queue idle ones again, sync late rows |
| **Email send queue** `drafting/send-queue*.ts`, `send.ts`, `agentmail-send-errors.ts` | `email_send_queue` (at most one active row per item, by a unique index), `email_sends` | dispatch, deliver, send now, move, cancel, retry failed, reconcile, rebalance |
| **Reply pipeline** `drafting/reply-*.ts`, `agentmail-engagement.ts` | `inbound_emails`, `reply_sends`, `email_sends.processed_webhook_ids` | take in by webhook or poll, respond, follow up, opt out, park, revive |
| **Provider admission** `drafting/provider-admission.ts`, `anthropic-semaphore.ts` | a semaphore and a cool-down in memory | admit, back off |
| **Enrichment pipeline** `enrichment.ts`, `runs.ts`, ... | `runs`, `uploads`, research rows, `company_research_jobs` shared by runs | extract, prepare, decide, research, finalize behind a barrier, cancel |
| **Pre-enriched ingest** | runs | the same barrier |
| **Auto campaigns** `auto-campaigns/*`, `campaigns.ts` | the campaign's row with the cursor of its search, `leads`, `campaign_leads.sourced_on` | the daily cycle: search, pay, store, attach, widen; pause, resume, retarget, archive |
| **Budgets and costs** | reservations, cost events | reserve, settle, cap |
| Uploads and identity, dashboards, scrapers, web application | their own tables | parsing, reports, pages; they call the components above |

### 1.2 How they interact

Handlers and API routes put work in by `enqueueWork`, which is idempotent by
(kind, dedupe key). Workers claim it with `claim_orchestration_job`, run a
handler, and settle it with one statement. A completed job enqueues its children
in the transaction that completes it. All exclusion between processes comes from
three things: row locks within a statement, the comparison `status = 'in_flight'
AND lease_owner = $worker` in the statements that settle, and unique indexes.
There is no lock that outlives a statement, so whatever a process reads may be
stale when it writes.

The email queue has two tables that must agree: `email_send_queue` says what is
still to be sent, `email_sends` what was. A row is carried by an `email.send` job
of the orchestration queue; the row's status, not the job's lease, decides who
may send. Drafting does the same: a `drafting_jobs` row has a status and an
attempt count of its own, and an orchestration row that carries it. Enrichment has
three: the run's status, the research job of each company, and the rows.

Enrichment feeds drafting (a finished lead becomes an item), drafting feeds the
email queue, a sent email is a thread for replies. They share the workers and the
orchestration queue, and hand over what is finished; none waits for a row of
another. That is why each is a model of its own.

### 1.3 What is hard, and what makes each part correct

- *Orchestration queue.* A lease that expires, or whose worker goes silent, is
  taken over while its body still runs; the lease names a worker and not a claim,
  and a restarted process reuses its id, so the leases of its predecessor come
  back to life. Correct when no claim is executed twice, no protected job is
  taken away, the attempt budget holds through every way back to pending, and
  every job ends.
- *Orchestration worker.* Stop, crash and restart at any statement; the answer
  to a committed statement is lost; the active map is keyed by job. Correct when
  bodies respect the limits of lanes and processes, a restart leaves no lease
  behind without a body, and a late settlement changes nothing.
- *Email send queue.* Deliveries, the reconciler and API requests work on the
  same rows between awaits; the provider may have accepted an email whose record
  is lost. Correct when an email is accepted once, and once more only for an
  acceptance nobody could record, when a row counts as sent only with its record,
  and when no email stays in the queue for ever.
- *Enrichment.* `run.finalize` must wait for every research row, those about to be
  inserted too; a complete run must not be opened or failed again; a research job
  is shared by runs one of which may be cancelled. Correct when no run completes
  before all its companies were asked for, and every run ends.
- *Drafting.* Three claims guard one execution (the job's status, the item's
  execution lock, the company's lease), each with a clock of its own. Correct when
  an item has one execution, a company one paid research, the money of an open job
  is reserved, and no item stays in the pipeline for ever.
- *Replies.* The provider repeats webhooks, the poll finds the same messages,
  handlers die and are retried. Correct when a message is answered once, a
  follow-up never goes to a lead who wrote again, and no message is forgotten.
- *Mailbox probes.* Correct when no address is probed twice, through crashes after
  the provider's acceptance, lapsed leases and rate limits.
- *Slots.* The usage of an inbox is read and then used without a lock. Correct when
  an excess is found and moved.
- *Worker lock.* The file is read, compared and unlinked in calls of its own, and
  signals, deaths and restarts come in between. Correct when one process at a time
  runs as the worker of a checkout, except that a worker may outlive its killed
  wrapper, whose pid is the one the lock knows.
- *Auto campaigns.* A cycle works from a snapshot of the campaign and of the people
  known, pays before it stores and stores before it attaches; the user edits the
  same row; an error, a crash or a second execution may come at every await. Correct
  when a day's quota is kept, nobody is paid for twice, the search follows the
  targeting, a campaign is given up only when all was searched, and one that is live
  is served.

The full list, each with its line, is under `hazards` in `PROJECT.json`.

## 2. The modules

    JobLifecycle  <--implements--  OrchestrationProperties
                                         |  extends
       OrchestrationQueue  <----  OrchestrationWorker
    MCOrchestration                        extends OrchestrationProperties
    OrchestrationProperties  <----  OrchestrationProofs
    WorkerLock  <----  WorkerLockProofs    AutoCampaign  <----  CampaignProofs
    MCWorker       extends MCOrchestration, WorkerLock and AutoCampaign

    DraftingStore  <----  DraftingWorker  <----  DraftingRecovery  <----  DraftingProperties
    DraftingProperties  <----  DraftingProofs
    RunLifecycle   <----  RunProperties   <----  RunProofs
    MCPipelines    extends DraftingProperties and RunProperties
    MCSourcing     extends MCPipelines and AutoCampaign

    EmailSendQueue  <----  EmailSendProperties
    EmailSendProofs, MCEmailSend           extend EmailSendProperties
    ReplyThread  <----  ReplyProofs        MailboxProbe, InboxSlots  <----  MailProofs
    MCMail         extends MCEmailSend, InboxSlots, ReplyThread and MailboxProbe

`JobLifecycle` is also the reason the parts may be checked apart: it is all that
the others take over from the orchestration queue (section 2.10). `MCPipelines`,
`MCSourcing`, `MCMail` and `MCWorker` hold several components, each with its own
variables: a behaviour is one of either component while the others have nothing to
do, which is sound because none reads or writes a variable of another. `MCWorker`
goes from one component to the next when the first has come to rest.

### 2.1 OrchestrationQueue: tables and statements

One action per statement or transaction of `repository.ts` and per SQL function.
A row is a record of the columns the properties tell apart.

| Model | Code |
|---|---|
| `job[j].status`, `.attempt`, `.owner` | `status`, `attempt_count`, `lease_owner` |
| `.live`, `.ready` | `lease_expires_at > NOW()`, `available_at <= NOW()` |
| `.revival` | no column: counts `reviveTerminal` updates, so that (job, revival, attempt) names a claim |
| `registry[w]` | the row of `orchestration_workers`: absent, younger than 45 s, older |
| `paused` | `orchestration_lane_controls` |
| `EnqueueWork`, `ClaimWork`, `ClaimNothing`, `HeartbeatWork`, `CompleteWork`, `RetryWork`, `FailWork`, `CancelWork`, `ReschedulePendingWork`, `ReleaseOwnedInFlightOnStartup`, `ReclaimExpiredOrchestrationLeases`, `RegisterWorker`, `HeartbeatWorker`, `UnregisterWorker`, `GarbageCollectStaleWorkers` | the functions of the same names |

Time is abstracted to the three tests the statements make, and the clock is
three actions (`BecomesReady`, `LeaseExpires`, `GoesStale`). The `UPDATE` that
fails exhausted dead leases stands at the head of `claim_orchestration_job` and
commits also when the function returns no row, so it is part of `ClaimWork` and
the whole of `ClaimNothing`. `ORDER BY` and the fair share between scopes bind
nothing under `SKIP LOCKED`, which hides any row another transaction holds:
`ClaimWork` may return any claimable row.

### 2.2 OrchestrationWorker: the processes

`proc[w]` is where a process is between two awaits of `start()` and `stopOnce()`,
`poll[w]` whether `poll()` is in a cycle, `active[w]` the keys of the active map.
A body is named by the claim that started it and is in one of three sets:
`arriving` (the claim has committed, its answer has not been handled), `working`
(in its handler), `failing` (in the catch block of `execute`). A body that lost
its lease goes on and settles against whatever the row has become.

Faults are actions and share the bound `MaxFaults`: crashes and signals
(`MaxStops`); heartbeats that come too late although a body or process lives
(`MaxLapses`); statements that commit, or fail, without an answer
(`MaxDbErrors`). Where the commit of a statement and the arrival of its answer
are one action, nothing else of the process reads the difference; for claims
they are two, because a stop may come in between.

Callers outside the workers (the API, the send scheduler) enqueue, cancel and
reschedule any row but that of `system.reconcile`.

Left out: telemetry, payloads and results, `markTerminalWorkFailure` (it writes
to runs: see `Throws` of `RunLifecycle`).

### 2.3 DraftingStore, DraftingWorker, DraftingRecovery

`DraftingStore` has the tables and the statements all parts share,
`DraftingWorker` the handlers of `drafting.job.*`, `DraftingRecovery` the sweeps of
the reconciler, time, faults and the user, and the specification.

| Model | Code |
|---|---|
| `item[i].state`, `.rr`, `.dr`, `.packet`, `.tries`, `.err` | `drafting_items`: state, research and draft revision, the research packet, the tries at an empty brief, the error code |
| `Allowed`, `CanMove` | the table of `lib/drafting/state.ts`, the compare of `transitionItemState` |
| `lock[i]`, `lease[c]` | the execution lock of an item, the research lease of a company |
| `jobs[k]` | `drafting_jobs` by idempotency key: status, attempts, reservation, run; `.row` is the orchestration row that carries it |
| `runs[r]`, `latest`, `ws` | `drafting_runs` with `reserved_cost_usd`; the newest run; the status of the workspace |
| `Refusable`, `Closed`, `FinishedJobs`, `FinishedRuns` | `claim_drafting_job`, `finish_drafting_job` |
| `Claim`, `Begin`, `ClaimLease`, `Park`, `Research...`, `Wake`, `BeginWrite`, `Draft...`, `Finish` | `processDraftingJob`, `handleResearch`, `coordinateCompanyResearch`, `persistDraftFromProvider`, `wakeParkedCompanyResearchSiblings` |
| `Pressure`, `Yield` | `deferDraftingJobForRetry`; `finishCompanyResearchLease` before the parked siblings are woken |
| `Reap`, `ResetBacking`, `Reclaim` | the reclaim of orchestration rows, `resetBackingPendingWork`, the rescue's reclaim of drafting jobs |
| `StrandedRead`, `ResetStranded`, `OrphanRead`, `SweepWake`, `SweepIdle`, `RunPasses`, `Recompute`, `FinalizeIdle` | the passes of `reconcileDraftingWorkspaceQueue` and of the rescue; what a pass has read is in `sweep` |
| `UserRetry`, `Pause`, `Resume` | the API |

A handler (`ag[a]`) stands between two statements or transactions and keeps what
it has read. `Crash`, `Sleep` (a machine that suspends, with its handlers, and
wakes up later), lost completions, provider errors, pauses and the overage of a
lease are faults under one bound. The clocks (ten minutes of a job, the lock and
the lease) are actions that ask whether a heartbeat would have renewed them: an
awake handler's never lapse.

Who wakes the parked siblings of a company works off a list: `Found` has each with
the revisions read along with it, and `WakeParked` names and guards its job by those,
whatever the item has become.

`disowned` is history: items an execution of which lost its claims while it ran
(overage, pause, sleep), and items that `ResetStranded` reset after a job had come to
them again. The second is needed: an item is read as stranded, a late wake gives it a
job, it is researched (by a reconcile job whose worker dies before it is finished) and
is being written when the reset puts it to a failed state; another late wake and the
reconcile job, once reclaimed, begin a second execution. With `disowned` limited to lost
claims, TLC finds that execution from the state in which the reset is due.
Statements whose order nothing can observe are one action (the module says which).
Every amount is one unit. Mailboxes are valid and an item's input does not change.

### 2.4 RunLifecycle

| Model | Code |
|---|---|
| `status`, `upload` | `runs.status`, `uploads.status` of the run's one file |
| `research[c]` | `company_research_jobs`: state, `requested_by_runs`, whether it was claimed more than ten minutes ago |
| `recent` | the runs with `started_at > now() - interval '7 days'`; `started_at` is set when a run is staged and never again |
| `row[<<kind, r>>]`, `scope` | the orchestration rows, and the scope key of research rows, which `countOpenEnrichmentWork` reads |
| `Process`, `Extract`, `Extracted`, `Prepare`, `Scanned`, `Enrich`, `AskFor`, `AllAsked` | `run.process`, `upload.extract`, `run.prepare` with `prepareRunEnrichment` and `completePriorEnrichmentScan`, `run.enrich` |
| `ResearchClaimed`, `Researched`, `ResearchFails`, `FinishedJob`, `CompletedRuns` | `executeResearchJob`, `claim_research_job`, `finish_research_job` |
| `Finalize`, `canFinalizeEnrichingRun`, `FinalizeWrites` | `run.finalize`, the guard, `finalizeRunEnrichment` |
| `Decide`, `CancelRun`, `CancelScope` | the user's decision about people enriched before, `cancelEnrichmentRun` and the cancellation of rows that follows it |
| `ResetInFlight`, `DispatchPending`, `FinalizeTerminal`, `ProcessInterrupted` | the enrichment sweeps of `system.reconcile` |
| `WeekPasses` | the seven days are over, before or after the run is queued |
| `Throws` | a handler's last error with `markTerminalWorkFailure` |

A run begins as `queueEnrichmentRun` has queued it, with its `run.process` row or,
when the process died in between, without. `ProcessInterrupted` restarts a queued or
extracting run only while it is `recent`; nothing else reads `recent`, so the week
ends only where that sweep would look.

`Complete` is the one transaction that closes a row and enqueues its children. A
barrier that is not met puts its row back as it was and is no step;
`PrepareGivesUp` and `FinalizeGivesUp` are the attempts it uses up. `prepared` and
`troubled` are history: runs whose companies were all asked for, and runs that
were cancelled or a handler of which threw or lost its row. `Scanned` has the scan's
write and the reread of the status that follows it in one step.

### 2.5 EmailSendQueue

`row`, `work` and `sent` are the queue rows, the job of each row and the items
with a record in `email_sends`. An *agent* is one activation of a function:
bodies (handlers of `email.send` and `system.reconcile`) or API requests. It has
an operation, a place (the next statement) and a row; what it has read before is
gone when it writes, so an agent stands between every two statements of

| Model | Code (`lib/drafting/send-queue.ts`) |
|---|---|
| `DispatchBegin` ... `LinkRow` | `dispatchDraftSend`, `enqueueOverflowBatch`, linking of the job |
| `MoveBegin`, `MoveRow`, `Rescheduled`, `NotRescheduled` | `moveSendQueueItems`, overflow of `retryFailedQueueItems`, `applyQueueItemSchedule` |
| `CancelBegin`, `DropWork`, `CancelRow` | `cancelSendQueueItems` |
| `SendNowBegin`, `Place`, `Today`, `SendNowClaims`, ... | `sendNowQueueItems` with its waterfall |
| `DeliverBegin` ... `DeliverSkips` | `handleEmailSend`, the claim of `processQueuedEmailSend` |
| `CheckSent`, `Accepts`, `Refuses`, `RecordSend`, `Caught` | `executeImmediateResend` |
| `MarkSent`, `PutBack`, `FailRow`, `Complete`, `Retry` | the final updates and the settlement of the job |
| `FindsRecorded`, `FindsStuck`, `FindsStranded`, `FindsOverCap`, `Unstick` | `reconcileEmailSendQueue`, `rebalanceOverCapSendQueue` |

`MayBeActive` is the unique index on the active rows of an item. `old` is
"`updated_at` is more than fifteen minutes ago"; `BecomesOld` is time passing over
a row nobody holds, `Overdue` (a fault) over a sender that hangs. Three ghosts do
not exist in the code: `accepted` counts what the provider took, `lost` the
acceptances whose record can not be made any more (a death, a timeout or a failed
insert between the two), `disturbed` the items whose sender had its row taken
away by somebody else's update.

Abstractions, each of which leaves more behaviours than the code has or drops a
case that changes nothing here:

- Dates, caps and inboxes are choices: a waterfall places a row, on another day
  or today, or finds no capacity (`Place`, `Today`, `NotToday`); `FindsOverCap`
  may pick any queued row.
- A batch of rows is one request for each row. The immediate send of a dispatch
  is a request of its own.
- `itemAlreadySent` is asked in two places before the provider is called; only
  the last read counts and the earlier one is dropped.
- A missing draft and a missing mail configuration are the one choice `DraftGone`.
- Rows that failed under an account pause: both senders put such a row back to
  queued, so the reconciler's query for paused *failed* rows, which exist from
  earlier versions only, is left out.
- `LIMIT` pages are ignored; the reconciler may find any row its query matches.

### 2.6 InboxSlots

Rows have a status and a slot (an inbox on a day). A *planner* is one call that
places rows: `enqueueOverflowBatch`, `sendNowQueueItems`, `retryFailedQueueItems`,
`moveSendQueueItems` or `rebalanceOverCapSendQueue`. It loads its rows (`saw`), reads
the queued half of the usage (`ReadQueued`), then the sent half (`ReadSent`: the two
queries of `inboxUsageFromDate`), makes a plan by the rule of `allocateInboxSlots`
(`Waterfall`) or checks the target (`move`), and writes row by row (`InsertRow`,
`UpdateRow`, which compare nothing but the id). Delivery (`Taken`, `Gone`, `NotGone`)
goes on meanwhile and never looks at a cap.

`PlansFillInOrder` says what a plan is worth: by what the call has read no inbox gets
more than its cap on a day, no room is left before what is used, and of two emails the
older is not the later one. A `move` is excepted. It has a check of its own, which
counts the rows that come from another day and not a failed row that is put back on
its own day, so such a row may take an inbox over its cap.

`SlotsAssumption` asks for enough days (a bound): three slots for every email, so that
each finds a place beside all that wait or were sent, counted twice at worst. The
code gives up after ten thousand days.

The sent half counts a failed-over or moved email where it was sent. Days do not
pass: the property is about one reading of the calendar. `sendNowQueueItems` has a
second check after its waterfall has written; whether it refuses there or not, the
rows are where the waterfall put them.

### 2.7 ReplyThread and MailboxProbe

| ReplyThread | Code |
|---|---|
| `event[m]` | what the provider still does: repeats a webhook until a 200, or has missed it, so that only the poll finds the message |
| `Deliver`, `Poll`, `Mark` | `applyAgentMailWebhookEvent`, `reconcileAgentMailInbound`, the end of `ingestMatchedInbound`, which writes back the list of processed events it read first |
| `Store`, `CancelFollowups`, `Look`, `CountSent`, `Count`, `InsertReply`, `EnqueueReply` | `processInboundLeadReply`, one action per statement |
| `TakeRow`, `ClaimReply`, `ClaimsNothing` | the row's claim, `claimReplySend`, and the reread when it claims nothing |
| `Check`, `Draft`, `OptOut`, `Send`, `Record`, `InsertFollowup`, `EnqueueFollowup`, `Fails`, `Park` | `processReplyFollowup`, `processClaimedReply`, `sendAndRecord`, `queueFollowup`, `markFailed`, `parkReplyForAgentMailPause` |
| `RevivePaused` | `reconcilePausedReplySends` |

A reply is named by its message and kind, which is the unique index
`idx_reply_sends_one_per_inbound` for immediate replies; a follow-up is named by
the reply it belongs to. `declined`, `answered`, `mailed` are history. `answered`
has the follow-ups that were claimed after a newer message had been stored.

| MailboxProbe | Code |
|---|---|
| `verdict`, `intent`, `errand` | `leads.email_verification`, `orchestration_mailbox_probes`, the row of `mailbox.lead` |
| `Schedule`, `SweepFailsOpen`, `TakeErrand` | `scheduleLeadMailboxVerification`, `sweepPendingMailboxVerifications`, the first checks of the cascade |
| `NextAddress`, `Intend`, `ProbeSent`, `Acknowledge`, `Withdraw`, `SendErrs` | `runMailboxVerificationCascadeForLead`, `sendMailboxProbeOnce` |
| `NoBounce`, `Bounced`, `MarkLimited`, `FailOpen`, `MarkUnknown` | what is written about the lead and about the rest of the run |

### 2.8 WorkerLock

| Model | Code |
|---|---|
| `lockFile` | the path: free, or the token of its holder and whether its content is written yet |
| `process[p]` | a worker process: where it is in `acquireOrchestrationWorkerLock` or `releaseOrchestrationWorkerLock`, its life (a new process has a new token), the token it has read |
| `wrapper`, `OwnerOf` | `dev_with_worker.js`, which starts the worker, passes signals on and is the pid in the lock; a worker started by hand owns itself |
| `Create`, `WriteLock`, `Refuse`, `Read` | `writeFileSync` with flag `wx` (the path appears, the content follows), `readStoredLock` |
| `Signal`, `Died`, `KillHard`, `GiveUp` | `terminateProcessTree`, `waitForDeath` |
| `Compare`, `Unlink`, `ReleaseCompare`, `ReleaseUnlink` | `unlinkIfOwned`: the read with its comparison, and the unlink of the path |
| `StartWorker`, `StopWorker`, `WorkerDies`, `WrapperExits` | `spawnLogged` and the watcher; the signal handlers; deaths |

Each call to the file system or to `process.kill` is a step. `swapped` is history: a
path was unlinked that held another file than the one compared. The property holds
until then, which says that nothing but this window lets a second worker in; the
window itself is section 5. A pid is not reused, and locks without a token and
starts that may not replace a worker (`ORCHESTRATION_WORKER_LOCK` refusals) are left
out: both end in a refusal or in the same steps.

### 2.9 AutoCampaign

| Model | Code |
|---|---|
| `campaign[c]` | the row of `outreach.campaigns`: status, archived, when the next cycle falls due, the version of the targeting, the version the saved filters were mapped from, page, expansion step, `thin_days` |
| `stored`, `attached[c][p]` | `leads` found by the provider's id; `campaign_leads.sourced_on` |
| `cycleRow`, `EnqueueDue`, `TakeRow` | the orchestration rows of `auto.cycle`, `loadDueLiveAutoCampaigns`, `enqueueAutoCycleJob` |
| `SenderReady`, `AlreadyFilled`, `MapFilters`, `ReadKnown`, `CountMissing` | the head of `runAutoCampaignCycle`, the head of `runCreditPipeline` |
| `Search`, `Hits`, `FirstOf`, `EnrichBatch`, `PageDone` | `discoverAndEnrichProspects`: a page, `selectIdsToEnrich`, one paid batch |
| `StorePerson`, `AttachPerson` | `persistEnrichedApolloPeople`, one person at a time |
| `Recount`, `Widen`, `Final`, `Done`, `Catch` | `updateAutoCursor` after a search, the next expansion step, the end of the cycle, its catch block |
| `PatchRead`, `PatchWrite`, `Archive` | `updateAutoCampaign`, which reads and then writes, and `updateCampaign` with status archived |

An execution (`cycle[e]`) has its snapshot of the campaign and stands between two
awaits. People are numbered in the order of the search, and a person is found from an
expansion step on (`Reach`). `overlapped` is history: an execution lost its row while it
ran, so a second may work; `AtOnce` is how many may. `disturbed` has, per campaign, a
cycle that was open at midnight, one that ended in an error, and an edit under a cycle;
`paid` and `lost` count payments, and payments whose result an error or a crash threw
away before it was stored. Errors, crashes and lapses share `MaxFailures`, requests of
the user `MaxEdits`. The drafting and sending that follow the attachment are other
modules.

### 2.10 Why the other modules may take the lifecycle for the queue

`ImplementsLifecycle` says that every step of the orchestration queue moves each
job as `JobLifecycle` allows: absent, pending, in flight, back or to an end, and
revived from an end. The other modules move the rows that carry their work by
those steps only (`work`, `jobs[k].row`, `row`, `carrier`, `errand`, `cycleRow`). The number of
attempts is left open: a row that is given back is tried again or is closed, by
choice. A row that is stuck in pending without attempts (finding 1 below) is not
part of these models.

## 3. What is checked

Run of `MCWorker`:

| Run | Instance | Checks |
|---|---|---|
| `queue_safety` | 1 job with 2 attempts and 1 revival, 2 symmetric workers, up to 3 faults (2 stops, 2 lapses, 1 lost answer); a wrapper with its worker and 2 workers started by hand, 2 processes each; 1 campaign that sources 2 of 3 people a day for 2 days, 2 executions, 1 failure | `AttemptsBounded`, `OneExecutionPerClaim`, `LiveLeaseRespected`, `OneWorkerPerCheckout`, `QuotaKept`, `PaidOnce` |

Runs of `MCOrchestration`:

| Run | Instance | Checks |
|---|---|---|
| `queue_timely` | 3 jobs in 2 lanes of limit 1, 2 symmetric workers of concurrency 1, a pausable lane, 1 crash or shutdown, no lapse | `TypeOK`, `OneBodyPerJob`, `LaneLimitOnBodies`, `ConcurrencyBounded`, `EveryLeaseHasABody`, `ImplementsLifecycle` |
| `queue_liveness` | 2 jobs of one lane, a fallback worker, up to 2 faults, `FairSpec` | `EveryJobSettles` |
| `queue_exhausted`, `queue_stop`, `queue_gc`, `queue_lane_limit` | 2 jobs of one lane | one statement of the documentation each, see section 5 |

Run of `MCPipelines`:

| Run | Instance | Checks |
|---|---|---|
| `pipelines_safety` | 2 items of one company with 2 handlers, budget 3, 1 fault; 2 runs that ask for one company, one of them with people enriched before, 2 handlers, 1 mishap; items and handlers symmetric | `DraftingTypeOK`, `OneExecutionPerItem`, `SingleFlight`, `PacketIsReused`, `DraftsRestOnTheirResearch`, `ReservationsCoverOpenJobs`, `PreparedBeforeComplete`, `FinishedRunStays`, `OnlyAScanRevivesACancelledRun` |

Run of `MCSourcing`:

| Run | Instance | Checks |
|---|---|---|
| `pipelines_liveness` | the same with one handler each; 1 campaign that needs 1 person on 1 day, of 3 people of whom 1 can be mailed and 1 is found by the widened search only, 1 failure, 1 request of the user; `FairSourcing` | `ItemEnds`, `ParkedItemIsWoken`, `RunEnds`, `ResearchSettles`, `ExhaustedMeansSearched`, `SearchFollowsTargeting`, `CampaignIsServed` |

Runs of `MCEmailSend`:

| Run | Instance | Checks |
|---|---|---|
| `send_safety` | 2 rows of one item, 2 symmetric bodies and 1 request slot, 3 requests, 1 fault | `OneSenderPerItem`, `OneEmailPerItem`, `SentRowsAreRecorded` |
| `send_race` | 1 row, 1 body, 2 requests, no fault | the statement of section 5 |

Run of `MCMail`:

| Run | Instance | Checks |
|---|---|---|
| `send_liveness` | 1 row, 1 body that does everything, 3 requests, 2 faults; 2 emails (one failed before), 2 inboxes of cap 1 over 3 days, 2 planners, 2 calls; 2 messages of a lead, 1 taker and 1 writer, 1 trouble; 2 leads with 2 and 1 addresses, 2 executions, 1 hitch | `EveryQueuedEmailSettles`, `RecordedSendsLeaveTheQueue`, `OverCapIsCorrected`, `PlansFillInOrder`, `OneAnswerPerInbound`, `NoFollowupToAnsweredLead`, `EveryInboundIsSettled`, `OneProbePerCandidate` |

The type invariants `LockTypeOK`, `RunTypeOK`, `CampaignTypeOK`, `SendTypeOK` and
`SlotsTypeOK`, and `LeaseCoherent`, which says when a row has an owner, are theorems
(section 4) and checked in none of these runs.

What they show, in words:

- Whatever crashes, lapses and lost answers happen, an owner is recorded exactly
  while a row is in flight, no attempt is run by two bodies, the budget of
  attempts is never exceeded, and a lease that is live is given up only by its own
  body or its worker's own restart.
- As long as heartbeats are on time and answers arrive, leases really exclude:
  one body per job, limits of lanes and processes hold for what runs, and a
  booted worker runs every job it holds. With lapses these do not hold and
  nothing in the code says so: an expired lease is taken over while its body
  lives. Bodies that outlive the grace period of a shutdown are excepted, since
  the registry row is deleted under them on purpose (`Supervised`).
- Every enqueued job settles, unless it is stuck in pending without attempts.
- An email goes out once, and once more only for each acceptance that could not
  be recorded, as long as nobody took the row from its sender. The exception is
  real: a request that moves or cancels a row (section 5), and a row that is
  taken over after fifteen minutes while its sender hangs, lead to a second email
  whose first acceptance was recorded.
- No row stays queued or sending, and the queue catches up with the record. An inbox
  that is over its cap on a day does not stay so while some of its rows wait. It gets
  there by what happens between a call's reading and its writing, or by a move: the
  plan of a call that fills inboxes is within the cap by what the call has read.
- An item has one execution, a company one research, and a packet that exists is
  not paid for again, unless a machine slept or a human paused the workspace
  while an execution was under way, or a sweep reset an item that had been given a
  job (`disowned`). With the same exceptions a draft that is ready was written from the
  research its item has now. The reservation of a run covers what its open jobs may
  spend.
- Every item comes to rest, and one that waits for its company's research is
  woken, except that a job deferred on its last attempt stays pending for ever
  (`DeferredOut`, section 5).
- A run that nothing went wrong with completes only after all its companies were
  asked for, and stays complete. No statement but the write of a scan under way
  brings a cancelled run back. Every run ends or waits for its user, but for one that
  was never started within a week of its staging (`NeverStarted`, section 5), and every
  research job settles.
- A message of a lead gets at most one answer and one follow-up, no address a second
  probe; a follow-up overtaken by a newer message is not sent. Every message is
  decided upon and every reply ends, but for three ways to be forgotten that the
  property names (`Abandoned`, `Orphaned`, `HalfTaken`, section 5).
- One worker of a checkout holds the lock with its owner alive, until a file is
  unlinked that was swapped since it was compared.
- A day sources no more than the quota of a campaign, times the executions that were
  let in by a lapse, unless a cycle was open at midnight. Nobody is paid for twice but
  for what was lost before it was stored. The filters follow the targeting unless it
  was edited under a cycle. A campaign given up as exhausted had all its people looked
  at, unless a catch block or an execution that had lost its row put an old page
  back. A live campaign is filled on a weekday, exhausted, or stopped.

### 3.1 Bounds, and why they are enough

The hazards of the queue are races for one row, so `queue_safety` spends its
bound on faults and has one row: a take-over needs one fault, the late settlement
against a successor's claim a second, a restart under the same id a third. The
revival is there for the row that ends and comes back under a body of its former
life. What needs several rows (lanes, children, callers, the reconciler) is in
`queue_timely`, with two rows in one lane of limit one. Two workers are a
taker-over and the one taken over from; the safety theorems hold for any number.

The races of the send queue are between the two rows of an item (one that failed
and its successor), two deliveries after a lapsed lease, and a request. Three
requests are two dispatches and one that moves, cancels or sends at once, and one
fault is the lapse that lets the second body in, the lost acceptance, or a death.
Two faults, so a lost acceptance and a death later, are in `send_liveness`; the
theorems bound neither.

The lock: a holder, one that rotates it and one that comes in between, of which one
is under a wrapper; a second process in each place is a restart. The campaign of
`queue_safety` has two executions for the one lapse; the second search is widened
because one person is found at first; two days show the change of day under a cycle.
In `pipelines_liveness` the list must be searched to its end and beyond: who is found
first has no verified address or is mailed already. The campaign theorems bound none
of this.

Drafting: two items of one company are an owner and a waiter, two handlers let a
retake, a sweep or the sibling overlap an execution. The initial states are a new
workspace, items about to be repaired and items with an empty brief, so the one
fault need not be spent on getting there. `MaxFaults` is 1 for time, and in
`pipelines_liveness` for a second reason: two faults allow a starvation that the
fairness stated does not exclude and the code hardly meets, one item's research
being redone for ever for want of budget while the jobs of the other are never
claimed. The claim is fair among rows, not to each row, and the
actual cost, which would stop the loop by using the budget up, is not modelled.
`MaxAtWork` bounds how many items may be in the pipeline when a machine sleeps or a
user pauses; 2 is all of them (1 in `pipelines_liveness`). `Budget` 3 leaves one item waiting for money when
both have a job open.

Enrichment: two runs and one company are the least that share research; the second
run begins while the first is at any place. One mishap is one crash, lapse, error
or cancellation; the run theorems bound none of this.

Mail: two emails over one place are the least excess; a failed row is there so that
a retry has something to place. Three days hold any two rows. Two
messages are one and a newer one; one taker keeps the instance small and leaves the
repeated delivery after a lost acknowledgement, while several takers at once are
covered by the proof; for the same reason the second message arrives when the first
is taken in (`OneByOne`). `MaxTurns` 1 makes the second message meet the cap. Two
leads are one that probes and one that meets the limit; the lead with two
addresses has a cascade.

`CHECK_DEADLOCK FALSE` stands in the runs of mail and of the pipelines only, which
stop when everything is settled or at rest and the bounds are used up. In the runs
of the orchestration queue the timers always go on.

### 3.2 Fairness

`Fairness` (queue) and `SendFairness` say what timers, supervisors and the event
loop provide, and nothing about faults, requests or callers:

- a process that is down is started again and boots, an answer is handled, a
  handler ends, a drain ends: weak fairness. The settlement of a failing body is
  fair too; its being lost is a bounded fault;
- lease expiry, back-off, the fifteen minutes and the going stale of a dead
  worker: weak fairness, being time;
- claims: strong fairness. A job can be claimed only while a poll cycle of a
  worker with a free slot is going on, and every cycle tries every lane until a
  claim comes back empty. The same goes for deliveries and the reconciler's
  queries in `SendFairness`, where a body may be busy with something else in
  between;
- the provider: strong fairness on `Accepts`, that is, it does not answer with a
  transient error to the same email for ever.

There is no fairness on the choice to complete rather than to throw: a job whose
handler always throws settles as failed.

`DraftingFairness` and `RunFairness` are of the same kind: handlers go on, rows are
claimed, the reconciler's passes come round every minute, leases and clocks run
out, sleepers wake up. None for the user, none for which row is claimed, and none for
`WeekPasses`: a week may pass and need not. In `RunFairness` the claims
are strongly fair because the guard of `run.finalize` flickers while the sweep
enqueues the row again and again.

`CampaignFairness`: handlers go on, the reconciler enqueues what is due, and rows are
taken, strongly, because the lane is busy while another cycle runs.

The liveness properties of mail have their fairness as a hypothesis
(`SendFairness => ...`, `SlotsFairness => ...`, `ReplyFairness => ...`), so that
the run needs no joint fairness of four components that never wait for each other.
`SlotsFairness` has the planners and the reconciler and no delivery: the excess must
go although nothing is sent. `ReplyFairness` has the provider's repetition of a webhook
that was not acknowledged, the poll, the claims, the statements of what runs, and
time.

## 4. What is proved

`tlapm` checks every leaf of the eight proof modules. The theorems hold for all values
of the constants that satisfy `QueueAssumption` and `WorkerAssumption`,
`LockAssumption`, `SendAssumption`, `RunAssumption`, `ReplyAssumption`,
`ProbeAssumption`, `CampaignAssumption` or `DraftingAssumption`: any sets of jobs,
workers, lanes, places, items, rows, bodies, requests, runs, companies, handlers,
messages, leads, campaigns, any number of people and executions, and any bounds on
faults. What an assumption fixes beyond types is that limits are natural numbers, that
the executions of the auto campaigns and the items of drafting are finitely many, and
that model values are told apart.

`OrchestrationProofs`

- `TypesCorrect`, `LeasesCoherent`, `AttemptsStayBounded`, `ClaimsStayPast`,
  `ExecutionsUnique`: the invariants of the same properties.
- `LifecycleImplemented`: `Spec => ImplementsLifecycle`; initial states map to
  initial states, every step to a step of the lifecycle or a stutter.

The inductive invariant is `TypeOK`, `LeaseCoherent`, `AttemptsBounded`,
`ClaimsArePast` and `OneExecutionPerClaim` together. That no claim is executed
twice is not inductive by itself: a new claim must differ from all executions
there are, which it does because no execution is ahead of its row in (revival,
attempt) (`ClaimsArePast`), a claim increases attempt, a revival increases
revival, and nothing ever decreases the pair. That in turn needs rows to be
sound (`LeaseCoherent`, `AttemptsBounded`) and typed.
The proof goes by what a statement does to one row: `RowFine` lemmas for each
kind of update (`UnleasedIsFine`, `EnqueuedIsFine`, `ClaimedIsFine`, ...), one
lemma for all statements (`QueueStatementIsSound`), which gives both soundness
and a step of the lifecycle for every row, and one for what processes do to
their executions (`BodiesStepKeepsClaims`). `NextIsFine` has one step per action.

`OrchestrationProofs`, its last part, is about what the leases are for.

- `LiveLeasesRespected`: no step takes a live lease from its owner, whatever faults
  occur. It needs no new invariant. Each statement leaves a live lease as it is and
  makes none but for a claim (`RowUndisturbed`, one lemma per kind of statement);
  what remains are the two steps the property excepts, a process that settles its
  own body and one that boots.
- `OneBodyAtATime`, `LanesBounded`, `ProcessesBounded`, `LeasesHaveBodies`: the
  limits for what really runs, under `Timely`, which is `MaxLapses = 0` and
  `MaxDbErrors = 0`: heartbeats are on time and answers of the database arrive.
  Processes still crash, stop and boot at any moment. The hypothesis is the setting
  of `queue_timely`; without it the properties are false, which is what
  `queue_lane_limit` shows for one of them: a worker that was cut off is declared
  dead while its bodies go on.

`TimelyInvariant` adds to the invariant above that a process that is up has a fresh
row (`UpIsFresh`), that bodies are in processes that have been polling
(`BodiesHaveProcesses`), that a supervised body has the claim its row names and the
lease is alive (`SupervisedHold`), that a process has one body per job and waits for
one claim at a time (`OneBodyPerKey`, `OneArrival`), and that leases and bodies are
finitely many, which counting them needs. The limits of a lane count rows, bodies are
counted by the property: `SupervisedHold` maps the one into the other injectively.

`WorkerLockProofs`

- `LockTypesCorrect`, `OneWorker`.

`LockInvariant`: whoever is past creating the file and has an owner that lives is named
by the file (`HoldersAreNamed`, until `swapped`), which is what makes it the only one.
An unlink may threaten that in two ways. A releaser removes its own token
(`ReleasesItsOwn`) and has no successor yet. An acquirer that is about to remove the
lock of a process that runs knows the owner to be dead (`RemovesTheDead`), and a
process whose owner is dead never counts again: pids are not reused, owners have one
process at a time (`OwnersHaveOne`). Creating the file makes it name the creator,
whose token is new because tokens name lives that have begun (`TokensArePast`,
`LivesCounted`, `AcquirersAreNew`).

`EmailSendProofs`

- `SendTypesCorrect`, `OneSender`, `OneEmail`, `SentRowsRecorded`.

The inductive invariant `SendInvariant` is `SendTypeOK` with

- `OneActiveRowPerItem`, which the unique index gives;
- `SendersAreExclusive` (the content of `OneSenderPerItem`): needs the index, since
  two rows of an item would have two senders, and that a row in sending is not
  taken over while its sender is undisturbed;
- `NoneSendsAgain`: an undisturbed item whose send is recorded has nobody about to
  send it, else the next acceptance would be one too many;
- `MarksAreRecorded`: whoever is about to mark a row as sent has seen the record,
  which is why `SentRowsAreRecorded` survives the statement in between;
- `AcceptancesCounted`: the exact account of acceptances, with the one that is
  accepted and not yet recorded. It needs the sender to be alone.

The proof goes by the shape of a step: calm ones (no sender, no status, no record
changes), those that take a row, claims, inserts, and the moves of a sender
(check, accept, catch, record, mark, die). Each has one lemma
(`CalmKeepsFacts`, `TakingKeepsFacts`, `ClaimKeepsFacts`, ...), and the lemmas at
the end of the module assign every action to its shape.

`RunProofs`

- `RunTypesAreKept`; `CancelledRunsStayButForScans`, from the types and what a
  handler's place says about the row it works on (`HandsFit`): every write of a
  run's status is gone through once.
- `RunsArePreparedBeforeComplete`, `FinishedRunsStay`.

The invariant `Preparation` follows an untroubled run through its stages: before the
scan nothing of it can be finalized (`UnscannedIsFresh`), while it waits for its
user neither (`ParkedHasNothing`), while it is enriching and not prepared its
`run.enrich` row is open (`EnrichingHasARow`, which is what the comment "Campaign #9
scar" is about), whoever may be finalized has someone asking (`AskersAreOpen`), and a
finalizer that read the guard as met has nothing open behind it (`HandKnows`). The
property itself says nothing about the finalizer between its read and its write, so
it is not inductive without the last.

`ReplyProofs`

- `ReplyTypesCorrect`, `OneAnswer`, `OvertakenFollowupsStay`.

`ReplyInvariant`: one writer carries a reply (`OneCarries`), it knows what the row says
(`WriterKnows`: drafting while it holds it, not yet accepted before the send), a reply
that can be claimed was never accepted (`MailedOnce`), and a follow-up appears only
after the reply it follows is through, with nobody left to insert another
(`FollowupIsLast`). Without the last a second writer of a deferring reply could put
a sent follow-up back to scheduled. `Overtaken` carries the second theorem: once
claimed with a newer message stored, the follow-up's writer is before the check, and
messages stay stored.

`MailProofs`

- `ProbeTypesCorrect`, `OneProbe`.
- `SlotTypesCorrect`, `PlansAreInOrder`, and about the rule of `allocateInboxSlots`
  itself `WaterfallFits`, `WaterfallFillsInOrder` and `WaterfallKeepsOrder`.

`ProbeInvariant`: of the executions on an address one has inserted the intent
(`OneIntends`), the intent stays `sending` and the address unprobed until it has sent
(`UnsentIsSending`), and an address without an intent was never probed
(`UnintendedIsUntouched`), which is why the intent may be deleted after a rate limit and
after no other error.

The code fills slots in a loop; the model says which place the n-th row gets, so no
induction over the loop is needed. `NumbersCount` is the lemma below it: in a finite set
with an order, counting those before it numbers the members from 1 without a gap.
Applied to the free places and to the emails it gives emails places one to one and in
order (`EmailsTakePlaces`). How many go to a slot is then counted by maps from and to the
interval of its free places.

`SlotsInvariant` is typed tables and planners, a slot for every row there is (`Placed`),
and `Orderly`: a call works on what it loaded in a state its kind allows, and the half of
the usage it has read is of no more slots than there are emails. The last is what makes a
plan exist: with the half it reads next, and enough days, a place is free for each row
(`RoomForAll`). Rows and counts change between the two readings, so nothing stronger
holds of them together.

`CampaignProofs`

- `CampaignTypesCorrect`, `QuotaIsKept`, `NobodyIsPaidForTwice`,
  `SearchKeepsToTargeting`, `ExhaustionMeansSearched`.

`CampaignInvariant` has, beside the types,

- `Records`: an execution's own account is in order. Those it has paid for and not
  stored are among those it knows, those it is about to pay for are not, what may
  still come of its batches is no more than it counted as missing, and that is at
  most the quota.
- `RowsHeld`, `OneRowOut`: an execution has the row of its cycle or has lost it, and
  one row of the lane is out; so at most `AtOnce` executions work (`BusyAreFew`).
- `PaymentsAccounted`: the payments for a person are those that were lost, one if the
  person is stored, and one for each execution that has the result in hand or may
  still pay (`Holding`, `MayPay`). That a person is stored before the result leaves
  the execution's hands is what keeps the sum from growing at a handover.
- `QuotaHeld`, `NoneAhead`: what was attached on a day, and what each execution may
  still attach on it without asking the database again (`Slots`), is within the quota
  of each execution that may work. `QuotaKept` is not inductive without the slots:
  the missing number is read once and used for several people.
- `TargetingFollowed`: a cycle's filters are those of the campaign it works on, or the
  targeting was changed under it (`Agrees`).

- `Searched`: a cursor of the widest search has left nobody behind who is not stored
  (`LeftBehind`: those on the pages before its own), neither the campaign's nor that of
  a cycle at work, for whom those in hand count as well (`HasSearched`); and a campaign
  that is exhausted has everybody stored. The property is about the end only and says
  nothing about the cursor, so it is not inductive. Everybody is found by the widest
  search, so the narrower ones before it need no account. Nor is an induction over
  pages needed: a step adds one page to those behind, and a page that is not full is
  the last (`WidestPage`).

`FirstOfBound` is the lemma about the search all counting rests on: it hands out no
more than was asked for. It counts by ranks, which tell people apart (`RanksDiffer`), so
that no more people than ranks are between two of them (`RanksBound`). An execution is followed by what a step does to its record
(`Moves`, `Rests`), and each part of the invariant has one lemma for steps that go on,
one for ends, and the rest. A cycle open at midnight is excepted from the quota
(`disturbed`), because the day is read once at its start and once per person.

`DraftingProofs`

- `DraftingTypesCorrect`, `ReservationsHold`: the types, and that the reservation of an
  active run covers its open jobs.
- `OneExecution`, `OneResearchPerCompany`, `ResearchPaidOnce`: `OneExecutionPerItem`,
  `SingleFlight` and `PacketIsReused`.
- `DraftsAreOfTheirResearch`: `DraftsRestOnTheirResearch`.

`DraftingInvariant` is inductive, and each part is there for another:

- `Books`: jobs are finitely many, and the reservation of every run, active or not,
  covers its open jobs. A property of active runs only would not survive a run that is
  opened again. The first part of the module is a small theory of what inserting,
  reviving, finishing, handing over and recomputing do to it.
- `Custody`: a handler whose item is not `disowned` has its claims (`Kept`: its row is
  its own, its job in flight, for research the item's lock is its own) and finds the
  item in a state of its stage (`InPlace`). This is what excludes a second execution:
  two researches would hold one lock; two writes or repairs would hold one job, since
  the state and the revision in the key (`KeysSay`) leave one job that can be at it;
  and a research and a write need different states of the item.
- `RepairsStand`, `DraftsPast`: while a repair is open for the draft an item has, the
  item is being repaired or has failed, so the repair does not begin beside a write,
  whose state it could move on from. It rests on revisions that only grow: nobody has a
  draft revision still to come.
- `InHand`, `Placed`: where a handler stands says what kind of job it has, that the job
  exists, and whether it believes it has the company's lease.
- `LeasesHeld`: who believes so has it, unless an item of the company is disowned.
- `LooksAround`: whoever is at the provider knows what it knew when it claimed the lease
  or gave way: no packet of a sibling was there to be reused, or there was one and it
  did not take the lease. Every step that saves a packet is gone through for what it
  does to the knowledge of the others.

`DraftsAreOfTheirResearch` needs two parts more, kept beside this invariant in the last
section of the module. `Based` says of an item that is not `disowned` that from the
queue of writing up to a ready draft it has a packet that may be used (`PacketsBehind`),
that a ready draft is of the current revision, and that whoever is about to write has
read that revision. `ResetsToRest` says that a sweep's reading leads back to a state
before the draft. The revision under a writer does not change because a research that
ends would be a second execution of the item. Items that are disowned have to be left
out: the state table lets a failed write become a ready draft, and a writer whose item
was reset under it does that.

The proof has one lemma per action. They rest on lemmas by shape: what a step of one
handler that keeps its job must leave alone (`AgentKeeps`, `OwnKeeps`), that gives its
job up (`EndsKeeps`, `ConflictKeeps`), that changes only tables (`RestKeeps`,
`TablesKeep`), and that changes items, jobs and handlers together (`OthersKeep`), each
with what the bystanders need.

Trying to prove them corrected two statements. `PacketIsReused` once said that whoever
pays knows of no packet that was ever saved; with two faults this is false: a sibling
that began to reuse a packet saves it while the item that had it is researched again.
It now says so. `OneExecutionPerItem` was false in the case section 2.3 describes.

Only model-checked: the liveness properties (fairness and ENABLED are beyond the
prover), and the runs of section 5, which are counterexamples. Every invariant and
every action property that a run checks is also a theorem.

## 5. Where the code and its documentation disagree

1. `queue_exhausted`: `releaseOwnedInFlightOnStartup` puts rows back to pending
   without looking at their attempts. A row that was running its last attempt is
   never claimed, failed or revived again, and since its dedupe key absorbs later
   enqueues the work is lost. The schema says "Exhausted dead leases become
   terminal instead of looping forever".
2. `queue_stop`: "New work cannot enter active after this point because poll
   checks `stopping` before every claim cycle": the claim under way does.
3. `queue_gc`: "Registry cleanup only; worker health continues to use the
   45-second window": a running worker that was cut off for ten minutes is never
   healthy again, because the heartbeat is an `UPDATE`.
4. `queue_lane_limit`: "Postgres enforces lane limits": a lease that went dead
   does not count while its lane is filled up and comes back to life with its
   worker's registration.
5. `send_race`: "Cannot move items that are currently sending", "Cannot cancel
   items that are currently sending": the check is made when the row is loaded,
   and the update does not repeat it.

The models also show, and the properties except or allow by name, what no comment
speaks against or a run of its own would only repeat.

Enrichment:

- A run whose process died between the commit that queues it (`runs.ts:222`) and the
  enqueue of `run.process` (`runs.ts:225`) depends on the sweep, which passes over runs
  staged more than seven days ago (`handlers.ts:613`). `started_at` is the time of the
  staging and is not renewed (`outreach_schema.sql:178`, `runs.ts:220`), so a run that is
  queued a week after its first upload, or not swept before its week is over, stays
  queued, and blocks the campaign's next run, until the user cancels it. `RunEnds`
  excepts it by name (`NeverStarted`); a run that has been started does not need the
  sweep.
- `completePriorEnrichmentScan` writes the status without looking at it: a run that
  was cancelled during the scan comes back as awaiting a decision
  (`OnlyAScanRevivesACancelledRun` has the exception).
- `cancelEnrichmentRun` deletes research jobs that other runs share; those complete
  without that company.
- A run that joins a research job in flight counts as complete with it, and its people
  get no results from it.
- A research job that is retaken sooner than ten minutes after its claim (a killed
  worker, whose row was reclaimed) is found in flight, and the research is recorded as
  failed (`ResearchSkipped`); the schema says of the claim that a killed worker's job
  can be reclaimed.
- `enrichment_still_open` uses up the attempts of `run.finalize`, and a run that is
  still enriching becomes failed; `markTerminalWorkFailure` also turns a complete
  run into a failed one when the completion had committed. Both are `troubled`.

Drafting:

- A job deferred under provider pressure on its last attempt is pending without a row
  for ever (`DeferredOut`).
- A handler that enqueues its own row again (`handlers.ts:477`, "re-enqueue so orch
  done does not strand work") meets it in flight, where the enqueue is absorbed; the
  reconciler carries the job on.
- An execution that restarts after a deferral or crash finds its item in `researching`,
  a move the table does not allow, and is superseded; the item is rescued as
  stranded and researched again.
- `budget_paused` cannot be reached from `researching`: a packet that was paid for is
  rolled back and its lease left to run out.
- Pausing clears execution locks while executors run, and a late one still saves.
- An owner that finishes between a sibling's refused claim of the lease and its
  parking does not wake it; the reconciler does.
- `resetStrandedRunningItems` updates by id alone what it read as stranded
  (`rescue.ts:508`): an item that a late wake has given a job since is reset under it.
- A wake works off a list: a sibling that was woken and is being researched by then is
  moved back from `researching` to `queued_research` under its handler, which the state
  machine allows.
- A sibling that began to reuse a packet saves it while the item that had it is
  researched again, so the packet of one company is paid for twice.

Replies and slots:

- Concurrent deliveries, or a reply that ends between the two counts, can exceed the
  maximum of immediate replies per thread (`reply-constants.ts:12`).
- Immediate replies that are queued when the thread opts out are still sent.
- A reply whose writer dies in mid-draft stays `drafting` for ever (`Abandoned`); one
  inserted by an execution that died before `enqueueWork` has no row (`Orphaned`); a
  message the webhook missed and whose poll died after storing it is never
  answered (`HalfTaken`).
- A deferring reply that went out is marked failed when its follow-up cannot be queued.
- A follow-up under way is sent although a newer message comes in after its check.
- `processed_webhook_ids` loses ids when two executions write it back.
- A row that is sent between its load and the usage read is released from a usage it
  is counted in once more; a waterfall updates rows by id whatever their status. Both
  lead to an excess that `rebalanceOverCapSendQueue` corrects.

Worker lock:

- A worker that outlives its killed wrapper goes on unlocked: the next start finds the
  owner dead, unlinks the file and starts a second one. "A prior owner can never unlink a
  successor's token" (`worker-lock.ts:144`) is about the other direction and has a
  window of its own: the file is compared and the path unlinked in two calls, and a
  successor's file between them is removed (`swapped`).
- A process that dies between creating the file and writing it leaves a lock without
  content, which is refused until somebody removes it by hand.

Auto campaigns:

- The catch block puts the page of the snapshot back and leaves the expansion step
  where the cycle had moved it (`cycle.ts:331`, `credit-pipeline.ts:92`): the widened
  search resumes at a page of the narrower one, and a campaign can be given up as
  exhausted with pages nobody looked at. An execution that has lost its row and finds
  the quota met does the same (`cycle.ts:120`). Both are excepted by name in
  `ExhaustedMeansSearched`.
- The end of a cycle writes `auto_status` along with the cursor (`cycle.ts:128`,
  `cycle.ts:291`): a campaign that was archived or paused meanwhile has the status
  live again.
- "Never enrich someone already stored" (`prospect.ts:59`) does not cover those who were
  paid for before an error: the batch is not stored, and they are paid for again
  (`lost`).
- A person stored but not attached when the execution dies is known from then on and
  never attached.
- `thin_days` counts cycles: several on one day can exhaust a campaign.
- A campaign in error is not due again until somebody sets it live.

## 6. Not modelled, and the plan

The modules map about a tenth of the implementation's lines. What is left is mostly
not protocol: prompts, parsing, field merging, identity resolution, reports,
scrapers, and the pages and components of the web application, which are a large
part of the source. They have no state of their own that two actors share, or only
pass on what the modelled functions decide.

Left out of modelled components:

- drafting: mailbox checks before the first research, rewrites asked for by a reviewer,
  approval and sending states of an item, changes of its input, actual cost, late
  synchronization of leads;
- enrichment: attempt counts of research jobs (a job in flight on its last attempt whose
  row is exhausted is not reset by the sweep: the model gives every job another
  attempt), several files per run, follow-up, rescue and domain work, restaging;
- mail: `packOwnerSendQueue`, several identities, the passing of days, rows without an
  inbox; probes drafting sends; forwarding of messages, delivery events.

Planned, most important first:

1. `PreEnrichedIngest`, a variant of `RunLifecycle` with the same barrier.
2. The passing of days in `InboxSlots`, and `packOwnerSendQueue`.
3. Provider admission, and the claim order of the orchestration queue with its fair
   share between scopes as a pure algorithm against a reference definition.
