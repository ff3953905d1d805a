# TLA+ models of the Harvest application

This directory holds TLA+ specifications of the parts of the application in
which order and concurrency decide whether it is correct: what an agent may
spend and how often it runs, what text may reach a contact, which step of an outreach
sequence is sent when, what the audit log may hold, who is billed and sponsored,
how an account is deleted, who is booked when, and how a contact moves through the
funnel and into the vault. TLC checks each model on small instances; TLAPS proves the main
safety properties for every value of the constants. `PROJECT.json` lists the
components, the runs, the source lines behind every definition, the hazards of
the code and the disagreements found between code and comments.

## 1. The system

The application (TypeScript, Next.js, Prisma over PostgreSQL, Inngest as the
durable queue) helps a representative ("rep") of a sales organisation work a
list of contacts. Agents draft messages; a compliance engine (the CFE) gives
each text a verdict; the rep, or for a flagged text the rep's upline, approves
it; the send seam dispatches it; multi-step sequences do this on a schedule.
Every handler is an async function over single-row Prisma calls. **With two
exceptions (the sponsor decision and the account deletion) no handler of the
modelled code uses a transaction, and none a lock or a conditional update**: a row
is read, checked, and later updated by id alone; where two writers must be told
apart, a unique index does it (claims of webhook events, audit sequence numbers,
slot locks, batch keys). Almost everything that is hard here comes from that.

| Component | State | Operations | Talks to | What makes it correct |
|---|---|---|---|---|
| Budget gate, ledger, kill switch (`agent-runtime/cost-killswitch`) | in-process ledger of reservations; kill-switch rows; cost of each AgentRun row | `check`, `tryReserve`, `release`, set switch | called by the agent runtime and the scheduler | holds agree with runs, holds and spend stay under the ceiling |
| Agent runtime and scheduled dispatch (`agent-runtime`) | AgentRun rows, idempotency log, draft rows | `runAgent`, `processRep`, retries by the queue | gate, CFE, draft table | one effect per job key; the hold released on every path |
| Approval Inbox (`approval-inbox`) | DraftMessage row | approve, justify, decline, edit | CFE, draft table | an approval covers the text it saw |
| Mission Control queue (`mission-control/today.service.ts`) | same row | one-tap approve, decline | draft table | same |
| Upline adjudication, SLA sweep (`compliance/adjudication`) | DraftMessage row and its ComplianceReviewQueue row | list/enqueue, approve, reject, modify; hourly sweep | draft table, audit chain | a flagged text needs a justification or the upline; declines are final |
| Send seam (`messaging/send`) | Message rows, hold reason on the draft | SMS send, e-mail send, prepare and confirm handoff | draft table, gate, provider | only released and approved text goes out; reports are true |
| Sequence engine (`messaging/sequence`) | OutreachSequence and step rows | enroll, cron tick, reply, stop, resume | send seam, compliance gate, inbound webhook | each step once, in order, never after a stop; none forgotten |
| Compliance gate, opt-outs, quiet hours, consent | registry and consent rows | evaluate, record STOP/START | seam, engine | deny by default |
| Audit chain (`compliance/audit`) | hash-chained entries, checkpoints | record, checkpoint, verify | every producer | append-only, no forks; verification alarms only when something changed |
| Payments (`payment`, `api/stripe/webhook`) | Subscription row, claimed webhook events; Sponsorship rows with their windows | checkout, invoice, dispute, cancellation, grace sweep; lapse cascade, anniversary notices, conversion, re-match | Stripe, cron, onboarding | an event acts once; the row agrees with Stripe; nobody loses function before the promised window is over |
| Data rights (`compliance/data-rights`), sponsor decision, taprooting | deletion requests, legal holds, `upline_id`, OrgTreeEdge | request, confirm, process, place and lift a hold; match and accept a sponsor; recompute a tree | payments, compliance review | both trees agree after a deletion; nothing half done; COMPLETED is true |
| Booking (`team-calendar`) | Appointment and CoachingSession rows with a unique slot lock | propose, book, decline and reschedule, outcome, respond | rep's and trainer's calendars | nobody in two meetings; the coaching cap |
| Pipeline, first touch and handoff (`warm-market/pipeline`, `messaging/send`, `messaging/handoff`) | Contact's stage and flags, Message rows, opt-out registry, ThreeWayHandoff row | prepare and confirm a first touch, reply, booking event, hand edit, STOP, trigger, join, return sweep | compliance gate, webhook, cron | the furthest event counts; a minor stays out; joined or returned, never both |
| Contact vault (`warm-market/vault`) | ImportBatch row with its cursor, Contact rows, opt-outs | `importBatch` and its retries | client, opt-out registry | resumable, complete, no duplicates |
| Others (CFE scoring, licensing, deliverability, security, gamification, harvest method, social content, onboarding forms, admin, UI) | own tables | mostly single-row CRUD, pure scoring, pages | | covered by unit tests; see section 7 |

How components interact: through rows (the draft row is written by five
services, a contact's stage by as many), through calls (the sequence tick calls the
seam, which calls the gate), through the queue (the scheduler enqueues agent jobs
which are delivered at least once), through Stripe's webhooks and through crons
(hourly tick and sweeps, daily payment passes).

The hard behaviours, each listed with its line under `hazards` in
`PROJECT.json`:

* a row read before an await and overwritten after it (approve against edit,
  reply against stop, the sweep against anything);
* a spend snapshot that is old by the time a reservation is made from it;
* a call that fails between two writes, or after its effect left the process
  (lost provider answer, crash between dispatch and the SENT mark, a rejected
  read after a reservation);
* two ticks, two deliveries or two listings at once;
* a deferred step that must be tried again, a held one that never is;
* the ledger being memory: it empties on a restart;
* a hash chain whose writers are kept apart by a unique index alone, and whose
  verifier makes several reads while others write;
* events of the queue and of Stripe that come twice, late, at the same time or after a
  crash, and a claim or a mark that is written at some distance from the effect;
* passes that list rows and then write them one by one, each from the list;
* two representations of one tree, rewritten by concurrent transactions and by a
  recursion that a cycle overflows;
* a lock whose name depends on the millisecond of the request;
* a cursor that is written once, after the work it stands for.

## 2. Modules

| Module | Models | Extended by |
|---|---|---|
| `BudgetGate` | `BudgetKillSwitchRunGate.check`, `ReservationLedger`, admission, cost and release in `runAgent`, the scheduler's probe, kill-switch writes, restart | `MCBudgetGate`, `BudgetGateProofs` |
| `DraftLifecycle` | one DraftMessage row and its review-queue row under all twelve kinds of call that touch them, and the send seam | `MCDraftLifecycle`, `DraftLifecycleProofs` |
| `SequenceEngine` | one sequence under enroll, ticks, replies, opt-outs, stops and resumes | `MCSequenceEngine`, `SequenceEngineProofs` |
| `AppendOnlyLog` | what the audit store promises, as an abstract specification | implemented by `AuditChain` |
| `AuditChain` | `recordAuditEvent`, `createCheckpoint` and `verifyIntegrity` over the Prisma repositories | `MCAuditChain`, `AuditChainProofs` |
| `AgentRuntime` | one rep's hourly passes, the durable queue and `runAgent` from the key's look-up to its mark | `MCAgentRuntime`, `AgentRuntimeProofs` |
| `Billing` | one subscription row under webhook deliveries, the grace sweep and a cancellation | `MCBilling`, `BillingProofs` |
| `Sponsorship` | one member's sponsorships under the two daily passes, conversion and re-match | `MCSponsorship`, `MembershipProofs` |
| `DataRights` | account deletion, legal holds and sponsor matching over both organisation trees | `MCDataRights`, `MembershipProofs` |
| `Booking` | closing appointments and coaching sessions of several reps and trainers | `MCBooking`, `ContactProofs` |
| `Conversation` | one contact: stage, flags, first touches, opt-outs, handoff | `MCConversation`, `ContactProofs` |
| `ContactImport` | the calls of one import batch | `MCContactImport`, `ContactProofs` |

The `MC*` modules only name instances for TLC. Operators introduced by the
comment *Seeded fault* are variants of a definition with a plausible bug, used
to confirm that a property notices it; no specification uses them. Modules that one
proof module extends together (`Sponsorship` and `DataRights`; `Conversation`,
`ContactImport` and `Booking`) name their own parts apart: `BookingInit`,
`ImportNext`, `SponsorshipSpec`. They share no state.

### BudgetGate

One step per await of `check()`: the kill switches (`BeginCheck`), the org test
(`CheckOrgSpend`) or the read of the rep's spend (`ReadSpend`), the synchronous
`tryReserve` (`TryReserve`), the platform test with its rollback
(`PlatformCheck`). A rejected read anywhere is `CheckThrows`. An admitted run
lands its cost (`LandCost`) and then releases (`Release`): the order of the
code, where the row is updated inside the `try` and the hold dropped in the
`finally`. A probe releases at once (`ReleaseProbe`). `Restart` empties the
ledger and ends the runs in flight. A hold is represented by the run that owns
it, so the tokens and the guard against a double release need no state. A run of
an unknown rep and a critical run are not metered, as in the code.

`stale`, `bypass` and `excess` record, for the properties only, which runs reserved
from a snapshot that spend had outgrown, what unmetered runs spent, and what
metered runs cost beyond the estimate they reserved.

Abstracted: all runs fall in one UTC day and one price tier (the estimate is one
constant, per-rep ceilings are a constant function), one organisation. Nothing ties
a run's cost to its estimate: the estimate is that of the agent's primary tier, the
cost that of the tier and the tokens the run used, and `MaxCost` only bounds what a
run of the model may cost. A restart is modelled as one process: the code's own comment
says the ledger is per process, and several instances are out of the model.

### DraftLifecycle

The constant `Requests` is a set of calls, each of a kind chosen at the start:
`approve` and `justify` (Approval Inbox, without and with a justification),
`decline`, `edit`, `queueApprove` and `queueDecline` (Mission Control),
`uplineApprove`, `uplineReject`, `uplineModify`, `enqueue` (the upline's listing
creating the review row), `sweep` (SLA escalation) and `send`. A call reads the
draft (`Read`, `SendRead`), and what it writes later depends on that copy and
not on the row. `Admits` is the table of guards; `WriteApproval`, `WriteDecline`
and `WriteBody` are the single updates of the three groups of handlers; an
upline's decision closes the queue row in a later step (`CloseRow`). The sweep
lists an overdue row, marks it, and then holds the draft (`ListOverdue`,
`MarkRow`, `HoldDraft`). `Fails` lets any of them die between two steps. A send
passes its gates, dispatches, and records; each of the last two may fail or lose
its answer. A text is named after the call that wrote it, so "the text the
approval saw" is a fact about states and no ghost is needed for it. The CFE's
verdict of a new text is any of PASS, FLAG, BLOCK; a draft may start without one
(objection responses do).

`verdictOf`, `crossed`, `lost` and `final` are history.

### SequenceEngine

A ticker is an execution of the cron handler: it lists the sequence as due
(`ListDue`), unless more sequences are ACTIVE than one tick takes and this one is
not among those taken (`crowded`, which `Crowd` sets and clears at will), reads its row (`ReadSequence`), reads its steps
once (`ReadSteps`), and then loops: pick the first due step at or after its own
cursor (`Pick`), ask the gate (`Gate`, `GateRefuses`, `QuietHours`), go through
the seam (`Deliver`, `DeliveryFails`, and the refusals again), write the step's
status (`MarkStep`), move the cursor or complete (`AdvanceCursor`), stop or
pause. `TickFails` ends a tick at any point. Replies are the webhook's list,
read and write; resume is a read and a write; `stopOnOptOut` ends in a single
unconditional update. The seam is abstracted to its answers: sent, failed, held,
not found, opted out, quiet hours, with the lost answers that `DraftLifecycle`
models in detail. `DueAt` is any function from steps to days: the interval days come
from the client and are not checked.

`delivered`, `overlapped`, `redo` and `stoppedFor` are history.

### AuditChain

A writer reads the tail (`ReadTail`) and inserts the row after it: `AppendRow`,
`AppendUnanswered` when the answer is lost, `RecordThrows` when the unique index
refuses the place or a call fails. `rows` is a function from the unique
`sequence`; that it has no gap is an invariant and not built in. SHA-256 is
taken as injective, so `Hash` is the tuple of what is hashed; of a row's columns
the model keeps the ones it needs and the channel, because
`mapChannelForPersistence` stores another value than the one hashed. (Keys of
`event_data` whose value is undefined are another such difference: they are
hashed as null and dropped by the JSON column. The channel stands for both.)
A checkpointer reads the tail, counts the rows, stamps and saves (`ReadHead`,
`CountRows`, `Stamp`, `Save`); a verifier checks the chain and then makes its
three reads in any order (`VerifyStoredChain`, `GetCheckpoint`, `GetRows`,
`GetTail`). One clock stamps all checkpoints. The database refuses updates and
deletes of both tables, so there are none: the properties are about a store
nobody has touched. A checkpoint's own hash and the filters of `query` are left
out.

`AppendOnlyLog` has one action, `Record`: the log grows at its end by an event
it does not hold, and the caller may or may not learn of it. The refinement maps
the log to the rows' ids in order and the returned events to the calls that
answered.

### AgentRuntime

The unit of work is a contact, because the day's idempotency key is a function of
it. A pass counts today's rows against the cap and lists the due contacts
(`StartPass`), then sends an event for each whose key is not marked (`Consider`);
it may die anywhere (`PassDies`). An attempt of an event is `Deliver` (the
look-up of the key), `Admit` (controls, run gate, CFE health), `Generate`,
`Judge` (verdict and draft), `Update` and `Mark`; `Fail` is a rejected call, a dead
process or a return the queue does not hear of, and delivers the event again until
its retries are spent. Rows and drafts are kept per attempt. `everClear` and
`drained` are history. What the gate, the model and the CFE answer is a choice.
The durable queue is external. The key also names the agent the contact's stage calls
for; a stage that changes within the day, which would give the contact a second key, is
left out.

### Billing

Stripe is external: it emits events about its own subscription (`stripe`) and
redelivers each until it is acknowledged. A request claims the event
(`Deliver`), a duplicate is told 200; the handler reads the row, writes it and
finishes, in steps of its own; a handler that throws gives the claim back in a
step of its own (`Throw`), also when its write has landed and the answer was lost
(`WriteLost`); a process that dies does not. The sweep lists and writes row by row;
the cancellation reads, calls Stripe, whether or not the subscription is already set
to end, and writes. `applied`, `redone`, `settled`, `orderly` and `faults` are history
or bounds.

### Sponsorship

The 08:00 pass (`CascadeList`, `Protect`, `ExpireList`, `End`) and the 09:00 pass
(`NoticeList`, `MarkPending`) keep the list of ids they read; the conversion marks
before the checkout exists (`ConvertFind`, `ConvertMark`, `CheckoutPaid`,
`CheckoutAbandoned`); `Rematch` is refused by the two unique indexes the code relies
on. `FullFunction` is what `isFeatureAccessible` answers. A sponsor's standing is a
choice (`SponsorChanges`), bounded by `MaxFlips`.

### DataRights

`processDeletion` is `CheckHold`, then `MarkHeld` or the transaction, statement by
statement: the read of the user and of the new upline (`BeginDeletion`), the update
of everyone under the user (`MoveUsers`), the read and the re-pointing of the edges
(`MoveEdges`), the edge to the user and the recompute (`Recompute`), the scrub and the
commit (`CommitDeletion`). The transaction is READ COMMITTED, Prisma's default on
PostgreSQL: each statement sees what others have committed by then, what it writes is
kept with the worker (`moved`, `gone`, `came`) and seen by others at the commit, and a
row it has written makes other writers wait (`UserLocked`, `EdgesLocked`). A cycle
under a recomputed root aborts it (`Overflows`), as does a re-pointed edge that exists
(`Collides`); a transaction that waits too long, or whose process dies, leaves nothing
(`Die`). `AcceptMatch` and `AcceptCommit` are the sponsor decision, with the choice of
`matchSponsor`; `SponsorshipLapses` stands for the cascades that take a row out of
ACTIVE. `crossed` records who came under a sponsor while a deletion of that sponsor
had moved its users and not yet its edges.

### Booking

Instants are positions on a grid finer than the step of the search, so requests made
at different instants (`Nows`) step through different candidates. A request reads
both calendars (`Search`), inserts under the slot lock (`Book`) or loses it and
proposes near misses (`LoseSlot`, `Propose`). A person may be the rep of one row and
the trainer of another (`Parties`), and both calendars count both. The cap looks at
the sessions that start from a week before the request's instant on (`Week`), and a
session with nothing better is put a day ahead (`Day`). `seen`, `counted`, `locked`,
`tentative` and `revived` are kept with each row for the properties.

### Conversation

One contact and all that moves its stage: the first-touch composer
(`Prepare`, `Evaluate`, `Compose`, `ReadMessage`, `ConfirmSent`, `MarkNotSent`),
an inbound message (`Reply`, `Stop`), bookings and their outcomes
(`BookingEvent`), hand edits (`PostOutreach`, `SetDoNotContact`), an import that finds
a minor (`MergeMinor`, `RegisterMinorOptOut`); all but the hand edits and imports go
through `advanceStage` (`AdvanceRead`, `RecordOutreach`). The
handoff is `Trigger`, `ReadJoin`, `Join`, `ListLapsed`, `ReadLapsed`, `Return`.
`history` records the furthest event, whether two calls crossed and whether someone
moved the stage by hand.

### ContactImport

A call finds or creates the batch (`Begin`, `CreateBatch`), goes row by row
(`FindExisting`, then `StoreContact`, which creates or merges, then `OptOutMinor`) and
writes the batch once (`Finish`). A row is found by its phone or its e-mail, so it may
match two contacts (`Matches`); whichever is found takes the row in, and fills in the
identifier it lacked when it was read (`Merged`). `RowFails` is a query that rejects,
which stops the loop at its row, `WriteLost` one that has written all the same, and
an opt-out may stop between its two upserts (`CutShort`); `CallDies` is the end of the
process or a refused final update, which leaves the cursor where it was. `imports`
records overlaps, the rows found under several contacts (`split`) and those that will
be done again (`redone`).

## 3. Runs

| Run | Checks | Instance | States |
|---|---|---|---|
| `budget` | HoldsMatchRuns, HoldsWithinCeiling, OvershootExplained | metered job, probe, critical job, enterprise job, unknown rep's job; one kill switch | 359,750 |
| `draft` | OnlyReleasedDispatched, ApprovalCoversDispatch, SendReportsTruly, FinalDeclineStands | any 4 calls of the 12 kinds, up to permutation | 1,208,662 |
| `sequence` | SentOnce, StopIsTerminal | 2 steps, 2 overlapping ticks, a reply, a stop, a resume, 1 failure | 1,981,291 |
| `sequence_live` | DeliversInOrder, DueStepsSettle | 3 steps, the last scheduled before the middle one, 1 tick at a time, a resume, 1 failure, a tick that may be full; fair | 126,339 |
| `audit` | ChainLinked, ImplementsLog, ChainReportExact, CheckpointsStand, AlarmOnlyOutOfOrder | 2 events, 2 checkpointers, 1 verifier, 3 channels | 1,945,836 |
| `agent` | MarkedMeansRecorded, StoppedStaysUntouched, CapHonouredWhenDrained, ProcessedIsFinal, SentSettles | 2 contacts, 2 events of 2 attempts, 2 passes, cap 1, do-not-contact and manual mode, 1 toggle; fair | 1,560,606 |
| `billing` | EffectAtMostOnce, AckedIsHandled, InOrderAgrees | 3 events, 2 requests at once, 1 fault or lost answer, the sweep and a cancellation | 2,308,184 |
| `sponsor` | EndedAfterItsWindow, PassesNeverCut, LapseIsNoticed, WindowIsClosed | 2 sponsors, 2 sponsorships, short windows; fair passes | 451,360 |
| `rights` | UplineHasEdge, SponsorIsUpline, NobodyTheirOwnUpline, ScrubIsRecorded | 3 users, 2 workers, 2 requests, 1 hold or 1 lapse | 3,429,120 |
| `booking` | ClashExplained, CapExplained | 2 people, each rep and trainer, 2 requests at once, 3 instants over more than a week of 2, cap 1, 2 rows, 2 answers | 1,098,340 |
| `conversation` | FurthestEventCounts, MinorStaysOut, StopBlocksNewTouches, AnsweredOnce | 6 calls, 2 at once, 1 message | 479,167 |
| `import` | CompletedIsComplete, DuplicatesExplained | 7 rows, 3 calls, 2 at once, 1 failure or lost answer | 50,916 |

Further configurations refute what a comment of the code says; TLC's counterexample is
the history behind an entry of `findings`. Those marked * name several claims (TLC
stops at the first; `-continue` shows the others).

| Configuration | Module | Refuted claim |
|---|---|---|
| `BudgetFindings.cfg`* | `MCBudgetGate` | SpendWithinCeiling, FreshSpendWithinCeiling, NoHoldOutlivesItsCall (three jobs of one rep, budget for two) |
| `DraftFindings.cfg`* | `MCDraftLifecycle` | DispatchedTextApproved, ReapprovedDraftClears (approve, edit, send) |
| `DraftEscalated.cfg` | `MCDraftLifecycle` | EscalatedNotSelfApproved (enqueue, sweep, edit, queueApprove) |
| `SequenceSkips.cfg` | `MCSequenceEngine` | CompletedMeansAllSent |
| `SequenceOrder.cfg` | `MCSequenceEngine` | NeverLoopsBack |
| `SequenceStarves.cfg` | `MCSequenceEngine` | RemainderIsPickedUp |
| `AuditVerifies.cfg` | `MCAuditChain` | UntouchedChainVerifies |
| `AgentDuplicates.cfg` | `MCAgentRuntime` | OneDraftPerUnit |
| `BillingFindings.cfg`* | `MCBilling` | DisputeSurvivesPayment, NeverAppliedTwice, EchoNeverUndoesCancel |
| `SponsorFindings.cfg`* | `MCSponsorship` | EndedIsSuspended, PaidKeepsFunction |
| `RightsFindings.cfg`* | `MCDataRights` | NothingScrubbedUnderHold, TreesAlwaysAgree |
| `BookingDouble.cfg` | `MCBooking` | NoDoubleBooking |
| `ConversationFindings.cfg`* | `MCConversation` | NeverPulledBack, JoinStands |
| `ImportTwice.cfg`* | `MCContactImport` | NoRowTwice, NoDuplicateContacts |

`BillingLive.cfg` checks, and TLC confirms, `EveryEventAcked` under `FairSpec`:
Stripe is told of every event in the end.

What the runs show:

* **Budget.** The reservation ledger does close the burst it was written for:
  holds never exceed the ceiling, at any interleaving. Spend still can, and the
  model says by how much: `OvershootExplained` bounds it by one estimate per
  run that reserved from a snapshot another run's landing had made old, plus
  unmetered runs, plus what runs cost beyond their estimate. `BudgetFindings.cfg`
  has the shortest such histories, of the old snapshot and of the run that uses a
  dearer tier than it reserved for, and the hold left by a platform read that
  rejects.
* **Draft.** A text that was never released never goes out, whatever the race:
  the verdict is stored in the same update as the text and the send dispatches
  from one read. Approval is weaker: it covers the dispatched text except when
  an edit lands between an approval's read and its write
  (`DraftFindings.cfg`). An edited draft can never be sent again, even after a
  new approval (the same configuration). The escalation hold does not stop a rep's
  one-tap approval (`DraftEscalated.cfg`). A decline is final once nothing that was
  already under way, and no undecided review row, can still write the draft;
  the side condition is needed because the sweep holds a draft whatever its
  state.
* **Sequence.** A step is sent twice only by overlapping ticks or by a tick that
  died between the dispatch and the SENT mark. The order of the cadence is kept,
  but for a step whose interval days the client put behind a later one's: once that
  has gone out and the tick has died before it moved the cursor, the earlier step
  follows it (`SequenceOrder.cfg`). A stop is undone only by a call that had already
  read the state. A due step of an active sequence is settled once the active
  sequences stay within what a tick takes; beyond that nothing makes the tick take
  this one, ever (`SequenceStarves.cfg`). A held or failed step is passed over for
  ever although comments call it retryable (`SequenceSkips.cfg`).

* **Audit.** Two writers that read one tail never fork the chain: one insert is
  refused, and its event is lost unless the caller tries again, which none does.
  Verification is another matter: it reports exactly the first row whose channel
  was stored under another name (`ChainReportExact`), so one SMS event makes an
  untouched store look mutated (`AuditVerifies.cfg`). Checkpoints stay true
  although they are made of two reads, and a truncation alarm on an untouched
  store can only come from rows or a tail read before the checkpoint
  (`AlarmOnlyOutOfOrder`); the model reaches that false alarm.
* **Agent.** A crash never loses a unit: the key is marked only after an outcome is on
  record, and an event either gets there or runs out of retries. It may cost a
  second draft (`AgentDuplicates.cfg`). After the mark nothing is written again. A
  stopped contact is untouched by two different checks; manual mode by the second
  alone. The daily cap holds as long as no pass begins over unfinished events: it counts rows,
  and a queued event has none yet.
* **Billing.** The claim makes an event act once, however its deliveries
  overlap, and again for each request that failed after its write had landed: the
  claim is then given back and the effect repeated (`BillingFindings.cfg`). The claim
  is also given to a request that then fails, while a
  duplicate has been told 200, so `AckedIsHandled` needs "no request failed". Events in order leave the row
  in agreement with Stripe, except that one behind on payments and set to end may read
  either way: its cancellation writes CANCELED and the echo of it, against the
  comment, what is owed (`BillingFindings.cfg`). Out of order, or crossing the sweep,
  they need not agree, and a payment that crosses a dispute clears it.
* **Sponsorship.** Stale lists do no harm to the protected window: the date is
  written with the state, and nobody is ended before it or left open after it. A
  lapse moves every ACTIVE row of the sponsor on, but the 09:00 pass may get there
  first and only mark the row pending, which still grants full function.
  An ended member is not suspended if they have a row of their own, and a
  paying one may be governed by an old sponsorship (`SponsorFindings.cfg`).
* **Data rights.** The statements of the deletion rewrite the two trees at different
  times, and a match to the user who is going, committed in between, is seen by one
  and not by the other: the new recruit keeps the deleted user as upline while the
  edge has moved (`RightsFindings.cfg`). That gap is the only one: everyone else's trees agree
  whatever interleaves, since an edge or a reference that would go wrong otherwise
  collides with a unique index or overflows the recompute, and the deletion is rolled
  back. That is also the price: a member in a cycle can never be deleted. A hold placed
  after the check does not stop a deletion (the same configuration).
* **Booking.** The slot lock decides only between equal windows. Every clash has one of
  three reasons (an unseen row, a tentative proposal, a revived one), and the lock
  removes none of them in general (`BookingDouble.cfg`). The cap is per rolling week
  and looks back from the request, which bounds every week, past or to come, since
  sessions yet to come are counted however far ahead.
* **Conversation.** The rank guard alone gives the furthest event, in any order of
  handling; two advances that cross may undo each other (`ConversationFindings.cfg`).
  A side stage has no rank, which is what keeps a minor out; an event of a contact
  under do-not-contact is dropped, so it does not count among the events.
* **Import.** COMPLETED is honest through failures, deaths and overlapping calls: every
  valid row is stored, every minor opted out and flagged. A person is there twice
  after overlapping calls; when a row has the phone of one contact and the e-mail of
  another, in an undisturbed import too; or, without phone or e-mail, after a call
  died or an answer was lost (`ImportTwice.cfg`). Of such a pair only the contact
  that took the minor's row in is flagged.

### Bounds, and why they are enough

* `budget`: one run of each kind on purpose; the overshoot needs two metered
  runs, which the refuting configuration (three of one rep) has. The estimate is 1
  and costs are 0 to 2, below, at and above it; ceilings of 1 and 2 are reached. The proofs remove the bounds.
* `draft`: every violation found needs at most four calls, and four calls allow
  approve, edit, second approve and send, or enqueue, sweep, decision and a
  later call. The calls are interchangeable, hence the symmetry. The proofs
  cover any number.
* `sequence`: two ticks are the least that overlap; `MaxDeliveries = 2` is the
  least at which a double send shows; `MaxFailures = 1` suffices for the crash
  before the SENT mark and for a half-finished enroll. Its schedule rises by a day;
  those of `sequence_live` and of `SequenceOrder.cfg` put the last of three steps
  before the middle one, the least that goes wrong. `MaxDeliveries` and `MaxFailures` are guards of actions, named in
  the module. `sequence_live` keeps one ticker because overlap is the stated
  exception of its order property.
* `audit`: two writers are the least that race for a place; two checkpointers
  with a clock of two instants give ties and saves out of order; the channels are
  one the enum has, one it renames and none. Chains of any length and any number
  of writers are covered by the proofs.
* `agent`: two passes and two events let a pass meet the unfinished event of an earlier
  one and send the same contact or the other, over the cap of one; one retry gives a
  first and a last attempt. Paused contacts are treated as do-not-contact ones are. The proofs cover any numbers.
* `billing`: three events give a pair out of order and one more that shows the damage;
  two requests are the least that overlap, on one event or on two; one fault is the
  least after which an event is delivered to its handler again.
* `sponsor`: the window, the notice and the term are shortened to a few days so that all
  of them end within the run; two rows give an old and a new sponsorship.
* `rights`: three users are the least with a chain in which the middle one and its end
  are deleted at once, and allow a cycle of two with a third below it; two workers are a
  deletion and whoever commits between its statements. A hold and a lapse share one
  bound (`MaxOutside`): they touch no row in common.
* `booking`: two instants per step of the search are the least at which two requests
  step past each other, and the third lies more than a week after the first; two rows are
  the least that clash; a cap of one is reached.
* `conversation`: six calls allow a touch, its confirmation, a reply, a stop, an
  import and a hand edit in one history; two at a time are the least that cross.
* `import`: the seven rows are one with no identifier, an invalid one, a phone, an e-mail, a
  minor with both, a minor with that phone and another e-mail, and that e-mail alone: a
  row found under two contacts, and one whose e-mail the contact cannot take. Three calls
  with one failure allow a retry beside another call.
* `CHECK_DEADLOCK FALSE`: the runs consider finitely many calls, and when these
  have ended the system rests.

### Fairness

`FairSpec` assumes: enroll proceeds (`CreateStep`) or fails; time passes; the
hourly cron fires and its handler runs to its end (weak fairness of each
ticker's steps: Inngest schedules the function every hour and nothing in it waits
for another party), except that a new tick is owed to the sequence only while the
ACTIVE sequences fit into one (`~crowded`): the listing has no order, so beyond its
maximum nothing is owed, and `DueStepsSettle` is about the time when they fit for
good; and a step that reaches the gate again and again is not met
by quiet hours every time (strong fairness of the gate's and seam's other
answers: quiet hours are a nightly window and the cron runs all day). Failures
are bounded by `MaxFailures`: a database that fails for ever settles nothing.
Nothing is assumed about replies, resumes, stops or opt-outs.

`AgentRuntime!Spec` assumes that the queue goes on with an event it was sent (weak
fairness of its attempts; Inngest runs a delivered function until it returns or
its retries are spent) and nothing about the passes. `Sponsorship!FairSpec` assumes that
the 08:00 pass starts every day and goes on (weak fairness of `CascadeList` and
`CascadeStep`); the passes that die are bounded. `Billing!FairSpec` assumes that Stripe
redelivers until acknowledged and that a request that is running goes on.

## 4. Proofs

| Theorem | Property | Argument |
|---|---|---|
| `BudgetGateProofs`: `TypeCorrect` | TypeOK | inductive as it stands |
| `HoldsMatch` | HoldsMatchRuns | strengthened by `InCheck`: who is where in `check()` decides whether it is metered, so a hold is placed only for metered runs |
| `HoldsBounded` | HoldsWithinCeiling | from `HoldsMatch`: the reserving run is not yet in the set, so its estimate adds exactly one; releases only shrink the set |
| `OvershootBounded` | OvershootExplained | a run that reserved from an up-to-date snapshot keeps the bound by the admission test, an outdated one pays for itself in `StaleOf`; a landing cost is at most the estimate its run held plus what it adds to `excess` |
| `DraftLifecycleProofs`: `DraftTypeCorrect` | TypeOK | inductive |
| `ReleasedOnly` | OnlyReleasedDispatched | `VerdictKept`: the row and every copy of it carry the verdict of their own text, and a send past its read holds a cleared copy |
| `ReportsTrue` | SendReportsTruly | `ReportKept`: where a send stands determines what it has sent and lost |
| `DeclineStands` | FinalDeclineStands | `FinalKept`: once final, no call stands between a read and a write and every new read of a declined draft is refused |
| `ApprovalCovers` | ApprovalCoversDispatch | `ApprovalKept`, on the rows any copy can hold (`Covered`): an approval in the row, unless crossed, has a copy of the same text, and one that was allowed to approve it |
| `SequenceEngineProofs`: `SequenceTypeCorrect` | TypeOK | inductive |
| `StopStands` | StopIsTerminal | `StopKept`: once stopped with no half-done call, no call can get past its read |
| `SentAtMostOnce` | SentOnce | `OnceKept`: with one tick at work, a delivered step is marked, about to be marked by the tick that delivered it, or recorded in `redo` |
| `SentInOrder` | DeliversInOrder | `OrderKept`: before the cursors, the step a tick works on and every step that went out there is nothing runnable that was not `Overtaken` (a later step scheduled before it has gone out), and what a tick has read has gaps only where nothing is left, because of two steps scheduled in order the later cannot be due alone |
| `AuditChainProofs`: `ChainNeverForks` | ChainLinked | `Chain`: the rows are 1..n, a tail read by a writer is a row with its hash, so a place that is still free is the one after the last row and the hash read is the last row's |
| `StoreIsAppendOnlyLog` | ImplementsLog | with `Chain` (`OnceInserted`: a writer that has not inserted has no row) an insert is `Record`, every other step a stutter |
| `CheckpointsAreHonest` | CheckpointsStand | `Anchors`: rows only grow, and the count is taken after the tail |
| `ChainReportIsExact` | ChainReportExact | `Verified`: rows and the channels of the events do not change once written, so what a verification found of the rows 1..size stays what it would find now |
| `AlarmsAreOutOfOrder` | AlarmOnlyOutOfOrder | `Readings`: a checkpoint that was read first stands, and since rows only grow, the rows and the tail that are read after it can only confirm it |
| `AgentRuntimeProofs`: `AgentTypeCorrect` | TypeOK | inductive |
| `MarkedIsRecorded` | MarkedMeansRecorded | an event about to mark has its attempt's outcome on record, and rows of past attempts are never rewritten |
| `StoppedIsUntouched` | StoppedStaysUntouched | a run past its admission was admitted while its contact was clear |
| `SettledIsFinal` | ProcessedIsFinal | marks stay, and a delivery for a marked key ends at once |
| `CapIsHonoured` | CapHonouredWhenDrained | `CapInv`: contacts dispatched plus what the pass has left fit under the cap; when all events are done each dispatched contact has a row of its own (an injection, from `MarkedIsRecorded`), so counting rows counts at least the contacts |
| `BillingProofs`: `BillingTypeCorrect` | TypeOK | inductive |
| `EffectIsAtMostOnce` | EffectAtMostOnce | who holds the claim is the only one that may still write, and a claim given back had no effect or is counted in `redone` |
| `AcknowledgedIsHandled` | AckedIsHandled | while nothing has failed a claimed event is being handled or settled |
| `EventsInOrderAgree` | InOrderAgrees | `OrderInv`: while all is in order, the row agrees with Stripe or an event that decides what the row says (the checkout, an update, the deletion) still has its write to come; Stripe closes what it emits with such an event (`Emits`), a cancellation may leave CANCELED on what is set to end, events settle one after the other (`InTurn`), and what was read or listed is what the row still says (`Fresh`) |
| `MembershipProofs`: `SponsorshipTypeCorrect` | SponsorshipTypeOK | inductive |
| `EndedIsAfterItsWindow` | EndedAfterItsWindow | a listed row carries the date it was listed for, whatever state it has moved to |
| `PassesCutNobody` | PassesNeverCut | what a pass still has to write is a row that already grants nothing, or one that it leaves granting |
| `DataRightsTypeCorrect` | TypeOK | inductive |
| `TheTreesAgree` | UplineHasEdge | `InFlight`: what a worker in the transaction has moved, taken and added is what `Fits` says of the committed rows, and two such workers are `Apart` because of the locks; so the commit moves the same users in both trees, but for those who came under the user in its gap, who are in `crossed` |
| `TheSponsorIsTheUpline` | SponsorIsUpline | the sponsor of a live match is not the one who goes; the user a match writes is locked while a deletion moves them |
| `NobodyIsTheirOwnUpline` | NobodyTheirOwnUpline | an upline has its edge, so a user outside `crossed` who would become their own upline is on a cycle under the recomputed root, and the transaction aborts |
| `TheScrubIsRecorded` | ScrubIsRecorded | a worker in the transaction holds a request of its own user |
| `ContactProofs`: `StageIsTheFurthest` | FurthestEventCounts | `StageFits`: until two advances cross, an advance that is about to write read a stage below its own and the rank of the row is that of the furthest event |
| `MinorsStayOut` | MinorStaysOut | DO_NOT_CONTACT has no rank, so no advance starts from it; part of the same invariant |
| `StopsAreHonoured` | StopBlocksNewTouches | `GateFits`: a request still at the gate began before the opt-out or finds it, so only early ones compose |
| `HandoffIsAnsweredOnce` | AnsweredOnce | `HandoffFits`: until two answers cross, the row says which one it had; an answer in hand read INVITED |
| `CompletedImportIsComplete` | CompletedIsComplete | `Progress`: every line before the cursor, and every line a call has passed, is stored, flagged where it went and opted out, and so is every other contact with its identifier unless the row was split or turned away; rows and the registry only grow, identifiers and flags stay, so it stays done (`DoneStays`) |
| `DuplicatesAreExplained` | DuplicatesExplained | `OneCall`: until two calls overlap there is one at work, contacts that share an identifier are those of a split row, and the rows without one are at lines behind the call or recorded as done again |
| `ClashesAreExplained` | ClashExplained | `RowFits`: a row put on a free time is free of every row its search saw; a row changes nothing but its status and comes to hold a time again only by a revival (`Keeps`) |
| `TheCapIsExplained` | CapExplained | the rows a session's request had counted, less the revived ones, stay fewer than the cap (`CountedOf` only shrinks); the last session of a rep over the cap in a week has more before it in that week than it counted, and none of them starts before what its request looked back to |

Each proof has one step per action of `Next`. The assumptions are those of the
modules (`RunsAssumption`, `BudgetAssumption`, `KindsAssumption`,
`SequenceAssumption`, `AuditAssumption`, `AgentAssumption`, `BillingConstants`,
`SponsorshipConstants`, `DataRightsConstants`, `ImportConstants`,
`BookingConstants`), which TLC evaluates on every run. The
type invariants are proved and therefore not in the runs, except where no theorem
covers them.

The invariants of `ContactProofs` say no more of the data than the argument needs.
The near miss of `Booking` is the outcome of a fold over the busy rows, whose type
is an induction over data; what a proposal starts at is therefore left untyped
(`BookingRows(S)`, for some S), and nothing proved depends on it, a proposal being
one of the named reasons.

Every safety invariant a passing configuration checks has its theorem. Model-checked
only: `DueStepsSettle`, `SentSettles`, `LapseIsNoticed`, `WindowIsClosed` and
`EveryEventAcked` (liveness is out of the prover's reach), and everything the
refuting configurations show.

## 5. Disagreements between the code and its comments

`PROJECT.json`, `findings`, quotes each comment and says how the code departs from it:
the spend invariant, the leaking hold, the approval race, the re-approved draft
that no send accepts, the escalated draft the rep approves, the steps a completed
sequence never sent, the audit log that reports a mutation nobody made, the second
draft of a retried event, the payment that clears a dispute, the ended member who is
not suspended, the paying one who is, the deletion under a hold, the two bookings of one trainer, the
contact pulled backward, the handoff that was joined and then returned, the
import that repeats a row, the run dearer than its estimate, the arc that loops back,
the sequences no tick takes, the event applied twice, the echo that undoes a
cancellation, the two trees that part, and the import that leaves duplicates. Each is the counterexample of a configuration of section 3.

## 6. What could follow

1. A promise of the send seam as an abstract specification, implemented by
   `DraftLifecycle` and used by `SequenceEngine`; the adjudication's decision
   related to its audit event, composing `DraftLifecycle` and `AuditChain`.
2. `AgentRuntime` composed with `BudgetGate` instead of taking the gate's answer as a
   choice, and the listing of several sequences instead of `crowded`.
3. Calendar synchronisation beside `Booking`, the social-content publishing
   status, the learning-state shift.
4. A proof that a free window found is the earliest one, if the fold over the busy
   rows can be given a form the prover reads.

## 7. Not modelled, and why

The CFE's scoring and the classifiers (data, not control: the models take any
verdict); UI, authentication, offline cache and internationalisation; migrations
and scripts; the CRUD and scoring services in the last row of the table in
section 1. Data export, the retention sweep, proration and plan changes, calendar
synchronisation, milestones and health scores of the tree: reads and arithmetic that
no modelled step depends on. Multi-instance deployment of the ledger, a change of UTC day in the
middle of a run, and several organisations are outside `BudgetGate`.
Encryption, hashing of identifiers and time-zone arithmetic are abstracted to
their results.

## 8. Running

    tlc -workers 2 -config MCBudgetGate.cfg MCBudgetGate.tla
    tlapm BudgetGateProofs.tla

and likewise for the others; `PROJECT.json` names the module of each
configuration. The largest runs take two to three minutes, the proofs from seconds to a few
minutes each.
