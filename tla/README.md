# A TLA+ model of the daily ayah and hadith bot

The bot sends the users of Slack workspaces one Qur'an verse or one hadith per
stream and local day. It is one NestJS process (`ecosystem.config.js`: one pm2
instance) over PostgreSQL (Prisma), with three sources of activity that
interleave at every `await`: a scheduler that ticks on `setInterval`, an admin
HTTP API and UI, and Slack events over Socket Mode. Slack's Web API and the two
content APIs (Quran.Foundation, HadeethEnc) are outside and may fail, or succeed
without our hearing of it. There are no automated tests in the repository
(PLAN.md section 17).

Paths below are relative to `src/src/` unless they start with `PLAN.md` or `prisma/`.

## 1. Inventory

| Component | State it keeps | Operations | What is hard | What makes it correct |
|---|---|---|---|---|
| Delivery and retry (`deliveries/delivery-orchestrator.service.ts`, `deliveries.service.ts`) | `ContentDelivery` rows: status, sendingAt, attemptCount, isRetryable, nextRetryAt | reserve, `sendDelivery` (read, claim, post, record), `retrySweep`, admin retry, mark skipped | three callers of `sendDelivery` on one row; crash between claim and record; lost Slack answers; rows changed under a caller | attempts exclude each other; no post after SENT; SENT means posted; every row comes to rest |
| Scheduler (`scheduler/`) | advisory lock, interval timer | tick, runTick | the lock's transaction times out while the tick goes on, so ticks overlap | ticks end; overlapping ticks are harmless |
| Run reservation, content selection (`deliveries/content-selection.service.ts`, `reserveRun`) | `DeliveryRun` rows, one per stream and local date | reserveRun, createRun, three selection strategies | Serializable race on the unique key; subscribers of several time zones create several dates at once; LRU by createdAt, alternation by date | one run per stream and date; every eligible item is used before one is used again |
| Due window (`common/utils/schedule-time.ts`, `streams.findDueStreamSubscribers`) | none | isWithinDueWindow, localDateFor | ticks later than the window, local midnight, weekdays | every send time is due in some tick |
| Streams (`streams/streams.service.ts`) | `ScheduleStream`: recurrence, days, strategy, types, cap | create, update, setEnabled | an update validates what it read before its transaction | no stream whose fields contradict each other |
| Content and review (`content/`, `review/`) | `ContentItem` with version and status, reviews | create, update, revise, submit, approve, reject, archive | check, then unconditional update, in two transactions | what is approved is what was reviewed |
| Workspace lifecycle (`slack-oauth/`, `workspaces/`, `workspace-purge/`, `slack/slack-client.factory.ts`) | `SlackWorkspace`: token, isActive, uninstalledAt; client cache | OAuth install, admin create/update, uninstall event, daily purge | reinstall racing the purge; cached client of an old token | a workspace in use is never purged |
| Subscription commands (`slack-events/`, `subscribers/`) | `UserSubscriber`: isActive, sendTime, timezone, locale | slash commands, settings, instant content, admin create/update | two commands of one person, or a command and an administrator, at once; an answer that fails after the write | what a person was told is what the row says; nobody is sent anything unasked |
| Hadith import (`hadith-api/`) | cursor: category, page, index | peekNext, importNext | the listing changes; two imports at once; restart half way; categories with nothing in them | nothing skipped, nothing imported twice, every call ends |
| Quran import (`quran-foundation/`) | cursor: surah, ayah; cached OAuth token; cached list of tafsirs | peekNext, importNext, getAccessToken | same; requests in parallel over one token that expires or is revoked | nothing skipped, nothing twice, a retry has a token that works |
| Slack rendering (`slack/renderers/`, `slack-block.renderer.ts`) | none | splitEscapedText, render | limits in characters of escaped text | every piece within the limit, no entity cut, nothing lost unnoticed |
| Slack gateway (`slack/slack.service.ts`, error mapper) | none | postMessage, verifyToken | answers lost or without a timestamp | retryable only when it is worth retrying |
| Audit (`audit/`), admin UI (`admin-ui/`), configuration, guards, filters, health, Swagger | audit rows, login session | | | not modelled: see section 7 |

Interactions: the scheduler calls streams (who is due), then the orchestrator,
which calls selection, the renderer and the gateway; the admin API calls
deliveries, streams, content, review and workspaces; Slack events call
subscribers and the gateway; OAuth writes workspaces and creates a default
stream; the purge cascades through every row of a workspace. They share the
database and the client cache, nothing else.

## 2. Plan

Most important first; each module takes its parameters as CONSTANTS with named
assumptions and has no RECURSIVE operator.

Done:

1. **Delivery**: the send path of one cycle. Abstract specification
   `DeliveryAttempts`, refinement `DeliveryRefines`, proofs `Delivery_proofs`.
2. **Rotation**: `reserveRun` and the selection strategies: one run per stream
   and date, and how many cycles pass between two uses of an item. Proved.
3. **ContentLifecycle**: content versions, review, archive: what an approval
   approves. Proved.
4. **DueWindow**: ticks, local dates and windows, daylight saving. Proved, for
   zones with and without a shift.
5. **WorkspaceLifecycle**: install, uninstall, reinstall, purge, client cache.
   Safety proved.
6. **HadithImport** and **QuranImport** (with its requests and the access token):
   cursors that move over a source, calls that overlap, crashes between the
   import and the cursor. Safety proved.
7. **Streams** and **Subscriptions**: the read-then-write handlers of the
   administrators' API and of the Slack commands, and who is due. Proved.
8. **SlackText** and **SlackMessage**: escaping, splitting and labelling under
   Slack's limits, for the run, the instant command and the preview. Safety proved.

Left, in this order:

9. The composition of Rotation with Delivery over several dates: that their
    interface (one run, then one delivery per subscriber) is what each assumes.
10. The clamping of imported texts (`common/utils/clamp-text.ts`), as a pure
    function on the texts of SlackText.

## 3. Modules

The `MC...` modules instantiate these for TLC and hold the constants' values.
In each module, operators commented `Mutant:` are broken variants of the
definition after them. No specification uses them; they stand for bugs the
properties must be able to see.

### Delivery

The rows of `ContentDelivery` for one run. One step is one database statement or
one Slack call, because that is what other callers can get in between.

| TLA+ | Code |
|---|---|
| `row[d]` | the row of one (run, subscriber): status (`ABSENT` before it is created), sendingAt, attemptCount, isRetryable (null counts as false, as in every query), nextRetryAt (`Never` for null) |
| `clock`, minutes | `Clock.now()` |
| `lock`, `phase`, `nowUtc`, `todo` | the advisory lock, and `runTick`'s position, captured instant, and work left: due subscribers, then the sweep's candidates |
| `at`, `target`, `attempt`, `startedAt`, `outcome` | position and locals of each `sendDelivery` or `markSkipped` call |
| `posted`, `everSent` | what Slack delivered (outside the program), and whether SENT was ever recorded (history) |
| `disturbed` | history: ticks that have outlasted their lock, that ran beside such a tick, or beside an admin's retry |
| `StartTick`, `ReserveSubscriberDelivery`, `QueryFailed`, `QueryStale`, `SweepNext`, `EndTick`, `QueryFails`, `LockExpires` | `SchedulerService.runTick`, `retrySweep`, `SchedulerLockService.withLock` |
| `RetryRequest`, `SkipRequest`, `MarkSkipped` | `DeliveriesService.retry`, `markSkipped` (its read, and its committed update) |
| `ReadDelivery`, `Claim`, `ClaimLost`, `MessageDelivered`, `MessageRefused`, `RecordSent`, `RecordFailed` | `sendDelivery`, in its order |
| `DatabaseFails`, `Crash`, `Advance` | a statement throws; the process restarts; time passes |

The due list is any set of subscribers, so a failure before the reservation is
covered by a due list without that subscriber. `MessageDelivered` chooses its
answer freely: a call that timed out may have posted. Not in the module: the
audit rows, the rendered snapshot (fixed once per run), and changes of the
stream's `maxAutomaticAttempts`, which is a constant here.

`PromptSendAssumption` (Latency < StaleAfter) is what the comment on
`SENDING_STALE_RECOVERY_MS` relies on: the Slack client gives up after ten
seconds, so a send is over long before its row is two minutes old. `Advance`
keeps time from passing a send by. It is an assumption about the machine, not a
fact of the code: nothing in the code stops a send that was suspended for two
minutes from posting.

`DeliveryAttempts` is the abstract promise: at most one attempt at a time, at
most one post per attempt, nothing after a delivery is resolved.
`DeliveryRefines` maps the code to it: a delivery is *attempting* when some
caller is between its claim and its record, *resolved* when its row says SENT or
SKIPPED and nobody is sending it.

### Rotation

The `DeliveryRun` rows of one stream: one per local date, made by
`reserveRun` in a Serializable transaction.

| TLA+ | Code |
|---|---|
| `run[d]`, `runs` | the row of local date d: status, item, createdAt (its place in the order of creation); how many there are |
| `approved`, `since`, `changes` | items that can be selected; history: runs when each was last approved; bound |
| `at`, `date`, `choice`, `seen` | each `deliverToSubscriber` call in `reserveRun`: its date, what it selected, its snapshot |
| `today` | the earlier of the two dates that are current somewhere in the world |
| `served` | history: what subscribers of a date were sent |
| `Existing`, `Select`, `Commit`, `Conflict`, `Reread`, `Throw`, `Abandon` | `reserveRun`: a run that exists; the snapshot and the selection; commit; P2034 or P2002; the re-read and its failure; a restart |
| `selectLeastRecentlySent`, `selectRandomWithoutReplacement`, `selectAlternateByType` | the strategies, in `content-selection.service.ts` |

PostgreSQL's serializable isolation is modelled by what it allows: a commit is
refused when a run of the stream was committed after the snapshot. A run whose
render is too long is SKIPPED, with its item, and counts as used, as in the code.

### ContentLifecycle

`ContentItem` rows and the handlers of `ContentService` and `ReviewService`.
Every handler is a transaction that reads, checks, then writes; at PostgreSQL's
default isolation others commit in between, so a handler is two steps, `...Read`
and the write. Only `revise` is Serializable: it sees one snapshot, and the
unique key (parentContentId, version) refuses a version already taken.

| TLA+ | Code |
|---|---|
| `row[i]` | item i with its sources: status, payload, `rest` (type, locale, title and sources together), version, parent, checksum, updatedAt |
| `at`, `item`, `was`, `known` | each request: its handler, id, the row it read, and `expectedUpdatedAt` (update) or the version it computed (revise) |
| `late` | history: items whose last approval came from a request whose read was overtaken |
| `Create`, `CreateApproved` | `create` and `createApproved`: nothing is read that can change |
| `UpdateRead`/`Update`, `ArchiveRead`/`Archive`, `ReviseRead`/`Revise` | `ContentService.update`, `archive`, `revise` |
| `SubmitRead`/`Submit`, `ApproveRead`/`Approve`, `RejectRead`/`Reject` | `ReviewService` |
| `Abort` | a rollback, a refused commit, a restart |

`Approvable` is what `validateForApproval` accepts: any set of contents. The two
queries of `approve` (item, then its sources through the validator) are read as
one. `updatedAt` is taken to differ from write to write; it is a millisecond
clock, so two writes within one millisecond would not be told apart.

### DueWindow

One subscriber of one stream and the ticks that look for whom to send to.

| TLA+ | Code |
|---|---|
| `clock`, `nowUtc` | `Clock.now()`; the instant the latest tick captured |
| `dueOn`, `reserved` | the local date of the pair on the tick's due list; dates with a `ContentDelivery` |
| `timezone`, `sendTime`, `streamTime`, `days`, `enabled` | the settings; `enabled` stands for stream enabled, workspace active and subscriber active |
| `FindDue`, `DeliverToSubscriber` | `findDueStreamSubscribers`, and the reservation that a date gets at most once |
| `SettingsTime`, `SettingsTimezone`, `UpdateStream`, `Toggle`, `Restart` | whatever moves a send time while a tick is at work |
| `isWithinDueWindow`, `localDateFor`, `localDayOfWeek` | `schedule-time.ts` |
| `Offset`, `Wall`, `instantOf` | luxon, as used: an offset per zone that changes at most once, and how a wall-clock time is turned into an instant when it occurs twice or never |

| `DeliveryFails` | a delivery that throws before its date is reserved; the tick logs it and goes on |
| `disturbedAt` | history: up to which instant a date may have been lost, to a changed setting, a restart, a delivery that threw, or a tick so late that a window passed without one |

Nothing is assumed of the time between ticks: `setInterval` may drift, the process
may be busy, and a tick that finds the lock taken does nothing. `NoDayMissed` then
says what the code can promise: a date is missed only if no tick met its window, its
delivery threw, somebody changed a setting after it, or its window reaches into the
next day (`ClosesOnItsDay`; a window nearer to midnight is cut off). A due list that
is still worked off when the next tick fires is the matter of Delivery; here a tick
takes up its pair before the next one queries, which would find the same date.

### WorkspaceLifecycle

The `SlackWorkspace` row of each team from install to purge.

| TLA+ | Code |
|---|---|
| `row[t]` | the row of a team: id (0 for none), isActive, token, `age` (time since uninstalledAt, up to the grace period; `Never` for null), installed (installedAt is set), streams |
| `clients` | `SlackClientFactory.clients`, as the token each client was made with |
| `granted`, `issued`, `events` | Slack: the team's valid token, and `app_uninstalled` events on their way, delivered at least once or lost |
| `at`, `team`, `id`, `got` | installs, uninstall events and posts under way, with their locals |
| `todo` | the candidates the purge sweep has left |
| `overtaken` | history: ids whose row was stored while a call held what it read before |
| `Authorize`, `StoreInstall`, `EvictAfterInstall`, `FindStream`, `CreateStream` | `completeInstall` and `ensureDefaultStream`, in their order |
| `AdminCreate`, `AdminUpdate` | `WorkspacesService.create`, `update` |
| `Uninstall`, `IgnoreUninstall`, `ReadUninstalled`, `DeactivateUninstalled`, `EvictAfterUninstall` | Slack's part, and `onAppUninstalled` |
| `ResolveWorkspace`, `GetClientForWorkspace` | `SlackService.resolveWorkspace`, on behalf of `postMessage` and `verifyToken` |
| `StartPurge`, `Purge`, `PurgeFails` | `runPurge`: the query, each deletion, a deletion that throws |
| `Restart`, `Advance` | only the database survives; time passes |

Time is an age, not a clock, so no horizon bounds it. `AdminUpdate` toggles
isActive, the only field it writes that anything here depends on. An install
while the app is installed gets the same token, one after an uninstall a new one.

### HadithImport

`HadithImportService.importNext`, request by request and query by query.

| TLA+ | Code |
|---|---|
| `listing` | HadeethEnc: each category's count of hadiths and its pages, one of `Catalogues` |
| `saved` | the `HadithImportCursor` row: category (0 for the empty id), page, index |
| `live[h]` | how many rows of hadith h are not ARCHIVED |
| `at`, `ids`, `cursor`, `cache`, `left`, `empties` | each call: where it is, `categoryIds`, `cursor`, `pageCache` (rows, last page, classification, details), `count - processed`, `emptyAdvances` |
| `getCategoryTree`, `loadCursor`, `getHadeethsPage`, `Classify`, `getHadeethsMultiple`, `saveCursor` | the awaits of the loop, in its order |
| `SkipPage`, `GiveUp`, `Skip`, `createApproved`, `CreateFailed` | what the loop does with what it finds at the cursor |
| `Throw`, `PageFailed`, `Restart`, `Archive`, `ChangeListing` | a request or query that fails outside the loop's `try`, and a page that cannot be fetched; the rest of the world |
| `imported`, `reported`, `raced`, `made`, `changed` | history |

Which hadiths lack an English row, have a blank one, a weak grade or are invalid
is a constant set each; texts are left out. `NothingSkipped` is about a listing
that does not change: when HadeethEnc removes an earlier hadith of a page, all
later ones move up and the cursor passes one unseen, which nothing in the code
could notice.

### QuranImport

`QuranImportService.importNext` with `QuranFoundationClient` and
`QuranFoundationTokenService`.

| TLA+ | Code |
|---|---|
| `saved`, `live[v]` | the cursor row (surah, ayah), and the live rows of a verse |
| `token` | `cached`: the token service's, *good*, *dead* (revoked by the source) or *none* (also once expired) |
| `tafsirs` | `tafsirsCache` holds a list that has not expired |
| `at`, `cursor`, `left` | each call |
| `request[c][k]` | the requests of a call for the list of tafsirs, the verse and its tafsir: minting a token, sent with which token, answered; whether it is the retry |
| `Refresh`, `RequestStep` | `request`: on a 401 the cached token is dropped and the request sent once more |
| `Revoke`, `Deny`, `TokenExpires`, `TafsirsExpire` | the source, and time |

The verse's text and its tafsir are requested in parallel (`Promise.all`): when one
fails, the other goes on, forgotten, and may still drop or replace the token. One
forgotten request is kept per call: if the next verse fails as well while it is still
on its way, the new one takes its place. All a forgotten request can do is to drop
the cached token or put a good one there, as every other request can.

### SlackText and SlackMessage

A text is a sequence of characters. The alphabet of the run has one of each kind
the code tells apart: a letter, a character that is escaped, a combining mark, a
space, a line end, a full stop.

| TLA+ | Code |
|---|---|
| `item`, `renders` | the content item, and the calls and warnings its render makes in either locale |
| `escapeSlackText`, `present`, `graphemeCut`, `entitySafeCut`, `findBreakpoint`, `citation`, ... | the functions of `slack-text.ts` |
| `section`, `labelled`, `bullets`, `context`, `sources` | the methods of `SlackMessageBuilder`, as records |
| `Ayah`, `Hadith`, `CompanionStory`, `BlessingReminder` | the four renderers: the calls they make, in their order |
| `todo`, `lead`, `rest`, `limit` | the calls to come, and the loop of `splitEscapedText` |
| `blocks`, `warnings`, `visible` | the builder's fields |
| `SkipRun`, `RenderEnglish`, `CreateRun`, `RefuseInstant`, `PostInstant`, `Preview` | what `createRun`, `handleInstantContent` and the preview do with a render |

`findBreakpoint` is stated by what it finds, the last place of the best kind, and
not by the regular expressions that look for it; `BreakKind` tries the kinds in the
code's order, as a place can be of several.

### Streams and Subscriptions

`Streams` is the administrators' side of one stream; `Subscriptions` extends it
with people's rows and commands and the tick's query.

| TLA+ | Code |
|---|---|
| `stream`, `rows[u]` | the `ScheduleStream` row; the `UserSubscriber` row of a person, or None |
| `streamAt`, `data` | each call of `StreamsService`: its position, and what its transaction will write |
| `UpdateStream`/`WriteUpdated`, `SetEnabled`/`WriteEnabled`, `CreateStream`/`WriteCreated` | its methods: the read and the checks, then the transaction |
| `at`, `command` | each Slack command, or administrator's request: position, and what it asks for |
| `Receive`, `Lookup`, `ReadOwn`, `SelectRandom`, `Reply`, `ReplyFails`, `replyQuietly` | `SlackEventsService`: acknowledged, then handled |
| `CheckWorkspace`, `CheckUnique`, `Insert`, `GetById`, `Write` | `SubscribersService.create` and `update` |
| `FindDue`, `Deliver` | `findDueStreamSubscribers`, and the tick at work on the result |
| `Restart`, `QueryFails`, `LookupFails` | failures |
| `Deactivate`, `Reactivate`, `Purge` | the workspace uninstalled or deactivated, installed again or activated, and purged (a later install makes a new workspace, with an id of its own) |
| `confirmed`, `news`, `asked`, `excuse`, `overtaken`, `mixed` | history the properties speak of |

A setting has two values, its default (0) and one other; times, zones and
languages differ in nothing here once they are valid. For the same reason the
fields of a stream that are written as they were given are left out.

## 4. Runs

| Run | Instance | Shows |
|---|---|---|
| `delivery` | 1 delivery, 2 ticks, 1 admin, clock 0..5, stale after 2, lock timeout 2, 1 fault, 2 admin requests, cap 2; 2 million states | `OneAttemptInFlight`, `SentWasPosted`, `WaitingRowCanBeRetried`, `AutomaticRetryAllowed`, and that the code implements `DeliveryAttempts` |
| `delivery_solo` | 1 delivery, 1 tick, no admin, clock 0..9, 2 faults, cap 3, Retry-After 0 or 4; with fairness | `StaleSendingRecovered`, `DueRetryHappens` |
| `rotation` | 3 items of 2 types, one too long to render, 4 dates, 2 overlapping calls, 1 approval or archival; 1.3 million states | `OneItemPerDate`, `NoEarlyRepeat`, `TypesAlternate`, under each strategy |
| `content` | 3 items, 2 payloads, with and without sources; two requests at once and 5 writes, or one at a time and 7 | `VersionsUnique`, `ApprovedUnlessLate`, `EditsDraftsOnly`, `WorkflowUnlessLate` |
| `due_window` | a day of 8 units, a week of 2 days, window 2, send times 1, 4 and 7, zones at +3, -3 then -1, +2 then 0, 2 changes, 24 units, ticks at any time; 7 million states | `NoDayMissed`, `OnTime` |
| `workspace` | 1 team, 2 calls at once, 2 rows, 2 tokens, 1 event, 1 fault; 1.1 million states; with fairness | `NeverInstalledNeverPurged`, `InstalledHasStream`, `ClientIsCurrent`, `UninstalledIsPurged` |
| `hadith_import` | 2 calls of 2 hadiths each, 3 hadiths, one of them in two categories and one weak, 2 listings, 1 event; with fairness | `ImportedOnce`, `NothingSkipped`, `CallsEnd`, `EverythingReached` |
| `quran_import` | calls of 2 and 1 verses, 2 surahs of one verse, tafsir on, 1 event; with fairness | `ImportedOnce`, `NothingSkipped`, `RetryAccepted`, `CallsEnd`, `EverythingImported` |
| `slack_message` | section limit 14, 9 blocks, short fields 1, long fields 32; every text of up to 3 characters, some of 4, one of 32; all four types, 3 purposes, 2 locales | `NothingDropped`, `BlocksFit`, `EntitiesWhole`, `SentIsComplete`, `WordsWhole`, `SplitAdvances` |
| `subscriptions` | 1 person, 2 commands or requests at once, 2 stream calls at once, 3 commands, 4 stream calls or 2 of both, 1 fault; half a million states | `ConfirmedStays`, `FailureHasCause`, `StreamIsConsistent`, `RepeatWritesNothing`, `OnlyTheWillingAreDue` |
| `delivery_pending`, `command_unreported` | as small as the counterexample | two statements of the docs that the code does not keep (section 5) |

The inductive invariants of the proofs and the type invariants (`SendInv`,
`RetryInv`, `RotationInv`, `ContentInv`, `ReadsChecked`, `DueInv`, `WorkspaceInv`,
`CursorInv`, `OnceInv`, `ClassInv`, `TokenInv`, `StreamInv`, `ConfirmInv`, `AskedInv`,
`CauseInv`, `RepeatInv`, `RenderInv`, `TypeOK`) were checked on the same
instances before they were proved. They are not listed in the runs: each implies
a property that is.

Why the bounds are enough.

- *Delivery*: deliveries share nothing but the tick that works through them, and
  the proofs cover any number; two ticks are the interesting case of the lock's
  timeout; the clock is long enough for a claim, a stale recovery and a retry
  after the first backoff, with the backoff steps and the stale age shortened in
  proportion.
- *Rotation*: with three items of two types one type has a choice and the other
  has not, and four dates exhaust and restart the rotation.
- *ContentLifecycle*: two handlers that interleave are the least that can race,
  and five writes reach reject, edit and approve under an approval in flight; one
  request at a time with seven writes reaches a second round of review and a
  revision of a revision. `serial` chooses between the two. `late` names the
  items whose last approval came from a request that had read an older row: for
  them `ApprovedUnlessLate` says nothing, as it does not hold (section 5), and
  neither does `WorkflowUnlessLate` for a write that was overtaken like that.
- *DueWindow*: three days cover every position of a shift and both days of the
  week; the windows of the send times 1 and 4 close on their day even when a shift
  stretches them, that of 7 reaches into the next, where `OnTime` still holds and
  `NoDayMissed` says nothing (section 5).
- *WorkspaceLifecycle*: two calls race pairwise, two rows let a call hold the id
  of a purged row, and one unit of grace separates young from old.
- *HadithImport*: two pages in one category, an item on two pages, a category
  that counts nothing, one that counts hadiths and shows none, and one that only
  the second listing has; a batch of two crosses a page and a category, and the
  calls repeat for ever, so that laps are covered.
- *QuranImport*: with two surahs of one verse every step of the cursor goes to
  another surah or back to the first; with one surah of two verses instead, the
  run gives the same result, and the proofs of safety hold for all counts. The
  larger call overlaps the smaller one at each of its verses, and the calls
  repeat for ever.
- *SlackMessage*: the limit of 14 leaves five characters, the length of an
  escaped ampersand, for the first piece after the longest label, which is the
  least for which the code's limits make sense (`MessageAssumption`; the real
  ones are 3000, 50, 200 and 20000). The long text breaks at every kind of place
  and goes into every field in turn; more blocks than nine occur. `SplitAdvances` tries
  every limit below the length of what is left, from 1 on, and so the windows too small
  for an entity, in which no place to cut is found.
- *Subscriptions*: people's rows are independent; two commands race pairwise,
  and the third request of a behaviour follows the race. `focus` keeps commands
  and stream calls, which meet only in the tick, from multiplying.

**Fairness.** *Delivery* (`FairSpec`): the clock moves, the interval keeps firing
when no tick holds the lock, and each promise chain runs on while the process is
up. Nothing is assumed of admins (they may never ask) or of faults (they are
bounded by `MaxFaults`, so from some point on there are none, which is what
"eventually" needs). *WorkspaceLifecycle* (`FairSpec`): the purge interval keeps
firing and a sweep runs on, and time passes; nothing of installs, events or
admins. *HadithImport*, *QuranImport*: each call runs on (its requests have time
limits and its queries end); nobody has to start one, which is why
`EverythingReached` and `EverythingImported` begin with "as long as somebody
keeps importing". The other modules state safety only.

## 5. Findings

- A PENDING row whose process died before the claim is never taken up
  (`PendingIsHandled`, run `delivery_pending`).
- When the query for the workspace fails after a command was acknowledged, the
  user is told nothing, although the comment at
  `slack-events/slack-events.service.ts:72` says so, and the rejection that nobody
  handles ends the process (`FailureIsReported`, run `command_unreported`).

Seen while modelling, and reachable in the models unless noted; no run is spent on
them:

*Delivery.*
- Two callers that both found a row retryable, one of them an admin's retry or a tick
  that has outlasted its lock: the second sends although the first's attempt has made
  the failure permanent, or has recorded a later Retry-After, as the claim compares the
  status alone (`delivery-orchestrator.service.ts:348`; PLAN.md:2455 and 2492: "Permanent
  failures are not retried automatically"). So the scheduler's lock, "Not required for
  correctness" (`scheduler/scheduler.lock.ts:6`), is what this rests on:
  `AutomaticRetryAllowed` holds of the ticks that kept it, and excepts the others
  (`disturbed`).
- A lost answer, or a crash after the post, is followed by a second post. PLAN.md
  2.2 promises at most one message; the code delivers at least once.
- An attempt in flight overwrites an admin's SKIPPED.
- A lowered `maxAutomaticAttempts` strands FAILED rows that wait for a retry
  (`delivery-orchestrator.service.ts:121`; the cap is a constant of the model).
- The sweep sends to people who have unsubscribed since (`sendDelivery` does not
  look at isActive).

*Rotation.* Two dates of one stream reserved at once: the loser of the
serialization conflict re-reads its own date, finds nothing and throws
(`delivery-orchestrator.service.ts:174`; PLAN.md:588 says that it goes on).

*Content.* An approval in flight while the item is rejected and edited approves the
edit, unvalidated, under the checksum of the old text (`review.service.ts:85`;
PLAN.md:2414). The `late` items of the run are these.

*DueWindow.* A send time nearer to midnight than the interval can fall between two
ticks, because the window ends with the day (`schedule-time.ts:85`; PLAN.md:1691).
Without `ClosesOnItsDay`, `NoDayMissed` fails for the send time 7. After a restart the
first tick comes a whole interval later (`scheduler.service.ts:45`), and a delivery that
throws in the last tick of its window is not tried again (`scheduler.service.ts:71`).

*Workspaces.*
- A workspace reinstalled between the purge's query and its delete is deleted
  (`workspace-purge.service.ts:101`; line 20: "reinstall has a recovery window").
- A reinstall does not clear uninstalledAt (`slack-oauth.service.ts:151`), so an
  admin who later deactivates the installed workspace exposes it to the next purge.
- An uninstall event for a workspace that an admin has deactivated is ignored
  (`slack-events.service.ts:208`): the token stays in the database and the
  workspace is never purged.
- Two installs at once can create two default streams (`slack-oauth.service.ts:185`).

*Subscriptions and streams.*
- `StreamsService.update` writes the days and types it read, whether or not they
  were asked for, so that of two overlapping updates the later one can undo the
  earlier and leave a weekly stream without days. `StreamIsConsistent` excludes
  exactly these (`mixed`).
- The admin forms post every field as the page showed it
  (`admin-ui/subscribers-ui.controller.ts:131`): saving one resubscribes someone
  who has unsubscribed since the page was loaded.
- Two first commands of one person at once: one of them fails on the unique key.
- A command that was carried out and whose answer failed is reported as failed;
  in an inactive workspace commands take effect in silence.

*Imports.*
- A long imported text is cut and marked "edit before approving", but imports are
  created APPROVED (`common/utils/clamp-text.ts:45`; not in the model).
- A hadith call that goes round all the categories works on the pages it cached on
  the first lap, and creates a hadith twice if its count is larger than what is listed.
- A hadith removed from an earlier place of HadeethEnc's listing makes the cursor
  pass over another one.
- A failure to list the tafsirs makes a verse an error although its text arrived;
  after a second 401 the token that was refused stays cached.

*Rendering.*
- `graphemeCut` looks at the window, which ends where the text was cut, and so never
  protects the grapheme at its end (`slack-text.ts:81`).
- A label that escaping lengthens (the name of a tafsir with an ampersand) can make
  a block exceed 3000 characters; `BlocksFit` leaves these out.
- `context` splits without a warning, and may cut through `<url|label>`, against
  `slack-text.ts:124`.
- The address of a link is not escaped (`slack-text.ts:311`), so that an entity can
  stand in a message that no escaping made; `EntitiesWhole` therefore speaks of each
  cut, and of every entity, whoever wrote it.
- An English render of more than 50 blocks is stored cut off, as only the canonical
  one is checked.

## 6. Proofs

All are for every value of the constants, from the named assumption of the
module (`DeliveryAssumption`, `RotationAssumption`, ...) and what is listed here.

**`Delivery_proofs`** (also `PromptSendAssumption`): `TypeCorrect`,
`SendInvariant`, `AttemptsExclude`, `WaitingRows`, `SentIsLast`, `Refinement`,
`PostedIfSent`, `AutomaticRetries`.
`OneAttemptInFlight` is not inductive. A second claim needs the row to be
PENDING or FAILED, or SENDING and old. `RowIsClaimed` says that the row of an
attempt in flight is SENDING with that attempt's own `startedAt` (or SKIPPED by
an admin, which no claim accepts), and `SendIsYoung` that such a `startedAt` is
at most `Latency` ago, less than the stale age: so no claim succeeds beside it.
`SentIsOver` adds that a SENT row is never in flight and never claimable again,
which gives `NoPostAfterSent` and, with the rest, the refinement.
`AutomaticRetryAllowed` is about a row the sweep queried some steps before it is
claimed. `RetryInv` says that an undisturbed tick holds the lock, that nobody but an
admin who marks skipped is at work beside it, and that every row it still goes by is
as eligible as when it was queried, or has left FAILED since. The theorem has no other
hypothesis: ticks that outlast their lock and admins who retry are in it, and what they
do to a tick that meets them is what the property excepts (section 5).

**`CreateRun_proofs`**, the two things `createRun` puts together. Of the message
(`MessageAssumption`; `LiteralAssumption`: texts may contain what the application writes
itself): `RenderInvariant`, `NothingIsDropped`, `BlocksFitSlack`, `SplittingAdvances`,
`SentMessageIsComplete`, `EntitiesStayWhole`, `WordsStayWhole`, for any items, texts and
limits. The invariant `RenderInv` has a part for each that does not stand alone.
`NothingDropped` says that what was emitted, what is at hand and what is to come are the
message; it needs `SplitBounds`: nothing is left over between two calls. So does
`BlocksFit`, for which a label and the first piece after it must have room together,
whichever of the labels it is (`LabelsOf`). `SentIsComplete` speaks of a count that the
loop reaches only at the end: `SectionsCounted` keeps it during the calls, as long as no
section was split, and `BuiltIsComplete` says that a render without a warning was not
cut off by the block limit. `SplittingAdvances` is about limits smaller than any in use,
where stepping back in front of an entity leaves nothing and only the guard at
`slack-text.ts:137` keeps the loop going. The last two theorems rest on `SafeCutIsSafe`:
a cut lies within the limit, and either just after whitespace or, where there is none to
cut after, in front of an entity it would have divided; there an entity of five
characters must have room in a piece, which is the constant 5 of `MessageAssumption`.
`FlattenSeq` is a recursive function; its defining equation is proved by the least place
where it would fail (`LeastOf`), and all that is said of joins, lists of calls and
blocks follows from it.

Of the item (`RotationAssumption`): `RotationInvariant`, `SameItem`, `FairRotation`,
`TypesTakeTurns`. `NoEarlyRepeat` speaks of the commit, but the item is chosen
earlier, in the snapshot. `ChoicesStand` bridges the two: a selection that can still
commit (no run since its snapshot) is one that could be made now, as to the item
(`MayBeNext`) and as to its type (`MayFollow`). For the type, `RoundTrip` shows that
the rotation from the due type on visits every allowed type, the last one only at the
end, however many there are; this needs the types to be distinct, as `StreamsService`
makes them (`streams/streams.service.ts:62`).

**`ContentLifecycle_proofs`**: `ContentInvariant`, `VersionsDistinct`, `EditsGuarded`,
`ApprovedIsValid`, `WorkflowKept`. The status check and the write of an edit are two
steps. `ReadsAge` says that a request's row is as it was read unless its updatedAt has
moved on, and that the editor's `expectedUpdatedAt` is no later than what was read; so
an update that matches finds the very row that was checked. `VersionsUnique` needs
`ParentsExist` to stay within one family. `ReadsChecked` says that what a request has
read passed the status check (and for an approval the validation) of its handler; so a
write whose row is still the one that was read keeps to the workflow, and an approval
of such a row approves what was validated.

**`DueWindow_proofs`**: `DueOnTime` and `NothingMissed`, for all zones, send times and
ticks. `NoDayMissed` speaks only of dates whose window some tick met and whose window,
stretched by what the zone's clock may jump, ends on its day (nearer to midnight it
would not hold, section 5). `Opening` computes what luxon answers, by the position of
the shift. The invariant `DueInv` says that a due date the clock has passed is
reserved, or on the due list, or was disturbed (`disturbedAt`), or that its
window has moved ahead of the tick (`Ahead`): when the clock is set back, or a send
time falls into the gap, the window opens later than the send time was first shown.
`WindowOpens` shows that it then moves no more and that its date is not over before.

**`WorkspaceLifecycle_proofs`**: `TypeCorrect`, `WorkspaceInvariant`,
`NeverPurged`, `StreamAfterInstall`, `CurrentClient`. What the sweep deletes was
decided when it queried; `CandidatesUninstalled` keeps that true up to the
delete, and needs `IdsUnique`: an id is never given to another row. For the
client, `ResolvedIsCurrent` says that a call that has read the token and not yet
its client still holds the stored token unless it was overtaken, so that what it
puts into the cache after an eviction is current.

**`HadithImport_proofs`**: `TypeCorrect`, `OneLiveItem`, `NoneSkipped`. `OnceInv`: a
hadith that a call still means to create from a page it has cached, and that has an
item by now, is counted as raced or was created by the call itself. For
`NothingSkipped`, `CursorInv` says that every cursor, the saved one and those of the
calls, covers only hadiths that were dealt with, and that what a call has read of the
listing is what is listed, as long as the listing has not changed; `ClassInv`, that
what a call classified as a duplicate or as untranslated is that. The order of the
walk comes from the listing each call has read: that `NextCategory` skips no category
that has hadiths is a lemma about the least id above the cursor's (`FirstIsLeast`), by
well-founded induction on it.

**`QuranImport_proofs`**: `TypeCorrect`, `VersesNotSkipped`, `VersesImportedOnce`,
`RetriesAccepted`. `TypeOK` includes that a call fetches exactly while its requests
are pending. `CursorInv`: every cursor, and not only the saved one, covers only verses
that were dealt with, and a cursor about to be saved has dealt with its own; so it
does not matter which call saves last. `OnceInv`: a call that means to create a verse
that has a row by now is counted as raced. `TokenInv`: only a revocation makes a token
dead; before one nothing is retried, and after one a retry that has been sent carries
the token that was issued since. All of it is about what happens without failed
requests or denials (`harmed`), as after those a retry need not succeed.

**`Subscriptions_proofs`** (Streams too): `TypeCorrect`, `StreamsConsistent`,
`ToldIsTrue`, `NobodyElseIsDue`, `FailuresHaveCauses`, `RepeatsWriteNothing`. `TypeOK`
ties each call to the steps of its kind of command. `StreamInv`: each write under way
would leave a consistent stream, unless it is overtaken, and `setEnabled` does not
matter to the rules. `ConfirmInv`: what a call is about to confirm is so, for the
fields nobody else has written since the call read or wrote the row; a write tells all
others. `AskedInv`: who is active has asked, and a call that will activate somebody
has been counted. `OnlyTheWillingAreDue` follows from the last two at the moment of
the tick's query. `CauseInv`: a call that has failed, or is bound to, has a cause on
record (`Caused`), and a row it found missing or present still is, but for a cause that
lasts (`Overturned`). `RepeatInv`: a
call that will write isActive has read it otherwise, or was overtaken since.

Model-checked only: liveness (`DueRetryHappens`, `StaleSendingRecovered`,
`UninstalledIsPurged`, `CallsEnd`, `EverythingReached`, `EverythingImported`), which is
out of this prover's reach, and the two violation runs. Every other property of the runs
is stated by a theorem.

## 7. Not modelled

Left out: audit rows (append-only, nothing reads them back), the admin UI (the
same services behind forms; what its forms post is among the `AdminPatches`),
request plumbing, configuration, health, Swagger, the wording of messages, and the
random pick of the instant commands (it keeps no state). Of the Slack gateway only
the outcomes that `sendDelivery` tells apart are in the model; the mapping of error
codes is a table. Of the imports the previews (`peekNext`, which write nothing) and
the texts are left out.
