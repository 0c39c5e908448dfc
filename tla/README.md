# Verification of mflbot

TLA+ specifications of mflbot (`src/`), a bot that watches a
MyFantasyLeague (MFL) league, recommends actions, and submits one to MFL only
after its owner has approved exactly that action. TLC checks the
specifications on small instances; TLAPS proves, for every instance, all that the runs
check short of liveness: the safety of the approval flow, the watchdog's
alarms, the pace of requests to MFL and what their callers are given, the cards of the
Discord channel, the origin of the parameters that are POSTed, the order and the history of
the dashboard's jobs and what its page shows, that changes and offers are neither lost on
the way to the owner nor made too often, what the waiver analysis claims and bids, that
the recommended lineup is a best one, and what trades may cost.

Paths below are relative to the repository unless they start with
`approval/`, `execute/` and so on, which are under `src/mflbot/`.

## The system

One server process (`bot run`, `bot serve`) holds one SQLite connection, and
threads share it: the dashboard's request threads, the Discord bot's event loop
and its worker threads, APScheduler's jobs, and the dashboard's job worker. The
CLI can run beside it as a process of its own on the same database.

| Component | State it keeps | Operations | What is hard |
|---|---|---|---|
| Approval and execution: `approval/`, `recommend/store.py`, `execute/executor.py`, `mfl/write_client.py` | tables `recommendations`, `approval_tokens`, `audit_log` | save, approve, reject, edit, expire; issue, verify, consume, revoke a token; execute and confirm | two executors at once, a decision while a submission is in flight, crashes between token, POST and status, pages that are out of date |
| Discord surface: `discordbot/` | `discord:card:<id>` rows; the messages in the DM | plan, post, redraw, record, forget; four buttons and two forms | coroutines interleave at each await; the loop and a press redraw one card; a crash between sending and recording |
| Dashboard: `web/app.py`, `web/views.py`, `web/security.py` | sessions, flashes, the scheduler it started | decision routes, settings, scheduler switch, event stream | forms act on a page that is out of date |
| Job queue and events: `web/jobs.py`, `web/events.py` | queue, history of 25 runs, bounded queue per subscriber | submit, work, trim, publish, drain | events published by two threads out of order; full subscriber queues |
| Scheduler, watchdog: `schedule/`, `notify/deadman.py` | `job:last_success/failure/error:<id>`, `heartbeat:alerted` | recorded jobs, catch-up at start, re-planning of the lineup runs, check, alert, ping | edge-triggered alerts across restarts |
| Analyses: `context.py` | `trade_offer:<id>` rows, saved recommendations | lineup, waiver, trade and offer analysis | an offer handled once although check, save and mark are apart |
| League ingest: `ingest/` | snapshots of rosters and free agents, transactions, news; league settings and blocked features | poll, sync of config, players, scores, news | a change stored before its trigger has run; settings and gates stored one by one |
| Storage: `storage/` | the connection, its lock, its open transaction | transaction, query, state rows | which blocks are atomic among threads and among processes |
| MFL client: `mfl/client.py`, `ratelimit.py`, `cache.py`, `auth.py` | login cookie, penalty, cache | export, retry, login, limit | threads waiting while a penalty arrives; retries after a lost session |
| Analysis algorithms: `analysis/` | none | lineup solver, bids, trades, rule parsing | greedy against exhaustive; clamps at small budgets |
| Notifications: `notify/` | Discord outbox of 50 | send, drain | which message is dropped |
| Endpoint registry: `mfl/endpoints.py`, `mfl/verify.py` | `endpoints.lock.json`; each process's copy of it | load, verify, edit by hand | two processes verify; a kill in the middle of a write; a copy that is out of date |
| The page's script: `web/static/app.js` | what an open page shows | event stream, polling, re-reads | answers that overtake each other, a lost stream |
| CLI, configuration, templates | none that moves | | |

How they meet: the analyses save recommendations; each surface (CLI, dashboard,
Discord) reads them through `RecommendationStore`, and decides through one
`CLIApprovalChannel`, which the web and Discord channels wrap; an approval
mints a token; `BotContext.submit_approved` gives recommendation and token to
an `Executor`, which alone holds the write client; scheduler, surfaces and
publisher all call `expire_stale`.

`Database.transaction()` (`storage/db.py:132-153`) holds the connection's
re-entrant lock for its whole block. Within the server process approve, reject
and edit are therefore each one atomic step. An executor opens no transaction
around its calls, so it is one step for each database or network call.

## What the properties are for

`PROJECT.json` lists the hazards at their lines. For the approval flow, what
makes it correct is: a write leaves only on an approval of exactly that payload,
once; changing one's mind revokes; what was decided stays decided; the record
does not claim more than happened; nothing stays open for ever. For the Discord
surface: one card for each recommendation, whose record catches up with what the
recommendation is, and notifications that arrive. The dashboard adds pages that are
out of date, which is why every surface acts from `pages` in `ApprovalFlow`.

For the rest: jobs one at a time, in order, and none forgotten before it ended; a
page that is right when nothing is under way; requests to MFL no faster than the
policy, whoever retries; answers neither stale nor anonymous; every change of the
league analysed and every offer judged, once if nothing fails; advice that is
optimal, affordable and playable by its own measure, and never from settings it
lacks; nothing POSTed under a parameter that neither the documentation nor the user
gave.

## Modules

| Module | Models | Role |
|---|---|---|
| `WriteAuthority` | the promise of `approval/token.py` | abstract specification: grants of the user's, each void, used, or good for one write |
| `ApprovalFlow` | store, tokens, channels, executor, write client | the mechanism; `ImplementsAuthority` maps it onto `WriteAuthority` |
| `DiscordCards` | `discordbot/`, `notify/discord.py` | the publishing loop, the presses, the cards, the outbox |
| `Watchdog` | `schedule/`, `notify/deadman.py` | recorded jobs, catch-up, the check, pings and announcements, across stops, kills and restarts |
| `JobQueue` | `web/jobs.py`, `web/events.py` | submissions, the worker thread, the history, the bus |
| `JobPage` | `web/events.py`, `web/app.py`, `web/static/app.js` | `JobQueue` composed with an open page: stream, polling, re-reads |
| `RateLimiter` | `mfl/ratelimit.py` | window, least interval, penalty |
| `ReadClient` | `mfl/client.py`, `cache.py`, `auth.py` | `RateLimiter` composed with threads that export: login, cache, retries |
| `LeaguePoll` | `ingest/league_state.py`, `storage/repositories.py`, `schedule/jobs.py` | the scheduler's poll and `bot poll`, snapshots, the triggered analysis |
| `TradeOffers` | `context.py` | passes over pending offers, the marks, the recommendations |
| `Rankings`, `Lineup`, `Waivers`, `Trades` | `analysis/` | the algorithms as operators and functions, with the exact definitions they are compared to; `Rankings` is the sorting they share |
| `Analyses` | `context.py`, `ingest/config_sync.py` | the four analyses over stored data while syncs change settings and gates |
| `EndpointLock` | `mfl/endpoints.py`, `mfl/verify.py`, `mfl/write_client.py` | processes that load, verify, and submit by, the lock file |
| `ApprovalFlowProofs`, `WatchdogProofs`, `ReadClientProofs`, `EndpointLockProofs`, `JobQueueProofs`, `TradeOffersProofs`, `DiscordCardsProofs`, `AnalysesProofs` | | theorems and proofs about the module they are named after; `JobQueueProofs` also about `JobPage`, `ReadClientProofs` about `RateLimiter`, `AnalysesProofs` about `LeaguePoll`, `Lineup`, `Waivers` and `Trades` |
| `MC...` | | constants for TLC; `MCAnalyses` and `MCEndpointLock` also the situations to start from |

In each module an operator headed *Slip* is not part of the specification: it is a
definition as a plausible mistake would have it, kept beside the one it distorts
so that one can see that the properties notice.

### ApprovalFlow

`rec`, `tokens` and `audit` are the three tables; a token's `state` stands for
its columns `consumed_at` and `revoked_at`, and its place in the sequence for
`issued_at`. `pages` is what some surface has displayed. `sub` is one
executor for each thread, `writes` what was POSTed. One action for each
operation:

| Action | Code |
|---|---|
| `Propose` | `RecommendationStore.save` |
| `Render` | a page, card or prompt reads the recommendation |
| `Approve` | `CLIApprovalChannel.approve` with `TokenService.issue` |
| `Reject`, `Edit` | `CLIApprovalChannel.reject`, `.edit`, with `revoke_for` |
| `ExpireStale` | `RecommendationStore.expire_stale` |
| `Load`, `PreconditionsFail`, `PreconditionsHold`, `RefuseUnsent`, `Spend`, `Send`, `Record` | `Executor.execute` and `MFLWriteClient.submit`, in that order |
| `Abort` | a thread ends where it stands; a process that dies ends all of them, one by one |
| `Tick` | time |

Abstractions. What MFL answers and whether the live preconditions hold is
nondeterministic. `failed` is both a refusal by MFL and a request nobody knows
the fate of, because the executor treats them alike. The HMAC stands for "was
minted here". A payload is a function from its editable fields to values.
The audit row of a refusal is left out, since nothing was sent. Any token of
the recommendation may be handed to `Load`: it is chosen before a login over
the network, or typed by the user (`bot execute <id> <token>`).

### DiscordCards

`store` keeps of a recommendation what a card can show; decisions elsewhere and
time are its environment (`Elsewhere`). `at` is where each coroutine stands: 0 is
`publish_loop`, the others are presses, from the click (or the form sent) to the
recorded card. A card is drawn in the steps the code awaits: the recommendation is
read, then its approval (`DiscordActions.card` makes two database calls, and a
decision can come between), then the message is sent or edited, then the row is
written. `GiveUp` ends a coroutine anywhere: an exception, or the process dying.
`Delete` is a message that is gone. `causes` is history, and counts for each
recommendation what may cost it another card: a pass that broke off between sending its
card and recording it, its card vanishing, and each press that was about to put the
vanished one on record. A submission is kept only as the status it
ends with. Slash commands only read and are left out; so are recommendations
older than the newest 100, which the publisher does not look at.

`Notify` is `DiscordNotifier.send` into a `deque` that drops its oldest when full;
a pass ends with a task of its own that takes up to `DrainLimit` messages out and
sends them one by one, so that an exception loses what was taken out, and what was
not taken out waits for the next pass. `Restart` loses the outbox, the coroutines
and the rest of the pass; the messages in the DM and the rows stay.

### Watchdog

Time is relative: `last` is the age of the success a job recorded
(`job:last_success:<id>`), `due` what is left until its next start, `clock` the
time of day. A tick makes the ages grow and the timers fall; ages from `Old` on are
alike, so that there is no bound on how long the system runs. What is due happens
before the next tick, as APScheduler starts jobs on time; a run takes up to
`MaxRun` ticks.

| Action | Code |
|---|---|
| `Fire` | a trigger fires; `max_instances=1` skips a job that still runs |
| `Succeed`, `Fail` | the end of `recorded.wrapped`, with `record_success` / `record_failure` |
| `Judge` | `check`, and the branch `Heartbeat.run` takes |
| `Ping`, `Tell`, `Mark` | `DeadManPing.ping`, `notifier.send`, `set_state(ALERT_STATE)` |
| `Start` | `build_scheduler`, with `_overdue` for each job |
| `Stop` | the dashboard's switch, or Ctrl-C: runs in progress go on |
| `Die` | the process is gone, and its runs with it |

Abstractions. `check` reads a row at a time, but judges each job by its own. A
failure's rows only matter to what is displayed; `missed` counts failures for the
properties. Jobs that nobody watches are left out, and so are `bot heartbeat`,
which reads, and `--ping`, which pings by the same check. A scheduler is started
again when the runs of the previous one have ended.

### JobQueue and JobPage

The submission of a run is three steps of a request (the run is registered and the
history trimmed under the lock; it is queued and the worker started; its state is
read and published), because the worker runs in between. The worker's loop is one
action for each statement that another thread can see. The form's Week field is
what `build_argv` and `argparse` can tell apart: empty, digits, words (refused at
once), and `-1_0`-like text, which `int()` reads and `argparse` takes for an option
so that it raises `SystemExit`. `bus` is the one subscription of the page: a full
queue drops the new event. `missed` is history for the properties: it names what the
page was deprived of until a re-read makes up for it (`Causes`): events lost with a
broken stream (`gap`) or to a full queue (`full`), the `queued` of a submission that is
published after the worker's news of the same run (`late`), an answer that an event or
another answer overtook (`stale`), and a re-read that failed (`unread`).

`JobPage` adds what the script does with the stream: `job` events are shown,
`state.changed` asks for `/api/state`, a broken stream starts polling. Each re-read is
a request and an answer, and answers may overtake each other. A re-read that brings no
answer, or not a good one, is dropped and not repeated (`ReadFails`,
`static/app.js:163,182`); one that is refused because the session expired reloads the
page (`Reload`, `:162`), which is taken to show the state at the time the owner logs in.
A restart of the server is left out: it would empty the registry as well.

### RateLimiter and ReadClient

`sends` is every request that was let through; the code's `_events` is its tail
from `oldest`, `_last_request` its last element. `acquire` is a loop: a thread
either goes (`Acquire`), or computes its wait under the lock and sleeps outside it
(`TurnAway`, `Sleep`), and looks again. `ReadClient` follows one export of each
thread through credentials, login, cache lookup, limiter, request and retries.
`Refused` is 429 and 5xx, `Lost` a timeout or a lost connection, `Rejected` another
status, `Answered` 200 with or without a good body; they differ in what they do to
the penalty and the attempt. A cache file is emptied and then written
(`OpenEntry`, `WriteEntry`), and unreadable between. The site's data is a version
number. Jitter is any whole delay in the code's range.

### LeaguePoll

A poll is the same code twice, for `rosters` and then `agents`: read the last
snapshot, fetch, compare, store. A snapshot is rows under one timestamp of a second,
so an empty list stores nothing and a second one within the second joins the first
(`Snapshot`). Only the scheduler's job analyses; `bot poll` stores and prints. The
analysis declines before it reads anything when waivers are blocked or the settings, the
owner's franchise or the week are unknown (`Decline`, `context.py:539-550`), and says
nothing of an empty roster of the owner's own or an empty pool. `excuse` is history: the
last of the five reasons why the analysis may be behind what is stored, `none` from the
moment it reads.

### TradeOffers

`row` is the `trade_offer:<id>` row together with the status of the recommendation it
names, `others` counts the open recommendations for the offer that no row names, and a
pass carries the status of the one it has saved and not yet remembered. Each of them
expires, or is decided, at its own time and in any order (`Leaves`): as marks may come in
another order than saves, a row may name the older of two. `causes` is history: how
often an offer was taken up while another pass was at it, or was lost by one cut short
between save and mark. Listing,
filtering, judging, saving, marking and reporting are separate steps because each is
a transaction, a request or a send of its own. Which verdict an offer gets is
nondeterministic here; `Trades` has the rule. A send that fails without an exception
counts as told, and the early returns of `run_offer_analysis` (settings, franchise or
week unknown, `context.py:634-651`) are taken not to happen: they change nothing, and
`OpenOffersAreJudged` is about a bot that has been set up.

### Rankings, Lineup, Waivers, Trades, Analyses

The algorithms are functions of a roster, the league's slots and whole-number
values: seats from slots, the restrictive-first greedy solver, the integer program as
the set of best assignments, claims with their bids in cents, surplus positions,
mutual gains in quarters of a point, the verdict on an offer. A seat is the number of a
slot and a number within it, a lineup a set of pairs of a seat and a player, and the
solver a recursive function that adds a pair at a time. `Analyses` runs each as
the code does: gate, settings, work, answer; and a sync stores the settings and then
the gates, closing ones first, each in a transaction, while another sync may run. That
the waiver gate also looks whether the owner's franchise is among the settings
(`ingest/config_sync.py:348`) is left out. An answer is an analysis' own: blocked ones
say so, and `SilenceIsRight` holds the lineup analysis to saying that all is well only
when it is. The verdict on an offer is modelled (`Verdict`) because the answer has it, but
no property rates it: see the disagreements.
`world` is fixed in a behaviour: TLC starts from every situation of `MCAnalyses`.

### EndpointLock

Only the write mappings: for each capability whether it is pinned, and a parameter or
nothing for each field of its payload. A process loads the file once (`Load`), and
submits by that copy (`Requests`). `verify-endpoints` fetches the page, reads the
file, merges, empties the file, fills it (`Fetch`, `Merge`, `Truncate`, `Write`); it
may be killed between the last two (`Crash`), and when two overlap the longer text's
end may stay behind. `Edit` is the user completing a mapping, `Restore` replacing an
unreadable file. `vouched` is history: which parameters anybody ever gave.

## Runs

| Run | Instance | Shows |
|---|---|---|
| `approval` | 1 recommendation, 1 field with 2 values, 2 submitters, 2 approvals, `TTL` 1, `Lifetime` 2, clock to 3 | type correctness, five safety properties, the refinement, and settling |
| `approval_twice` | as above | `OneWritePerRecommendation` fails |
| `cards` | 2 recommendations, 2 presses at once, 3 changes, 1 fault, an outbox of 2 drained by 1 | five properties, three of them liveness |
| `watchdog` | an interval job (cadence 2, multiplier 3), a daily job (day 6, slack 1), heartbeat every 2, runs of up to 1 | four properties, two of them liveness |
| `jobs` | 4 submissions of all four kinds of Week, a history of 2 | order, history, and that queued runs end |
| `job_page` | 1 run, a queue of 2 events, 2 re-reads under way, 2 interruptions, failed re-reads and expired sessions at any time | a quiet page is right |
| `mfl_client` | 2 threads, 1 export, window 3 with 2 requests, interval 1, 2 retries, cache of 2, 2 versions, clock to 5 | pace and answers |
| `league_poll` | 1 entry, the owner's own, 2 agents, both polls, 1 change, 1 failure | changes are analysed, snapshots converge |
| `trade_offers` | 2 actors, 2 offers, 1 failure, 1 cause of duplicates | judged, reported, duplicates bounded |
| `analyses` | some twenty thousand situations | the algorithms' promises; advice and gates under syncs |
| `endpoints` | 2 processes, 2 capabilities, 3 fields, 3 pages, 1 change of the documentation, 1 kill | what is posted is vouched for; verify takes nothing away |
| `endpoints_by_hand` | as above | `HandMappingsAreKept` fails |

Why the bounds are enough. No action of `ApprovalFlow` relates two
recommendations, so one shows what can happen to each. Two approvals allow an
approval that expires (`TTL` < `Lifetime`) and its successor, a withdrawn one and
its successor, and a second one beside a submission in flight; two submitters
allow every race for a token and every order of outcomes; a clock to 3 goes past
both expiries with a step to spare, so `expire_stale`, which needs *strictly*
past, fires. In `DiscordCards` one fault is enough for an orphan, for a lost pass
and for a missing message, two presses for presses that overtake each other as well
as the loop, three changes for proposal, press and press, or for one notification
more than the outbox holds. In `Watchdog` nothing is bounded but the durations:
failures, stops, kills and restarts may come at any time and in any number. The
durations keep the order of the real ones (a run is shorter than the heartbeat's
interval, that is no longer than the cadence, three cadences are less than a day,
the daily threshold is a day and the time of a run).

Four jobs against a history of two fill the history while runs are open and after
they ended, with a run that kills the worker at any place. The page's two re-reads
may overtake each other, its two events overflow, its two interruptions include one
during a re-read. The client's clock to 5 lets the window of 3 slide past its two
requests and a penalty run out; a cache of 2 expires within that. One failed poll
suffices to lose a found change, and two agents allow lists that join and lists that
are empty. In `trade_offers` no offer is taken up by both passes once `MaxCauses` such causes
were counted (a failure adds at most another), which bounds the recommendations open at
once; expiries and renewals are not bounded, so that duplicates that add up over time
would show. In `analyses` every roster of
four and every kind of slot (single, ranged, flex, ranged with flex, overlapping) occurs,
every lack of projections that the code tells apart, and budgets of ten dollars, a
dollar and a half, half a dollar and nothing. In `endpoints` one capability has a
field that no parameter is obvious for, one field has two names the documentation may
change between, and one import may vanish from the page. What is proved (below) does
not depend on any of this.

Symmetry is used in `mfl_client` (threads) and the two endpoint runs (processes), whose
specifications treat them alike; none of the three checks liveness.

`CHECK_DEADLOCK FALSE` is set where a bound or the system itself ends: in the
approval runs when the bounded clock has stopped and everything is settled, in `jobs`
and `job_page` when the application has stopped or all submissions are used, in
`mfl_client` when the clock is at its horizon, in `league_poll` and `trade_offers` as
a matter of the same bounds. `cards`, `watchdog`, `analyses` and the endpoint runs check for
deadlock: the publishing loop never stops, time must never be held up, an analysis or a verify
always comes to an end.

Fairness. `ApprovalFlow` assumes that time passes and that `expire_stale` runs
again and again: the publisher calls it every `publish_seconds`
(`discordbot/publisher.py:62`), the scheduler every 15 minutes
(`schedule/jobs.py:167`), and the dashboard and the CLI before they list
anything. Nothing is assumed of the owner or of executors, which may die
anywhere. `DiscordCards` assumes that the loop, which swallows every exception of
a pass (`client.py:328-352`), and each started coroutine go on when they can,
because the event loop runs them; nothing is assumed of the owner, and faults are
finite. `Watchdog` assumes that time passes and that started runs and the heartbeat
come to an end, as every request in them has a timeout; that a stopped scheduler is
started again is not assumed, so what the owner learns is stated for a scheduler
that stays up from some point on. `JobQueue` assumes that a request's handler and the
worker thread go on and that commands end, as every request they make has a timeout;
log lines, submissions and the stop need not come. `LeaguePoll` assumes that the job
polls again (it is scheduled at an interval), that seconds pass, and that requests
are answered or fail; `TradeOffers` that passes are scheduled and go on, and that the
cache entry expires. Nothing is assumed of failures but that there are finitely many.

## What the runs found

Two sentences of the repository that the code does not keep, with the run whose
counterexample shows it. `PROJECT.json` quotes the sentences.

1. **A recommendation can be sent twice** (`approval_twice`). While an executor
   has spent the token and not recorded its outcome, the status is still
   `approved` and `latest_for` finds nothing, which `approve` reads as "the token
   expired". Each POST has an approval of its own (`WritesAuthorised` holds), but
   the second was given without knowing of the first.
2. **A mapping completed by hand can be lost** (`endpoints_by_hand`). `verify`
   carries over the mappings its process loaded at its start, not those of the file
   it has just read: in the dashboard a verify, an edit and a second verify write the
   file without the edit. The capability is then refused, not misused
   (`PostsAreVouchedFor` holds).

Further disagreements that the models make visible, each in what a property excepts or
a hazard's note says, without a run of their own:

- "Nothing was submitted" is said of a rejection that comes after the token was
  spent (`web/app.py:500`).
- `executed` can become `failed`: a second executor whose preconditions fail writes
  its status without looking (`execute/executor.py:245`); `DecisionsAreFinal` is
  about live against terminal.
- An edit can undo another edit, because the payload it starts from is read before
  the transaction (`approval/cli_channel.py:179`).
- A card's Approve can approve a payload it does not show, because the key that
  decides on a redraw leaves the payload out (`discordbot/render.py:64`), and a
  decided card can keep its buttons, because shown and recorded are two awaits
  (`discordbot/client.py:322`). The buttons are refused when pressed.
- "A restart neither posts a card twice nor loses track of one" (`publisher.py:7-8`)
  does not hold of a restart, or of a pass that breaks off, between sending and
  recording; `NoCardWithoutCause` and `OrphansAreFaults` say what does: one such break
  costs one card.
- A stall can go unannounced: the row is set whether or not the notification got
  through (`schedule/heartbeat.py:266`). The pings stop all the same.
- A restart can miss a daily slot for good: the catch-up wants a last success more
  than a day old (`schedule/jobs.py:196`), so the job is reported stale until the next
  day's. `AlarmsHaveACause` says what holds of the comment on
  `heartbeat_stale_multiplier`: an alarm takes a second setback, but a restart is one.
- "Both of which the client re-reads on connect" (`web/events.py:13-14`): a page whose
  stream comes back re-reads nothing (`web/static/app.js:198`), and a re-read that fails
  is not repeated (`:163,182`), so what happened meanwhile may stay unseen until the next
  event that asks for one: the causes `gap` and `unread` in `QuietPageIsRight`.
- "A change is a trigger" (`schedule/jobs.py`) only of an analysis that is ready: a stored
  change is not looked at again when waivers were blocked or the week was unknown as it
  came (`context.py:539-550`), nor when `bot poll` found it. `ChangesAreAnalysed` has the
  five reasons.
- "Never commit the whole budget to one claim" (`analysis/waivers.py:103-104`): at a
  budget of a dollar or less the bid is the whole budget, and so it is with an
  aggressiveness of 1. `BidsFitTheBudget` has the bid strictly below the budget otherwise.
- "A starter who is OUT is worth a message even with no change" (`context.py:405-406`),
  but not when no lineup can be made: the analysis returns before it looks at who is OUT
  (`context.py:383-397`). Its answer then says why there is no lineup, and
  `SilenceIsRight` is about the answers that say all is well.
- "Not backed by depth" is asked of each player given (`analysis/trades.py:162-166`), and
  depth is that of the position: an offer that takes two at a position with one in reserve
  is accepted, and may leave a seat empty. `TradesCostNoStarter` is about proposals only.
- `SystemExit`, which `argparse` raises on a Week such as `-1_0`, passes the worker's
  `except Exception` (`web/jobs.py:517`): the thread ends, and later runs stay queued.
  `QueuedRunsEnd` excepts them.
- Any thread's 200 resets the penalty that a Retry-After imposed on all
  (`mfl/client.py:270`); the ceiling and the spacing hold nevertheless.
- A sync records that scoring is blocked (`ingest/config_sync.py:316`, "every
  scoring-dependent recommendation stays disabled"), and no analysis asks for it; the
  README says that the parsed rules do not feed recommendations.
- "The best bench player at `position` -- surplus, not a starter" (`analysis/trades.py:348`)
  can be a starter: the starters at a position are counted from the minimums alone, a
  flex seat as a share that is rounded to the nearest ("rounded up",
  `analysis/trades.py:103`), so whoever fills an optional or a flex seat may be first on
  the bench. `TradesCostNoStarter` is about leagues that have neither.
- A projection below zero, which nothing excludes, makes the two lineup solvers differ:
  the integer program leaves a required seat empty rather than lose points, although
  "its minimum is always filled" (`analysis/lineup.py:18`); the greedy solver fills it,
  and its total is then not the highest. `LineupIsRight` measures it by the lineups that
  fill as many seats.
- A verify keeps a mapping whose parameter the documentation has since renamed:
  `VerifyKeepsWhatIsPinned` is what the code promises, and it excludes following.

`TimingAssumption` asks for the default multiplier of the watchdog, 3, or more; the
program accepts any.

## Proofs

`ApprovalFlowProofs` proves, for every set of recommendations, fields, values and
submitters and all durations and bounds (assumption `ConstantsAssumption`: the
durations and bounds are natural numbers, `TTL` and `Lifetime` are positive, the
sets are not empty):

| Theorem | States |
|---|---|
| `TypeCorrect` | `Spec => []TypeOK` |
| `Inductive` | `Spec => [](TypeOK /\ IInv)` |
| `WritesAreAuthorised` | `Spec => []WritesAuthorised` |
| `WithdrawalHolds` | `Spec => []WithdrawnApprovalsDie` |
| `OneLiveApproval` | `Spec => []AtMostOneLiveApproval` |
| `ExecutedMeansAccepted` | `Spec => []ExecutedWasAccepted` |
| `DecidedStaysDecided` | `Spec => DecisionsAreFinal` |
| `FlowImplementsAuthority` | `Spec => ImplementsAuthority` |

None of the invariants is inductive alone, for two reasons, which are the two
added parts of `IInv`.

*What an executor knows* (`Holds`). `WritesAuthorised` speaks of the sequence of
writes; that `Send` keeps it depends on what the same executor did two steps
before. `Holds` says at each point of its run what is on record: an audit row
from `ready` on; at `spent` a token that is spent, carries exactly the payload in
hand, has driven no write, and is in no other executor's hand; at `sent` the write.
`Spend` establishes the third from the guarded UPDATE, and no other action can
disturb it, because tokens only ever leave `unspent` and writes only grow.

*The order of expiries* (`TokensOrdered`). `approve` looks only at the newest
unspent token; that no *older* one is still good follows because later tokens of
one recommendation never expire before earlier ones: each expires at
`min(now + TTL, expires)`, and neither bound goes down. So if the newest has
expired, all have (lemma `LatestForIsLive`, used by `AtMostOneStep`).

The refinement proof has one lemma for each abstract step (`AppendGrant`,
`RevokeWithdraws`, `SpendUses`, `SendPerforms`) and stutters for the rest; it
needs `IInv` for `Perform`'s "no write of this grant yet".

`WatchdogProofs` proves, for all sets of jobs, cadences and bounds that satisfy
`WatchdogAssumption` (positive durations, thresholds below `Old`) and
`TimingAssumption` (multiplier at least 3; runs shorter than the cadence and the
heartbeat's interval, and no longer than the slack of the daily jobs):

| Theorem | States |
|---|---|
| `TypeCorrect` | `Spec => []TypeOK` |
| `Inductive` | `Spec => [](TypeOK /\ IInv)` |
| `AnnouncedOnce` | `Spec => NeverAStream` |
| `AlarmsAreCaused` | `Spec => AlarmsHaveACause` |

The action properties say nothing of the past, so `IInv` keeps what is needed of
it. For an interval job it bounds the age of the last success *plus* the time to
the next start, a sum that ticks do not change: one cadence, one more for a failed
run or a start, one more while a run goes on (`Budget`). The exception is a job that
was overdue at the start, whose age may be anything: until its catch-up run is over
(`CatchingUp`) the watchdog has not judged, because of `BeatIsLater`. For the
announcements it says that the row agrees with the last message except between
the two (`RowAgrees`).

`ReadClientProofs` (assumptions `LimiterAssumption`, `ClientAssumption`: positive
limits, a cache lifetime, a site that changes), for any number of threads and exports:

| Theorem | States |
|---|---|
| `PaceInductive`, `ClientInductive` | `LimiterInv`, and with it `ClientInv`, are inductive |
| `Spacing`, `Ceiling` | `Spec => []SpacingHolds`, `Spec => []CeilingHolds` |
| `RecentAnswers` | `Spec => []AnswersAreRecent` |
| `FreshWhenForced` | `Spec => []ForcedAnswersAreFresh` |
| `NotAnonymous` | `Spec => []NeverAnonymous` |
| `TypeCorrect` | `Spec => []TypeOK` |

`CeilingHolds` is not inductive: the limiter only counts what it remembers. `LimiterInv`
adds that what the window forgot is older than it is long, that times do not decrease, and
that the window holds one request above its limit only when the oldest is exactly as old as
the window is long. `ClientInv` follows an answer from the site to the caller by way of the
cache, where another thread may have put it: an entry expires `Ttl` after its version was
replaced at the latest (`EntryFresh`), a call holds nothing older than that (`GotFresh`) or,
if it insists, than itself (`NotBefore`), and only calls with credentials get past the
login, so that what the cache has of a private export is known (`HasCredentials`,
`EntryKnown`, `GotKnown`).

`DiscordCardsProofs` (`CardAssumption`), for all recommendations, payloads, presses at once
and capacities:

| Theorem | States |
|---|---|
| `OwnerHearsInOrder` | `Spec => []NoticesInOrder`, the safety part of `NoticesReachTheOwner` |
| `TypeCorrect` | `Spec => []TypeOK` |
| `Inductive` | `CardInv` holds initially and is inductive |
| `OneCardEach` | `Spec => []NoCardWithoutCause` |
| `CardsAreKnown` | `Spec => []OrphansAreFaults` |

For the outbox `NoticeInv` says that said, sending and outbox are one increasing line.
For the cards the invariant `CardInv` keeps a balance for each recommendation
(`Balanced`): its cards, one more if one of them has vanished and is still to be found
missing (`Vanished`), and one for each press that will put a vanished one on record again
(`Returning`), are no more than its `causes`, and one more unless another card is to be
posted (`Wanting`). A step that adds on the left takes away there or adds on the right
(`Steady`), because records and coroutines point at the card of their recommendation
(`Recorded`, `InHand`), the loop is in the task at the head of its pass (`LoopInTask`),
and a pass has one task for a recommendation, which only refreshes it if it has a card
(`TaskedOnce`, `Recarded`). While nothing went wrong there are no causes (`Blameless`): the
one card is then the one on record or in the loop's hand.

`EndpointLockProofs` (`LockAssumption`: pages and shipped files speak of the
capabilities and fields there are, obvious and own parameters exist) proves
`PostsVouchedFor` (`PostsAreVouchedFor`). What a process would post comes from the copy
it loaded, that from the file, that from what a verify merged, so `IInv` says of all
four places that every mapping in them is vouched for; `vouched` never shrinks. It also
proves the action property `VerifyKeeps` (`VerifyKeepsWhatIsPinned`): for it the
invariant tells where the text that a verify is about to write came from (`MergedFrom`),
and that writing over another's text was noticed (`OverIsSeen`).

`JobQueueProofs` (`JobQueueAssumption`, `JobPageAssumption`: positive limits):

| Theorem | States |
|---|---|
| `Inductive`, `OneRunAtATime` | `IInv` is inductive; `JobSpec => []OneAtATime` |
| `HistoryKept` | `JobSpec => HistoryIsKept` |
| `PageInductive`, `PageIsRight` | `PageInv` is inductive; `Spec => []QuietPageIsRight` |
| `TypeCorrect` | `Spec => []TypeOK` |

That starting a run keeps the order depends on who waits: the queue is in order (`InOrder`),
a waiting run is in it, in the request's hand or in the worker's, a run in progress is the
worker's (`Whereabouts`), and what a hand holds comes after everything before it (`Hands`).
`HistoryIsKept` follows from what the registry remembers (`Remembered`) and from
`OneAtATime`, since the trimming looks from the oldest end only. `QuietPageIsRight` is about
moments at which nothing is under way, so the invariant is about the others, as long as
nothing was missed since the last re-read that succeeded: for each of the newest runs the
page shows the truth, or an answer that nothing overtakes carries it, or an event, a
question or a publication is still to come that will (`RightInTheEnd`), and an event that is
out of date is not the last one (`EventsEndRight`).

`TradeOffersProofs` (`OffersAssumption`) proves `HeldOffersReported`
(`HeldOffersAreReported`): an offer that was held back is in the hand of some pass until
it is told (`InHandOrTold`), and a pass with something in hand is not over
(`HeldByPasses`). It proves `TypeCorrect` and `DuplicatesBounded` (`DuplicatesAreBounded`)
from a count for each offer: those that no row names, the one the row names and the passes
that are at it are together no more than one and one for each of its `causes`; and while its
row would make a pass take it up, those that no row names are no more than its causes, so
that one more fits. Whatever expires or is decided, in whatever order, only takes away.

`AnalysesProofs` (`PollAssumption`, `AnalysesAssumption`) is about `LeaguePoll` and
`Analyses`. `AnalysesAssumption` says of the situations to start from what types them:
whole-number thresholds, rosters and settings of the kinds the program knows. Its one
inequality, that the threshold of an improvement is above `NoValue`, is about the encoding
of a missing number as one below all others.

| Theorem | States |
|---|---|
| `PollInductive`, `ChangesAnalysed` | `PollInv` is inductive; `PollSpec => []ChangesAreAnalysed` |
| `GatesInductive`, `GatesFollow` | `GatesInv` is inductive; `Spec => []GatesFollowSettings` |
| `AnalysesInductive` | `AnalysisInv` is inductive |
| `SilencesAreRight` | `Spec => []SilenceIsRight` |
| `SwapsAreFound`, `BidsFit` | `Spec => []NoSwapIsMissed`, `Spec => []BidsFitTheBudget` |
| `LineupsAreRight` | `Spec => []LineupIsRight` |
| `TradesKeepLineups` | `Spec => []TradesCostNoStarter` |
| `AdviceIsFounded` | `Spec => []AdviceHasItsFacts` |
| `PollTypeCorrect`, `AnalysesTypeCorrect` | the two type invariants |

`ChangesAreAnalysed` speaks of moments at which nobody polls; between them the job's own
`changed` carries the knowledge that the analysis is behind (`Remembered`), and between
its two reads the analysis is behind in the free agents alone (`HalfWay`), unless one of
the reasons has come up. That the lineup analysis is silent only when it may be
(`LineupAnswersHold`) rests on the same greedy solver being right as `LineupIsRight` does. For the
gates, what the one sync under way has still to set agrees with the settings and has
every wrong gate among it (`GatesComing`). The analyses' invariant (`Facts`, `Sound`)
says what the analysis read before it answered, and that its answer is sound for that;
the work is in the operators. The ranking of players is total and strict
(`OrderIsFull`); that every finite set has a first member in it is shown by the least
cardinality of a set that has none (`LeastSize`, on the library's `WFMin`), because
induction with an operator parameter is out of the provers' reach. From there
`WeakestIs`, `ClaimsAre` and `BidsAreRight` say what the algorithm's definitions return
for every roster, and `BestAreClaimed` that nothing worth a claim is left out but for
better ones.

That the greedy lineup is as good as any (`GreedyIsBest`) is an exchange argument. Take
a legal lineup `L`. At each step of the solver there is a legal one, no worse than `L`,
that contains what the solver has so far and agrees with it on everything decided
(`Reaches` for the required seats, `Follows` for the optional ones). If it disagrees at
the next step, one exchange makes it agree, still legal and no worse (`Exchange`,
`Replace`): for a required seat because the slots are laminar and the seats come in the
order of how few can take them, so that whoever the rival has there may go where the
solver's player was; for an optional one because all seats of a position are alike and
the players come best first. At the last step the solver's own lineup is that one.
"No worse" is `Beats`: as many players, and as many points when the numbers are equal or
nobody is below zero. That there is a function with the values of the steps, and what a
sum over a finite set is, is shown by least counterexamples again (`StepsExist`,
`SumsExist`). The integer program's answer is the best matching by definition;
`AssignmentsAre` says that its functions are the legal lineups.

That a proposed trade costs no starter is a pigeonhole argument. In a league of single
positions the first on the bench comes after as many players of his position as it has
seats (`StartersAre`, `BenchIs`). If a best lineup has him, one of those is free, takes
his seat and is no worse (`SparedInLineups`); so the side that gives him keeps its total
without him, whoever it receives (`BenchCostsNothing`).

Of what a player is worth for the rest of the season (`RestOfSeason`) the proofs use only
that it is a number. The assumptions are evaluated by TLC in the runs of the modules that declare them.

Only model-checked:

- everything that is liveness (`EveryRecommendationSettles`, `RecordsCatchUp`,
  `EveryPendingGetsACard`, `NoticesReachTheOwner`, `FailingJobsEndThePings`,
  `OwnerKnowsInTheEnd`, `QueuedRunsEnd`, `SnapshotsConverge`, `OpenOffersAreJudged`),
  which is outside what the prover does;
- the two properties that runs refute.

## Plan

Done: every module above.

Open, most important first:

1. The abstract promise of the outbox and of the job queue, and their refinement.
2. The CLI beside the server in `ApprovalFlow`: the lock is per process and SQLite's
   write lock begins with the first write, so the checks of a decision precede it. It
   needs each decision split at its transaction.
3. The planning of the lineup runs from kick-offs that move (`schedule/jobs.py`).

## Not modelled

- Decisions by a second process (item 2 of the plan) and the planning of lineup runs
  (item 3); misfires of the scheduling library, which `Watchdog` takes to start on time
  what is due while the process is up.
- Sessions and password checks of the dashboard: cryptography and one counter.
- Parsing of MFL's exports, of scoring rules and of the endpoint documentation;
  projections and valuation (floating point, taken as given whole numbers); the part of the
  lock file that lists readable exports; configuration, argument parsing but for what
  kills the worker, rendering and styles: text and arithmetic without interleaving.
- Upserts of players, scores, projections and news: one writer each, idempotent.
- Webhook, e-mail and Telegram transports and news sources: input, output, and stubs.

`PROJECT.json` lists what is left out of each part, and the hazards no property covers
carry a note.
