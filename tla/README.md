# DNS Worker: specifications, model checks and proofs

DNS Worker is a protective DNS resolver that runs on Cloudflare Workers or, in
"serverfull" mode, as one Node or Bun process. Each user has profiles; a profile
subscribes to filter lists; DNS queries of a profile are answered, rewritten or
blocked by what its lists compile to; the queries are logged, sealed with the
user's keys if there are any, and copied into a database in the user's browser.
This directory models the parts whose correctness depends on the order in which
asynchronous steps happen, and the decision itself, which many rules share; it
checks the models with TLC and proves their main safety properties with TLAPS.

Paths below are relative to `src/` of the repository.

## 1. Inventory of the system

| Component | State it keeps | Operations | Talks to |
|---|---|---|---|
| Global list synchroniser (`utils/sync/singleListSync.ts`, `utils/listFetcher.ts`, `models/listBloom`, `models/adguardRules`) | `global_lists` rows (ETag, last_synced_at, error), list filters and rules | conditional GET, compile, save both halves, stamp | upstream HTTP servers, database |
| Profile mutex (`utils/sync/orchestrator.ts`) | the map `inFlightSyncs` | sync all, sync one list, rebuild, next list: join, wait, overwrite, delete | API handlers, the bodies of the syncs |
| Filter of a profile (`orchestrator.ts`, `combine.ts`, `api/profiles/lists.ts`) | rows of `lists`, profile filter, profile rules, `list_updated_at` | add, bulk add, toggle, delete, sync; read, merge, write, stamp, clear the caches; cron pass | all three tables, the mutex, the caches |
| Pipeline configuration and caches (`pipeline/config.ts`, `cache.ts`, `index.ts`, `resolver/observability.ts`) | per isolate: configuration, Bloom, AdGuard engine, answers; per data centre: two Cache API entries | load with fall-backs, fill, clear, answer | database, every DNS query, every handler that changes a profile |
| Query log batcher (`pipeline/logBatcher.ts`) | queue, flush flag, timers, quota breaker | enqueue, flush, trip | database, keys |
| Keys of the logs (`logBatcher.ts`, `lib/crypto/dekManager.ts`, `models/kemKey.ts`, `api/*/e2ee.ts`) | cached public keys, data key in force, promises of minting, recovery rows | look up, mint, invalidate, clean up | batcher, e2ee API, cron |
| Sessions (`lib/session.ts`, `models/session.ts`, `lib/middleware.ts`, `api/auth/*`) | session rows with a rotation counter, user micro-cache | create, rotate, pause, resume, revoke, authenticate | every API route |
| Pre-authentication, TOTP, passkeys, PIN, recovery keys | pending rows, attempt counts | begin, verify, enrol | sessions |
| Local copy of the logs in the browser (`web/src/services/localDb`, `web/src/workers/sqlite`) | SQLite rows, watermark, checkpoint of a download | four downloads, ingest, clear, clean up | log API, the views |
| Upkeep (`cron.ts`, `models/log/retention.ts`, `models/user/lifecycle.ts`, `api/doh.ts`) | stamps of the hourly clean-up (isolate memory, cache, a row of `system_settings` remembered per isolate), daily count of deletions, idle stamp of the list turn, activity of users | throttle, inactivity policy, retention within a budget, list turn; record of activity by DNS queries | everything above |
| Log storage (`models/log`, `api/profiles/logs*.ts`) | log tables, roll-up tables | aggregation, analytics, pages, stream | batcher, browser, cron |
| Resolver (`pipeline/resolver/*`, `utils/http2Client.ts`) | HTTP/2 pool | DoH, DoT, UDP, TCP; ECH, ECS | upstream resolvers |
| Filter decision (`pipeline/filter.ts`, `lib/filtering.ts`, `lib/adguard`, `utils/bloom.ts`) | none | classify and compile a line, merge lists, decide one query, check one list | pipeline, list API |
| Serverfull host (`serverfull/*`) | sockets, certificates, local cache and database | listeners, services | the handlers |
| Libraries (`lib/turso`, `utils/*`), web application, scripts, migrations, docs | - | - | - |

Behaviours that are hard to test, and so are what the models are about: a
handler suspends at every `await` and any other may run in between; state is
read before an `await` and used after it; isolates share a database without
transactions and a cache without any order of writes; the runtime may end an
isolate at any `await`; upstream fetches fail, time out or answer 304. What
makes each component correct is stated as its properties below;
`PROJECT.json` lists the hazards with the lines where they bite, the ones
that no property covers yet too.

## 2. The modules

An action is what a handler does between two awaits, or one request to the
database or the cache answered on the other side; each has a comment or a name
from the code, and `PROJECT.json` maps it to its lines. Operators commented
"Mutant" are deliberate faults, used to show that a property fails when the
code is wrong; no specification contains them.

### SyncMutex, ListSyncProofs

The protocol of `inFlightSyncs`: `pc` is where a call of an entry point is
(idle, running its body, waiting on a promise, joined to it, woken), `waitOn`
whose promise, `inFlight` the map, `epoch` counts ends of the process. `Call`
is the first look at the map, `WakeAndJoin` and `WakeAndStart` the look after
the wait, `Finish` the `finally` block and whom it wakes.

* run `mutex`: three calls, two profiles, all four kinds, one restart. No dead
  entry stays in the map (`EntryIsAlive`), a call returns only for its own work
  or for work that covers it (`AnswersAreWork`), every call returns (`Settles`).
  Three calls are what it takes for a call to be woken and find that another has
  overwritten or deleted the entry. That no promise is awaited that nobody will
  settle (`AwaitedIsRunning`) is proved.

The map is *not* the mutex its comment says it is: two calls woken by one promise
both run their bodies (section 6). No property here claims exclusion.

### GlobalList, GlobalListMC, ListSyncProofs

(Names it shares with `SyncMutex` begin with `List` here: `ListSyncProofs` speaks of
both parts that the synchronisation of a profile is built of.)

`syncGlobalList` for several URLs and overlapping calls: fetch (304, new
version, cut at `MAX_LIST_BYTES`, failure), two saves in any order, stamp.
Versions of a list are numbers and an ETag is the version it names; the code
keeps Last-Modified beside it, in the same places, and the two are one tag here;
redirects, retries and mirrors of the fetcher are inside the one fetch step; the
parser is left out. The variable `overlap` is history: whether calls for a URL
have been under way at once, and whether one that was alone has compiled it since.

* run `global_list`: two calls, two URLs, two faults anywhere, fairness. Nothing
  stamped or tagged is uncompiled (`StampedIsCompiled`), the ETag is never ahead
  of what is compiled (`TagNotAhead`) and each list ends up compiled from what its
  server serves (`EventuallyFresh`).

Nothing in the code keeps two calls for one URL apart, and calls that overlap may
leave an old filter under a new ETag without any fault (section 6). `TagNotAhead`
and `EventuallyFresh` therefore excuse a URL whose calls have overlapped, until a
call that is alone with it has compiled it: a 304 does not end the excuse, as it
does not mend the filter.

### FilterSync, FilterSyncMC, FilterSyncProofs

The list API, the bodies behind the mutex, the combiner and the cron pass,
composed with `SyncMutex` by `INSTANCE`. A body is a record `run[t]`: where it
is, the rows it has read, what it has merged, which tables it has yet to read or
to write.
A list in a filter is a pair of URL and compiled version. A call of
`syncGlobalList` is a request and an outcome here; `GlobalList` takes it apart.

* run `filter`, three modes (`Modes` of `FilterSyncMC`): one operation at a time
  without failure on two profiles that share a list, with every operation of the
  API and the cron pass; a request and a cron pass that overlap while a step
  fails or the process ends; two requests that overlap while a list changes. In the first mode the
  filter and the rules are what the enabled lists compile to whenever nothing is
  under way (`Converged`), and a rebuild does not make the profile count as
  synchronised (`RebuildIsNotASync`). In all of them a profile never gets a list it has no row
  of (`OwnListsOnly`), the composition implements `SyncMutex!Spec` (`MutexSpec`)
  and every request ends (`Served`).

`Converged` has two exceptions, the only ones there are: a version that was cut at
the size limit is saved but merged into no subscriber (`Cut`), and the first
version of a list added later reaches only the row whose sync fetched it, so that
a second row of that URL may wait for the list's next change (`LateShared`). They
came out of its proof, which is for any set of plans; the run's plans are too
short for either.

A cron pass that has read the lists before a deletion puts the deleted list back
after the rebuild (section 6): `OwnListsOnly` speaks of rows a profile ever had.

Not in the model: the administrator's distribution of a list to all users, URL
normalisation, deletion of profiles, and `syncNextListForProfile`, which only
tests call. When one of two parallel writes of a body fails, the other one
either has landed by then or never does. The probes of a rebuild, which the code
sends side by side, are one step, but for a probe that fails. `list_updated_at` is
whether it is set, not when.

### ConfigCache, ConfigCacheMC, ConfigCacheProofs

What queries see of one profile. `config`, `bloom`, `engine`, `answer` are the
four maps of each isolate (L1), `expired` the entries of the first two that are
past their TTL, `shared` and `sharedBloom` the two keys in the cache of the data
centre (L2), `puts` the writes of L2 handed to `waitUntil`. A query is a record:
where `load()` is, the references it took of L1 at its start, what it has read
since. A handler writes rows, then `clear()`s L1 at once and L2 key by key. Rows
are their versions; an entry of the cache is the versions it was made of.

* run `config_cache`: two isolates, a handler (settings or lists), loads in
  between, one fault (a failed read, put or deletion, the cache API throwing,
  settings or a filter that are missing or do not parse, an expiry, also during
  the await on L2, an eviction, the end of an isolate). After a clearing that met no load of its isolate and
  nothing on the way to L2, neither this isolate nor L2 has a copy that differs
  from the rows, and this isolate no answer decided by one
  (`SettledIsCurrent`); settings that come with a filter are never applied
  without it (`FilterKept`); emergency settings are not cached (`TypeOK`).

`settled`, `gap` and `calm` are history: which clearings were undisturbed,
which entries were made with a read that failed. The property excuses the
others because the code does not protect them; the model reaches all of the
following, and the list of hazards has them at their lines. A load
that overlaps a change puts the old configuration in L2, for a day, after the
clearing. A failed read of the filter or of the rules is cached as their
absence. An engine in `adguardMemoryMap` has no TTL, so an isolate that did not
serve the change keeps it. `docs/src/content/docs/filtering/rules.mdx:175` says
that `CONFIG_MEM_TTL` bounds how long a change of settings takes to apply
everywhere; the first and the third of these are exceptions to it.

Not in the model: the default profile's fast path, the map of profile keys, the
purge by Cache-Tag of other data centres, deletion of profiles.

### LogBatcher, QueryLogProofs

(Its definitions carry `Batcher` in their names as `QueryLogProofs` speaks of it and
of `LogKeys` together: two stages of one flush.)

The queue, `isFlushScheduled`, the pending timers, the quota breaker in memory
(`silenced`) and in the shared cache (`noted`), and up to two flushes, each at
its await on the quota, at its key look-ups or at its write. `fate` is what
became of each log.

* run `log_batcher`: four logs, batches of two, two flushes, one end of the
  isolate, write errors, quota errors and keys that cannot be made at will. A
  queue that is not empty has a timer or a flush that will yet take from it
  (`NoneStranded`), no log is in two places (`OncePlaced`),
  nothing piles up while writes are silenced (`SilencedIsEmpty`), every accepted
  log is written or given up (`Drained`). Four logs in batches of two leave a
  remainder behind each flush. That the flag never claims a timer that is not
  pending (`FlagIsHonest`) is proved.

A flush that resets the flag leaves a pending timer alone, so there can be more
timers than flags; the properties hold all the same. A public key that is
malformed makes the key stage throw (`KeysThrow`): the batch is lost and the check
for leftovers at the end of a flush (`logBatcher.ts:283`) is skipped. Nothing is
stranded by that, nor by leaving the check out: whoever puts a log in the queue
schedules a timer or, where the queue is full, begins a flush of its own, so that
there is always one flush more than batches already filled. The proof of
`NoneStranded` counts them. A log whose write fails for another reason than the
quota is dropped, not retried. Roll-up statements and the form of a row are
left out.

### LogKeys, LogKeysMC, QueryLogProofs

The keys stage of a flush: the cache of public keys, the look-up (`SELECT`, the
answer on its way, `ensureActiveDek`, the promise of a minting), the data keys
(`kem`: minting, stored, lost, deleted), the e2ee handlers that change a public
key here or in another isolate and invalidate, expiries, retention and
the orphan clean-up. Data keys and public keys are atoms; a public key is hybrid
(its logs use a data key) or classic.

* run `log_keys`: two flushes, one profile, two hybrid keys and a classic one,
  three data keys, two key changes, expiries or restarts. An invalidation that met
  no look-up or minting leaves nothing of a replaced key, then or later
  (`InvalidationHolds`), a flush then seals with the user's key and never falls
  back to plain text (`SealedForCurrentKey`), two flushes do not mint at once
  (`NoDuplicateMint`), the clean-up never deletes the recovery row of a data key
  that logs cite (`KeyKept`).

`settled` and `current` are history: the profiles and the look-ups the first two
properties speak of. A look-up or a rotation that overlaps an invalidation
brings the old key back for five minutes or an hour: the model reaches that, the
properties exclude it. `DayPasses` assumes that a data key a day old is neither
in force (an hour at most) nor held by a flush. Left out: wrapped private keys,
malformed public keys, encryption itself.

### Sessions, SessionsMC, SessionsProofs

One session of the dashboard: its row (`exp`, rotation counter `v`, `active`,
`paused`), the user micro-cache and the activity records of each isolate, the
refresh token the browser holds. Calls are requests, refreshes, locks, unlocks,
log-outs, revocations of this session or of all others; every `await` of a
handler ends a step, and writes left to `waitUntil` land later. Each read and
write of a handler may fail (`RefreshFails`, `StatementFails`, `Pause`,
`LandWrite`). A session revoked on its own may be the browser's own, whose cookie
is then blanked, or be revoked from another one.

* run `sessions`: two isolates, two calls at once, one failing statement, nine
  mixes of calls (`Plans`). A session that was deleted, locked or has run out
  lets no request through later than the micro-cache's TTL and one handler allow,
  on any isolate (`BoundedAccess`); the inactivity lock falls only on sessions
  that were idle for the time-out, less what the throttled records may be behind
  (`EarnedLock`); a browser that refreshes from one tab is never ended for token
  reuse while it holds the newest token (`ReuseMeansNewer`); the third wrong PIN
  ends the session (part of `TypeOK`).
* run `session_parallel` (expected violation): `ReuseMeansNewer` with two tabs.

`lastServed`, `good` and `issued` are history. Left out: signature and expiry of
the access token, the nonce of an unlock, the migration of PINs, the activity
log, sessions that wait for TOTP.

### LogSync, LogSyncMC, LogSyncProofs

The browser's copy of the logs. `server` and `local` are sets of logs (a second,
and which log of that second), `mark` the watermark, `checkpoint` what
localStorage keeps of an interrupted download, `op` the downloads under way:
a profile's delta sync, the missing intervals, a target range, the backfill. A
page is fetched, taken into the database and claimed by the watermark in three
steps; the live stream inserts, a view clears the profile, the clean-up deletes
old logs, a download fails in between.

* run `logsync`: two downloads at once in nine mixes (`Mixes`). A log that the
  watermark hides from later downloads is on its way in one, or lies in a second
  with a known cause (`HiddenIsAccounted`); whatever lies between a checkpoint
  and the end of its range is in the database or has such a cause
  (`CheckpointCovers`).
* run `logsync_honest` (expected violation): two ordinary delta syncs, no
  failure, more logs between them than the page limit: the watermark claims what
  was never fetched.

`holes` is history: the seconds left out because a download was cut short by a
page limit, an error or an abort (`Cut`), because a full page ended within a
second (`Split`), because the claim jumped over what lies between the interval
downloaded and the old claim (`Jumped`), because the logs were cleared while a
download or a checkpoint counted on them (`Lost`), or deleted by the clean-up.
The code does not record them, so nothing repairs them; the property says that
there is no further cause. `Jumped` is needed for more than ranges of their own: a
`missing` download plans two intervals from one watermark, and when the profile
is cleared and logs of the live stream come in between, the second interval
widens a claim it was not planned against. Left out: the 15-second
throttle (`force` skips it), decryption in place, queries over the copy, a worker
that dies.

### Decision, DecisionMC, DecisionProofs

From the lines of lists to a decision. A name is its sequence of labels, a
pattern a sequence of tokens. `Kind` and `Compile` are the classification and the
callback that compiles a line under both limits, `Combine` takes the lists one
after the other (a list may fail to load, before or after its filter was merged,
and the writes of what was merged may fail), `Local` and `External` are the tiers,
`Decide` the decision. `Check` is the other implementation, the list API's, with
the walks of its own that the code has: `FindException` and `FindRewrite` look in
the map of the exact entries and then up the name, `FindInFilter` is the loop in
the handler, `FindPattern` looks in the bucket of the apex first; and patterns go
before rewrites. It shares with the decision only what a filter or a pattern says
of one name. A Bloom filter is the set of its members; an entry may test positive
by chance if the filter has the members whose bits it shares, so a merged filter
may have hits that none of its lists has. The first properties speak of lines
only, so they are a second definition of what the tiers compute.

* run `decision`: four lines in up to two lists, three families of lines, with
  and without a chance hit and a lost list, or the user's own rules (`Themes`).
  The user's rules go first, ALLOW before BLOCK, then an exception of any list
  against the blocks of all (`Precedence`); no blocking line is lost on the way
  (`BlocksHold`), nothing else is blocked but by an exception with a star
  (`BlocksAreEarned`; section 6), the nearest rewrite answers (`NearestRewrite`),
  and the checks of the merged lists agree with the decision on every name
  (`CheckAgrees`).

`CheckAgrees` is for any number of lists: a name that is blocked or rewritten is
one that some list's check says so of, and the other way round if no list's check
says "whitelisted". Its three excuses are the cases in which the code disagrees
with itself: a pattern left out of a full pool, a rewrite that a later list's
rewrite of the same name (perhaps without subdomains) has replaced, and a chance
hit that only the merged filter has.

Left out: the syntax of modifiers, stars inside a label, regular expressions
that are not anchored, a saved filter that cannot be read back (the check goes on
without it), the resolution of a decision.

### Upkeep, UpkeepMC, UpkeepProofs

The cron trigger and what it judges by. A pass asks the isolate's memory, the
cache and the remembered row for the stamp of the last clean-up, leaves its own
in the three places, applies the inactivity policy, deletes expired logs of each
profile in chunks within the daily budget, and takes a list unless the idle stamp
is fresh. DNS queries record the activity of their user through two throttles
(memory and cache). Time is told by ages, the ticks since a stamp was taken, so
the clock needs no bound; `Midnight` starts another day.

* run `upkeep`: nine rosters of who acts (`Rosters`). Two clean-ups less than an
  hour apart take an overlap, two failures, or one while an isolate judges by its
  copy of the row (`ThrottleHolds`); a day's deletions exceed the budget by no
  more than one log of each profile but one, and by no more than another budget
  each time the count gets lost (`BudgetHolds`, `lapses` counts the losses); the
  profiles of a user who resolves names are not cleared, whichever isolates the
  queries meet (`ActiveKept`); expired logs are deleted and lists get their turn
  in the end (`KeepsUp`).

Simplified: a failed read of a setting is remembered for `Memo`, as is a
successful one, and not for a minute; what an isolate remembers of the daily
count is older than that by the next clean-up (`MemoAssumption`). Date and count
are two reads in `retention.ts:56-57`, each from a memory of its own age, and one
step here: by the same assumption neither memory outlives the hour between two
passes. Left out: the
deletion of roll-ups, the refresh of the address ranges, the removal of users who
never log in. The purge of sessions is in `Sessions`, that of orphaned keys in
`LogKeys`, the list pass itself in `FilterSync`.

## 3. Bounds

Each bound is a constant named in the module: `MaxRestarts`, `MaxVersion`,
`MaxEdits`, `MaxFaults`, `MaxEnds`, `MaxChanges`, `MaxLoads`, `MaxNow`,
`MaxTime`, `MaxLines`, `MaxLapses`. They cap how often the environment acts
(edits, calls, faults, restarts, new versions), never how the code answers. Sets
of calls, isolates, queries and handlers are as small as lets two of the actors a
property is about meet with a third event between them: two flushes and a timer,
a cron pass and a request, a clearing and a load of another isolate.

Five modules take their bounds from a set of budgets of which a behaviour picks
one at its start (`Modes` of `FilterSync`, `Plans` of `Sessions`, `Mixes` of
`LogSync`, `Themes` of `Decision`, `Rosters` of `Upkeep`), so that one run asks
its question of several small instances instead of a large one: each member
brings together the actors of one hazard and leaves out the rest.

* `ConfigCache` needs two loads: one to fill the caches, one to read them after
  the clearing; with a second query at the same time or a third load the instance
  is out of reach (more than ten million states), and the part that is proved
  below does not depend on either.
* `Sessions`: a lock time-out of 4, a session of 6, a micro-cache of 2 ticks and
  six ticks in all let each run out while another still holds. `Grace` is 0: the
  window only forgives, so this is the strictest setting.
* `LogSync`: pages of one or two logs and page limits of one to three are passed
  by three logs (four in `logsync_honest`); five seconds leave one on each side of
  an interval and one for the overlap; two passes are what it takes to plan from a
  watermark that the first pass moved.
* `Decision`: four lines are an exception, a rewrite and a block of one name and
  one more for the second list; both limits (three domains, two patterns) are
  reached. Six names, an apex and one or two labels below it, two of the names
  under `co.uk`, cover the walk of the parents and both forms of an apex.
* `Upkeep`: the hour is two ticks, so a stamp can be fresh, due and overdue; the
  budget of two and batches of one let a day's budget be used up by one profile
  before the other's turn.

Symmetry is used where the members of a set are interchangeable and no liveness is
checked. `CHECK_DEADLOCK FALSE` is set where the system may rest: nobody edits, no
query comes, all logs are written, the bounds are used up.

## 4. Fairness

Liveness is checked in `mutex`, `global_list`, `filter`, `log_batcher` and
`upkeep`. Weak fairness is assumed of each call that has begun: the event loop
resumes a handler whose promise has settled, fetches and database calls time out
or return, timers fire. `GlobalList` has weak fairness of the sync interval's
passing and strong fairness of the cron trigger, which the platform fires every
minute: the code has no limited number of calls, so calls on demand may not keep
it from the one the model has. `Upkeep` assumes that time does not stop, that
midnight comes, that the trigger fires, and that passes and tasks go on. Nothing
is assumed of users, upstream changes, expiries or failures.

`ConfigCache`, `LogKeys`, `Sessions`, `LogSync` and `Decision` have no liveness
properties: what they promise has to hold at once or never.

## 5. Proofs

The modules `*Proofs` prove, for every value of the constants that satisfies the
modules' named assumptions (names of "no key", "no list", ... are not among the
things they stand beside; bounds are natural numbers):

| Theorem | Argument |
|---|---|
| `SyncMutex`: types, `EntryIsAlive`, `AwaitedIsRunning`, `AnswersAreWork` | The three state invariants are inductive together: `Finish` deletes only under its own profile, and wakes all that await it. The action property follows from them. |
| `GlobalList`: types, `StampedIsCompiled` | Strengthened by what each call knows of its URL (`JobsAreSound`): a call about to stamp has saved, and no step takes a filter away. |
| `GlobalList`: `TagNotAhead` | `TagInv`, for any number of calls: nothing stored or carried is newer than what the server serves; of two calls for a URL the history knows (`Noticed`); a call that is alone knows how its version compares with the tables and the tag (`Alone`), even where earlier calls had overlapped. |
| `FilterSync`: types, `OwnListsOnly` | `IInv`: where a body may be by its kind; that a body runs where the mutex says so; that what it carries it took from rows its profile had; that the sets of URLs ever subscribed to and the versions only grow. Any overlap, any failure. |
| `FilterSync`: `Converged`, `RebuildIsNotASync` | `Solo`: in plans without overlap and failure there is one body or cron pass at a time, and every profile fits its rows except for what that one `Owes`. A body that ends owes nothing. Lists are fetched in order of `First`, a least element, which exists by well-foundedness of the numbers and needs no induction. |
| `FilterSync` implements `SyncMutex` | Each step of the bodies, the API and the cron pass is a step of the mutex or leaves its variables alone (`AskOK` says that handlers ask for well-formed syncs only). |
| `Sessions`: types, `BoundedAccess` | `AccessInv`: whoever knows that the session is good, be it a cache entry, a read under way or a request about to be served, has that knowledge from a row read while it was, no longer ago than its time allows. |
| `Sessions`: `IssuedWithinCounter` | `CounterInv`: a rotation puts in its answer the value it read plus one only after the row was incremented. It is the reason why a token is never *ahead* of the counter; that it may fall behind is `session_parallel`. |
| `Sessions`: `EarnedLock` | `LockInv`: unless a write of `last_active` failed, the row is behind what was served by no more than `Behind` (an entry of the micro-cache and the throttle) and the delay of a handler, counting the writes not yet landed (`Noted`); a late write may put back an older time, but none older than that delay. What a call has read of the row and of the history goes together. |
| `Sessions`: `ReuseMeansNewer` for one tab | `ReuseInv`: one refresh at a time; whatever is presented was answered; unless a rotation died half-way, the newest answer carries the row's version, or the one before it while the one refresh is between increment and answer (`Abreast`). It needs `Tabs = 1`: `session_parallel` has the counterexample for two. |
| `Decision`: types, `Precedence`, `BlocksHold`, `BlocksAreEarned`, `NearestRewrite`, `CheckAgrees` | `Invariant`: each list's payload is what its lines give (`Compiled`), the profile what its lists give (`Pooled`), and of two rewrites of a name the later list's (`Rewritten`). On top of it lemmas about names: a pattern, with however many stars, and a name it matches have one apex; the nearest rewrite exists and is unique in length. For `CheckAgrees`, that each walk of the check finds an entry exactly if the decision's test succeeds (`FindsException`, `FindsRewrite`, `FindsInFilter`, `FindsPattern`), then that the tests on the merged profile are those on its lists (`ProfileHas`, `ListsHave`). |
| `ConfigCache`: types, `FilterKept` | Strengthened by what a load knows at its awaits (`Knows`): past L2 it has settings; past the await of a filter it has the filter, or the settings say there is none, or it could not be had. |
| `ConfigCache`: `SettledIsCurrent` | `Currency`: from the moment an undisturbed clearing has emptied L1, not only L1 and L2 but everything on its way there (what loads have read, puts not yet landed, the handler's own list of keys to purge) is current, for as long as the clearing counts as settled. |
| `LogKeys`: types, `InvalidationHolds`, `SealedForCurrentKey`, `NoDuplicateMint`, `KeyKept` | Strengthened by how look-ups, promises and mintings refer to one another (`Wired`, `LooksWired`) and by what holds of settled profiles (`Truthful` and its parts). |
| `LogBatcher`: types, `FlagIsHonest`, `NoneStranded`, `SilencedIsEmpty`, `OncePlaced` | `Awaited`: a queue that is not empty has a timer or a flush that has yet to take its batch, and one more such flush for each log beyond a batch, so that the last of them leaves nothing; it does not use the leftover check, which a flush whose keys throw skips. With it the bookkeeping of flag and stages; on the other side where each log is (queue and batches as sequences without repetition). |
| `LogSync`: types, `HiddenIsAccounted`, `CheckpointCovers` | `IInv`: of each call, that above its cursor nothing is missing (`ReadOK`) and that a page which waits lacks only older logs, and only when it is full (`PageOK`); of the claim, that a missing log in it is below the cursor of a call that has widened it (`Carries`) or in a hole. `Ingest` and `Bound` split what is newly claimed into what lies below, above and inside the old claim. It needs that a log arrives no later than the overlap (`DelayAssumption`): it is then above every interval already read. |
| `Upkeep`: types | With where each pass and each task may be, and that whoever shares out a budget has profiles to share it among. |
| `Upkeep`: `ThrottleHolds` | `ThrottleInv`: cache and row know of the latest clean-up unless something failed, and a pass that one of them let by, or that judged by its copy, saw an hour pass or is excused by those failures. The step of the theorem is the one that begins the clean-up. |
| `Upkeep`: `ActiveKept` | `ActiveInv`: each throttle that keeps a query from a record is fresh only if the record `Fits`: it is no older than the throttle and the delay of a task, or a task is about to make it, or one failed. Users lose all their profiles at once. |
| `Upkeep`: `BudgetHolds` | `BudgetInv`: a day's deletions plus what passes may yet save (`Owed`, summed over all of them by `Total`) stay within what is saved, one `Day` for each lapse, and the `Slack` of passes that have not saved. A pass dated the day before may overwrite what today's saved, so both days have a sum. Shares are whole numbers, so it also needs that a division is not exceeded by its parts; and it needs finite sets of passes and profiles, which the code's are (`FiniteAssumption`). `Total` is a recursive function, as every finite set has one by well-foundedness. |

Only model-checked:

* the liveness properties (`Settles`, `EventuallyFresh`, `Served`, `Drained`,
  `KeepsUp`), which rest on fairness and are outside the prover.

Every safety property of a passing run is stated by a theorem; that of
`ReuseMeansNewer` assumes one tab, as its run does.

Induction over data (what a recursive function computes for every input) is out
of the prover's reach too. So the compiled lists are state, built line by line,
and the one recursive function that a proof needs, the `Total` of `Upkeep`, is
reasoned about through least elements: a set or a number for which a law of sums
fails would have a smallest one.

## 6. Where code and documentation disagree

Shown by a run of its own:

1. `lib/session.ts:231`: a rotation increments the row after comparing a counter it
   read before an await, and answers with the value read plus one. Two refreshes at
   once leave both tabs with a token that is one behind, good for 15 seconds only,
   though lines 158 and 166 and `test/test_serverfull.ts:478` promise a window for
   parallel refreshes of one client (`session_parallel`).
2. `web/src/workers/sqlite/sync.ts:134` says that the watermark "never falsely
   claims historical coverage"; it does after two delta syncs with more logs between
   them than a sync reads (`logsync_honest`).

Met while modelling; the models reach those of 1 to 4 that depend on an order of
steps, though no run is kept for them, the others can be read off the code:

1. `utils/sync/orchestrator.ts:18` calls `inFlightSyncs` a mutex; two calls woken
   by one promise both run. `utils/sync/combine.ts:12` calls the promotion atomic;
   it is two writes.
2. `utils/sync/singleListSync.ts:20` promises one fetch and compilation per URL; two
   calls may overlap and leave an old filter under a new ETag.
3. `api/profiles/lists.ts:304` says that the rebuild after a deletion rules out the
   race; a cron pass that read the lists before brings the list back.
4. `docs/src/content/docs/filtering/rules.mdx:175` says that `CONFIG_MEM_TTL` bounds
   how long a change takes to apply everywhere; a load that overlaps the change puts
   the old configuration in the cache of the data centre for a day.
5. An exception whose name has a star becomes a pattern that *blocks*
   (`lib/adguard/parser.ts:160-167`, `singleListSync.ts:84-92`,
   `pipeline/filter.ts:129-132`), against the heading at `parser.ts:138` and
   `rules.mdx:135`. A regular expression with a group in its last labels is indexed
   under an apex that no name has, and a rewrite or hosts line whose name has a star
   is kept under a name that nobody asks for: both are dead.
6. A rule of the user with a prefix `||` or `*.` *and* the flag
   `include_subdomains` matches nothing, though `lib/filtering.ts:12` says that
   either suffices.
7. `$dnsrewrite=NXDOMAIN` and `REFUSED` are answered as `block_mode` says;
   `rules.mdx:136` promises the status codes.
8. A retry of a download that broke off half-way counts the lines it has already
   read a second time against the limits (`utils/listFetcher.ts:359`).
9. `docs/src/content/docs/maintenance/lifecycle.md:19-22` says that 30 days of
   inactivity prune a profile's logs and preserve its configuration;
   `models/user/lifecycle.ts` deletes the profiles of the user.
   `INACTIVITY_THRESHOLD_DAYS`, documented at line 72, is used by nothing.
10. `models/log/retention.ts:20` says that the clean-up runs on every trigger; it is
    hourly. Lines 28-30 say that the daily budget caps the deletions; line 77 grants
    each profile one more (`BudgetHolds` has the exact bound).
11. `lib/middleware.ts:85` speaks of a 10-second micro-cache; line 156 has 30.

## 7. Not modelled, and what comes next

`PROJECT.json` lists every component with its reason. Most of what is left is
conversions without state (messages, stamps, validators), single SQL statements
(the roll-ups, which nothing calls; analytics), cryptography, and the web
application's views. What remains worth modelling, in order:

1. Pre-authentication: the attempt count is read and written on two sides of an
   await (`lib/preauth.ts:52`), as is the consumption of a token; log-in and TOTP
   on top of it.
2. An abstract specification of what a profile's caches promise (a version that
   only goes forward once settled) that `ConfigCache` refines, and one of the
   log pipeline (each log has one fate) that `LogBatcher` refines.
3. The pool of HTTP/2 connections and the coalescing of queries by the serverfull
   listeners; the administrator's distribution of a list to all users, which
   rebuilds many profiles from one handler.
