# A TLA+ model of Qafiyah

Qafiyah serves a corpus of Arabic poetry: a Rust API over Postgres and
Elasticsearch, an Astro web server and a React front end before it, a job that
fills the search indices, and scripts that start, check and deploy all of it.
The corpus itself is immutable. What can go wrong between two steps is in the
API's accounts and limits, in sign-in, in the indexer, in what browsers keep
and share between tabs, and in the scripts that supervise processes; that is what the
modules here model. File names are relative to the repository's root.

## Inventory

| Component | State | Operations | Talks to |
|---|---|---|---|
| Rate limiter, `apps/api/src/rate_limit.rs` | one mutex-protected map of fixed windows per process | `layer` (reads the clock, awaits the key lookup, checks), `check_all`, the sweeper | key cache, usage recorder |
| Key cache, `accounts/cache.rs` | map of key to caller, stamped and with a lifetime | `resolve`, `get`, `insert` | the accounts database, with a timeout |
| Account keys, `accounts/keys.rs`, `bin/issue-key.rs` | table `api_keys`, the user's row lock | `create_for`, `revoke`, `issue-key` | Postgres transactions |
| Usage recorder, `accounts/usage.rs` | pending counts per process, table `usage_hourly` | `record`, `flush` once a minute | Postgres, other API processes through row locks |
| Users and sessions, `accounts/users.rs`, `accounts/sessions.rs` | tables `users`, `identities`, `sessions` | `upsert`, `create`, `delete`, `delete_all_for` | the web server over HTTP |
| OAuth and account pages, `apps/web/src/pages/auth`, `pages/account`, `lib/server/oauth` | cookies of the browser | start, callback, exchange, key page, sign-out | providers, the API's `/account` routes |
| Viewer in the header, `account-control.tsx`, `viewer-cache.ts`, `viewer-hint.ts` | localStorage, a hint cookie, two controls a page | load, ask, store, clear | `/api/me`, other tabs |
| Reading settings, `apps/web/src/lib/settings` | a JSON record in localStorage, a copy per tab | read, patch, storage events | other tabs |
| Search page, `components/search` | the URL, the box, react-query's cache | type, search, filter, load more, retry | `/v1/search` |
| Multi-select, `ui-extended/select.tsx` | highlight, choice | keys and mouse | the search page |
| Search query, `apps/api/src/query.rs`, `routes/search.rs` | none | parse and validate | |
| Random poem, `lib/api/random-poem.ts` | attempts, a deadline | retry with backoff | the API |
| Rendered pages, `lib/server/unwrap.ts`, `sitemap.ts`, sitemap routes | the calls of a visit | one call or several at once, repeated on transient failures | the API |
| Search indexer, `apps/search-indexer` | indices and aliases in Elasticsearch | `bootstrap`, `reindex`, `populate`, alias swap | Postgres pages, Elasticsearch requests |
| Deployment, `scripts/deploy/vps.sh` | containers | rollout by doubling and draining | Docker |
| Development supervisor, `scripts/dev/run.ts` | child processes | stages, services, shutdown | signals |
| Gate, `scripts/ci.ts` | child processes, a pool | phases, first failure, cleanup | signals |
| Smoke run, `scripts/smoke` | the surface it started, a pool of probes | probe, judge, tear down | signals, the site |
| Snapshots, `scripts/es` | digest files | snapshot page by page, diff | Elasticsearch aliases |
| Quota probe, `scripts/dev/quota.ts` | its counts | burst, drain | the rate limiter |
| Corpus tools, `scripts/corpus` | export, CSV, SQL | verdict, calibration, transitions | the corpus |
| Inspector, `apps/inspector` | the queue, visits and examples of a crawl | a report on every shape of page | the site |
| Read routes, telemetry proxy, edge gateway, generated files | none that the service depends on | | |

How they interact. A request to `/v1` enters the limiter's layer, which reads
the clock, asks the key cache who the caller is (the cache may ask the
database, for at most 500 ms) and then checks every limit in one pass under the
mutex. An admitted request with a key is handed to the usage recorder. A second
API process, which runs during each rollout, shares nothing with the first but
Postgres. The web server owns OAuth and cookies and calls the API's `/account`
routes; the API owns the accounts database. Tabs of a browser share cookies and
localStorage. The indexer is a container of its own that the API only meets
through the two aliases. The scripts meet the rest as processes, containers and answers.

What is hard, and what must hold:

- *Stale instants and stale copies.* The clock is read before an await and used
  after it; a tab patches settings it read a while ago; a callback compares a cookie
  another tab has replaced. Nobody may be overcharged, no choice undone, nobody
  signed in unverified.
- *Late answers.* An old lookup is stored after a newer one, an answer about one
  person arrives after a sign-out. A revocation must apply within an entry's
  lifetime, and the header must name one person.
- *Check then act.* Creating a key counts and then inserts; the upsert checks
  an email and then writes it. Locks and a unique index must decide.
- *Lost answers.* A commit can take effect while its answer is lost. Nothing
  may be counted twice, and a sign-in must be repeatable.
- *Crossed locks.* Two processes upsert the same rows in the order of a hash
  map. Flushes must end.
- *Half-done work.* The indexer or a rollout can die between any two steps. The
  API must never see a partial index, and the site must stay up.
- *Several ends at once.* A signal, a crash and a failure race for one shutdown.
  Nothing may outlive it, and success may only be reported when it is one.
- *Budgets and bounds.* Attempts share a deadline; maps are fed by anybody.

`PROJECT.json` lists these hazards one by one, with the line where each bites.

## The modules

API and jobs:

| Module | Models | State of the module / of the code |
|---|---|---|
| `RateLimiter` | `rate_limit.rs` | `windows` is `Limiter.windows`; `request` a request between reading the clock (`Arrive`) and `check_all` (`Check`); `Sweep` is the sweeper, `Restart` a new process |
| `KeyCache` | `accounts/cache.rs` with `keys.rs::lookup` | `entries` is the map; `Hit`, `Ask`, `Read`, `Store`, `Fail` and `Abandon` are the ways through `resolve`; `Change` is a revocation or plan change in the database |
| `AccountKeys` | `keys.rs::create_for`, `revoke`, `bin/issue-key.rs` | `active`, `revoked` are rows of `api_keys`; `lock` and `sharing` the exclusive and shared locks on the user's row; one action per statement |
| `SignIn` | `users.rs::upsert`, `sessions.rs`, the callback and logout routes | `users`, `links`, `sessions` are the tables; `flow` each callback; one action per statement or HTTP call |
| `UsageRecorder` | `accounts/usage.rs` and its task in `main.rs` | `pending` is the in-memory map, `table` is `usage_hourly`, `holder` its row locks; one action per row a statement locks, per commit and per failure |
| `SearchIndexer` | `apps/search-indexer/src/main.rs`, `es.rs` | `indices` and `alias` are Elasticsearch's, `run` the program counter of each job; one action per request |
| `PublishedIndex` | what the indexer promises to the API | abstract specification: an alias only moves, in one step, to a newer and complete index |
| `SearchQuery` | `query.rs`, `routes/search.rs`, `slug.rs` | pure: a sequence of parameters to a rejection or a parsed search |

The site:

| Module | Models | State of the module / of the code |
|---|---|---|
| `AccountPages` | `pages/auth`, `pages/account`, `lib/server/oauth`, `session.ts`, `new-key-cookie.ts` | `jar` is the browser's cookies; `tab` what each tab waits for, with the cookies its request carried, and the page it shows: whose it is and the keys it lists; `keys` the keys behind the API, each with its owner. `ResolveViewer` is the lookup every account page and form begins with; `Revoke` finds a key only if it is active and the viewer's, as the API does |
| `Viewer` | `account-control.tsx`, `viewer-cache.ts`, `viewer-hint.ts` | `browser` is what all tabs share, `page` a document and what it was painted with, `control` each mounted control and its request |
| `Settings` | `lib/settings`, `settings-dialog.tsx` | `stored` is the text under the key, or a store that denies everything; `copy` each tab's cache and painted theme, and (only remembered) the fields it failed to store; `events` the storage events not delivered yet |
| `SearchPage` | `use-search.tsx`, `search-status.ts`, the box and the filters | `url`, `box`, and `cache`: one entry per query key with its pages and its fetch; react-query is external |
| `FilterValues`, `FilterSelect` | `csv-filters.ts`, `select.tsx` | the choice as a sequence of slugs; highlight, open list, and whether React has drawn between two listeners |
| `SearchProbes` | `scripts/smoke/probes/search.ts`, `http-shape.ts` | one request at a time, sent to `SearchQuery`, with the answers its probe accepts |
| `RandomPoem` | `random-poem.ts`, its button and its route | `run` is an execution of the loop with its two timers; `clock` is relative to its beginning |
| `SitePages` | `unwrap.ts`, `sitemap.ts`, the sitemap routes and paged lists | `visit` is a render, `call` its calls with their attempts, `corpus` what the API serves now |

The scripts:

| Module | Models | State of the module / of the code |
|---|---|---|
| `Rollout` | `deploy/vps.sh` | `container` is `docker compose ps` with health, `deploy` the script's place and what it found; draining stops one container after the other |
| `DevRun` | `dev/run.ts` | `dev` is the supervisor, `service` each child process: unborn, running, told to stop, exited |
| `CiRun` | `ci.ts`, `ci/phases.ts` | `ci` is the gate with its phase and queue, `task` each process |
| `SmokeRun` | `smoke/run.ts`, `http.ts`, `surfaces.ts` | `smoke` is the run with its `--suite`, `server` the surface, `down` the teardown, who called it and which of its commands failed |
| `EsSnapshots` | `es/snapshot.ts`, `es/diff.ts` | `taker` is a snapshot under way, `file` the digests, `serving` where each alias points |
| `QuotaProbe` | `dev/quota.ts` | `quota` is the probe, `limiter` the external windows that judge it |
| `SiteCrawl` | `inspector/src/route-discovery.ts`, `site-crawl.ts` | `crawl` is one report's crawl; what a page links to and whether it is of use is chosen when it arrives |
| `CorpusVerdicts` | `corpus/*.ts` | `poem` in the database, and what `export`, `csv` and `sql` hold of it |

`MC*` modules and their `.cfg` files are the instances TLC checks; `*Proofs` modules
hold the theorems, and `DataLemmas` the facts about finite sets, numbers, sums,
ranks and joined sequences they share. `Ranked` says what sorting and filtering
yield without recursion, for the modules that theorems are about. An operator whose
comment says that it is a mutant is a plausible error in the definition that follows
it; no specification uses it, `PROJECT.json` says which property it would break.

### How they are composed

Modules are composed by their inputs where components call each other.
`RateLimiter` lets the lookup of a key end either way (`KeyCache` says which
answers are possible and how old they can be), and `UsageRecorder` records any
request (`RateLimiter` says which). `SearchPage` sends its requests through
`SearchQuery`, and so does `SearchProbes`: the parser, the website's query string and the
expectations of the smoke run are checked against each other. `AccountPages`
takes the API for external; `SignIn` and `AccountKeys` say what is behind it.
`EsSnapshots` lets an alias move at any time, which `SearchIndexer` does.

The MC modules put components that share no state next to each other: a variable
`exercised` (`environment` in `MCRateLimiter`), chosen by `Init` and never changed,
says which one runs, and the others stay where they began. The state space of such a
run is the sum of its components', not their product. The components that theorems
are about are extended (`SignIn`, `AccountKeys` and `Viewer` by `MCAccounts`; the
indexer, the rollout and the recorder, the supervisor, gate, smoke run, quota probe,
snapshots and corpus tools by `MCBackground`; search page, multi-select, settings,
random poem, account pages and rendered pages by `MCWeb`), so that a run checks the
very formula a theorem states and TLC evaluates the assumptions of each; the others
are instantiated under a name.

### What the models abstract

- Only whole seconds are modelled in the limiter and the cache, as in the code.
- Transactions are READ COMMITTED. `SignIn` derives the locks from the point a
  transaction has reached: an uncommitted write makes others wait for the
  account's row, for the email it had and the one it will have, and for the
  identity. The foreign key checks of `identities` and `sessions` take a share
  lock that does not conflict with these updates; the one of `api_keys`
  conflicts with `create_for`'s FOR UPDATE and is in `AccountKeys`.
- A request to Elasticsearch that times out has taken effect or never will; one
  that is applied much later is not modelled. A batch of documents is one page.
- `NextIndex` ignores indices whose suffix is not a number, which only an
  operator could create. `ensure_read_only_user` changes no index and is left out.
- react-query is what the page relies on: one entry per key, pages in order,
  retries by the page's own rule, and answers that stay fresh.
- A signed OAuth state cannot be made by anybody else; a provider and the
  account API answer, refuse, or are given up on whatever they have done.
- A container that was healthy stays so until it is stopped. A process may exit
  or ignore SIGTERM at any time; nothing survives SIGKILL.
- Names, labels, headers, logs, markup and the wording of errors are left out.

## What is checked

Every run lists its properties; the comment above each one in its module
states it in full.

| Run | Asks | Answer |
|---|---|---|
| `limiter` | stale instants, a restart, a map that fills; and, apart from that, requests checked in the second they read the clock | nobody pays for a refusal, every 429 names a used-up limit, the map is bounded; no window passes its ceiling unless an open one has been forgotten, and recorded usage is charged usage |
| `cache` | overlapping, failing and abandoned lookups, more keys than the cache holds | a revocation or plan change applies within the lifetime of an entry; the ceiling holds |
| `accounts` | sign-ins that fail and repeat, creates next to issue-key runs, two tabs with two people | one account per email; while the sign-ins of one identity follow each other, accounts can be reached, identities and sessions stay; the portal keeps the ceiling, raw keys are stored keys; the header names one person |
| `background` | the jobs and the scripts, each with its failures, kills, signals and lost answers, under fairness | see below |
| `web` | the site's parts with failing, late and repeated requests and other tabs, under fairness | see below |
| `limiter_straddle`, `cache_outage`, `sign_in_overlap`, `indexer_overlap`, `header_anonymous`, `settings_legacy`, `dev_inspector` | what a document says, against what the code does | **violated**: see below |

`background`. `RecorderIsAccountable` and `PendingIsFlushed`: each recorded request
is counted once or given up, no lock is left, and pending counts leave memory.
`AliasIsTrustworthy`, `DoneMeansServing`, `RebuildSweepsLeftovers` and the
refinement `PublishesWholeIndices`: one run of the indexer at a time serves whole
indices and cleans up. `RolloutIsSafe`: somebody healthy serves at every moment of
any sequence of deploys that stop anywhere, and one that ends well leaves its own
version, as many times as it found. `DevLeavesCleanly`, `GateIsHonest`,
`SmokeIsHonest`: nothing outlives the command, and an exit code of zero means what
it says, whatever signals and exits race. For the smoke run zero means that every
probe of the suites it was asked for passed, and the checks after the suites, which
`--suite` does not filter; and what outlives it is what `docker compose down` or the
clean-up failed to end, whose exit codes nobody reads. `DigestsAreFaithful`: a
digest names no document twice even if the alias moves, and an undisturbed pair
compares as what it is. `VerdictIsEarned`: the probe calls hourly what is hourly,
and a drain that succeeds reached the limit. `VerdictsAreSound`: no layout of a poem
turns its verdict into the opposite, anchors are recalled, only calibrated proposals
are applied, and applying them leaves none to propose. `InspectionIsSound`: the
inspector's examples are usable pages of their own shape, a shape it calls missing
had no link of use on any fetched page, and a fetch is spent only on what is still
looked for. `WorkEnds`: a run of the indexer, a shutdown, the pool of the gate and a
teardown come to an end.

`web`. `ShownIsThisSearch`: what the page shows was asked with the search in the
URL, its pages each once and in order. `PageIsNeverRejected`: the API rejects
nothing that the page asks of its own state. `QueriesAreUnderstood`: the API's
parser agrees with every probe of the smoke run. `MenuIsRight`: the highlight stays
on the list and the choice among the options. `AsksWithinBudget`: no request of the
random poem after the deadline. `SettingsAgree`: tabs do not undo each other's
choices as far as they were stored, and differ from the store in what they failed to
store and in nothing else. `AccountPagesAreTrue`: a session means a verified
identity of this browser's own sign-in, a sign-in is refused for its state only if
something else touched it, and a key of one's own that is said to be revoked is, and
is not on the page that says so. `PagesTellTheTruth`: a page is a 404 only on the
API's word, sitemaps list every poet once, the index names every shard, a next page
exists. `VisitsAreAnswered`: whoever waits for the site is answered, except for who
clicked on a random poem whose body breaks off: that button stalls until its page is
shown anew, and the property says so.

Seven runs show where the code does not do what its documents say; `findings`
in `PROJECT.json` quotes them:

- *The window moves backwards.* `check_all` resets a window whose end differs
  from the one of the request's instant, also when the tracked window is the
  later one. Requests of two seconds that reach the mutex in the wrong order
  reset the burst window to and fro, and its ceiling is passed. The hourly
  windows do the same at the turn of an hour. `OrderlyCeilings`, checked and
  proved, shows what it takes: a window that was still open and has been
  forgotten, by such a reset, by a map full of open windows or by a restart.
  The history variable `disturbed` remembers that; without it the ceilings hold.
- *An outage stalls more than one request per key.* A miss is cached when the
  lookup has timed out, and nothing joins a lookup under way, so each request of
  the first 500 ms stalls.
- *Two indexer runs take search down.* They name the same target, or one sweeps
  the index the other fills. The scripts and the init job do not exclude each
  other.
- *An identity changes accounts.* Two first sign-ins of one identity both find
  it unlinked; if its email changed in between, they insert two accounts and the
  second takes the identity. The same happens when the first links the identity
  to an account that another of its identities then renames. `accounts` shows that
  it takes the overlap: while the sign-ins of one identity follow each other,
  emails may change at any time. `IdentitiesStay` proves that it takes the change
  of an email too.
- *An anonymous visitor sees a control.* An answer of `/api/me` that arrives
  after the sign-out sets the hint and the stored viewer again; the next document paints
  the control until its own answer is in.
- *The legacy theme is lost.* The first change of the font size writes a record
  without a theme, and the legacy key is not read any more.
- *No inspector under `--verbose`.* The web's output is printed before it is
  looked at, so its readiness is never seen; everything after it, signal
  handlers included, waits too.

Observed while modelling, and contradicted by no document:

- Search: `handleRetry` asks again for a section whose search is disabled, and a
  failed "load more" next to an empty section reads as "no results"; the retry counts
  allow one attempt more than they name; bare values next to appended ones are dropped
  without a word; Enter on the multi-select depends on when React draws.
- Settings: a storage event does not repaint the theme; a choice whose write fails
  (`safeSet` swallows the error) is shown by its own tab, until its next storage event
  or page, and by no other.
- Header: a failed `/api/me` with a hint leaves the skeleton.
- Account: a page of keys may stay open while another tab signs in as somebody else.
  A key revoked from it is then not found (the API revokes a key of the viewer's), the
  404 is taken for a key revoked already, and the key is active; `AccountPagesAreTrue`
  is about one's own keys. A new key is shown by whichever tab's page takes its
  cookie first.
- Random poem: a body that breaks off rejects the run, and the button keeps loading
  (`BodyBreaks`).
- Sitemaps: the empty corpus has a shard in the index that is a 404; a page of a
  listing that is answered 400 or 404 is left out, any other failure fails the sitemap.
- Smoke run: when the second caller of the teardown returns at once a surface may be
  left up, as it is by a stack that fails to come up; a `docker compose down` or a
  clean-up that fails changes nothing of the exit code (`smoke/run.ts:285-286`,
  `336-343`). With `--suite` and a name that no suite has the run is green after the
  checks alone; `--suite` without a surface before it is taken for an unknown surface
  (`docs/exceptions.md:137`), which ends the run before the model begins.
- Scripts: a snapshot during a swap mixes two generations, or has no mappings; the
  drain takes an hourly refusal in the last seconds of the hour for one of the burst;
  a rollout that stopped keeps its doubled count for good, and one that is cut off
  between `docker stop` and `docker rm` leaves stopped containers that `docker compose
  up` may start again, which is not modelled.
- Corpus: the half of the calibration that recalls anchors cannot fail; a refused
  verification leaves the transitions of an older one in place.
- Inspector: its pattern excludes the siblings of a dynamic page by prefix, all but
  the last, which today's page files give no occasion to.

### Bounds

Constants called `Max...` in the modules bound what the code leaves open, and each
is named as a bound where it is declared; `MaxTracked`, `MaxEntries`, `MaxActive`,
`MaxPage` and `MaxDelay` are the code's own numbers, most of them scaled down.

- Limiter: an "hour" of two seconds and a burst window of one, so that a
  behaviour of three seconds contains the turn of both; ceilings of one to three;
  two requests in flight, which is what the wrong order takes; two addresses and
  none, which make seven buckets for a map that is trimmed at four; no more
  arrivals after four charges. The orderly environment leaves the charges
  effectively free (the ceilings bound the admissions) and gives the user two keys.
- Cache: a lifetime of three, a failure lifetime of one, a lookup that can span
  a second: entries of both kinds expire within the five modelled seconds and an
  old lookup can end after a newer one. One key changes; two entries and four
  keys fill the cache.
- Keys: three creates and two issue-key runs around a ceiling of two.
- Sign-in: three sign-ins of two identities, which is enough for one account to
  be joined, renamed and contested; two emails that change three times. The
  proofs hold for any number.
- Header: two tabs, two people, two sessions and loads, one control a tab: two
  controls of one tab differ from those of two tabs only in leaving together.
- Usage: two processes, as in a rollout, and two rows, the least that can be
  locked crosswise; four requests and one fault.
- Indexer: two pages, so that an index can be partly filled; three launches and
  versions (a run that fails, one that is killed, one that sweeps), two mappings.
  The overlap needs two runs.
- Scripts: all services of `dev/run.ts`, two signals, three exit codes; a phase of
  each kind with an advisory task; a parallel suite, a serial one and the checks, on
  all three surfaces, with every filter and one that names no suite; two aliases
  with three generations and pages of two; an hour of four ticks with three
  requests; three deploys; poems of one to ten rows in both layouts, at the
  thresholds of the verdict; two dynamic shapes with their siblings, four lists of
  links, and a budget of five fetches, which the crawl can use up.
- Site: two tabs wherever tabs share something; two acts of the search's user over
  three links, after which every answer, failure and page count is possible; three
  attempts and a budget that ends inside the third; three changes of the settings,
  any of which may not be stored; a corpus of five, two and no slugs in pages of
  two; both providers, two people, two sign-ins and one key, which is what it takes
  for a page of one to be posted as the other.

Runs end where a bound is reached, and so do the systems modelled between two
requests: deadlock is not checked, and the liveness properties say what must not
get stuck. Symmetry is used over interchangeable requests, keys, sign-ins, people
and tabs, in runs without liveness only.

### Fairness

`MCBackground` assumes weak fairness of two unions of steps, `OwnSteps` and
`OtherSteps`, `MCWeb` of one. Only one component runs in a behaviour, so that
fairness of a union is fairness of that component's part of it:

- usage: of each process's flusher. `main.rs` runs it on an interval for ever;
  PostgreSQL ends a statement that waits for a row by `lock_timeout` (set in
  `main.rs`) or its deadlock detection.
- indexer: of the steps of a live run. Every request has a timeout and every
  loop is over a finite corpus. That a run is started, or succeeds, is not assumed.
- development supervisor: of its own steps, and apart from them of its grace
  timer. That a service announces itself, exits or obeys SIGTERM is not assumed.
- gate: its tasks end. Smoke run: the steps of a teardown, each of which ends by
  the grace and SIGKILL or by the end of `docker compose`.
- search, random poem, pages: a request is answered or given up by its timeout;
  a pause ends. Account pages: the same for the requests of one tab, whose visits are
  the ones `VisitsAreAnswered` watches; the other tab, which is no different, is
  promised nothing.

Users, signals, failures and other tabs owe nothing.

## What is proved

For all values of the constants that satisfy the named assumptions of each module,
from its specification: `LimiterConstants`, `CacheConstants`, `KeysConstants`,
`SignInConstants`, `UsageConstants`, `CodesAssumption`, `SignalsBound`,
`CiConstants`, `SmokeConstants`, `QuotaConstants`, `SnapshotConstants`,
`CorpusConstants`, `SelectConstants`, `DecimalsAreNumbers`, `SearchPageConstants`,
`SettingsConstants`, `RandomPoemConstants`, `SitePagesConstants`, `CrawlConstants`,
`PagesAreLaidOut`, `LinksAreClear`. They say that sets that are summed or counted
are finite, that bounds are numbers, that no corpus has more pages than `MaxPages`,
that the options of a filter are slugs, each once, that a row of a poem has a
hemistich and a hemistich a letter (`parseRows` drops the others), and of the phases
of the gate and the suites of the smoke run that a task or a probe is in one place
and that only a pool has advisory tasks, as `ci/phases.ts` and the suites have it.
Three are about what the repository holds:

- `SearchPageConstants`: the options of a filter are transliterated slugs, each
  once and at most a hundred (`taxonomy-options.gen.ts` has 12 eras, 44 meters, 36
  rhymes, 10 themes and a collection), the default eras are among them
  (`taxonomy-data.test.ts`), a link of the site holds what its form could, and a
  search has no more pages than `MaxPage`, because the engine counts no hits beyond
  its window (`track_total_hits`, `es/query.rs`).
- `PagesAreLaidOut`: in the files of `apps/web/src/pages`, `[slug]` and `index` are last
  names, no two files are one shape, and a route that a dynamic shape could take
  for an example lies beside it.
- `LinksAreClear`: the slug of a poem has four letters and begins with the name of
  no route beside it, so that excluding those routes by prefix loses no example.

TLC evaluates them in the passing runs. Two proof modules name further assumptions,
which their theorems repeat: `IndexerBounds` (the bounds are numbers),
`OneRunAtATime` (one indexer runs at a time: with two the alias can go away,
which the run `indexer_overlap` shows) and `RolloutSetup` (the services have
different names and start with a container each).

| Module | Theorems | The inductive invariant, and why |
|---|---|---|
| `RateLimiterProofs` | `TypeCorrect`, `ChargedOnlyForAdmissions`, `RefusalsAreJustified`, `TrackedIsBounded` | `LimiterInv`: a window's count is covered by admissions of the same window, whatever `WindowFor` resets, and the history of admissions only grows, so a refusal stays justified. A window that is new starts at zero, which is why stale instants cannot overcharge. |
| | `CeilingsAreRespected` | `CeilingInv`: until an open window is forgotten, whatever was admitted in a window that is still open is counted in the map (`OpenWindowsAreTracked`), and the map has open for a bucket the window of this instant (`OpenWindowsAreCurrent`), so that the comparison with the ceiling sees every admission. A window that is over admits nothing more. |
| | `UsageAgrees` | Inductive as it stands, but a sum over the user's keys, of which one grows: `SumOfOneChanged`. Both counts depend on the hour of the same instant, whatever was forgotten. |
| `KeyCacheProofs` | `CacheTypeCorrect`, `RevocationIsHonoured`, `EntriesAreTruthful`, `CacheIsBounded` | `CacheInv` adds that no lookup is from the future and that an answer on its way was true at some instant since the lookup began (`ReadsWereTrue`). An entry is stamped with the beginning, so a truth at or after its stamp is carried by every later change of the database (`HeldStays`). |
| `AccountsProofs` | `KeysTypeCorrect`, `CeilingIsKept`, `PortalIsSerialised`, `KeysAreStored` | `KeysInv` adds `RowInv` (who is inside the transaction holds the row, and no issue-key insert is under way) and `CountInv` (the count is not exceeded while the transaction lasts), which makes the count still true at the commit. |
| | `SignInTypeCorrect`, `EmailsAreUnique`; and if sign-ins of one identity do not overlap or emails do not change (`Steady`): `IdentitiesStay`, `AccountsCanBeReached`, `SessionsAreOfTheirAccount` | `EmailInv` adds that two transactions never write one account or one email, and that a written email is reserved until the commit: each is what the wait of `EmailIsFree` gives. `StayInv` adds that what a transaction found of its identity is still so at its commit, either because nobody else signs it in (`UnknownStays`) or because the email leads to the same account (`EmailsAgree`). |
| `UsageRecorderProofs` | `RecorderTypes`, `RecorderAccountable` | `UsageInv`: the type without its bounds, that a statement only asks for rows of its own batch (`TodoIsOwn`), and the property. Each action moves one process's share of a row between memory, table, dropped and lost; the sum over the processes changes by that share (`SumOfOneChanged`). The bounds of the type follow, as no part of a sum is more than the sum. |
| `SearchIndexerProofs` | `IndexerTypeCorrect`, `AliasStaysWhole`, `DoneRunsServe`, `RebuildsSweep`, `IndexerImplementsPublishedIndex` | `IndexerInv` says of each place of a run what it has achieved: the pages the target holds already, that no other name is higher than the target's when the swap comes, which indices the cleanup has still to delete. What an alias serves is then a function of `alias` and `published` (`View`), only `SwapAlias` changes it, and each swap is a step of `PublishedIndex`. |
| `ScriptsProofs` | `DevSessionsEndCleanly` | `DevInv` says which services can live at each place of the supervisor (`Reached`) and that the set a shutdown stops covers them, because that set is worked out from the supervisor's place and not from what runs. |
| | `DeploysAreSafe` | `RolloutInv` tells the containers a deploy keeps from those it is going to stop (`Kept`): the kept ones are as many as it found, new, and healthy by the time the others are stopped, so a mixture left by an interrupted deploy is counted once and replaced whole. |
| | `GateHonest` | `CiInv`: a task has left "waiting" exactly if it is of a selected phase that is over or among those taken from the one under way (`Begun`), and none of them has failed (`OnCourse`); what runs is of that phase and fits its width (`PoolFits`). When no selected phase is left, every wanted task has begun, and none runs. |
| | `SmokeRunHonest` | `SmokeInv`: the workers have taken exactly the probes this surface sees before the place of the run (`InStep`), those under way fit the pool of their group (`SendingFits`), and an exit code of zero was decided when all were judged (`EndsGreen`). `TeardownInv` says who has called the teardown and what is stopped at each of its steps, from which it follows who can leave before it is over. |
| | `QuotaVerdicts` | `QuotaInv`: within the first hour, what the probe still plans and what the limiter has counted add up to more than the quota unless it was refused, so that it cannot run out of requests before the limiter does. |
| | `DigestsFaithful` | `SnapInv`: the digest under way is in order, and as long as no alias has moved it is its index up to the last document it lists (`Partial`), so a page without hits says that it is whole. That a page leaves no gap is `PageIs`: the ids of a finite index are ranked by how many come before them (`BeforeGrows`), and every rank below their number is taken (`NthIs`), as an injection into as many is onto. That the comparison is exact is `DifferenceIsExact`; a list in order is as long as its documents are many (`OrderCounts`). |
| | `SoundVerdicts` | `CorpusInv`: what is written and turned into SQL was calibrated; the rest is about any poem. Without stars the second hemistichs are every other line, one of the two readings of such lines (`LayoutIs`): if the lines as they stand are preferred, their rate is as high (`HalfRhymes`). Lines that share two letters all rhyme (`SharedRhymes`), because the commonest letter is counted once for each line (`DominantIs`). |
| | `InspectionHonest` | `CrawlInv` says of every path that was visited what came of it: it is awaited, it was fetched, or no shape still looked for takes it (`CrawlTries`); of every section that its page is usable and that no other has its shape (`CrawlResolved`); and of every fetch what it was spent on: a section, a page of no use, or the answer that is awaited (`CrawlCounts`). When the queue is empty, a shape without an example has none among the links of any page; the budget is kept because sections have different shapes, and there are no more shapes than pages (`ShapesCount`). |
| | `DevTypes`, `CiTypes`, `SmokeTypes` | From `DevInv`, `CiInv` and `SmokeInv`. |
| `WebProofs` | `HeaderNamesOnePerson` | `ViewerInv` adds that a stored viewer's URL is that of who is named (`Genuine`), which is what makes a picture safe to reuse, and that an answer is of the session the control asked with or of nobody. |
| | `ShownWasAskedFor` | `CacheInv`: an entry of the query cache holds the pages one, two, three of its own key, and so does a fetch on its way (`EntriesFor`), which asks with the input of its key whatever the URL has become; what `Observe` and a retry leave behind are such entries. |
| | `PageNeverRejected`, `SearchPageTypes` | Of the operators: what the serializer writes of a list, the parser reads as it was and under its bare name only (`SentIsRead`, from where `FlattenSeq` puts each part, `FlattenPlaces`), so it is neither malformed nor mixed (`EntryIs`); an input of what the form lets through is accepted for every page up to `MaxPage` (`GoodIsAccepted`), as a choice of options is never longer than the options (`ChoicesAreAccepted`). `OwnInv`: such are the URL and every search in the cache, because choosing, clearing and typing keep it. That the page asked for exists is what the page before it said (`AskedIsPromised`, with `CacheInv`). |
| | `MenusAreRight` | `SelectInv`: the choice is a list of options without repetitions (`Chosen`), which dropping some of it keeps (`WithoutIs`), so that comparing lengths is comparing sets. |
| | `TabsSettle` | `SettingsInv`: what is stored parses to what was last wanted of what could be stored, because a patch replaces its own field only; and a tab with no event to come has no copy or one that differs from what is stored in fields it failed to store. |
| | `PoemWithinBudget` | `RandomInv`: a run that pauses has an attempt left, and its clock is within the budget, which is compared again when the pause ends. |
| | `PagesAreTrue` | `PagesInv`: a sign-in that nothing has disturbed carries the state that is in the jar (`InTheJar`); whoever is on the way to a session was verified, and has an account before the session (`OnTheWay`); a key that a tab calls revoked to its owner was made, is not active and will not be again (`KeyIsGone`), so that no page that is rendered later lists it. |
| | `RenderedPagesAreTrue` | `SiteInv`: of a visit that no reseed disturbed, an answered call says what the corpus says (`CallsHold`), and a visit that asks for the rest still has its first page, which said what the rest is (`VisitHolds`). What remains is arithmetic of pages (`PastTheEnd`, `SliceIs`) and that the pages, one after the other, are the listing (`ListingIs`). |

TLC checked each inductive invariant on a small instance before it was proved.

Types are proved, and not checked by a run of their own: `TypeCorrect`,
`CacheTypeCorrect`, `KeysTypeCorrect`, `SignInTypeCorrect`, `RecorderTypes`,
`IndexerTypeCorrect`, `DevTypes`, `CiTypes`, `SmokeTypes` and `SearchPageTypes`; the
types of the remaining modules are part of the invariants above.

*Induction over data.* The library's induction theorems take an operator as
a parameter and cannot be used. A set of naturals has a least element
(`LeastNatural`) and a set of finite sets a smallest one (`SmallestSet`),
though, which the library's theorem on well-founded orderings gives without
such a parameter; an induction is then a minimal counterexample. `DataLemmas`
proves in this way what the fold `SumFunctionOnSet` of the community modules
yields, which the recorder and the limiter need, and what the fold `FlattenSeq`
yields (`FlattenIs`, `FlattenPlaces`), which the pages of a sitemap and the
parameters of a request need. Sorting and filtering need none: they are
defined by ranks (`Ranked`), and what a rank is follows from counting
(`BeforeGrows`, `NthIs`, `ElementsAre`). Every other function defined by recursion
over sequences would take one such argument.

What is only model-checked:

- liveness (`PendingIsFlushed`, `WorkEnds`, `VisitsAreAnswered`): it rests on
  fairness and ENABLED, which are outside what TLAPS proves here;
- `QueriesAreUnderstood`: a table of probes against the parser, finite by itself, so
  that TLC's evaluation is complete;
- the seven violations, which are behaviours and not theorems.

## Not modelled

The read routes, their domain modules and the Elasticsearch queries are stateless
conversions over an immutable corpus; so are the client address, HTTP headers,
configuration, and the endpoint and schema the API shares with the indexer. Pages
render; metadata and markup have no state. The telemetry proxy forwards envelopes,
the edge gateway is configuration, and generated files hold no logic. What the
inspector says of the metadata of a page is left out. Not modelled inside modelled
parts: an interruption between `docker stop` and `docker rm`, the reseed of the
database, requests that Elasticsearch applies long after their timeout, garbage
collection of react-query's cache, and what the probes of the smoke run look for in
bodies other than the search's. `PROJECT.json` has each part with its reason.

## Plan

1. Done: the modules above; theorems for the limiter, the cache, the accounts,
   the recorder, the indexer and its abstract specification, the rollout, the
   development supervisor, the gate, the smoke run, the quota probe, the header,
   the search page, its requests and its menus, the settings, the random poem, the account
   pages, the rendered pages, the snapshots, the corpus tools and the inspector.
   Every safety property of a passing run but the table of probes is a theorem.
2. Theorems: `SearchIndexer` for overlapping runs of which none rebuilds.
3. `Admission`: `RateLimiter`, `KeyCache` and `UsageRecorder` composed, with the
   abstract promise that what is recorded is what was admitted.
4. Pure operators against reference definitions: `client_ip.rs`, conditional
   requests, the snippet of a search hit.
