# jfin2etv in TLA+

A verification project for jfin2etv: the program that evaluates channel scripts
in Ruby, resolves their queries against Jellyfin, plans three days of every
channel and publishes playout files, guides and a lineup for ErsatzTV Next.
Paths below are relative to the repository's root (`src/` in `PROJECT.json`).

* `*.tla` – the specifications, their model-checking modules (`MC*`) and their
  proofs (`*Proofs`);
* `*.cfg` – one TLC configuration per question asked;
* `PROJECT.json` – which definition stands for which lines, which run checks
  which property, what mutation of the code each property catches, the hazards
  of the code and the disagreements found.

## 1. The system

| Component | State it keeps | Operations | Hard behaviour |
|---|---|---|---|
| Ruby DSL and runner (`lib/jfin2etv/`) | `Plan.current`, one process per evaluation | `channel`, `collection`, `filler`, `layout`, `schedule`/`block`/`default_block`; serialisation | checks made here have to be the ones the planner relies on |
| Ruby bridge (`ruby_bridge.py`) | none | `invoke_plan`, `invoke_variant_selector` | blocks the event loop; time limit of 30 s |
| Query language (`jellyfin/query.py`) | none | parse, `canonical`, field collection | precedence, bounded NOT |
| Resolver (`jellyfin/resolver.py`) | a cache per run | `resolve`, `_eval` | one await per answer; set semantics of lists |
| Jellyfin client (`jellyfin/client.py`) | none | `items` (paged), `resolve_*_id` | pages by position over a library that changes |
| Planner (`planner/expander.py`, `fillers.py`, `alignment.py`, `midnight_split.py`, `time_utils.py`) | locals of `expand_day`: cursor, pickers, items, programmes | walk over the day, block and default expansion, breaks, fills, midnight split, guide | nanosecond durations on a microsecond clock, boundaries, termination |
| Variants (`planner/variants.py`) | none | `resolve_variant`, `apply_variant` | tables that do not answer for a day |
| State store (`state.py`) | one SQLite file per channel | open and recover, schema, one transaction per run, prune | crashes, two processes, the write lock |
| Orchestrator (`orchestrator.py`) | files under the output folders, run markers | `run_once`, `_run_channel`, merge, lineup, collection | concurrent channels, partial failure, two processes, time passing |
| Daemon, health, CLI (`daemon.py`, `server.py`, `cli.py`) | the scheduler | cron job, `/healthz`, `once`, `gc`, `status` | overlap with the command line |
| Output (`output/*.py`) | files | playout JSON, XMLTV, lineup, channel config | some files are replaced atomically, others written in place |

A run goes: daemon or CLI → `run_once` → one `_run_channel` per channel (at
most `channels_in_parallel` at a time) → Ruby → resolver → store opened and
locked → per day: is there a fresh file? else `expand_day` and `write_playout`
→ channel.json and guide → commit; after all channels merge, lineup,
collection, marker. Channels share the event loop, processes share the files
and the stores.

What makes each part correct:

* **planner** – the walk ends; fills land exactly on their boundary and never
  pass it; a default block stays in its gap; nothing local crosses midnight;
  a main cut by breaks and by midnight airs whole; the guide matches the air;
* **schedule** – a day gets the blocks its script asks for, a table selects
  declared variants only, a script that was accepted fails on a day only for a
  reason its author can be told;
* **resolver** – a pool is what the query's text says, once per item, the same
  for the same query, and the resolution ends;
* **run** – fresh days are left alone, a forced run rewrites, guides list days
  that have a file, what is listed is published, the store is never ahead of
  the files, every run ends and frees its lock;
* **publishing** – a file is torn only while its writer is in it, or if it died
  or failed there; a merge trips over nothing but another process's write; the
  merged guide is not behind the run that wrote it; collection takes no day
  another process has just written, unless it had seen the old one;
* **store** – no row without an outcome, no play without its run, the version
  row stands for a whole schema, committed rows stay: to a reader the file is a log.

The hazards list in `PROJECT.json` names the line at which each of these bites.

## 2. The modules

| Module | Models | State and actions |
|---|---|---|
| `TimeGrid` | `time_utils.py`, `alignment.py` | pure: instants in µs, durations in ns, `CeilToNext` with its grid that restarts every hour, `TargetEnd` |
| `Fillers` | `fillers.py`, `_split_main_for_mid_rolls`, `midnight_split.py` | pure: items, chunks, break budgets, trims, halves |
| `DayPlan` | `expand_day` and all it calls | variables are the locals of the Python functions (`cursor`, `idx`, `here`, `limit`, `out`, `chunks`, `budgets`, `picker`, …); every placement, skip or decision is a step |
| `MCDayPlan` | | families of plans |
| `DayPlanProofs`, `OverlapProofs`, `MediaProofs` | | nine theorems, section 6 |
| `Lists` | the list comprehensions and loops of `resolver.py`, `expander.py` and `schedule.rb` | pure: `Kept`, `Once` |
| `Schedule` | `block`, `default_block`, `to_h`, `_applies_today`, `variants.py` | pure |
| `Query` | `query.py` | pure: what the calls of the parser read from each place on, nested once more each time, and what a text says of an item, read without the parser |
| `Resolver` | `_resolve_pools`, `QueryResolver`, `JellyfinClient` | `frames` are the calls of `_eval` under way with what each has found so far, `found` what the last one to return has, `page` the listing being fetched; one action per call, return and answer; the library (`shelf`) changes between answers |
| `Channel` | the DSL, the runner and the bridge; `_run_channel` up to the expansion of its days | composes `Schedule` and `Resolver`: one action per statement of the script (`channel`, `collection`, `filler`, `layout`, `block`, `default_block`, the end of `schedule`), then the resolution, then one per day of the window |
| `MCChannel`, `QueryProofs`, `ChannelProofs` | | queries, schedules, libraries; nine theorems and the facts about lists they rest on |
| `RollingWindow` | `run_once`, `_run_channel` from the store on, `_gc`, the daemon's job, `once`, `gc` | shared files, guides, lineup, locks, committed rows, markers; per run and channel where it is; one action per write, check, failure, signal, crash |
| `MCRollingWindow`, `RollingWindowProofs` | | two runs; seven theorems |
| `Publish` | `output/*.py`, the write probe, `_merge_xmltvs`, `_gc`, `_finalize`, call by call | which file is torn, shared, by whom; what epg.xml has of each channel; per process where it is, what it has open, read and seen; the days are absent, old or fresh |
| `MCPublish`, `PublishProofs` | | two processes, two channels; five theorems |
| `RunLog` | what `state.py` promises its readers | rows, plays and query; a run is logged whole, or the log begins anew |
| `StateStore` | `state.py` under concurrent openers | the file as committed, the writer's draft, one record per connection |
| `MCStateStore`, `StateStoreProofs` | | two sessions; seven theorems; `StateStore` implements `RunLog` |

The modules meet at their inputs. `Channel` ends with the blocks and collections
of a day, which is what `DayPlan`'s `plan.active` and `plan.pool` hold.
`RollingWindow` takes that chain as the outcome of its steps `Plan`, `Resolve`
and `WriteDay`. `StateStore` opens up `OpenStore` … `Commit` of `RollingWindow`
at the grain of single SQL statements, `Publish` its writes, its merge and its
collection at the grain of single calls to the file system. The two views
complement one another: `RollingWindow` has time, the daemon and windows of
several days, and each of its writes is one step; `Publish` has a window of one
day and no clock – a day's file is old or fresh – and every write is two. What
both rest on, that a channel's own files are written under the lock of its
store, is `Locked` in the proofs of the one and what the mutant of
`TornHasACause` breaks in the other. `RunLog` is what is left of `StateStore`
for someone who only reads the committed file; its variables are the fields of
`db` (`Log == INSTANCE RunLog WITH …`).

Conventions: an item is its pool, its number, its duration and its in and out
points; titles, paths and metadata are left out. A query text is a sequence of
tokens; an atom is true of a set of items. A playout file is its day, whether
it begins at midnight, its end and its modification time. A definition whose
name has an underscore (`Skips_IgnoresForce`) is a slip: what the definition
below it would be with a plausible mistake in the code. No module uses it, it
documents which mistake a property catches (`mutants` in `PROJECT.json`).

## 3. The runs

| Run | Distinct states | Shows |
|---|---|---|
| `day_plan` | 767 000 | type correctness; `FillStaysInside`, `FillLandsOnTarget`, `NothingCrossesMidnight`, `DefaultStaysInside`, `MediaAirsWhole`, `OverlapNeedsOverrun`, `BreaksKeepTheAnchor`, `GuideMatchesAir`, `Terminates` for every plan of the families |
| `channel` | 659 000 | type correctness; `PoolsFollowTheText`, `NothingTwice`, `SameQuerySamePool`, `TablesNameVariants`, `SplitSlotsAirOnce`, `FailuresHaveAReason`, `ChannelEnds` |
| `rolling_window` | 2.2 million | `FreshDayUntouched`, `ForcedRunRewrites`, `GuideHasFile`, `StoreNeverAhead` with two runs of one channel |
| `rolling_window_live` | 258 000 | `EveryRunEnds`, `LocksAreFreed`, `ListedIsPublished`, `MarkerIsComplete` with two channels and one worker |
| `state_store` | 43 000 | `EveryRowHasOutcome`, `PlaysComeWithTheirRun`, `StampMeansComplete`, `HashIsOfTheLastRun`, `CommittedStays`, `SessionsEnd`; `ImplementsRunLog` |
| `publish` | 1.4 million | `TornHasACause`, `OnlyAnotherTripsTheMerge`, `EpgNotBehindItsRun`, `DoneHasItsDay` |
| `day_plan_overrun`, `rolling_window_collect`, `rolling_window_rerun`, `state_store_schema`, `resolver_bound`, `publish_probe` | | a documented claim the code does not keep, section 7 |

### Bounds, and why they are enough

* **MCDayPlan.** A day is three hours of four microseconds; two nanoseconds
  make a microsecond and two microseconds a millisecond, so that all three
  roundings of the code (placement to µs, in and out points to ms, the hourly
  grid) lose something, in a day short enough for TLC. `align` is 3 or 5, which
  does not divide the hour, or 4, which does. The families: one block with
  every layout, count and alignment; two blocks near enough to collide, or at one
  anchor; a block
  of an unknown collection; only the default block. `count` is none, 0, 1 or 2. Durations include ones that
  are not whole microseconds, that fit nowhere, and a main longer than the day
  has left. No default pool consists of items below a microsecond (section 5).
* **MCRollingWindow.** Two runs are what it takes for a check to go stale. The
  window is two days of two ticks, and all its days are written at once, so the
  last one's file can get old while its day airs, as with three days and 48
  hours. In `rolling_window` `Behind` is one tick and the clock stops with the
  beginning of the second day (`LastTick`), by when files written at first are
  old and files written since are not; a file starts at midnight or later
  (`Names`), so that days whose file `_existing_playout` does not find, and
  second files of a day, are among the states; runs are the daemon's, which
  respect fresh days, and the command line's, here with `--force` and from the
  first day. The other three have one name and command-line runs of every kind,
  or in `rolling_window_live` those without `--force`. `rolling_window_collect`
  and `rolling_window_rerun` have `Behind` one day and a clock that goes on to the
  last tick of the window.
  The live run has two channels, one worker slot and no clock, since waiting is
  between channels and processes. One excuse of `FreshDayUntouched`, a run that
  has taken another file of the same day, takes more runs than these to matter:
  there the proof is what covers it, as it does two runs of two processes that are
  both without `--force`.
* **MCStateStore.** Two sessions race for the schema, the lock and the
  recovery; two statements of the schema script are enough to fail between
  them, and `state_store_schema` has all four. One corruption (`MaxFaults`) and
  one change of day (`LastDay`).
* **MCPublish.** Two processes: whatever goes wrong here is one process's call
  between two of another's. The first covers both channels, the second only one
  and is forced, so that a file under a lock both want, a file of one process
  alone, and the two files nobody has a lock for are all there. A day is absent
  or old at first, by which a collection is due while the other process writes.
  Any write may fail and any process may die between any two calls; no bound
  is needed, for a process runs once.
* **MCChannel.** Pages of one item make every listing a paged one; two changes
  of the library (`MaxChanges`) – one comes and one goes, or two of a kind – fall
  at any point of any listing. Fourteen
  texts cover every construct of the grammar, precedence both ways, a NOT on
  either side of its bound, nested under a NOT, and without one; malformed
  texts and values; each is followed by a second query, which may be equal up
  to parentheses. Two libraries under two meanings of the atoms. Twenty-one schedules
  cover each check of the builder, passed and failed, layouts that do not exist,
  and each kind of `on:` and selector, from every weekday on, so that every day
  of the week is planned; ten more scripts leave out the channel or the
  schedule, or declare something twice or wrongly.

Deadlock is not checked: a planner that is done, a run that has ended, a
process that is over and a database nobody has open do stop. That they do not stop too early is what the
liveness properties say.

## 4. Fairness

Each is weak fairness of the program's own steps; no failure, crash, clock tick
or change from outside is ever forced to happen.

* `DayPlan`: the planner is a sequential function, nothing holds it up.
* `RollingWindow`: `WF(RunStep(r))` for every run. A started coroutine is
  resumed by the event loop as long as its process lives, and the steps that
  end a run by a crash are not part of it.
* `StateStore`: `WF(Open(s) \/ Body(s))`. SQLite's busy handler gives up after
  five seconds, so a session that waits for the lock fails rather than hangs.
* `Channel`: `WF(Load)`, `WF(Resolve)`, `WF(PlanDay \/ Finish)`. Ruby is killed
  after its time limit and every HTTP request has one. `RequestFails` is no part
  of `Resolve`: paging has to end by itself, not because requests fail.

## 5. What is not modelled

* Daylight saving in real time. The code adds and subtracts wall-clock values of
  one time zone, and so does the model, where a day has one length; that two
  days of the year last an hour less or more for the player is not modelled.
* A default pool of nothing but items shorter than a microsecond.
  `expander.py:611` would place them for ever; Jellyfin's durations are
  multiples of 100 ns, so such items would be damaged ones. Pools with one of
  them among others are checked.
* `weighted_random`'s weights and seeds: a random pick is any pick.
* Wording, titles, categories, JSON and XML layout, ffprobe (no caller),
  configuration and logging. Checks that look at one argument of one declaration
  (a count below zero, a transcode option) are one flag of the statement.
* Temporary files: a process killed between `mkstemp` and `os.replace` leaves
  `.playout-*.json.tmp` behind, which neither `_existing_playout` nor `_gc` takes
  for a day (`glob("*.json")`) and nothing removes.
* A first opener's switch to WAL: whether SQLite answers a second one with
  "locked", which `_connect_or_recover` would take for corruption, is below the
  grain of `StateStore`.
* A `finish_run` that raises inside the `try` of `_run_channel` and succeeds when
  its handler calls it again: what fails the first (`orchestrator.py:292`) is taken
  to fail the second (`:295`) and leaves as an exception, as a failing commit of
  `__exit__` does. `CommitFails` is both.
* `StateStore.set_cursor` and `last_n_ids`: nothing calls them.

## 6. The proofs

Checked by `tlapm` on `DayPlanProofs`, `OverlapProofs`, `MediaProofs`,
`StateStoreProofs`, `RollingWindowProofs`, `PublishProofs`, `QueryProofs` and
`ChannelProofs`, for every
value of the constants that satisfies the modules' named assumptions
(`TimeGridAssumption`, `FillersAssumption`, `DayPlanAssumption`: positive units
and lengths, a day of whole hours, plans of the right shape with their blocks in
the order of their anchors, as `expander.py:353` sorts them, a local filler has its
file, no kind of filler is called main; `StateStoreAssumption`: `NoSession` is no session, there is at least
one table; `RollingWindowAssumption`: finitely many runs and channels, `NoRun` is
no run, positive lengths; `PublishAssumption`: every process has its channels,
`Nobody` is no process; `ResolverAssumption`: a page holds something,
`NoList` (Python's `None`) is no list, a text is a sequence of tokens and its atoms
are among `Atoms`; `ChannelAssumption`: the library lists nothing twice when a run
begins, a collection has a text and a filler a text or none, every block
statement has the end of its schedule behind it and declares variants that are
not called `Own` or `Raises`, the model's names for the block itself and for a
selector that raises).

**DayPlanProofs.** `TypeCorrect` proves `TypeOK` together with `Shape`: work in
hand exists only inside a block; until the black frames of the safety net it
consists of local items; chunks and break budgets go together. Without `Shape`
the type of what is placed next is unknown. On top of it:

* `FillInside` and `FillLands` – `FillInv` relates the nanoseconds a fill has
  `left` to the microseconds between `here` and `target`: a placement drops less
  than it consumes, so `left` never exceeds the room. The lemmas
  `AddNanosInside` and `AddNanosExact` carry the rounding: a duration that fits
  still fits when placed, and the exact rest, placed, lands on the boundary.
* `MidnightSplit` – `MidnightInv`: an item's finish is its start plus its
  duration, black frames end with the day because `TargetEnd` is capped, and
  what the split has passed on is uncrossed.
* `DefaultFitsItsGap` – the look-ahead in nanoseconds suffices for the placement
  in microseconds.
* `GuideIsTheDay` – the guide is what the items of the day make
  of it; `GuideMatchesAir` claims so of days without overlaps (`Tidy`). The lemmas
  are about one more item: `GuideOf` of a list is that of the list before it with a
  programme longer (`Joins`), with one more (`Opens`) or unchanged (`Skips`). The
  invariant says so of the items taken so far, and that the last programme ends
  where the last of them does, which is what the code looks at to decide whether
  to join.

**OverlapProofs.** `OverlapsAreExcused`: if an item begins before another in
front of it has ended, something in front of it ran past a later anchor or had to
share its own (`Excused`). The day is not in order by itself: the walk goes back to
an anchor it has passed. So `WalkInv` says of the items and of what the expansion
in hand has placed (`Day`) that they are in order but for an excuse (`InOrder`),
have ended by now but for an excuse (`UpTo`), and are of a block the walk has come
to or keep out of those it has not (`Anchored`). `BackToTheAnchor` is the step all
of it is for: what reaches past the anchor the walk goes back to is of an earlier
block, hence excused. `CutInOrder` shows that the cut at midnight makes no overlap
of its own.

**MediaProofs.** `MediaIsWhole`: a main that is not played to its end is taken up
where it stopped, and one that starts within its media takes up one before it.
What stops is long placed when what goes on is still in `chunks` or in the work
in hand; so `WholeInv` speaks of the day so far and of what is left of the main
(`Pieces`): each piece in the day is linked to the next with nothing but fillers
between (`Linked`), the last one waits for the first piece left (`Waits`), and the
pieces left form a `Chain` to the end of the media. `OnMain` and `Filling` say that
only the head of the work in hand is ever a main's, so fillers come between pieces
and not into them. `ChunksChain` is the fact about the split at breaks;
`CutAired` and `HalvesGoOn` carry the claim over the cut at midnight.
`BreaksKeepAnchors`: one main and its breaks keep the next anchor if the main alone
does. It is a claim about a sum, and a sum is recursive; so `AddsUp`, `PiecesFit`
and `Consecutive` say that there is a function giving, from each position on, what
is left to place. `EvenShare` and `BudgetsShare` find it for the budgets, whatever
the sign and the remainder of the division; `ChunksFollow` for the pieces;
`MainFits` adds the two up to what the main leaves before the anchor. `BreakInv`
then says at every step that what is left still fits behind `here`
(`PlacingFits`): a break draws no more than its budget, and dropping each
duration to microseconds (`AddNanosTwice`) only ever gives room back.

**StateStoreProofs.** `TypeCorrect`, then `IInv`, a conjunction of thirteen named
parts, proved action by action (a lemma for each). The file alone is not enough:
a property of what is committed depends on what the one holder of the lock has
in its draft. `Locked` says who that is, `DraftStamped`, `DraftRows`,
`DraftPlays` and `DraftHash` what its draft is; `Opened` and `Scripted` what a
session knows of the schema; `Lone` that recovery never takes a file others have
open; `RowsClosed` and `HasOutcome` the rows. From it follow `RowsAreWhole`,
`PlaysAreWhole`, `SchemaIsWhole`, `HashIsCurrent`, and with the action property
`RowsStay`.

In the same module `StoreIsALog`: every step of the store is a step of
the log or not seen by it. Only `Commit` logs, and what it logs is the draft; so
`LInv` adds to `IInv` where the draft comes from: `OneQuery` (a run has one
query), `OnlyRunsWrite` (readers never hold the lock), `DraftNew` (plays in the
draft are the file's or the writer's) and `DraftQuery` (so is the query). That the
run was not in the log before is `IInv`'s. A first open and a recovery are
`StartAnew`, or nothing is seen of them.

**RollingWindowProofs.** `TypeCorrect`, then `IInv`, whose parts say what a run
may count on while others run:

* `Locked` – whoever is between `start_run` and its commit has the lock of the
  channel's store; with `lock` a function this is mutual exclusion per channel.
* `DayTaken` – from the check of the day to its rename, what is at its place
  stays out of date or missing. Without `Locked` it is not preserved: another
  run's rename would make it fresh.
* `OneOfAName` and `TakenStays` – a folder has no two files of one name, and what
  a run has found of a day, if it is still there, is what it found. With
  `DayTaken` they give `FreshDaysStay`: who writes beside or over a fresh file
  either is forced or had found a file of another name.
* `Dated`, `FilesOut`, `Logged`, `EndIsLast` – no guide is from later than now, a
  channel past its guide has one since its run started, what has ended is
  logged, and the end of a run begins when all have ended. From them
  `StoreComesLast`, `NothingListedUnpublished` and `MarkersAreComplete`.

On top of it `KInv`: `Kept(c, d, t)` says that a file of day d from t on is there,
or t is more than `Behind` ago. No step of anyone undoes it (`KeptStays`): a rename
over such a file leaves a younger one, and a collection takes it only if it is
old, and then so is t. `WroteKept`, `ForcedKept` and `GuideKept` say it of what a
run has written, of the days a forced run is past and of the days a guide lists;
`ForceRewrites` and `GuideDaysAreThere` are the ends of these.

**PublishProofs.** `TypeCorrect`, then `IInv`, for any number of processes and
channels and with every write split in two:

* `Locked` – whoever is between `start_run` and its commit has the channel's
  lock, here at the grain of single calls; a process that dies gives it back. So
  two processes are in one file at a time only at epg.xml and lineup.json
  (`Authors`), and a channel's files keep the author they have while one is
  between them: `ConfigIsOut` for channel.json, `DayIsOut` for the day. With
  these `TornFilesExplained` and `DoneDaysAreThere`.
* `GuideNotBehind` – the guide of a channel a run has done is its own, or that of
  a process that commits after it. `Later` speaks of the order of commits, and
  `LaterStays` shows that no step takes that back: a process commits to a channel
  once (`Logged`), and who still writes commits later.
* `MergeReads` – what a merge has read is no older than what the run has done, and
  what it has still to read is that; `EpgWriter` – who has written epg.xml is past
  all its channels. With these `EpgIsCurrent` and `MergesFailByOthers`.

**QueryProofs.** First, what the loops over lists do, for lists of any length. A loop is a
recursive function on `0..Len(list)`, so there is first induction over numbers in
a form that needs no operator as a parameter: `LeastNumber` (a set of numbers that
is not empty has a least one), from which `Induction` and `InductionTo` over sets,
and `Recursion` (a function that is one step further at each number exists). On
these: `KeptFacts` and `OnceFacts` (what a comprehension and the loop of an OR hold,
in what order, and that they repeat nothing), `AppendFacts`, `JoinFacts`,
`InsertAtFacts`, `RemoveAtFacts`, and what a list with one item more or less
leaves of a part of it (`PartOfInsertion`, `RemovalIsPart`, `KeptOfPart`).

Then `ParsesWhatItSays`: the tree the parser makes of a text it reads to the end holds
of an item exactly when the text says so, for every text. The two have nothing in
common but the tokens: `Parse` is recursive descent from the left, `Says` splits the
text at its last OR outside parentheses, else at an AND, else takes a NOT or a pair of
parentheses away.

* What a tree says is a recursion over trees, which has no bound to run to. So
  `JudgeStep` builds the expressions bottom up, in two sets, those that hold and
  those that do not (`Apart`: never both), as many steps as the text has tokens. Where
  they end is a *valuation* (`IsValuation(P, V, …)`): `P` a set of expressions with all
  that is in them, `V` those of them that hold.
* What is read from one place on, if anything, is a `Span`: its parentheses are
  `Balanced`, it is `Free` of the words of the levels above outside parentheses, and
  its tree is `Meant`, judged as `Says` reads the tokens it covers. An atom is one
  (`AtomSpan`), parentheses around one make one (`ParenSpan`), so does a NOT before
  one (`NotSpan`), and two with a word between (`TieSpan`): as the right one is free of
  that word, it is the last, and there `Says` splits (`SplitAt`). `ChainSpan` is the
  loop of a level, `ReadsSpan` one more level of calls, `ParseSpan` all of them.

**ChannelProofs.** For every script, query, library and schedule, one inductive
invariant `Inv`, and from it seven theorems. Its parts:

* `TypeOK`, with `GoodPlan` and `IsSeq` for what is built up piece by piece.
* `Phases` – where the run is: nothing is resolved before the script has been
  accepted, nothing planned before all is resolved. `ScriptOK` and `PlanOK` – what is
  still to come of the script: a plan that has been accepted has no two blocks for
  one slot *or another end of a schedule comes*, which refuses it; this is why
  `SplitSlotsAirOnce` holds of what is planned and not of every plan on the way.
* `CallsOK` – the calls of `_eval` under way. Only the innermost may be a NOT with
  nothing to be taken from, and only until it raises; so `Combine` never meets
  one.
* `CacheServes` – what the resolver has answered it answers again; with it
  `OnePoolPerExpression`.
* `ListsOnce` – as long as nothing has come into the library since the run began,
  no list the resolver holds has an item twice: not the bounds and left sides of
  the calls, not the page, not the cache, not a pool. The page is why: an item
  fetched from a position lies behind all that were fetched before it
  (`PageAhead`), and an item that goes moves the others only to the front
  (`RemovalOnce`): it makes a page miss an item, never repeat one. That is
  `PoolsHaveNothingTwice`, and why it excepts items that come.
* `SlotsOK` – each day planned has the blocks of that day, each with a key its
  selector may give. `FailuresHaveAReason` is inductive beside it; the step that needs
  work is `WhyADayFails`, from what `DayFails` chooses to what the property says.

The eighth, `PoolsFollowTheirText`, is that of the resolver's correctness: a pool has an
item that was in the library all along exactly when the query's text says so of it, for
every query, library and size of a page, unless an item went away or a lookup was
refused meanwhile. Beside `Inv` it takes `PoolInv`:

* `TextsOK` – the queries are those of the script's statements, and what is resolved
  has parsed.
* `PoolsFollow` – for *every* valuation, what the run holds follows from it; the one of
  `ParsesWhatItSays` is chosen only at the end. Of the cache: an answer has the item if
  its expression holds. Of the calls under way, by the stack (`StackFollows`): whether
  a call has to return the item (`Due`: its bound allows it and its expression holds)
  is what the call above it waits for (`Owed`), the `left` side found so far is right,
  and only the innermost has atoms beside its AND still to ask for (`NothingNear`).
  `StackPush` and `StackTail` are a call and a return, `EvalFollows` the steps of AND, OR
  and NOT. Of the page being fetched (`PageFollows`): what has not been brought
  is ahead. `PageFollowsOn` is why the theorem excepts items that go and not those
  that come: one that comes may repeat others, but moves none out of reach.

**Only model-checked:** liveness everywhere, which the prover does not reach. Every
invariant and every action property of a passing run is a theorem.

## 7. Where code and documents disagree

Shown by a run (`findings` in `PROJECT.json`):

| Claim | Code | Run |
|---|---|---|
| `DESIGN.md:565` "No block ever overruns its successor." | mains are placed whatever their length, wraps and post-rolls too | `day_plan_overrun` |
| `DESIGN.md:932` files are removed 48 h after they finish | 48 h after they were written: the last day of a window, written with the others, goes while it airs | `rolling_window_collect` |
| `DESIGN.md:1242` runs are idempotent | a second run takes the days it skips out of the guide | `rolling_window_rerun` |
| `DESIGN.md:1237` the next run picks up after a crash | not after one inside the schema script | `state_store_schema` |
| `docs/scripting/06-query-grammar.md:223` a bound anywhere in the expression is enough | only as a direct side of the AND next to the NOT; `library:X AND genre:Y AND NOT tag:Z` raises | `resolver_bound` |
| `README.md:150` "state_dir … is not writable": the bind mount is owned by root | also said when another process has just unlinked the shared `.write_probe` | `publish_probe` |

Met while modelling, without a run: the model does what the code does.

* `DESIGN.md:1169` a playout file "covers exactly one wall-clock day": both halves
  of an item cut at midnight stay in the file of the day it starts on
  (`expander.py:667`).
* `DESIGN.md:1160` a day "is never modified or overwritten by a scheduled run": it
  is, once its file is 48 hours old (`orchestrator.py:253`); `FreshDayUntouched`
  is what does hold.
* `DESIGN.md:1236` "Every file write is: write(path.tmp) → fsync → rename … Partial
  writes are impossible", `orchestrator.py:10` "Atomically write playout,
  channel.json, per-channel XMLTV", `DESIGN.md:1484` "Disk full: … the old state is
  preserved": only playout files are; the others are emptied and filled in place.
  `TornHasACause` is what does hold.
* `DESIGN.md:871` an unknown layout named by a block is a DSL error: it is found
  when the block is expanded (`expander.py:455`), as `DayFails` has it.
* `DESIGN.md:1476` a block whose collection is empty is filled with the fallback:
  it raises, and the channel's run is in error (`expander.py:463`).
* `DESIGN.md:1226` `--force` "deletes and regenerates": it writes, and a file of the
  day with another end stays beside the new one.
* `DESIGN.md:1475` the exit code tells whether channels failed: `once` prints the
  errors and ends with 0 (`cli.py:68`); a run that raises ends with 1.
* `docs/scripting/01-channel.md:29` the declared number "is what appears in
  M3U/XMLTV output": the lineup has the folder's (`orchestrator.py:345`).
* `README.md:155` `status` shows "the last successful run": it shows the last one
  that started, whatever its outcome (`state.py:248`).
* `docs/scripting/05-schedule.md:108` "`on: :monday` – Mondays only": any symbol
  but `weekdays` and `weekends`, every range and every Proc lets a block on
  every day (`expander.py:412-425`). Two blocks with different `on:` at one
  anchor can then both apply; the first gets no room, and what it places overlaps
  the second (`DoubleBooked`; `DESIGN.md:549` has them rejected).
* A variant key a Proc returns and the block does not declare falls back to the
  block's own collection; `DESIGN.md:612` calls it a DSL error.
* The builder looks for the letters NOT anywhere in a query, so `tag:notable`
  without a library is refused (`validation.rb:162`).
* A name lookup that Jellyfin refuses counts as an unknown name
  (`client.py:128`): the pool is empty, or a NOT excludes nothing.
* An item without a duration airs as a stub of one second; `DESIGN.md:969` has
  it rejected.
* The slug is also placed behind the last main (`DESIGN.md:987`).
* Cursors are stored and never read back: every day begins its sequences anew.
* A fixed `count:` of a mid-roll is not used; copies of a local filler are
  drained once, not looped.
* `/healthz` and the gauge of "the most recent successful daily run" look at the
  newest end of any run, whatever its outcome (`server.py:24`; `DESIGN.md:1451`
  "if the last run succeeded").

## 8. Plan

Done, in this order: `DayPlan` with its proofs; `RollingWindow`; `StateStore`
with its proofs; `Query`, `Schedule`, `Resolver`, `Channel`; `RunLog` and the
refinement; `Publish`; layouts and local fillers in `Channel`, signals in
`RollingWindow`; `RollingWindowProofs`; `PublishProofs`; blocks that share an
anchor in `MCDayPlan`; the proofs about guides, `OverlapProofs`, `MediaProofs`;
`QueryProofs` and `ChannelProofs`. Every invariant that a passing run checks is a
theorem.

Left: what the modules say of one another. `Publish` splits the writes of
`RollingWindow`; that each of its steps is a step there or a stutter, with the days
it tells apart as those of two runs, would carry the one's theorems to the other. And
`_enforce_bounded_not` is a rule about fields anywhere in an expression while `_eval`
needs one beside the NOT (section 7): which queries get past the one and fail in the
other could be said of the expression, and proved along the lines of `PoolsFollow`.
