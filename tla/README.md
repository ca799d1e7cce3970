# Verification of Paradigm Intelligence

TLA+ models of the backend in `backend/app`, checked with TLC and, in large part, proved
with TLAPS. The program collects public documents, recognises in them announcements of
companies, scores each as an opportunity to organise an event, ranks the opportunities,
and keeps the log of how they are worked. What must not go wrong is what a person acts on:
the score, the band, the status, the list, the person to call and the next step promised.

## 1. Inventory

### Components

| Component | State | Operations | Interacts through |
| --- | --- | --- | --- |
| Scoring engine (`scoring/`) | none | pure functions from evidence to component scores, base score, decay, band, timing | called by opportunities, rescoring, contacts |
| Opportunities (`services/opportunities.py`) | table `opportunities`, one row per signal and type | create or update a row from an extraction | called in the transaction of a document |
| Rescoring (`services/rescore.py`) | the same rows | `rescore_all` (decay of all open rows), `refresh_contact_quality` (rows of one company) | scheduler, command line, API; contact ingestion and discovery |
| Contacts (`services/contacts.py`, `contact_discovery.py`, `POST /ingest/contacts`) | table `contacts` | record a contact or fill its gaps; a discovery run attaches many, then re-scores | roster read by opportunities and refresh |
| Contact routing (`scoring/contact_routing.py`) | none | order of a company's contacts for a type of event | company profile |
| Ranked list (`services/top50.py`) | none | filter, order, cut | reads the rows |
| Status endpoint (`PATCH /opportunities/{id}`) | column `status` | a person moves a status | beside everything else |
| Daily brief (`services/brief.py`) | none: `previous_score` and `score_changed_at` of the rows | what is new, up, down, expired | reads what passes and updates leave |
| Outreach log (`services/outreach.py`) | table `outreach_log`, three columns of `contacts` | log an action; roll-up of an account; follow-ups due | endpoints, company profile |
| Ingestion pipeline (`pipeline.py`, `sources.py`, `signals.py`, `companies.py`) | tables `sources`, `companies`, `signals` | a run over documents, one transaction each | scheduler, API, command line, any of them at once |
| Relevance gate (`services/relevance.py`) | none | a verdict on a text | called within a document's transaction |
| Extraction providers (`ai/`) | none | a document becomes an extraction, or none | the same |
| Source registry (`sources/registry.py`) | the registry file, `SOURCES_ENABLED` | which sources are live; build their adapters | read anew by every run and probe |
| Source health (`services/source_health.py`, `check-sources`, `enable-sources`) | a line of the environment file | probe, judge, summarise, write the allowlist | registry, deployment, restart |
| Fetching (`sources/http.py`), adapters (`sources/`) | a rate limiter shared by threads | bounded retries; parsing | called by the pipeline and discovery |
| Scheduler (`scheduler.py`, `main.py`) | a thread, a stop event | ingestion, discovery, pass; wait; again | started and stopped with the application |
| Command line, API plumbing, security, frontend, migrations | none | input and output | |

`backend/build/lib` is an out-of-date copy of the package and is ignored.

### What is hard

- **Overlap.** A cycle of the scheduler, request handlers (a thread pool) and the command
  line commit to the same rows. Sessions are `READ COMMITTED`, no row is locked to be
  read, no row has a version; the ORM sends the columns that changed. Services load rows,
  compute, and write values derived from several columns at once.
- **Order.** Three services own overlapping parts of a row's columns: an update writes
  them all, a pass decay and score, a refresh base and score. They run in any order, on
  days that go by, between a person's changes of status. Contacts learn their columns in
  any order, and interactions are logged late.
- **Two records of one thing.** The outreach log and the contact's columns, the allowlist
  and the registry file, `previous_score` and what really happened in a window.
- **Halves.** A discovery run commits contacts one by one and re-scores later. A document
  that is recorded is never looked at again, so its transaction must be all or nothing.
- **Failure.** Any document may raise, any insertion may meet a unique constraint, the
  process may end anywhere, publishers and networks come and go.
- **Time.** Nothing notices that a date has gone by except the recurring pass.
- **Numbers.** Scores go through tables, an exponent, caps, two roundings and fixed bands.

`PROJECT.json` lists the hazards line by line with the properties that cover each.

### What makes each component correct

| Component | Properties |
| --- | --- |
| Scoring | only what speaks against a lead costs it (`OnlyAdverseFactsCost`); a lead of one fact never qualifies (`ThinLeadNeverQualifies`) |
| Opportunities, rescoring | a row explains itself (`RowsAddUp`); decay is neither compounded nor forgotten (`DecayIsEarned`); a pass never raises a score (`PassNeverRaises`); closed rows stay (`ClosedIsSettled`); statuses are a person's (`StatusIsHuman`); the same, as far as it survives overlap (`UnmixedRowsAddUp`, `PassesKeepStatus`, `NeverStartedAgain`, `PassRepairsScore`) |
| Contacts | every row reflects its roster (`ContactQualityCurrent`); known values stay (`KnownStays`); an address has its own status (`StatusIsOfTheAddress`); the score is the contact's (`ScoreIsOfTheContact`); it is found again (`RereadFindsItsContact`); a submission fails only when two contacts are one (`FailsOnlyOnSplits`) |
| Routing | news of contacts never leaves an account with a worse route (`RouteNeverWorsens`) |
| Ranked list | one pass clears it of stale rows (`PassCleansList`); ties favour the older (`NewcomersEarnTheirPlace`) |
| Companies | potential covers (`PotentialCovers`); nothing is invented (`NothingInvented`) |
| Brief | each movement is reported as what became of the row (`BriefTellsTheDay`) |
| Outreach | no column goes back to what was read (`LastWordStands`); the views agree (`RollUpCovers`, proved); promises stay listed (`PromisesAreListed`); the roll-up is the ledger of the account (`ImplementsAccount`) |
| Pipeline | no document is half done, every row has its evidence, conflicts need overlap, runs end (`NothingHalfDone`, `Traceable`, `ConflictsNeedOverlap`, `EveryRunEnds`) |
| Relevance gate | an announcement is kept (`AnnouncementsKept`) |
| Registry, health | only what has been shown to work is live (`OnlyProvenIsLive`); no run quietly does nothing (`NeverQuietlyNothing`); the network is blamed rightly (`BlamesTheNetworkRightly`) |
| Scheduler, fetching | one loop (`OneLoop`), which ends only when stopped (`EndsOnlyStopped`, proved); a stop is heeded (`StopHeeded`); cycles end (`EveryCycleEnds`); the decay pass recurs, unless cycles fail for ever (`PassRecurs`); the rate is kept (`SlotsSpaced`) |

## 2. Modules

```
Scoring  <-  Opportunity  <-  Store  <-  Lifecycle  <-  Brief  <-  MCBrief
                                                    <-  MCLifecycle
                                     <-  Writers    <-  MCWriters
         <-  Rating       <-  Directory   <-  MCDirectory
                          <-  Assessment  <-  MCAssessment
             Relevance    <-
Ingestion  <-  MCIngestion
Fetching   <-  Cycle  <-  MCCycle
Account    <-  Outreach (implements it)  <-  MCOutreach
Registry   <-  MCRegistry
```

(`MCStore` gives `Store`'s constants their values for `MCLifecycle`, `MCBrief` and `MCWriters`.)

**Scoring** translates the pure functions of `scoring/`. Settings are constants, with the
validation of `config.py` as assumption. A weight is a whole percentage, a decay factor
a number of thousandths, as its column holds it, and `Round` is Python's rounding of
halves to even. Two approximations: Python computes with binary fractions, so that a tie
may fall on the other side (of all 101,000 pairs of base score and factor, seven differ
from the model by one), and the exponential `AgeFactor` is a table rounded to thousandths
before, not after, the penalties are applied.

**Rating** is what single facts are worth (`scales.py`) and the scores made of them:
evidence, commercial value, event probability before its caps, the quality of one contact.
The weights are those of the source, a `UNKNOWN` or missing value has its own worth. The
exponent of the probability is a constant table `Transform`, rounded to the whole point;
keywords of job titles are the pair of what they are worth.

**Opportunity** is one row and what each service makes of it: `Created`, `Updated`
(`create_or_update_opportunity`), `Rescored` (`rescore_all`), `Refreshed`
(`refresh_contact_quality`). The row has every column that decides something, including
`previous_score` and its companions; texts are left out. What an extraction says is a
record of its scores before the caps, its window, its event date, and whether the source
is official and the event over.

**Store** is the tables and what one pass over them writes, as functions from tables to
tables. **Lifecycle** runs every transaction in one step: `Create`, `Update`, `Discover`
and `RefreshAffected` (a discovery run, transaction by transaction), `RefreshLost` (its
failure), `SubmitContact`, `RescoreAll`, `UpdateStatus`, `NextDay`. Contacts may be
reported under another company than their own (`ListedUnder`), as `upsert_contact` finds
them by address across companies. `Top50` is the default query of `top50.py`. Three
auxiliary variables name the rows known to lag.

**Brief** reads `build_daily_brief` off `Lifecycle`, with the current day as the window, and
remembers beside it what really happened: the score at the opening of the window and
whether a movement has been recorded more than once since.

**Writers** is the same services with a session between reading and commit. A session
loads the committed tables at once, computes with the functions of `Store`, and keeps for
each row what it saw and what it wrote; `Commit` merges the columns that differ into the
row as it is then, unless the unique constraint on signal and type fails (`Conflicts`).
That a session reads at one point is a simplification: in the code contacts, rows and
the company are loaded by one statement each, and another commit may come between two of
them. The columns of a row are always loaded together, and the properties checked here
relate the columns of a row. Row locks held by an `UPDATE` only order commits that the
model already orders.

**Directory** is `upsert_contact` with its table: the look-up by address, profile and name
(`Matched`), the gaps a submission fills (`Filled`), the score that follows (`Updated`), the
commit that sends the columns that changed (`Merged`), and the unique constraints (`Rivals`)
that fail it. Names and addresses are compared in their normal form. `BestRoutes` is the
routing for one type of event.

**Assessment** composes `Relevance` and `Rating`: a text gathers hits until the gate judges it,
and a lead that passes becomes known fact by fact. A fact is the smallest step between two
extractions of one signal, which is the grain at which the source states its rules on
missing evidence; `Relevance` counts hits per vocabulary, caps and weighs them.

**Outreach** is `log_outreach` as two steps, reading and commit, so that requests overlap;
`company_state` and `due_follow_ups` are operators on log and contacts. `seen`, in an entry,
is auxiliary. **Account** is the abstract specification: a ledger that knows of each account
the latest contact made, the earliest step promised and the number of interactions, and
works them out one interaction at a time. `Outreach!Accounts` maps the roll-up, which is
computed anew from the whole log, to it. The status of an account is not part of the
ledger: code and text disagree on it, as the run `AccountStatus` shows.

**Ingestion** is `run_ingestion`, `ingest_documents` and `process_document`, with the
lookups of sources, companies, signals and opportunities as separate steps of each run.
A row is a tuple tagged with its table, and what matters of it is the unique keys it
occupies. `Flush` waits for a transaction in flight that occupies one of its keys
(`Blocked`), fails on a committed one (`Conflict`, the document is rolled back), and
otherwise holds its keys until `Commit`. `Abort` is an exception, `Crash` the end of the
process. The step at which a run is decides what it does next; what is due is flushed
before it. Of a company only name and domain are kept: sector, city and size are filled
in in the same way and have no constraint, and `link_parent` is left out. The least
length of a name to be recognised in a text is part of `Mentions`. Row locks of updates
of opportunities are not modelled, only those of unique keys and of the company's row;
a deadlock between a company's and an opportunity's row would be broken by the database
as an exception, that is by `Abort`.

**Registry** has the registry file (in one of several editions, or missing, or broken), the
allowlist in the environment file, the allowlist as the running process has read it, and
the command under way. `Probe` judges each source by what it meets (`Meets`, `VerdictOn`),
`Finish` writes the line, `Restart` reads it, `Deploy` replaces the file, `Run` is an
ingestion or a discovery over the live sources or the named ones.

**Fetching** is `sources/http.py`: the attempts of a fetch, its back-off with `Retry-After`,
and the limiter, one table of the next allowed moment per host. Moments are kept as ticks
from now (a moment gone by is 0), so that `max(now, earliest)` is `Sooner` applied at every
`Tick`. A back-off above the cap is kept as the cap: the sleep is the smaller of the two,
now and after doubling. `SlotsSpaced` is about the slots handed out; threads that oversleep
may still send closer together, in the code and in the model.

**Cycle** extends it with `run_cycle`, run by the scheduler's thread and by
`POST /maintenance/cycle`, as stages over the sources (`Ingestion` and `Lifecycle` tell what
the stages do to the tables), and with `Scheduler`: the loop with its delay and its
interval, `start`, `stop` and the application's lifespan around them. Exceptions that a
stage isolates end a fetch or a document; `Fail` is one that does not stop there. A delay and
an interval pass at any time. `Joined` may come before the loop has ended, as `join` has a
timeout; the application may then start again in the same process, as tests do. A start
refused because the old thread is alive is not repeated, so that the new application has
no scheduler: the model has this behaviour and no property objects. The setting that
disables the scheduler is left out.

Definitions whose comment begins with "Fault:" are not part of any specification. Each is one
plausible mistake in the definition that follows it, and `PROJECT.json` says which property it
breaks.

## 3. Runs

Default settings of `config.py` everywhere: weights 35/25/20/10/10, list from 70. `MCStore`
offers two extractions, one sourced well, dated and scored high (`Announced`), one thin and
undated (`Hinted`), and the days 0, 20 and 40: fresh, aged and past the event date, aged
further with the window closed.

| Run | Instance | Shows | States |
| --- | --- | --- | --- |
| `OneRow` | one row, two contacts that either of two companies may report, three days, statuses `NEW` and `WON`, the brief read in every state | `TypeOK`, `RowsAddUp`, `DecayIsEarned`, `PassNeverRaises`, `StatusIsHuman`, `PassCleansList`, `ContactQualityCurrent`, `BriefTellsTheDay` | 192,373 |
| `Ranking` | two rows of one company, a list of one, two days | `PotentialCovers`, `ClosedIsSettled`, `NewcomersEarnTheirPlace` | 376,500 |
| `Overlap` | two interchangeable sessions, one row, one weak contact, three days | `UnmixedRowsAddUp`, `PassesKeepStatus`, `NeverStartedAgain`, `PassRepairsScore` | 763,944 |
| `Feeds` | two runs, four documents: a name, a name with its domain, another spelling with the domain, a page that changed | `NothingHalfDone`, `Traceable`, `NothingInvented`, `ConflictsNeedOverlap`, no deadlock, and under fairness `EveryRunEnds` | 122,209 |
| `Cycles` | a feed and a page of one host read at different rates, two threads for loops, one request thread, three attempts, pauses up to two ticks, a `Retry-After` of three | `SlotsSpaced`, `OneLoop`, no deadlock, and under fairness `StopHeeded`, `EveryCycleEnds` and `PassRecurs` | 35,575 |
| `Accounts` | one company with one contact, two requests, a note and a call, with and without a stated status, two times, two dates, three entries | `LastWordStands`, `PromisesAreListed`, and the refinement `ImplementsAccount` | 604,665 |
| `Enabling` | a feed, a contact page and a local file, in four editions of the registry and without one, probes of all or of some | `OnlyProvenIsLive`, `NeverQuietlyNothing`, `BlamesTheNetworkRightly` | 1,169,490 |
| `Directory` | five submissions about two people with two addresses and one profile, two at a time | `KnownStays`, `StatusIsOfTheAddress`, `ScoreIsOfTheContact`, `RereadFindsItsContact`, `FailsOnlyOnSplits`, `RouteNeverWorsens` | 183,108 |
| `Rules` | texts of up to four hits per vocabulary; four leads from the strongest to the weakest circumstances, up to three known facts out of fifteen, estimates of 0, 29, 30 and 100, counts from 0 to 10 | `OnlyAdverseFactsCost`, `ThinLeadNeverQualifies`, `AnnouncementsKept` | 76,790 |

**Bounds.** The calendar ends at `Horizon`, the lists of days, scores, extractions and
submissions are finite, and every reachable state of an instance is visited. Three counters
are cut off: `MaxEntries` (the log of `Accounts`: a promise, what replaces it, and what is
logged late between the two), `MaxHits` (beyond four hits nothing new happens before the
caps, which hold by `AtMost`) and `MaxFacts` (the caps and roundings bite already at one;
facts add up independently). One row suffices for what speaks of a row, as services treat
rows independently; two rows for the list, whose order is pairwise; two contacts for the
corroboration bonus; two sessions, runs or requests for what one overlap can do (three add
interleavings of the same merges). Days are chosen on either side of the grace period, the
event date and the window. In `Directory` the submissions are chosen so that each way of
matching, each gap and each constraint comes into play, and two of them join one person
with another. In `Enabling` one source of each kind of adapter suffices, as sources are
judged one by one and only counted together. In `Cycle` two loop threads suffice, as a third
would need two that are alive; three attempts, so that the back-off doubles beyond its cap;
a `Retry-After` on the far side of the cap; two rates on one host, so that the order of
requests matters to the limiter. Deadlock is checked in `Feeds`, `Cycles`, `Directory` and
`Enabling`; the others really stop, when the calendar is at its end and nobody acts, the
log is full, or a lead is fully known.

**Fairness.** `Lifecycle` and `Brief` assume nothing: no document, contact, person or pass
need come. `run_cycle` has one `try` around ingestion, discovery and the pass, so that an
error that lasts (a key of `SOURCES_ENABLED` that has left the registry) keeps the pass off
in every cycle, though the loop survives each. What is claimed is therefore split:
`PassCleansList` says what one pass is good for, and `PassRecurs`, in `Cycle`, when there is
a next: from a start that no stop follows, passes are completed again and again, or cycles
fail again and again.
`Ingestion` assumes that a run that has begun is executed (`WF` of `Works`) and that those
who wait for a key get it in the end (`SF` of `Flush`), which the database's queue of waiters
gives. That a run starts, fails or crashes is never assumed. `Cycle` assumes that threads are
executed and time goes by (`WF` of `CycleStep`, `Later`): every request is answered or times
out, as the client's timeout sees to, and a sleep ends; and that the scheduler's waits end
(`WF` of `BeginCycle` or `LoopEnds`). That a cycle succeeds is not assumed, and nobody need start, stop
or request anything. `Outreach`,
`Registry`, `Directory` and `Assessment` are about safety and assume nothing.

### Disagreements between code and text

Three have a run with one property that TLC violates.

| Run | What the text says | What happens |
| --- | --- | --- |
| `PastEvent` | "a past event never appears in the ranking as if it were still upcoming" (README); `timing_class` "is recomputed on every scoring pass" (DATA_MODEL, SCORING) | the daily pass leaves `timing_class` alone; the row stays listed after its date |
| `StatusLost` | "Statuses a human has moved on are never touched" | an ingestion in flight overwrites a status set meanwhile |
| `AccountStatus` | the status of an account is "the furthest-progressed status among its contacts" (`outreach.py:156`) | every entry ever logged counts as well, those about a contact included: after a call that was not answered, the account keeps a status that no contact has any more |

Others were met while modelling; the models have the behaviour and no property objects.

| Where | What the text says | What happens |
| --- | --- | --- |
| `api/ingest.py:141` | affected companies are re-scored "so contact quality actually reaches the opportunity score" | a contact matched at another company re-scores the company it was submitted for; `ContactQualityCurrent` names such rows as left behind |
| `classification.py:27` | "classification and the Top 50 filter can never disagree" | two overlapping sessions leave a score and a band that do; `UnmixedRowsAddUp` excepts the rows they wrote together |
| `models/signal.py:52` | the dedupe key "stops the same story from two feeds becoming two signals" | the key holds the company's id, which for an unnamed company is the longest name known that day (`Ingestion`, `Mentions`) |
| `http.py:175` | "Honour Retry-After when the server tells us how long" | the pause is capped by the largest back-off, and the request repeated before the server's time is over (`Refused`, `Capped`) |
| `scales.py:4`, `SCORING.md:94` | "Missing evidence must never help an opportunity" | `UNKNOWN` (30, 35) is worth more than the lowest answer of a scale (25), an estimate below 30 or fewer than two stakeholders: a lead falls by becoming known to be small; `OnlyAdverseFactsCost` excepts these answers and no others |
| `scheduler.py:14` | a cycle ends by applying decay, "so stale opportunities leave the Top 50" | an error in ingestion or discovery that no source isolates, such as the unknown key of `registry.py:132`, ends the cycle before the pass, and if it lasts, every cycle; `PassRecurs` excepts it |
| `api/outreach.py:37` | the list is of relationships "that were promised a next step and have not had one" | an interaction does not take a follow-up off the list; only a later dated entry replaces it |
| `ARCHITECTURE.md:178` | ingestion, discovery, preflight and listing "cannot disagree about what is live" | the line is read when a process starts: until its restart the running application and a command disagree (`env`, `allowed`) |
| `sources/registry.py:122` | an unknown key is an error, so that a run never quietly does nothing | a missing registry file is no error under any allowlist, and an allowlisted source that cannot be built is passed over with a log line; `NeverQuietlyNothing` excepts both |
| `cli.py:198` | `enable-sources` produces the allowlist of what works | with `--source` it probes the named ones and writes only those, switching off the rest; when nothing is usable it leaves the old line; when the old line has a key that has gone, it fails itself |
| `services/brief.py` | what moved and expired in the window | a row remembers one movement: a second one in the window hides what the first did, and a pass that changes only the factor overwrites it with no movement at all; `BriefTellsTheDay` is about rows with one |

## 4. Proofs

Eight modules hold the theorems below, for all values of the constants that satisfy their
assumptions, that is for any numbers of companies, contacts, rows, threads, runs, requests,
documents and sources.

| Module | Theorems |
| --- | --- |
| `Lifecycle_proofs` | `TypeCorrect`, `RowsAlwaysAddUp`, `DecayAlwaysEarned`, `NoPassRaises`, `StatusStaysHuman`, `ClosedStaysSettled`, `PotentialAlwaysCovers`, `QualityAlwaysCurrent`, `NewcomersAlwaysEarn`: `OnePassIsEnough` of `PassCleansList`: every property of `Lifecycle` that holds; `BriefTellsTheTruth` of `BriefTellsTheDay`; `ListAlwaysExact` |
| `Writers_proofs` | `TypeCorrect`, `UnmixedAlwaysAddUp`, `PassesAlwaysKeepStatus`, `NeverEverStartedAgain`, `PassAlwaysRepairs`: every property of `Writers` that holds |
| `Rating_proofs` | `KnownAlwaysStays`, `StatusAlwaysOfTheAddress`, `ScoreAlwaysOfTheContact`, `RereadAlwaysFinds`, `FailsOnlyEverOnSplits`, `RouteNeverEverWorsens`: every property of `Directory`; `OnlyAdverseFactsEverCost`, `ThinLeadsNeverQualify`, `AnnouncementsAlwaysKept`: every property of `Assessment` |
| `Cycle_proofs` | `SlotsStaySpaced`, `NeverTwoLoops`, `LoopsEndOnlyStopped` of `SlotsSpaced`, `OneLoop`, `EndsOnlyStopped`; `StopIsNotTakenBack` |
| `Ingestion_proofs` | `RecordedIsUsed`, `EverythingTraceable`, `NoAccountInvented`, `OnlyOverlapConflicts` of `NothingHalfDone`, `Traceable`, `NothingInvented`, `ConflictsNeedOverlap`; `NobodyWaitsInCircles`, `EverythingOnce` |
| `Outreach_proofs` | `LastWordIsKept`, `PromisesStay` of `LastWordStands`, `PromisesAreListed`; `AccountImplemented`, the refinement; `RollUpIsRight` of `RollUpCovers` |
| `Registry_proofs` | `LiveMeansProven`, `NeverNothing`, `BlameIsRight` of `OnlyProvenIsLive`, `NeverQuietlyNothing`, `BlamesTheNetworkRightly` |
| `Opportunity_proofs` | the lemmas of the first two |

**Scores.** The lemmas of `Opportunity_proofs` bound and order the pure functions (rounding
is monotone, so more decay never means a higher score; the decay factor falls with the
day, `DecayFactorFalls`; the roll-up of contacts stays in range, which needs that a finite
set of scores has a maximum), and show of each of the four row functions that it yields a
row, that the row adds up, and that its factor is earned. `Inv` in `Lifecycle_proofs` is the
conjunction of `TypeOK`, `RowsAddUp` and `DecayIsEarned`, which is inductive only together: a
pass recomputes the score from the *stored* base, so the band follows only if the row added
up before; and a score falls at a pass only because the stored factor was earned on an
earlier day. The rest is proved relative to `Inv`. `PotentialCovers` and
`ContactQualityCurrent` (row by row, `UpToDate`) are invariants of their own: a contact's
score matters to the rows of its company only (`LevelElsewhere`), and each service either
reaches those rows or leaves a note of the company. `NewcomersEarnTheirPlace` rests on `Numbered`: rows
are numbered as they are created, so that a newcomer never wins the last tie-break of the
list and must be stronger. `ListAlwaysExact` adds that no two have one number (`Distinct`), so
that the order is total: then rows are as many as their places (a pigeonhole), and ahead of the
first row left out are only listed ones, which is where the list is full. The action properties follow from `Inv` and the columns that each
service leaves alone.

**Brief.** `BriefInv` relates what a row remembers to what the chronicle has counted: a row
that has not moved in the window stands at its opening score and remembers no movement of
the day, one that has moved once remembers where it came from. It is kept because each service either
leaves `previous_score`, `score_changed_at` and the score alone or records the score it
replaces (`Remembers`, one lemma per service), and because a movement is never later than the current day, so
that a new day finds no movement of its own.

**Overlap.** `Inv` in `Writers_proofs` speaks of transactions in flight. `Sound` says of each
row a session will write what its service `Guaranteed` relative to the row it *loaded*: if
that one added up, so does what is written; a pass writes the status it has read; whatever
was past `NEW` stays past it. A commit merges columns into a row that may have changed.
Where it has not, the merge is the written row (`MergedRowType`) and the guarantee applies;
where it has, the row is mixed, and what remains is said of single columns: a column that
a session did not change is not sent.

**Contacts.** `Inv` in `Rating_proofs` says that no two contacts share a key (`Unique`), that
numbers are dense, so that an insertion is at a fresh one (`Dense`), what each submission
has read and that it is still so unless somebody has committed since (`WellRead`), that a
payload vouches for every row (`Told`), and that what was submitted is found (`Found`).
Known values stay because a submission sends a column only if it read a gap there, so
whoever replaces a known value had read the row before it was known. Re-reading works because
filling gaps takes away no key by which a row was found (`StillMatches`), except a department
that was unknown. A failure means a split because the matched row itself is unique: a rival
must come from what the payload adds. The route never worsens because a department, once
known, stays, and an unknown one fits nothing (`FitType`).

**Ratings.** `AssessInv` says that a dossier has for each factor either what nothing known is
or a known fact. That only adverse facts cost anything follows from the bottom up: the worth of
each factor does not fall along its scale or its figures, whatever counts and estimates are
given, and an unknown is worth no more than any that is not adverse (`RungsRise`,
`UnknownWorth`, by cases over the tables); sums with
positive weights, `Round`, `Transform`, caps and the bands keep the order. Nothing here needs
the default weights: any that `SettingsAssumption` admits will do, and any `Transform`
that does not fall. A thin lead stays below the threshold by numbers, and these are the
defaults: with nothing known but its circumstances, and those the best possible, plus one
fact of the company, of the event or of the commercial side, the parts of the score are bounded
one by one. The tight case is the size of the company, which counts twice: 69.45 points
of the 70 needed. `AnnouncementsAlwaysKept` needs of the settings only that four event
terms suffice, by their number and by their weight; with the defaults two and four do.

**Cycles.** Slots are spaced because a host's next slot is ahead of every slot taken by
the interval of the thread that took it (`SlotsAhead`), which `Reserve` restores and `Tick`
keeps, as time brings all of them nearer alike. There is one loop because `start` looks at the
thread it holds, and every loop that is alive is that thread; that the end of a cycle leaves
no second loop needs that a loop thread is in a cycle only inside its loop (`CyclesInLoops`).
For the same reason a start is refused as long as a stopped loop is alive, so that the stop stands.

**Ingestion.** `IInv` says what the committed rows justify (`DbSound`), what the rows that a
run holds or is about to write justify over them (`RowsSound`), how far the run has come
(`StepSound`), and that no two runs hold one key (`Exclusive`). Traceability alone is not
inductive: a signal refers to a company that is still the run's own, and what another run
commits in between must not take away what was looked up, which holds because rows are only
added and keys are exclusive. `ConflictsNeedOverlap` holds because the lookups cover the
constraints: without a commit since the document was taken up, the rows the run saw are the
rows it meets. Nobody waits in a circle because a transaction fills the tables in one order
(`TablesInOrder`): the row another run holds is of the table one is at, so that the other is
further. `EverythingOnce` joins the two halves of what the database does: a key that is
committed fails the flush, one in flight delays it, and between a flush and its commit nobody
else can have committed the key (`WroteApart`).

**Outreach.** `Inv` says that each column of a contact is what some entry about it has said
(`StatusSaid`, `ContactedSaid`, `FollowUpSaid`), which a commit keeps as every column it leaves
comes from the row as it is, what was read, or its own entry. The roll-up covers the contacts
because the entries do. `LastWordStands` is not inductive, as what a request
sends depends on what it has read. `WordKept` states it of a column given by its name, so that the
three are proved as one; `ReadOrSince` adds, of every request, that what stands in a
column is what it has read, or the word of an entry said since that nobody who knew of it has
contradicted. A request that sends nothing, because its word is what it has read, is
therefore either in agreement with the column or has not seen the word that stands. That there is a latest among the dated entries needs that times have
a bound (`Bounded`). For the refinement, a commit appends one entry: the latest contact and the earliest step of the
longer log are the later and the earlier of what the log had and what the entry says
(`CommitWorks`, in which the contacts' columns add nothing, as each is some entry's), and an
entry tells on its own company only, with any number of companies.

**Registry.** What a command holds as usable is proven, what it holds as blocked is on the
network (`ResultsSound`), and what it has written is proven and not empty (`LineProven`): an
empty line would hand the decision back to the file. The comparison of two counts is right
because the blocked are a subset of those on the network, and a subset of equal size is all
of it.

The assumptions on constants are `SettingsAssumption` and `AgeFactorAssumption` (the
factor of age is 1 in the grace period and does not rise), `RowAssumption`,
`StoreAssumption` and `LifecycleAssumption` (sets are finite, functions have their
domains, `None` and `NoRow` are not values), `FetchAssumption` and `CycleAssumption` (rates
and times are natural numbers, a thread is a loop's or a request's), `DocumentAssumption`,
`OutreachAssumption` and `RegistryAssumption` (the like), and `DirectoryAssumption` (payloads
have the columns and ranges of `ContactInput`; no list of preferred departments names
`UNKNOWN`, as in `contact_routing.py`); `TransformAssumption` (the table of the exponent does
not fall, runs from 0 to 100 and raises nothing), `RelevanceAssumption` (hits and weights are natural numbers) and `AssessmentAssumption` (leads are
`Lead`s; figures come lowest first, counts without a bound, estimates from 0 to 100). TLC
evaluates each in a run. Two theorems have hypotheses of their own, on settings that a
deployment may change: `AnnouncementsAlwaysKept`, and `ThinLeadsNeverQualify` (the default
weights and threshold, `DefaultWeights`, and a table that takes 59 to 52 or less). The settings of `Rules` satisfy both.

**Only model-checked:** liveness (`EveryRunEnds`, `StopHeeded`, `EveryCycleEnds`, `PassRecurs`),
which is beyond TLAPS, as are `ENABLED` and induction over data. Of the first two the part that
is about states and steps is proved: nobody waits in a circle (`NobodyWaitsInCircles`), a stop
is not taken back (`StopIsNotTakenBack`). Every invariant and every action property of a
passing run is a theorem. Conversely, what `ListAlwaysExact`, `RollUpIsRight`,
`StopIsNotTakenBack`, `NobodyWaitsInCircles` and `EverythingOnce` state is in no run: it is defined beside its proof.

## 5. Not modelled

- **Source adapters** (`rss.py`, `jsonl.py`, `contacts.py`) **and normalisation**: parsing and
  string algorithms. What they yield are inputs; what a probe of one may meet is in `Registry`.
- **Extraction providers**: a remote model, or keyword rules; what an extraction may say is
  an input.
- **Company hierarchy** (`link_parent`): a parent's name is a strict prefix of the child's, so
  that no cycle can arise whatever the order; a property would hold by construction.
- **Company profile**, the other filters of the ranked list, and reading endpoints: queries.
- **Security, health, analyst entry, frontend, migrations**: input and output.

In `Lifecycle` every extraction is actionable and its component scores are inputs (`Rating`
computes them); the documents behind it are the subject of `Ingestion`. A discovery run may
re-score between two of its contacts, which the code does only between runs: more behaviours
than the code has. In `Writers` the company's potential is kept, but nothing is claimed of it:
two overlapping sessions may keep the lower; and two sessions that insert the same contact
are in `Directory` only. A submission with several contacts is one of `Directory`'s with one
contact. The counters of `IngestionStats` are raised before a document's commit and count what
is rolled back; an update keeps `assertion_level` of the first extraction; a second source of a
signal does not corroborate it; a refresh does not promote a `NEW` row: none of the four
contradicts a text, and no property speaks of them.

## 6. What is left

1. `Writers` with one session implements `Lifecycle`.
2. The sources of submitted contacts beside those of documents in `Ingestion`, with two
   domains of one company.
