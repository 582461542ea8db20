# Roller_hoops in TLA+

Roller_hoops is a self-hosted network inventory: `core-go` (a Go API server with a
discovery worker in the same process) finds the devices of a network and keeps what it
learns in PostgreSQL; `ui-node` (Next.js) signs users in, forwards their requests and
shows the result. This directory holds models of the parts where order, failure or
concurrency decide whether the system is right, the TLC configurations that check them,
and proofs for TLAPS. Paths below are relative to `src/`.

    tlc -workers 2 -config DiscoveryRuns_safety.cfg MCDiscoveryRuns.tla
    tlc -workers 2 -config UiNode.cfg MCUiNode.tla
    tlapm DiscoveryRuns_proofs.tla

`PROJECT.json` lists, for every definition, the lines it was translated from; for every
checked property, one plausible mistake in that code that makes TLC refute it; and the
hazards of the code with the properties that watch them.

## 1. Inventory

### How the parts meet

The API and the worker never call each other. They share the database: the API inserts
a `discovery_runs` row with status `queued`, the worker polls for one, and the UI polls
the API for its status. Inside a run the worker calls its phases one after the other
and each phase starts goroutines of its own. Scraping, topology discovery and the
inventory import all write devices and addresses, each one statement at a time: only
the claim of a run is atomic over several rows, nothing else uses a transaction.

`ui-node` renders a page on the server from answers of the API and hands it to client
components, which poll, load more and submit server actions. Such a component keeps
state over several renders while the page around it shows another device, another
filter or another scope; it shares nothing with other components but the URL and the
API. That is why the models of `ui-node` are one per component and are checked side by
side rather than composed.

### Components

| component | state | operations | what is hard | what makes it right |
|---|---|---|---|---|
| run queue (`httpapi/handler.go`, `sqlcgen/queries.go`) | `discovery_runs` | enqueue, claim, update, latest | several pollers, lost answers, submissions that overlap | a run is executed once; who holds it decides its end; earlier ones are taken first |
| worker (`discoveryworker/worker.go`, `cmd/core-go/main.go`) | position in a run, deadline, context | poll, phases, fail, stop | deadline or SIGTERM at any step, crash | every claimed run ends; a curtailed one is not "succeeded" |
| presets and tags (`presets.go`, `tags.go`) | the `Worker` settings, two restore closures | apply, restore | one struct for all runs | a run has its own settings and leaves none behind |
| goroutine pools (`pingSweep`, `runEnrichment`, `runPortScan`) | channel, workers, claimed devices | send, take, skip, drop, join | both sides watch a context | work once per device, no goroutine left, no deadlock |
| device identity (`scrapeARP`, `runEnrichment`, inventory import) | `devices`, address and observation tables | find, create, attach, observe | look-then-write by several writers, failed statements, rows that commit late | an address keeps its device unless an older INSERT commits after it; duplicates are bounded |
| feeds (`handler.go`, `queries.go`) | none; the client's cursor | first page, next page | rows written between pages | nothing lost, nothing twice, newest first |
| topology facts (`enrichment.go`, `queries.go`) | `interfaces`, `links` | upsert by index, by name, by key | two unique keys per row; both ends report | a link is a cable; one row per cable |
| device tags (`handler.go`, `worker.go`) | `device_tags` | replace manual; delete and upsert automatic | delete and inserts apart, runs beside requests | one request's tags, whole; a run touches its own only |
| status panel (`devices/DiscoveryPanel.tsx`) | query, dialog, bypass flag, action | poll, submit, confirm, cancel | hidden tabs, retries, flags that outlive a click | one question per run; the panel stops saying "running" |
| facts and history (`devices/DevicesDashboard.tsx`) | selection, two sets of requests | select, load, load more, abort | answers after another selection | a card shows the selected device |
| list controls and URL (`devices/DevicesDashboard.tsx`, `devices/page.tsx`) | the URL, the search input | filter, sort, page | pushes that overtake one another | a cursor is used with its own selection |
| device forms (`DeviceTagsPanel`, `DeviceNameCandidatesPanel`, `actions.ts`) | drafts, loaded lists, action results | load, submit | forms that outlive the device | a form shows and writes its own device |
| run list (`discovery/DiscoveryRunList.tsx`) | polled page, further pages | poll, load more | the first page moves; a cursor that is not sent | in order, nothing twice (it is not: section 7) |
| run log, device timeline | the entries shown | load more | failures, new rows | consecutive |
| map links (`map/page.tsx`, `MapInspectorDetails.tsx`) | the address | every link and form | layers that cannot show a focus | no link to an empty page |
| map page (`MapProjectionProvider`, `MapCanvas`, polling) | query cache, pinned view | poll, pin, apply, go elsewhere | cache, effects and answers of different ages | a pinned view stays; news are offered |
| map projection (`httpapi/map.go`, `MapCanvas.tsx`) | none | query by query, place, cut | caps; rows that move between queries | one placement; a cut is announced |
| user file (`lib/auth/users-store.ts`) | one JSON file | verify, change, reset | read, change, write back; a crash or a failed read or write in between | no confirmed password lost, and where one is, a known cause (section 7) |
| other facts of enrichment | `device_snmp`, MACs, `interface_vlans` | upserts of one key | | not modelled |
| services; device create, update, import; device list | rows | upserts; two statements per entry; pages by a moving column | | not modelled |
| display names, tag suggestions | none (pure) | normalise, score, merge | | not modelled |
| sessions, proxy, audit | a cookie; audit rows | check, forward, record | | not modelled |
| SNMP, mDNS, VLAN clients; metrics; pool; remaining pages; deployment | | | | inputs, output or configuration |

`PROJECT.json` has the files and the status of each component; section 6 says why the
last rows are not modelled.

## 2. Plan

The order in which the modules were written, from what the system cannot do without:

1. **Runs**: `RunLedger` (abstract), `ScanConfig`, `DiscoveryRuns`; proved.
2. **Identity**: `DeviceIdentity`; proved.
3. **Pools**: `ScanPhase` (abstract), `ScanPool`, the promise the phases of
   `DiscoveryRuns` rely on; proved.
4. **Feeds**: `Keyset`, `ChangeFeed`; proved.
5. **Records with keys**: `Topology`, `DeviceTags`; proved.
6. **The devices page**: `DiscoveryPanel`, `DevicesDashboard`, `DeviceListUrl`,
   `DeviceForms`; proved.
7. **Lists put together from pages**: `RunPages` (its order is refuted), `LoadMoreList`; proved.
8. **The map**: `MapView`, `MapLinks`, `MapCanvas`; proved.
9. **The file of users**: `UsersStore`; proved.
10. **The compositions** `MCCoreRecords` and `MCUiNode`: their safety proved from that
    of their components.

What remains, in the order of what it would add: device create and import with a
client's retries; the device list, `Keyset` over a column that moves; scan limits, names
and tag suggestions as operators against reference definitions.

## 3. Modules

Conventions. An action is one database statement, or one stretch of code between two
points where another process or goroutine can be noticed. A statement commits, fails
without effect, or (where it matters) commits while the caller gets an error. Constants
called `Max...` bound the instance and appear only in guards. Operators named after a
mistake (`ClaimLockUnlocked`, `InsertInterfaceByName`, ...) stand before the operator they
distort; no specification uses them: they are mistakes the properties are known to catch.

### DiscoveryRuns, ScanConfig, RunLedger

`status`, `startedAt`, `request` are the columns of `discovery_runs`; `pc`, `cur`,
`config`, `saved`, `targets`, `skipped`, `failed` are the locals and the struct of each
process's worker; `cancelled` and `expired` are its two contexts. `ClaimLock` and
`ClaimCommit` are the two halves of `ClaimNextDiscoveryRun`: in between, the row is
locked and `SKIP LOCKED` makes the other process pass it by. Several processes are
modelled because that statement is written for them; the compose files start one.

`Insert` and `Enqueue` are the beginning and the commit of a submission: `started_at` is
`now()`, the beginning, so a row may appear below one that was claimed already. What
orders two runs is that one could be seen when the other was submitted, which `known`
remembers.

The phases are `delay`, `scope`, `ping`, `arp`, `enrich`, `ports`, `finish`: `Phase`
says what `ScanPhase` promises of the pools, that targets are dropped only if the
context is done, and the drop is remembered in `skipped` because the code does not
remember it. `FailCheck` is `failRun` looking at its context, to go on with it
(`failctx`) or with a background one (`failbg`); then `Fail` is the update. A deadline
that passes between the two makes the update fail, which is not tried again
(`FailMissed`), and `late` remembers the run. `Exit` is
`main` returning after SIGTERM: it waits for the HTTP server and for statements the
pool has in flight, not for the worker goroutine. `Return` runs the deferred restores,
tags before preset.

`ScanConfig` holds the settings and translates `applyScanPreset`, `applyScanTags` and
their closures, with the numbers of the code; `RestorePreset` does not put back name
resolution because the closure does not.

`RunLedger` is what the queue promises: a run is submitted once, claimed once, and from
then on only its holder decides the outcome. It allows a holder to correct its own
"succeeded" to "failed": that is what happens when the update commits and its answer is
lost. It allows `ClaimUnheld` and `Drop` because the code has no lease and no recovery
of runs whose worker is gone.

### DeviceIdentity

Devices are numbers in order of creation; `rows` is both address tables. A row is
stamped when its INSERT begins (`InsertBegins`) and seen when it commits, so a lookup
(`ORDER BY created_at LIMIT 1`) may find today an older row than yesterday; `observed`
is both observation tables. Each actor is a goroutine or handler with the statement it
sends next, its job, and the device it found or made. What differs between the four kinds is
in `FirstPlace`, `AfterMiss`, `FirstWrite`, `AfterWrite` and `LookupFailed`: a scrape
gives up on a failed lookup, the others take the error for "no such device". It is
checked in `MCCoreRecords`.

### ScanPool, ScanPhase

One module for three functions of one shape. `phase` chooses; `Jobs` computes what the
producer will send (the first N targets for enrichment, the first allowed target of
each device for the port scan, the addresses of the scope for the sweep). `HandOver` is
the unbuffered channel, `Put`/`Take` the buffered one. A worker that has received a
target may `Drop` it and leave when the context is done; in the sweep it does not. When
both branches of a `select` are ready the model takes either, as Go does.

### Keyset, ChangeFeed

`Keyset` is the pattern that the list queries and handlers share: rows below a cursor,
sorted, one more than the page asked for, the cursor from the last row kept.
`ChangeFeed` is one client that pages while rows are written. The four feeds differ only
in which rows are written again (`Rewritten`) and which appear twice (`Links`), so those
are constants. `Write` may give a timestamp just below the newest: a row becomes visible
when its transaction commits, and `links` and `services` carry the worker's clock.

### Topology

`interfaces` is the table in order of insertion, so a row's place is its id; `links` is
the set of keys. A goroutine polls one switch: `WritePort` for each port in any order,
as they come out of a Go map, then for each neighbour `LookUpPort` and `WriteLink`.
Each is one statement and may fail, and then the code goes on. `UpsertInterfaceFromSNMP`
is keyed by (device, index) and fails where another row of the device has the name;
`UpsertInterfaceByName` is keyed by the name. Every port has an LLDP local number equal
to its index.

### DeviceTags

Requests to `PUT /devices/{id}/tags` as `ClearManual` and one `InsertTag` per tag, beside
the runs of two processes that have seen the device: each deletes the automatic tags
(`ClearAuto`) and upserts what enrichment and the port scan suggest (`Suggest`). A request
may lose a statement or be cut short, and the delete of a run may fail and is ignored.
`lastClear` and `late` are history: which request deleted last and what others had still
to insert at that moment; `suggested` is what was suggested since the last delete of a
run.

### DiscoveryPanel

`shown` is what the panel shows of the status, `timer`, `statusPoll` and `attempts` the
state of the query, `tab` whether the tab is visible. `HandleSubmit` is the form's
handler: a submission is held back for the dialog while the panel shows a run, unless
`bypass` is up; `Confirm` raises it and submits again. `Trigger` is the server action. `busySubmits` and `confirms` count what
`QuestionPerRun` compares.

### DevicesDashboard

`listed` is the server's list, `selected` the operator's click, `Chosen` what the page
derives from both. `Effects` runs what a render has left to do: abort what is under way
and ask for the facts and the first page of history of the device now chosen;
`loadedFor` is the device it ran for last. A request that is not aborted may answer or
fail at any time. `FactsCard`, `OverviewCard` and `HistoryCard` are what is rendered.

### DeviceListUrl

`url` is the address, `nav` a push that has not been answered, `asked` what the
server sent to core-go for the page shown. A cursor is the selection it was made for
and a page number. Every control is an action that pushes an address built from `url`;
`TypeSearch` and `Search` are the search box.

### DeviceForms

The tag picker, the name suggestions and the metadata form, none keyed by device.
`listRequest` and `listShown` are what each loads and holds, told by the device it came
from; `formAction` is the server action under way, one at a time as React runs them.
`draft` is the device that the picker's tags were loaded for or, when the operator has
changed them since (`ToggleTag`), the one that was shown then.

### RunPages, LoadMoreList

A list is a first page and others put below it. In `RunPages` the first page is replaced
by every poll while the others stay. Its component passes limit and cursor where the
client of the API does not look for them: a poll and a request for more are both answered
with the newest runs, at core-go's own limit (`NewestPage`), and only the server's first
page has the component's (`RenderedPage`). `LoadMoreList`, the log and the timeline, has
one list that only grows, and sends its cursor. Rows are numbers in order of creation.

### MapLinks

`Links(address)` is every address that the list of layers, the inspector, the canvas
and the focus form offer from one; the relationships that core-go sends are in
`ServerRelationships`. What each layer can show are the tables of the code, which the
page and the inspector keep apart.

### MapView

`view` is the provider's state (pinned, applied, offered), `mapPoll` the query of the
scope shown, `mapCache` what the query library keeps for scopes not shown, `visit` a
navigation under way. `EffectOn` is the effect that applies or offers a newer
projection; a click is handled with the rendered state, then an effect that was due
sets its own on top.

### MapCanvas

`build` is core-go between two queries of one projection, `projection` what it answers,
`Card` and `PlacedIn` what the canvas draws of it. `Moves` lets a device change its
regions between the queries.

### UsersStore

`userFile` is empty, users, or a text nobody can parse; `op` is each request between
reading and answering. Writing is two steps, because the file is emptied first, and
another request or `UiCrash` may fall between them. A read that fails gives the users of
the environment, as the code takes any error for a missing file (`ReadFails`); a write may
fail before or after it has emptied the file (`OpenFails`, `WriteFails`). `excused` is
history: the users whose password one of these may have taken away.

### MCUiNode, MCCoreRecords

Components that share no state. `part`, chosen at the start, says which one moves; the
others keep one initial state, so a run explores each of them and not their product,
and one set of constants and one list of properties serves them all. Fairness is that
of the component that moves.

### The proofs

| module | proofs about |
|---|---|
| `DiscoveryRuns_proofs` | `DiscoveryRuns`, that it implements `RunLedger` |
| `DeviceIdentity_proofs` | `DeviceIdentity` |
| `ScanPool_proofs` | `ScanPool`, that it implements `ScanPhase` |
| `CoreRecords_proofs` | `ChangeFeed`, `Topology`, `DeviceTags` and `MCCoreRecords` |
| `DevicesPage_proofs` | `DiscoveryPanel`, `DevicesDashboard`, `DeviceListUrl`, `DeviceForms`, `LoadMoreList` |
| `Map_proofs` | `MapView`, `MapLinks`, `MapCanvas` |
| `UiNode_proofs` | `RunPages`, `UsersStore` and `MCUiNode` |
| `NaturalsLemmas` | the least and the greatest of a set of natural numbers |

## 4. What is checked

| run | instance | shows |
|---|---|---|
| `DiscoveryRuns_safety` | 2 processes, 2 runs, 3 requests, 2 faults | no run executed twice; settings are the run's own and do not leak; each abandoned run has its fault or a deadline inside `failRun`; no curtailed run succeeded; without faults no run ends before those it could see are taken; the queue implements `RunLedger` |
| `DiscoveryRuns_live` | 2 processes, 2 runs, 1 fault | a queued run is claimed while a process is up; without faults every run ends unless its deadline passes inside `failRun` (fair) |
| `DiscoveryRuns_shutdown` | 1 process, 1 run, 1 SIGTERM | **violated**: see section 7 |
| `ScanPool_phases` | 3 goroutines, 5 targets of 3 devices, 4 addresses, limits none and 2 | once per device, the phase returns (fair), `ScanPhase` implemented |
| `CoreRecords` | identity: a scraper, its topology goroutine and a second scrape or import, 2 MACs, 1 IP, 3 jobs, 2 faults; feed: 4 rows, 1 link, 1 rewritten, 3 timestamps, pages of 1; topology: 2 switches, 4 ports, 2 cables, 2 polls, 1 fault; tags: 2 tags, 2 requests, 2 runs at once, 1 fault | a settled address keeps its device, duplicates bounded, observations are facts, orphans only by faults; nothing lost, repeated or out of order among rows not rewritten; links are cables, with one row for the same known ends; the last delete of tags wins |
| `ChangeFeed_links`, `ChangeFeed_since` | the feed alone, pages of 1 | **violated**: see section 7 |
| `Topology_duplicates` | the same cables, 1 poll each, no fault | **violated**: see section 7 |
| `UiNode` | see below | the components of `ui-node` |
| `DeviceForms_tags` | 2 devices, 1 selection, 1 submission | **violated**: see section 7 |
| `RunPages_more` | 5 runs, pages of 2 and 3, 3 pages | **violated**: see section 7 |
| `UsersStore_lost` | 2 requests, no failure | **violated**: see section 7 |

The parts of `UiNode`:

| part | instance | properties |
|---|---|---|
| panel | 2 runs, 2 submissions, 3 failed polls, 1 hidden tab | `QuestionPerRun`, `StatusConverges` (fair) |
| dashboard | 2 devices, 3 lists, 4 events, pages of 2, 2 changes of selection or list | `FactsOfSelected`, `HistoryContiguous`, `CardsSettle` (fair) |
| url | 2 texts, 3 pages, all filters and sorts, 3 clicks | `CursorOfSelection` |
| forms | 2 devices, 2 submissions, 1 selection | `ListsOfSelected`, `SavedIsShown` |
| runs | 4 runs, a first page of 2, 3 without a limit, 3 pages | `TypesOK`; `RunsInOrder` is `RunPages_more` |
| log | 7 entries, pages of 2, 2 failures | `Consecutive` |
| links | every layer and type, 2 identifiers | `LinksStaySupported` |
| view | 2 scopes, 3 versions, 1 visit, 1 failure | `PinnedStays`, `ProjectionOfPage`, `ShownOrOffered` (fair) |
| canvas | 4 devices, 3 regions, limits of 2 regions, 3 nodes and 1 edge, 1 move | `CanvasTells` |
| users | 2 users, one of them of the environment, 2 requests at once, 3 passwords, 1 crash or failed read or write | `LossHasCause` |

Why the bounds are enough. A queue race needs two processes and one row, a leak of
settings two runs in one process; two faults let one hit the run and another the
correction. An address that moves needs two MACs and one IP, a duplicate two writers, a row that
commits late two INSERTs. A
pool needs one goroutine less than targets and a device with several targets, the first
one not allowed. Paging needs three pages, two rows with one timestamp and a page
boundary between them. Two cables, one with the right names and one without, show that
the ends keep apart; a second poll meets the rows of the first. Two requests let one
delete between another's delete and its inserts, two runs the same for what they suggest. In
the UI two devices or scopes are the one left and the one entered, and there are enough
clicks for a mistake in the code to show. The limits of the canvas are below what four devices need, each on its own
path. Two requests
overlap in every way, and one fault is a crash or a failed read or write.

Deadlock checking is off where the instance stops because the bounds are used up or,
in `ChangeFeed`, because the client has all it asked for. `ScanPool` is checked for
deadlock, with `Done` for a phase that has returned, and so are `UiNode`,
`DeviceForms_tags` and `UsersStore_lost`, where something can always be clicked or asked.

### Fairness

`DiscoveryRuns!Fairness` is weak fairness of everything a worker does by itself, taken
together (`WF_vars(WorkerStep(w))`), without faults, deadlines or signals. The loop in
`Run` is driven by a timer, every wait in `runOnce` is bounded (the run's deadline, the
ping, SNMP and nmap timeouts), and Go schedules runnable goroutines. Nothing is assumed
of `Expire`, `Crash`, `Start` or `Enqueue`. `QueuedIsServed` has an escape: all
processes are down or told to stop. `ScanPool!Fairness` is weak fairness of the producer
and of each goroutine, with the same reason; `Expire` is not fair, so `PhaseReturns`
holds with and without a deadline.

In `ui-node` a request is answered or fails (the proxy and `fetch` have their
timeouts), timers and retries fire, React runs effects, and a server action returns: in
`DiscoveryPanel` also the operator comes back to the tab and the run ends, in `MapView`
a navigation arrives. Nobody has to click. Polls fail at most
`MaxPollFailures` (`MaxMapFailures`) times. `StatusConverges` is about tabs that stay visible.

## 5. What is proved

For every number of processes, runs, goroutines, addresses, targets, ports, requests,
devices, events and pages, from the named assumption on the constants of each module
(values of the right type, finite sets where something is counted, at least one user). What a theorem assumes besides:

- `EarlierRunsAreTaken` and `OwnersAreBounded`: finitely many processes or writers.
- `LinksAreUnique` speaks of cables whose ends know each other's port names, as
  `OneLinkPerKnownEnds` does; `Topology_duplicates` shows why.

| theorem | statement |
|---|---|
| `DiscoveryRuns_proofs!TypeCorrect` | `Spec => []TypeOK` |
| `ClaimIsExclusive` | two processes never execute one run |
| `SucceededIsComplete` | a run that dropped work is never "succeeded" |
| `OwnConfigHolds` | each run has its own settings, none leaks |
| `QueueImplementsLedger` | `Spec => LedgerSpec` |
| `StrandedIsBounded` | each abandoned run has a fault of its own, or its deadline passed inside `failRun` |
| `EarlierRunsAreTaken` | without faults, a run that ended leaves none waiting that was there when it was submitted |
| `DeviceIdentity_proofs!IdentityTypeCorrect` | `Spec => []TypeOK` |
| `ObservationsAreFacts` | no observation without its address row |
| `OwnerIsStable` | an address whose row no INSERT in flight can precede keeps its device, for ever |
| `OrphansNeedFaults` | each device without its address has a fault of its own |
| `OwnersAreBounded` | a MAC has at most a device per writer that looks it up and per fault |
| `ScanPool_proofs!PoolTypeCorrect` | `Spec => []TypeOK` |
| `WorkIsUnique` | no target, no device twice |
| `PoolsImplementScanPhase` | `Spec => PhaseSpec` |
| `PhaseNeverStuck` | until the phase has returned, its producer or a goroutine can go on |
| `PhaseRunsDown` | a phase takes at most four steps per target, one per goroutine and two |
| `CoreRecords_proofs!FeedTypeCorrect` | `Spec => []TypeOK` |
| `NothingTwice` | no row arrives twice unless written again |
| `FeedIsComplete` | at the end the client has all that was there and not written |
| `PagesGoDown` | `Spec => PagesDescend` |
| `LinksJoinCables` | every link is a cable, each interface at its own end |
| `LinksAreUnique` | two rows of a cable differ in the ends they know |
| `LastDeleteWins` | the request that deleted last has its way, and the automatic tags are those suggested since a run deleted them |
| `TopologyTypeCorrect`, `TagsTypeCorrect` | their types |
| `RecordsTypeCorrect`, `RecordsAreSafe` | all of these in the run `CoreRecords` |
| `DevicesPage_proofs!EveryRunIsConfirmed` | one confirmation per run queued on another |
| `CursorsKeepTheirSelection` | no cursor is used with another selection |
| `FactsAreOfSelected` | the cards show the selected device |
| `TimelineIsContiguous` | its history has no gap |
| `LoadingHasRequest` | a card that says it is loading has its request under way |
| `ListsAreOfSelected` | the forms list what the selected device has |
| `SavedTagsAreShown` | what is shown after a save is not older than it |
| `EntriesAreConsecutive` | a list that loads more has no gap |
| `Panel`-, `Dashboard`-, `Url`-, `Forms`-, `LogTypeCorrect` | their types |
| `Map_proofs!ProjectionIsOfPage` | nothing held for a page is another page's |
| `PinnedViewStays` | `MapViewSpec => PinnedStays` |
| `ViewSettles` | the effect does not set itself off again, and leaves the newest shown or offered |
| `LinksLeadSomewhere` | no link leads to a layer that does not support its focus |
| `DrawingTells` | one placement per node, and a cut is announced |
| `MapView`-, `MapLinks`-, `CanvasTypeCorrect` | their types |
| `UiNode_proofs!LossesHaveCauses` | a confirmed password is in the file unless something named has happened since |
| `UsersTypeCorrect`, `RunPagesTypeCorrect` | their types |
| `UiNodeTypeCorrect`, `UiNodeIsSafe` | all types, invariants and `PinnedStays` in the run `UiNode` |

### The inductive invariants

`DiscoveryRuns`: a worker between claim and return has a run (`CurIsRun`); the row it
holds says what its position implies (`RowMatches`); a run in flight has one worker
(`Alone`), which counts the lock held by a claim not yet committed, because otherwise
the step that commits it could meet another holder; and `skipped` is set only once the
context is done (`SkippedKnown`), which is why the last update, which needs the context
open, cannot follow. `OwnConfigHolds` needs that the saved settings are exactly those
the closures must put back; it uses the equations of `ScanConfig` once, in a lemma that
restoring undoes applying.

The bound on abandoned runs is not inductive by itself: a process that was told to stop
still holds its run, and leaves it when it exits, which is no new fault. What is counted
is `Lost`, the abandoned runs and those a cancelled process holds: every step keeps that
set or adds the one run of the worker that moves, and then there is a fault
(`WorkerLost`). The step that has none is `FailMissed`: its run is in `late` since the
deadline passed (`LateKnown`). For the order, `InsertOrder`
says that what a submission could see is stamped before it, so a claim, which takes the
oldest row that is not locked, never takes a run while one that it could see waits;
`Orderly` says the same of all runs taken, and that for each of them some worker has none
of those it could see. When such a run has ended, the others have what is left, one each.

`DeviceIdentity`: an actor that is about to write has a device, and one about to observe
an address has already written it (`ActorOK`); stamps are taken once
each and a row keeps its own (`StampsInv`), so the oldest row of an address stays the
oldest unless an INSERT in flight has an older stamp, and one that begins later has not
(`SettledStep`). The bounds
count what is about to happen with what has: `OwnersInv` adds to the devices of a MAC the
writers that have missed it and not attached it yet (`Missed`). A miss without a fault
means there is no device, so those are at most the writers there are; an attachment
moves one from the second set to the first; a fault adds one. An orphan's last actor
either attached an address or failed (`OrphanStep`), because before the lookup has
answered an actor has no device (`JobOK`).

`ScanPool`: each target is in one place, with the producer, in the buffer, with a
goroutine or started (`OnePlace`, `NoneLost`); a device started in enrichment has been
claimed (`Claimed`); a worker leaves a live context only when nothing is left
(`Drained`). The refinement follows: a phase that returned with a target not started had
its context done.

That a phase returns is liveness, but what could prevent it is not. `SomeoneReady` writes
out when the producer and when a goroutine can go on (TLC agrees with the guards on the
instance of `ScanPool_phases`). The case that matters is a producer that waits on a full
or unbuffered channel after goroutines have left: in enrichment and the port scan they
leave an open channel only when the context is done, which the producer watches too; in
the sweep nobody watches it while receiving, and nobody leaves before the channel is
closed and empty (`SweepDrains`). `StepsLeft` gives four to a target not sent yet, three
to one in the buffer, three, two or one to a goroutine by where it stands, and what the
producer still has to do; it starts at `StepsAtStart`, is a natural number and goes down
with every step of the producer or a goroutine. The two together leave to fairness only
that somebody who can move does.

`ChangeFeed`: the cursor splits what was not written since the client began; what was
delivered is still as it was (`Fresh`) and not below the cursor (`Passed`), and what the
client expects and is not below the cursor was delivered (`Delivered`). It rests on a
lemma about one page (`PageCovers`): a selected row that is not below the page's cursor
has its id on the page, which is weaker than being on it, because the two rows of a link
are equal in the order.

`Topology`: the two unique keys hold, and a row once written for a port stays that
port's, since an update by index gives it the port's own name (`RowsInv`, `KnownStays`);
so the id a goroutine has looked up is still right when it writes the link, however long
ago that was (`IdsInv`). That the ends are put in one order makes the row of a cable a
function of which ends are known; where neighbours know the right names there is one row
per port (`NamesInv`), and the key is unique.

`DeviceTags`: a request that is inserting either deleted last or was inserting at that
delete (`LateInv`), so what it still adds is its own or in `late`. Runs and requests write
different sources.

The devices page. Panel: the flag that lets a submission pass stands for a confirmation
not used yet. URL: a cursor is only in a URL that is read as the selection it was made for
(`Legal`), pushed URLs included. Cards: requests that are not aborted are for the device
the effects ran for last, and so is what is shown; the history is a run of events
`Run(d, a, k)`, newest first, and the cursor is the one after it, so the answer to a
request made with that cursor continues it however many events were added since: they are
newer than the cursor. That also gives `LoadingIsAsked`: there is at most one request of
each kind that is not aborted, and it is there exactly while the card says so. Forms: a
load that is not cancelled is for the device selected (`FormsInv`), and once the panel has
reloaded after a save, what it is loading or has loaded began after it, so it reads a
version not older (`SavedInv`). Log: the entries are the run `Down(a, k)` and the cursor
stands at its end.

`MapView`: everything held for a scope is that scope's or nothing (`ViewInv`), which
navigation keeps because it resets the provider and the query reads its cache by scope;
the effect and every control but "Apply updates" keep what a pinned view shows. The effect
reads the state it sets: `Calm` says of a view that the effect would leave it, one run of
the effect leaves a calm view, and each click is followed by such a run (`ViewSettles`).

`MapLinks`: what is selected is of a type that the page's layer can be focused on
(`LinksInv`), because core-go draws no others in that layer (`KindsAreSupported`) and the
inspector's table says of each layer what the page's says (`LayerSupport`).

`MapCanvas`: while a projection is built from several queries, what has been read is cut
at its limits and, if nothing has moved since, complete below them (`BuildInv`); the
answer then says of its cuts what is true (`CutIsTold`), and what is drawn is a function of
the answer (`DrawingOK`). A limited query returns the first rows of an order, which exist
because a set of numbers has a least and a finite one a greatest (`NaturalsLemmas`): if
fewer are returned than the limit allows, nothing was left out.

`RunPages`: what is fetched, shown or on its way is a page of one of the two limits
(`PagesInv`).

`UsersStore`: what is due to a user, confirmed or about to be, is in the file while nobody
writes (`NoneLost`). While somebody does, it is in what the writer has read, if that is
not out of date, and then nobody else writes (`WriterInv`); what a request has read, and
nobody has written since, is what the file holds (`ReaderInv`). A writer that is out of
date, one that fails and a crash inside a write excuse the users they may harm. Two
requests for one user know of one another (`AloneInv`), so what is due to a user is one
password.

Types are proved beside these invariants rather than in them (`PanelParts`, `CardsOK`,
`FormsTypes`, `HeldTypes`, `EmptyBuild`, `PollTypes`, `TagTypes`), so that an argument about
order does not carry all of them. Where a type needs order it uses what was proved: that a
card holds events there are comes from its being a run of them.

The compositions: each component starts in its initial states and every step of the whole
is a step of the component or leaves it alone (`ComponentsBegin`, `ComponentsStep`), so a
behaviour of the whole is one of each component (`RunOfComponents`, `RunOfRecords`) and
keeps what the component keeps.

### Model-checked only

`RunConcludes`, `QueuedIsServed`, `PhaseReturns`, `StatusConverges`, `CardsSettle` and
`ShownOrOffered` are liveness under fairness and so about `ENABLED`, both beyond the
prover. Of three of them the part that is not liveness is proved: `PhaseNeverStuck` and
`PhaseRunsDown` for `PhaseReturns`, `LoadingHasRequest` for `CardsSettle`, `ViewSettles`
for `ShownOrOffered`. Every other property of a passing run, invariant or action
property, is stated by a theorem.

## 6. What is not modelled

- Time. A deadline passes at any step or never; poll intervals, debounce and backoff are
  delays without length.
- Log rows and statistics of a run (best effort, nothing reads them back), and columns
  that follow from the status.
- The moment a statement's `now()` was taken, where nothing but display depends on it.
  `DiscoveryRuns`, `DeviceIdentity` and `ChangeFeed`, whose orders are those of such a
  column, tell the beginning of an INSERT from its commit. Equal timestamps are in
  `ChangeFeed` only.
- An INSERT of an address whose client has died and that the database commits all the
  same: in `DeviceIdentity` it is rolled back or has committed before.
- In `Topology`: MAC addresses and VLANs of ports, which no other statement depends on;
  ports that are renumbered or renamed between polls; LLDP local numbers that are not
  the index.
- In the UI: texts, formatting, layout and focus; the order of devices in a list; the
  security layer and the services of a host, which are drawn like a region; tabs that are
  hidden while the map is open.
- Device create, update and import. Two statements per entry by one handler: what a
  failure leaves is a prefix of them, which the hazards list; the addresses an import
  creates are in `DeviceIdentity`.
- The device list. `ChangeFeed` has its pages; its sort column is moved by any
  observation, and what a client may then miss is not stated anywhere in the repository.
- SNMP facts of a device, services: upserts of one row under one key by one goroutine.
- Display names and tag suggestions: pure functions on strings, which unit tests
  enumerate better.
- Sessions, proxy and audit: a stateless cookie and one forward per request.
- Protocol clients, metrics, logging, the pool, remaining pages, deployment: they answer
  or fail, or are presentation and configuration.

## 7. Where the code and its documents part

- **A stop leaves a run "running"** (`DiscoveryRuns_shutdown`). `failRun` falls back to a
  background context so that a cancelled run is not left stuck, but `main` does not wait
  for the worker, and may be gone first. No code ever looks for such a run.
- **A link's second end can be skipped** (`ChangeFeed_links`). The feed of all devices
  gives both ends of a link one event id and one time; the cursor is that pair and the
  next page starts strictly below it. `Complete` shows that this is all that is lost.
- **`since` is forgotten after the first page** (`ChangeFeed_since`). A client that sends
  `since` and `cursor` gets events older than `since`.
- **One cable, two links** (`Topology_duplicates`). The port that a neighbour named has a
  row without an index; when its own switch is polled, inserting the port by index fails
  on the unique name, the error is ignored, and that switch reports the cable without its
  interface, under another key. `OneLinkPerKnownEnds` is what remains true.
- **The first device's tags are written to the next** (`DeviceForms_tags`). The picker is
  initialised once and not keyed by device: tags loaded or chosen while one device is shown
  are still in it when another is selected, and saving replaces the tags of that one.
  `ListsOfSelected` is what remains true.
- **"Load more runs" lists the same runs again** (`RunPages_more`). `loadDiscoveryRuns`
  passes `query` beside `params`, where `openapi-fetch` does not look, so neither limit nor
  cursor is sent and the answer is the newest page. The timeline and the log viewer send
  theirs; `Consecutive` holds for them.
- **A confirmed password is lost** (`UsersStore_lost`). Two changes read the file before
  either writes it. `LossHasCause` lists all that can lose one: such an overlap, a read
  that fails, and a write that fails or is cut off; other overlaps, failures and restarts
  do not.

Seen while translating, without a document that says otherwise:

- In the panel, a confirmation given after a poll has found the run ended raises the
  bypass flag without using it, so the next question is skipped; `QuestionPerRun` counts
  that as the one confirmation it is. A poll answered while the tab is hidden stops the
  timer, and coming back does not start it; any click in the panel does.
- Metadata typed for one device stay in the form when another is selected.
- A deadline that passes between `failRun`'s check of its context (`worker.go:528`) and its
  update (`worker.go:536`) leaves the run "running", like a crash; the properties name it
  (`late`).
- The status and the queue go by `started_at`, which is when the INSERT began: of two
  submissions that overlap, the older one may appear when the newer has been claimed or
  has ended, and the status shows the newer.
- A run deletes the automatic tags of every device it has seen; if it then fails or its
  phases are off, they are gone until a later run suggests them again.
- The tag picker sets its tags when the first load arrives, over what the operator has
  chosen by then.
- Run list: a poll never asks for the component's page size either. The query may start
  from a page that an earlier visit has left, older than the one the server renders. New
  logs do not appear by themselves.
- Map: the query cache outlives a navigation, so a page may first show what it had on an
  earlier visit; a failed fetch on the server leaves the canvas empty although the
  provider polls; the inspector describes the applied projection, not the one offered.
- A crash or a failed write while the file of users is being written leaves it empty,
  which is read as the users of the environment, and so is any error of reading it.
- A neighbour that reports no chassis MAC is created anew by every run; a failed SNMP poll
  sets `last_success_at` to null.
