# A verification project for PICC's live order path

PICC is a dashboard whose Node server can place real orders on exchanges. This
directory holds TLA+ models of the part of the server that decides whether an
order is sent, that sends it and that remembers it (spot orders, perpetual
positions, the order lifecycle behind them, the risk state in front of them) and
of the tables the rest of the server keeps its data in; the TLC runs over small
instances of these models; and TLAPS proofs for every value of their constants.

All paths below are relative to `src/apps/dashboard/server/` (`services/` for
short where unambiguous, `commandCentre/` for `services/commandCentre/`).

## 1. Inventory

### The system's parts

| Part | State | Operations | Talks to |
|---|---|---|---|
| Kill switch store, `commandCentre/commandCentreRuntime.mjs` | kill flags per scope, in memory and in a JSON file | `setKillSwitch`, `anyKillActive`, boot | sidecar gate 1, route `kill-switch` |
| Halt store, `commandCentre/riskHaltStore.mjs` | day trip and takeover, in memory and in a JSON file | `tripBreaker`, `humanTakeoverPersist`, `clearTakeoverPersist`, `hydrate` | seeds the sidecar; called by gate 16 |
| Safety sidecar, `commandCentre/safetySidecar.mjs` | its own copy of trip and takeover, used idempotency keys, all in memory | `evaluateGate` (10 gates), `noteBreakerTrip`, `humanTakeover`, `clearTakeover`, `auditSeen` | writes through to the halt store by callbacks; appends every verdict |
| Audit trail, `commandCentre/auditTrail.mjs` | hash chain in memory, JSONL file | `appendAudit`, `readAudit`, `verifyAudit`, boot | everybody |
| Gated execution, `commandCentre/commandCentreExecution.mjs` | executors running per site, in memory | `executeProposal` | sidecar, trail, an executor callback |
| CCXT order rail, `commandCentre/ccxtExecution.mjs` and the orders routes of `handlers.mjs` | none of its own: proposals live in the trail | propose, execute, verify, list | all of the above, the ordering seam |
| Risk gates 16-19, `commandCentre/riskGates.mjs` | none | `evaluateRiskGate`, `portfolioHeatUsd` | risk state, halt store, trail |
| Risk state, `commandCentre/riskState.mjs` | aggregate of venue equities, running peak, drawdown latch, in a file | `refreshAggregateRisk`, `haltForDrawdown` | equity files, gates 17 and 18 |
| Ordering seam, `services/ccxtOrdering.mjs` | ccxt instances; equity records with a day baseline, in memory and in a file under a lock | `placeCcxtOrder`, `verifyCcxtFill`, `observeCcxtEquity`, `refreshAllCcxtEquity`, amend, cancel, close | the exchanges |
| Scheduler, `services/scheduler.mjs` and `services/jobs/` | registered jobs, which of them run | `every`, `startScheduler`, `runJob` | the equity sweep among others |
| Perps rail, `commandCentre/perpsExecution.mjs`, `perpsGates.mjs`, `services/venues/hyperliquidPerps.mjs`, `services/livePositionManager.mjs` | positions in memory and in a file, whether they were reconciled since boot | propose, execute, close, verify, list | the same gates, trail and execution; the venue's orders and positions |
| Venue lifecycle, `services/venues/ccxtLifecycleRails.mjs`, `ccxtVenueLifecycle.mjs` | consent anchors and observed positions, in memory | place, amend, cancel, close; fold a fill | ceremony store, permits, ordering seam |
| Ceremony store, `commandCentre/ceremonyState.mjs` | credits, streaks, enablement per venue class, in a file | `creditResolved`, `unlockVenueClass`, `reconcileWithLedger` | accuracy ledger, lifecycle rails |
| Mode engine, `commandCentre/modeEngine.mjs` | none | `renderVerdict` | the overview page |
| Local table store, `services/localstore.mjs`, used by `services/billing.mjs` | one JSON file per table, a lock per table in memory | `append`, `upsert`, `remove`, list; `syncSubscription` | the billing, document, client and invoice routes |

Around these are the parts `PROJECT.json` lists as not modelled, with the reason
for each: market data, analytics, notifications, costs, wealth, tax, connectors
(input, output and floating point), authentication and vault (cryptography), the
simulated paper book, the React client, the archived extension, the Python agents.

### What is hard about it

- One process, one thread: a *turn* of the event loop runs without interruption.
  Requests interleave where they wait for the network or for the file lock.
- A turn may throw half way. Nearly every turn writes a file and appends to the
  trail, and what comes after the throw does not happen: one copy of a state has
  changed and another has not.
- The process may die between two turns or inside a write. Memory (keys,
  counters, copies) is gone; files survive, perhaps cut off.
- A venue call has a 15 s limit. The order may have been accepted all the same,
  or may be later.
- People retry, open several tabs, place the order on the exchange themselves,
  and switch kills on and off meanwhile. Midnight UTC comes.

`PROJECT.json` lists each hazard at the line where it bites, with the properties
that would catch it going wrong.

### What makes each part correct

- *Switches.* A kill, trip or takeover somebody was told of stays in force until
  its clear is asked for or its day ends, whatever throws and whatever restarts.
- *Trail.* What has been read is read for ever, in one unbroken numbered chain.
- *Rail.* The venue is reached at most once per proposal; what reached it is
  explained by durable entries; what is called executed is on the book; an
  outcome is final; concurrency and exposure stay under their ceilings; no order
  is let through under a switch in force; every click is answered.
- *Day baseline.* The loss of a day is measured from one baseline; overlapping
  observations lose nothing and nobody waits for ever.
- *Risk state.* The peak never sinks, a latch that denied an open stands until the
  peak is seen again, and no total leaves out an exchange that was counted.
- *Perps rail.* A key is sent once; a position in the book is no larger than the
  fill it is named after and of a pair somebody recorded, it is dropped on evidence
  only, and a whole and true look at the venue gives the book the venue's pairs.
- *Lifecycle.* A walk that is barred sends nothing more; the book holds no more
  than was filled until an exit is answered; a walk that reports `completed` did
  enter and exit; every walk ends.
- *Tables.* A table changes by whole operations on all of its rows; the row of an
  answered request stays; everybody is answered.

## 2. Modules

| Module | Models | Extends |
|---|---|---|
| `SafetyPosture` | kill switch store, halt store, sidecar mutators and gates 1-3 | |
| `OrderRail` | gated execution, sidecar gates 8 and 10, risk gates 16 and 19, the order routes, the venue, the human as carrier B | `SafetyPosture` |
| `OrderPromise` | what the rail promises about one proposal | |
| `AuditTrail` | the trail: memory, file, boot | |
| `EquityBaseline` | equity observations, their lock, the day baseline, the sweep and its scheduling | |
| `RiskLatch` | the aggregate risk state and gates 17 and 18 | |
| `PerpsBook` | the book of positions: memory, file, boot, reconciliation | |
| `PerpsRail` | the routes of the perps rail, the venue, the human as carrier B | `PerpsBook` |
| `VenueLifecycle` | walks of `runVenueLifecycle` and their rails | |
| `LocalTable` | one table: lock, file, requests, unlocked readers | |
| `TablePromise` | what a table promises | |
| `SafetyPostureProofs`, `AuditTrailProofs`, `EquityBaselineProofs`, `RiskLatchProofs`, `PerpsRailProofs`, `VenueLifecycleProofs`, `LocalTableProofs` | theorems | the module and TLAPS |
| `OrderRailProofs` | theorems of the rail and of the switches inside it | `OrderRail`, `SafetyPostureProofs` |
| `MC*` | symmetry sets and small instances | the module |

`OrderRail` composes the switches with the rail: a click passes the gates that
`SafetyPosture` defines, gate 16 takes `SafetyPosture`'s trip, `Crash` is
`SafetyPosture`'s restart and the loss of the rail's memory.

### SafetyPosture

`killed`/`killFile` are the runtime store and its file; `store`/`haltFile` the
halt store and its file; `sidecar` the copy the gates look at. Each mutator is one
action, because it is one turn. Its two failure points are parameters: `w`, what
`writeFileSync` does ("ok", "kept": it fails before the file is opened, "torn":
it stops after the truncation), and `a`, whether the append to the trail returns.
A store-side mutator seeds the sidecar only when both returned; a sidecar-side one
changes the sidecar first. `killWanted`, `takeoverWanted` and `trippedOn` record
what callers were told, to state the properties with.

The code that production reaches mutates through gate 16 (`tripBreaker`) and the
kill-switch route; the takeover's entry points are exported and called by nobody
yet. They are modelled all the same: they are the module's interface.

### OrderRail

A click is `Begin` (consent against the recorded proposal, up to the first
observation), one of `Refuse`, `RefuseAndTrip`, `Admit`, `AdmitUnrecorded` (the
turn after the last awaited observation: every gate, the key, the durable allow),
then `Place` and `Settle`. `pc`, `target` and `call` are per click: where it is,
what it executes, and what the venue has made of its `createOrder`. A call on the
wire is accepted or refused at any later time, also after the click gave up and
after the process died; "unheard" is an acceptance nobody learned of. Verify takes
the id of any order the venue knows and compares it with nothing, so `VerifyFilled`
asks only for a recorded proposal.

`trail` is a set of entries: the rail asks only which kinds exist for which
proposal. `Status` is `proposalOrdersFromAudit`, with its precedence. Awaits on
promises that are already settled are not scheduling points: the microtask queue
is drained before another request runs. Everything `observeCcxtRailState` reads
after its last network wait (kill, concurrency, heat, risk) is therefore read in
the turn that decides, and the model has it there.

Abstracted: order sizes and prices (heat is counted in orders of the clamp size);
the pure conditions of gates 4 to 7, 9, 17 and 18, the limit-price sanity check
and stale equity, which are one nondeterministic `Refuse`; proposals that are
denied, which leave nothing that is read again. A torn line in the trail is not a
behaviour of this module: after one, no later process runs at all (`AuditTrail`).

`OrderPromise` forgets clicks, switches and restarts: a proposal is recorded, may
be approved once, sent once, and settled once. `PromiseKept` maps the phase of a
proposal from the trail and the number of calls from the clicks.

### AuditTrail

`appendAudit` numbers the entry, writes the line, then pushes to memory. The write
may do all of it, nothing, a part, or everything but the newline, so the next line
may end up on the same line. `CrashInAppend` dies inside the write. While no
process runs, `chain` keeps what the last one had returned. Hashes are opaque and
fresh, which is what sha-256 over an entry containing its number gives.

### EquityBaseline

A caller asks for the file lock (`Enqueue`), reads the wallet while it holds it
(`Reads`, `CannotRead`), folds the reading into the record and persists (`Commits`,
`CommitThrows`). The lock is a queue because waiters re-check it in the order in
which they began to wait, within one drain of the microtask queue. `now` is read
before the lock is asked for: by a rail at its call, by the sweep once for the
pass. A reading is its place in the order of all readings; which of two is the
newer is all that matters. The scheduler contributes the skip of a job that is
still running. The persist goes through a temporary file and a rename, so the file
is never cut off.

A sweep reads `now` once. If midnight falls inside it, the exchanges it visits
later are stored under yesterday's key, today's record included, and today's next
observation seeds a second baseline. `setBack` records that, and `BaselineStands`
says the baseline of a day stands in every other case.

### RiskLatch

`refreshAggregateRisk` and the gates after it run in one turn, so a click is one
action: `Refresh` (another gate denies, or only the overview asked), `Halts` (gate
18 denies and sets the latch) or `OpenAdmitted`. `seen` is what the venues' own
files say at that moment; it changes freely, to `Absent` (no record) and `Unusable`
(stale or unreadable) too. `Fed` is the code's condition for an aggregate. The
write that follows a refresh may return, fail or be cut off; the write that follows
a trip as well, and its error is swallowed. `trip`, `kept` and `high` record the
last trip, whether it was written and the highest written total. How a total is
rounded is left to the parameter `SumOf`; the run gives it the sum.

### PerpsBook and PerpsRail

`book` is the array in memory, `file` its file, `healthy` and `latched` the boot
verdict and the reconciliation of this process. `trackOpen`, `recordClose` and
`reconcileWithVenue` are the three functions that change it, `Reboot` the boot.
A click of the rail is `Begin`, on a process that has not reconciled also `Looks`
and `Applies` (the venue's view is read in one turn and applied in a later one, so
it may be old by then), the turn that decides (`Refuse`, `Record`, `Admit`,
`AdmitUnrecorded`), and `NotSent` or `Send` and `Settle`. Verify is `VerifyReads` and
`VerifyApplies`, the list is `Looks` and `Applies`. The venue takes a call at any
time, fills one contract at a time, and may liquidate; people place orders of their
own there (`HandMade`).

The verify route takes the id of any order of the wallet. It books the size that
order has filled, under that order's id, with the symbol and side of the proposal
it was asked about, or closes the position of the anchor; which order it is, is
compared with nothing, so `VerifyReads` has no condition on the pair. A view of the
venue may be partial: the adapter drops a row without a finite entry price (`hidden`
in `Looks`), and the book then counts the position as vanished. A row whose entry
price is not positive is there, but not adopted (`adopted` is any part of `Unknown`).
A view that shows a pair keeps every record of it, so a position that was adopted
and then verified under its order's id is in the book twice and stays so.

An open is keyed by its client order id, a close by the id of the position it
closes, so a close that failed has used the only key that position has. `replay` is
the position as the close read it at its start; the size it sends comes from there.
Abstracted: one pair stands for a symbol and a side; contracts are counted in ones;
prices, leverage, margin, funding and fees are left out; of gates 11 to 15 only the
position cap (14) is a condition, the others are the nondeterministic `Refuse`.

### VenueLifecycle

A walk proposes a leg, passes its rails and sends the request without waiting, so
each answer of the venue is one action that ends with the next request (`Onward`)
or with the walk. A walk replays the consent it has just written, so the consent
rail always lets it pass; what remains of consent is `position`, the size that was
read after the entry, against `sent`, what the exit asks for. `fired` and `now` are
read once by the caller when a walk starts, as in the code: the drawdown rail of an
amend uses the observation the walk began with. No route calls this code yet.

A walk buys or sells, and walks of both sides share the book of their venue, which
is signed: a fill on the other side reduces the position to zero at most, as
`foldFillIntoPositions` does. So a venue's book is bounded from both sides, by what
was bought there and by what was sold, and each exit by the fills it undoes.

### LocalTable and TablePromise

A request waits for the table's lock, reads the file, changes the rows, and writes
the file in two steps (truncated, filled). A failed write is answered like a
successful one. `syncSubscription` decides which row to write, and the delete route
whether there is a row to remove, from a read without the lock (`LookForOwn`,
`LookForRow`); a read during a write sees a file that does not parse, which is an
empty table.

A row has an owner or none. The body of an append is spread over the row, so it may
name any id and any owner; an upsert of a route takes the caller as owner; the
delete route lets anybody remove a row without one. `syncSubscription` calls
`upsertRow` without a user id and `upsertRow` then stores `user_id: null`, so the
row of a sync has no owner, no later sync of the user finds it, and each one inserts
a row of its own, in sequence as well as overlapped (`SyncsFindNothing`, section 4).

`TablePromise` knows rows only: it changes by one append, upsert or removal applied
to all rows there are, and is emptied only once a write has failed or was cut off.
`TableKept` maps its rows to the rows being written, or those in the file. It speaks
of whole operations and does not say which row a sync writes.

## 3. Runs

| Run | Shows | Bounds |
|---|---|---|
| `posture_kept` | answered trips, kills and takeovers stand | one site and the global scope, 3 days, 2 restarts, writes whole or not at all, appends that fail |
| `rail_retry` | at most once, provenance, executed is real, outcome final, `OrderPromise` implemented | 1 proposal, 3 clicks, 2 restarts, appends that fail, 2 slots |
| `rail_envelope` | the counter and the heat cap | 3 proposals, 2 clicks, 1 slot, heat cap 0, appends that fail |
| `rail_switches` | no admission under a switch in force; every click answered | 1 click, 2 days, 1 restart, switches moving at any point, appends that fail |
| `audit_torn` | chain unbroken, append-only, nothing lost in silence | 5 entries, 2 deaths, all four outcomes of a write |
| `equity_days` | one baseline a day, no lost update, everyone served | 1 exchange, 2 rails and the sweep, 2 days, 5 readings, 2 restarts, midnight anywhere |
| `risk_latch` | the peak, the latch, no partial total | 2 exchanges and the wallet, two equities each, thresholds 10 and 15 %, all outcomes of a write, any number of restarts |
| `perps_book` | once per key, a close has an outcome, nothing invented, evidence, agreement | 2 pairs, 1 proposal, 1 click, 1 other request, 2 orders of 1 contract, one of them possibly by hand and of either pair, any number of restarts, cut-off writes, appends that fail |
| `lifecycle_walks` | book within fills, barred sends nothing, completed is real, walks end | 2 walks of 2 contracts on one venue, buying or selling, each asked for all four legs, 1 strike, 2 days, any number of restarts |
| `local_data` | `TablePromise` implemented, answered rows stay, everyone answered | 3 requests of 4 kinds by 1 user, writes that fail before or after the truncation, 1 death |
| `rail_failed_after_accept`, `perps_refused_executed` | violations, section 6 | 1 proposal |

Why the bounds are enough. At-most-once needs two clicks and a restart between
them; the third click and second restart let a failure and a retry both happen
first. The envelope needs two clicks for one slot. The heat passes its cap only
through an order that leaves the heat (verified) and comes back (executed) while
another is created, which takes two orders; the third is the one that must not get
in. Two days are enough to carry something across midnight, the third lets a trip
of an earlier day and one of today coexist. Five entries let a number be skipped,
a line be glued to an unfinished one, a restart happen and more follow. Three
callers of the lock are a holder and two waiters, so the order of waiting shows.
One exchange is enough for `equity_days` because records are keyed by exchange and
exchanges share only the lock, which the callers share too.

In `risk_latch` the totals run from 160 to 300, so that the fall of one venue is
in the step zone (6.67 % for one of three, 10 % for one of two) and of all of them
past the hard stop, and an exchange that leaves and comes back is the second one.
The two orders of `perps_book` are the one the rail places and one that is placed
by hand or by an earlier process; the click and the other request overlap in every
order, and the same click comes back after a restart, which gives at-most-once its
second attempt. The order by hand may be of the proposal's pair (carrier B) or of
the other one, which lets a fill be booked under a pair it is not of and lets a pair
have two records; hand-made orders of any number and kind are in the proofs. With one contract an order is unfilled or filled; that a position
is no larger than its fill is proved for every size (section 4). Writes that keep
the old file are left out of `perps_book`: they leave a book that a boot without
the write would leave. Two walks are what can fold a fill twice or exit twice, and
on two sides cancel each other in the book; two contracts let a fill be partial.
The run asks every walk for all four legs; walks that are asked for fewer are not
in it, and the safety properties are proved for every set of legs (section 4).
Three requests on a table are a writer, one that waits for the lock and one that
reads without it.

Deadlock is not checked where a bound ends the behaviour (every proposal drawn,
every click used, every reading taken, every request made).

*Fairness.* `FairSpec` of `OrderRail`: a started click takes its next turn. Every
wait in it ends: the lock because its holder releases in `finally`, venue calls
because ccxt has a 15 s timeout. There is no fairness for people, for the venue,
for restarts or for midnight; a click under which the process dies is "lost" and
counts. `EquityFairSpec`: whoever holds the lock goes on, for the same reason.
`FairSpec` of `VenueLifecycle`: a request of a walk is answered, if only by its
timeout. `FairTable`: file operations end, and a waiting request takes a lock that
is free (the lock is a chain of promises, each waiter runs when the one before it
has settled); weak fairness is enough because no request comes twice.

## 4. Proofs

TLAPS checks, for every value of the constants:

- `SafetyPostureProofs`: `PostureTypeCorrect`; `TripAlwaysStands`, under every
  outcome of a write; `KillStandsWhole` and `TakeoverStandsWhole`, assuming that
  no write is cut off. The invariant behind the trip says of all three copies
  (sidecar, store, file) that they carry the trip if today's was answered, and
  that a cut-off file counts as a trip, because it boots as one. It is needed
  because a restart replaces memory by the file. The other two are alike, each
  with the copies its mutators keep together.
- `OrderRailProofs`: `TypeCorrect`, `VenueReachedOnce`, `ProvenanceAlwaysDurable`,
  `AdmissionAlwaysRespectsSwitches` (assuming no switch file is cut off),
  `OutcomeAlwaysFinal`, `ExecutedAlwaysReal`; `RailKeepsPosture`, that the rail
  implements the switches; `RailKeepsPromise`, that it implements `OrderPromise`;
  `EnvelopeAlwaysHeld` and `HeatOvershootBounded`, for every number of executors and
  every cap.
- `AuditTrailProofs`: `TrailTypeCorrect`, `ChainAlwaysUnbroken`, `SeqAlwaysIncreasing`,
  `NothingEverLostSilently` and `TrailAppendOnly`, under every append and cut;
  `WholeAppendsAlwaysBoot`, assuming that an append writes its line or nothing.
- `EquityBaselineProofs`: `EquityTypeCorrect`, `NoUpdateLost` and
  `DayBaselineStands`, for every number of callers, exchanges and days.
- `RiskLatchProofs`: `RiskTypeCorrect`, `RiskPeakStands`, `RiskLatchStands`,
  `RiskNeverPartial`, assuming only that a total of usable equities is a number.
- `PerpsRailProofs`: `PerpsTypeCorrect`, `PerpsSubmittedOnce`,
  `PerpsAnchorAfterOutcome`, `PerpsNothingInvented`, `PerpsLookAgrees` and
  `PerpsLeavesOnEvidence`, under every outcome of writes and appends, for every
  order somebody places by hand and every partial view.
- `VenueLifecycleProofs`: `LifecycleTypeCorrect`, `LifecycleBarredSendsNothing`,
  `CompletedWasReal`, `BookStaysWithinFills`, `WalkSendsOnce` and
  `AloneWalkClosesWhatItRead`, for every number of walks, venues, sizes and legs.
- `LocalTableProofs`: `TableTypeCorrect`, `AnsweredAlwaysStays` and
  `TableKeepsPromise`, that a table implements `TablePromise`; `SyncsFindNothing`,
  that where a table is written by syncs alone every sync takes a new id.

Every invariant and every action property of the runs is among them.

The inductive invariant of the rail, `RailInv`, has five parts. `Unsent`: a click
that has not reached `Place` has no call. `Consented`: a click past `Begin` has a
recorded proposal and a reconfirmation. `Locked`: a click past its admission has
its allow in the trail. `Alone`: two clicks past their admission have different
proposals. `Closed`: an outcome in the trail belongs to an admitted proposal. At
most once is not inductive by itself: that a second click is stopped rests on the
first one's allow being in the trail (`Locked`, which restarts keep) where gate 10
finds it, and `Admit` is the only action that moves a click past its admission
(`OnlyAdmitPlaces`). `OutcomeAlwaysFinal` adds that outcomes are only ever
appended by the click that is alone on its proposal (`OutcomeSource`).
`ExecutedAlwaysReal` rests on `RealInv`: a call that became an order stays one
(only `Place` changes a call that is not on the wire, and a click at `Place` has
none), its click never turns to another proposal, and `execution:executed` is
appended after the answer.

The refinement (`PromiseStep`) adds `Begun`, the order in which a proposal's entries
are written: minted, recorded, allowed. Each step is a step of the promise about one
proposal or an `Aside`, which appends consents and verifications only. Where the
promise asks that an approved proposal is sent once, `Alone` makes the set of its
callers empty before `Place` and a singleton after it. The envelope counts:
`running` is the size of `InFlight`, which gains or loses one click with it. The
heat is not inductive: an order that is verified while its click is out leaves the
heat and comes back when the click is recorded executed. `ExposedInv` bounds the
heat together with the proposals being executed, and that set grows only in the two
turns that read gate 19, `ProposeCreated` and `Admit`.

The proof that a step keeps the invariant has one case per action; actions that
leave the rail's part of the state alone share a lemma (`QuietStep`). The steps of
the rail that move the switches are steps of `SafetyPosture` (`RailStepsPosture`),
so its invariants hold in the composed module without being proved again.

The inductive invariant of the trail, `TrailInv`, says that a file that parses is
itself a chain in order and extends the memory, and that a running process whose
file parses and ends in a newline has exactly that file in memory. The second half
is what `ChainUnbroken` lacks to be inductive: a failed append may leave a whole
line in the file that the memory never saw, and only because that line lacks its
newline does the next append spoil the file instead of building on the gap
(`WriteCases`).

`WholeAppendsAlwaysBoot` says what that module's dead end takes: only a line that is
cut short, or glued to one, can stop a later process. Its assumption is what the
code cannot guarantee, and the theorem shows that nothing else is needed.

The day baseline (`EquityInv`): only the holder of the lock has a reading
(`OnlyHolderReads`), so its reading is newer than everything stored and written
(`ReadingsInOrder`), which is `NoUpdateLost`. `DayBaselineStands` follows days
instead: nothing is dated after today (`DaysInOrder`), a rail that waits is dated no
earlier than the records and than whoever waits before it (`RailsInOrder`), so only
the sweep can put a day back (it is queued only while a pass runs, `SweepQueued`),
and today's answered baseline is in memory and in the file, unless a sweep has set
its exchange back (`AnswerKept`).

The latch of the risk state (`LatchInv`): while a trip stands, a healthy store is
halted with a peak no lower than the trip's, and a trip that was written stands in
the file as well unless the file is cut off, in which case the next process does
not run healthy. `RefreshLatch` is the step that matters: a refresh can drop the
latch only with a total that reaches the peak, which ends the trip too. The peak
(`PeakInv`) adds that a healthy process without a store has nothing written.

The perps rail has four invariants over its types. `GoalsFit` makes the types
inductive: a click's job decides what its key is, a close holds a position.
`SendInv` is at most once: a key that was sent has its allow in the trail, an
admitted click has its allow and has not sent, and two admitted clicks have
different keys; restarts keep the trail, so gate 10 finds the allow. `AnchorSound`
rests on `Finish` appending an anchor only next to an outcome, and on proposals and
positions having different ids. `SourceInv` is behind the book: orders only grow
(`OrdersGrow`) and so does the trail (`TrailGrows`), so whatever is on the venue, in a
view some request still holds or in a read not yet booked is covered by an order that
filled, however old it is; the book and the file are `Sound` against the orders and
the trail: a tracked position is no larger than the order it is named after and has
the pair of a recorded proposal (`Tracked`), an adopted one is of the pair that is its
id, in which some order filled (`Adopted`). The last part makes what a view adopts
new to the book (`UnknownApart`); without it a view could overwrite a position of
another pair, and `PerpsLookAgrees` would fail. `BookSteps` names the three ways the
book changes, and each property of the book has one case for each.

The lifecycle's types need `WalkInv`: what a walk will send is set exactly while its
exit is out. `OnwardStep` is the one fact behind `LifecycleBarredSendsNothing`: a
walk goes on to a leg only through `RailsPass` in the same turn, and because the
moment a walk was called for has passed, a lock that holds today holds for it.

Behind the book are two sums over the walks of a venue, each for one side: what the
venue has `Filled`, and what the walks were `Told`, the fills of those that have
passed their verify (`Unread` has the others). `Told` is at most `Filled`, a fill
raises only the second, and a walk that reads moves its fills from one to the other
exactly once (`ReadIsTold`), because it never comes back to its verify. `FillsBound`
keeps the book and every exit within what was told while the venue has no exit.
`FillsBehind` is what `CompletedIsReal` needs: a book or a position that is not zero
has a fill behind it, and a walk past its close an entry and an exit. The walk's own
turns share three lemmas, by whether it goes on (`GoneOn`, `GoneOnFromBook`) or
stays (`Stayed`).

`WalkSendsOnce` and `AloneWalkClosesWhatItRead` are not among the runs' properties:
the proof states them over the same model. Both follow from what one turn of a walk
may do (`Turn`): it never returns to its entry, changes its exit only in the turn
that ends it, and leaves the book at the position it read unless another walk moved
it. The second theorem bounds the disagreement of section 6 about the close: an exit
for another size or side than the walk verified takes a second walk on its venue.

The table (`TableInv`): what a request is about to write is its change of all the
rows there are (`WritesWhole`), because nobody else changes the file while it holds
the lock; a file that is cut off without a failed write is one that its holder is
filling (`TornWhileFilled`); and the row of a request is in what it writes
(`RowIsWritten`). A step of the table is then a change of the promise by one
request, a failed write, or a stutter. `OwnerInv` is behind `SyncsFindNothing`: no row
in the file or about to be written has a user, and every caller is one.

A sum over walks and the removal of rows are recursive functions, and the induction
theorems of the library are out of reach because they take an operator. These two
are proved by the least counterexample instead: the natural numbers and the finite
sets have a least element of every non-empty set of them (`LeastNat`, `LeastSet`), so
a statement that fails somewhere fails at a least size, and fails there for a reason
the definition excludes (`FoldIsSum`, `SumAdds`, `RemovedRows`). The same argument
shows first that the recursive definition has a value at all (`SumExists`,
`RemovedIs`).

Only model-checked: liveness (`ClickAnswered`, `WalkEnds`, `EveryRequestAnswered`,
`EveryObservationEnds`), which rests on fairness and so on `ENABLED`, out of the
prover's reach.

## 5. Plan

Modelled so far, in order of importance: the switches and the spot rail, the trail,
the day baseline, the risk state, the perps rail, the lifecycle, the tables.

What is left is listed below. Runs stay few: a module gets one run that checks it
whole, and a disagreement is kept only while it is the most telling one.

### Not modelled

- *Gates 4 to 7 and 9 and 11 to 15 as conditions.* Each is a pure comparison of the
  proposal with a limit; a rail may refuse at any of them at any time, which is the
  nondeterministic `Refuse`. What they compute is tested input by input.
- *Mode engine, authority and permits, deliberation.* Pure functions of what they
  are given; nothing they return is acted on by a rail in production.
- *Ceremony store and accuracy ledger.* `unlockVenueClass` throws outside the test
  runner and `reconcileWithLedger` changes nothing, so all the lifecycle sees of
  them is one bit, `unlocked`.
- *`localStore()`.* The single-object store with its chain of loads and its rename
  retries; the tables beside it are modelled.
- *Late fills.* The lifecycle reads an order once after placing it; what fills
  later is not in its book, and the model has it so. What a person then does about
  it is outside.
- *Market data, analytics, news, costs, wealth, tax, connectors, notifications.*
  Input, output and floating-point arithmetic.
- *Authentication, vault, rate limits.* Cryptography and counters that no rail reads.
- *Autopilot and the paper book.* Simulated; no live order depends on it.
- *Browser studio, React client, extension, agents.* They call the routes and hold
  no state of the rails.

The repository has about 125,000 lines of implementation, most of them in these
parts; the modules cover the few thousand that send orders and keep state.

## 6. Where the code and its text disagree

Two have a run whose counterexample shows it.

- `rail_failed_after_accept`: the append of `execution:executed` is inside the
  executor's `try`; if it throws, an accepted order is recorded as failed
  (`commandCentreExecution.mjs:65-79`).
- `perps_refused_executed`: `submitOrder` answers `{ ok: false }` to every refusal
  before `createOrder`, and an executor that returned is recorded as executed
  (`commandCentreExecution.mjs:64-76`); `perpsExecution.mjs:676-677` calls the listed
  state the honest latest one.

The models show the others as behaviours; no run is spent on them.

- A cut-off halt file boots as a trip of the boot day, and the takeover it held is
  gone at midnight (`riskHaltStore.mjs:61`; its header, lines 4-6, and
  `safetySidecar.mjs:114` have it survive). `TakeoverStandsWhole` needs its
  assumption for this reason.
- One cut-off line in the trail makes every later process fail at import
  (`auditTrail.mjs:62`, against `safetySidecar.mjs:322`): in `AuditTrail` no action is
  enabled after that boot.
- A sweep that spans midnight puts yesterday's day key back and today's baseline is
  seeded again (`ccxtOrdering.mjs:869-880`, against 633-636): the exception in
  `BaselineStands`.
- An order that rests on the book is listed as verified-filled
  (`ccxtExecution.mjs:441`, against 427-428), and a proposal whose manual fill was
  verified can still be sent by a click (`ccxtExecution.mjs:413`, against
  `handlers.mjs:2605`): `Status` and `Begin` have it so.
- The close leg re-reads the position and sends what it finds, so the exit can be
  larger than, or on the other side of, the position the consent was given for
  (`ccxtVenueLifecycle.mjs:566-656`, against `ccxtExecution.mjs:69-72`), and it
  folds a fill no venue has reported (806-820, against 239-242 and 316-319): `sent`
  against `position`, and why `BookWithinFills` ends with the first exit.

- Every sync of a subscription inserts a row whose `user_id` is null
  (`billing.mjs:8-9`, `localstore.mjs:122`), against "single-row-per-user settings"
  (`localstore.mjs:117`), and the lookup of a user's Stripe customer, which counts on
  the row being written by the sync, does not find it (`handlers.mjs:300-308`):
  `LookForOwn`, and theorem `SyncsFindNothing`.

What the models reach and nobody promises to exclude; no property forbids it:

- A process that dies between the venue's acceptance and the append leaves a
  proposal that is listed open for ever and cannot be executed again; a kill that
  arrives between the admission and `createOrder` does not stop the order.
- A spot proposal is verified filled by the id of any order the venue knows
  (`handlers.mjs:2739-2745`, `ccxtOrdering.mjs:595-609`).
- A perpetual fill is booked under the pair of the proposal it was verified for, be
  it of another symbol or side, and a close anchor is closed by it
  (`handlers.mjs:3105-3141`, `hyperliquidPerps.mjs:432-462`). `NothingInvented` bounds the
  size by the order, not the pair; `LeavesOnEvidence` asks that a fill was read, not
  that it was the position's.
- A stale or partial view closes a position that is there and adopts one that has
  gone; `LookAgrees` says the next whole and true view puts the book right.
- One position can be in the book twice, adopted and tracked
  (`livePositionManager.mjs:482-500`); gate 14 counts both. `LookAgrees` compares pairs,
  and says only that no view adds a record of a pair the book holds.
- A close of a perpetual position whose venue call failed cannot be tried again,
  its key being used, and the position waits for a person. An attempted close whose
  anchor was not appended is not listed; `AnchorAfterOutcome` is the other half.
- Overlapping exits of one book open a phantom short; `BookWithinFills` ends before.
- A table write that failed is answered as if it had been stored. The lifecycle's
  consent anchors are read and never used up, and are lost with the process.

## 7. How to run

    tlc -config OrderRail_retry.cfg MCOrderRail
    tlapm OrderRailProofs.tla
