# OxiGrid in TLA+

A verification project for the stateful parts of OxiGrid, a Rust library for
power system analysis.  Most of the library is numerics (power flow, stability,
harmonics, optimisation); the parts modelled here are the ones that keep state
over a sequence of calls and take discrete decisions: an auto-recloser, a
peer-to-peer energy market, a hash-chained trading ledger, the automation of a
distribution feeder, a digital twin with its alert engine, and a microgrid made
of a load shedding scheme, a smart inverter and an islanding controller.  Paths below are relative to the repository's `src/`.

## 1. Inventory

| component | source | state | operations |
|---|---|---|---|
| auto-recloser | `protection/autorecloser.rs` | phase with its payload, breaker position, life-time shot counter | `process_event` (6 events), `tick` |
| P2P market | `optimize/market/peer_to_peer.rs` | agents, order book, trades | `add_agent`, `submit_bid`, three clearing algorithms, `clear_market` |
| energy ledger | `optimize/market/ledger.rs` | accounts, pool, chain, next id | `register_participant`, `submit_transaction`, `settle_block`, `validate_chain`, `participant_history` |
| feeder automation | `network/feeder_automation.rs` | switch states and operation counts, energised sections | `process_fault`, `restore_unfaulted_sections`, `recloser_sequence`, `switch_operation` |
| digital twin | `digitaltwin/twin.rs`, `telemetry.rs` | current and previous snapshot with data quality per bus, update count | `ingest_telemetry` |
| alert engine | `digitaltwin/alert.rs` | alerts, next id, suppressed pairs, time of the last alert per pair | `check_state`, `acknowledge`, `suppress` |
| load shedding | `monitoring/frequency_monitoring.rs` (`UflsScheme`) | timer and fired flag per step, load shed | `step`, `reset` |
| smart inverter | `renewable/inverter/smart_inverter.rs` | ride-through state, time in violation, outputs | `update`, `check_ride_through` |
| islanding controller | `optimize/microgrid/advanced_ems.rs` (`IslandingController`) | transition state, stored energy, last load and generation, grid flag | `initiate_islanding`, `step_islanded`, `reconnect_to_grid`, `check_islanding_feasible` |
| twin synchronisation, replay | `digitaltwin/realtime_sync.rs`, `replay.rs` | measurement buffer, last estimate | `update_measurements`, `sync` (not modelled) |
| microgrid relays | `protection/microgrid_protection.rs` | mode, active setting per relay | `update_mode`, `add_relay` (not modelled) |
| micro SCADA | `monitoring/micro_scada.rs` | tags, alarms, control log | `add_tag`, `update_tag`, `check_alarm_conditions`, `acknowledge_alarm`, `execute_control` |
| REC registry | `optimize/market/rec.rs` | registry of certificates, portfolios with copies | `issue_rec`, `retire_rec`, `transfer_rec` |
| motor and relay protection | `protection/motor_protection.rs`, `relay.rs`, ... | thermal state, start counters | mostly pure functions |
| batteries | `battery/` | state of charge, temperature, limits | `step` functions over reals |
| the rest | `powerflow/`, `network/`, `optimize/`, `stability/`, `harmonics/`, `powerquality/`, `powerelectronics/`, `renewable/`, `planning/`, `analytics/`, `security/`, `simulation/`, `io/`, `units/`, `testcases/` | none that lasts, or real-valued | numerical algorithms, parsing, statistics |

How they interact.  The library has no threads, no async code and no messages of
its own: a component is a Rust value, each call borrows it mutably and runs to
completion, so a call is one action here.  Components do not call one another;
the caller connects them (a relay's trip is passed to the recloser, the
recloser's command is carried out by a breaker; the result of `process_fault` is
handed to `restore_unfaulted_sections`; one frequency sample goes to the shedding
scheme and to the inverter).  The one exception modelled here is the twin, which
owns its alert engine and calls it.  What is hard is therefore not the
interleaving of threads but the order of calls: every public operation may come
next in every state, results may be handed over late, the clock moves by any
amount, and a long legal sequence of calls may reach a state no test starts
from.  Nothing is persisted, so there is nothing to recover after a crash.

What makes each component correct:

* recloser: bounded reclosures, dead times respected, a breaker position that is
  never contradicted, sequences that end;
* market: conservation of volume, limit prices, the priority each mechanism
  promises, statuses that tell what the trades say;
* ledger: no transaction lost, repeated or changed, balances that follow from
  the history, a chain that verifies;
* twin: an alert for every violation and no flood of alerts, in whatever order
  scans arrive; snapshots whose parts are as old as they claim;
* microgrid: load shed in the planned order and before generation is lost,
  inverters that ride through what they must and stay out as long as they must,
  an island that lasts as long as the check promised;
* feeder: a fault is fenced in, a restoration stays within capacity and never
  closes onto a fault, devices that must stay open stay open, wear is counted.

The hazards of `PROJECT.json` list where each of these could go wrong, line by line.

## 2. Modules

| module | what it is |
|---|---|
| `ReclosingContract` | abstract: what a recloser promises, without timers or shot numbers |
| `Autorecloser` | `process_event` and `tick`, arm by arm; implements the contract |
| `RecloserLine` | the recloser composed with a breaker, a fault, relays, a monitor and an operator |
| `P2pMarket` | order book, the three matching algorithms, statuses |
| `TransactionLog` | abstract: what a ledger promises about transactions |
| `EnergyLedger` | accounts, pool, chain; implements the log |
| `FeederAutomation` | fault isolation, restoration, shot sequence, manual operation |
| `AlertEngine` | thresholds, de-duplication, suppression, acknowledgement |
| `GridTwin` | `ingest_telemetry`, which calls the engine; the operator |
| `LoadShedding`, `SmartInverter`, `IslandingController` | the three devices of a microgrid, each a module of operators on its own variables |
| `Microgrid` | the three composed under one clock and one sample |
| `Ordering` | lists of the members of a set in an order: what the code's stable sorts and filters return |
| `DataLemmas` | induction over numbers and finite sets, folds, sorted lists, sums, flattened lists: lemmas with no program in them |
| `*Proofs` | theorems about the module of that name; `GridTwinProofs` has those of `AlertEngine`, `MicrogridProofs` those of the three devices |
| `MC*` | the instances TLC checks |

**Autorecloser.**  The Rust enum `RecloserPhase` with its payload becomes three
variables: `phase`, `shot` (the `shot`, `shots_used` or `n_shots` payload) and
`elapsed`.  `breakerClosed` and `totalShotsFired` are the fields of
`AutorecloserState`; `command` is the value the last call returned and
`closures` a history variable.  Each event is an action, each arm of the `match`
a disjunct of it, and `Ignored` is the catch-all arm.  `TripInDeadTime`,
the arm for a trip during the dead time, leaves `breakerClosed` alone because
the code does not assign `breaker_closed` there; that the breaker is open all the
same is `BreakerFollowsPhase`, proved (`OpenInDeadTime` is the lemma).  Times are whole ticks.
`sync_check_*`, `min_line_voltage_pu` and `first_shot_fast` are configuration
fields no code reads, `time_in_state_s` is written and never read; they are left
out.

**RecloserLine.**  The recloser has no view of the line, so its environment is
external: a breaker that obeys the returned commands, transient and permanent
faults, a relay that trips while fault current flows (also between the reclose
and the verdict, where the device drops the trip), a monitor that reports after a
reclose, an operator and a repair crew.  `StrayTrip` and `StrayVerdict` are the
events out of place: a trip of a second relay on a line that is dead or sound, a
verdict that is wrong or comes when the phase has changed.  The operator may
inhibit, release and reset in any phase.  Every environment step that concerns
the device goes through an action of `Autorecloser`.  `deadFor` counts the time on
the dead line from each opening command, also one that finds the breaker open.
`UnattendedSpec` leaves the strays and the operator out.

**P2pMarket.**  `bids` is the vector of bids, a bid's position stands for its id;
`trades` is the vector of trades.  `round` is history: the mechanism, the active
bids, the buses and the trades of the last clearing, for the properties to speak
about.  The matching loops are folds with the code's working copies (`left`) as
accumulator.  The auction (`AuctionMatch`) sorts both sides and folds `Turn`, one
turn of the loop with two pointers, as often as a pointer can move.  The loops of
`match_bids_pass` and of the bilateral matching are `GreedyMatch`: a fold of
`Meet`, what a buyer and a seller trade when they meet, over the pairs in the
order in which the nested loops visit them (`VisitOrder`).  A sort is stable, so
its result is the list in an order that breaks ties by position (`ByPrice`,
`ByDistance`).  The
other three `P2pMechanism`s fall back to the auction in the code, so they add
nothing.  Kilowatt-hours are integers (the `1e-9` tolerances become zero) and
clearing prices count half units.  The fees, the carbon figures and
`build_result` are computed from the trades and read by nothing; left out.

**EnergyLedger.**  `participants` maps the registered ids to their accounts,
`opened` is history.  `Settled(p)` is what the account of `p` is after the loop of
`settle_block` over the pool, a fold.  `ParticipantHistory` gives the positions of
a participant's transactions in the chain.  The hash is the constant operator `Hash`: nothing proved
depends on it.  Delivery hour, energy type and time stamps are carried unread.

**FeederAutomation.**  A switch has its state and operation count; the sections'
`energized` flags are the set `energized`.  `fault` is the section of the last
isolation result, which the caller hands to the restoration; `isolated`, `blown`
and `lastCall` are history.  `process_fault` is one action with the code's three
outcomes (no switch found, temporary, permanent); the loop of the restoration is
a fold over the dead sections with the switch states as accumulator, because
each turn sees the ties and loads the previous turns left.  Ratings are given in
kW, so that the code's conversion at 11 kV is in the numbers of the instance.

**AlertEngine, GridTwin.**  A batch is what is left of a telemetry batch after the
quality codes: the last good voltage of each bus, the last good frequency,
whether a power point is among them, and at most one PMU frame.  `state` and
`prev_state` are the fields of the same name (`prev_state` a set with at most
one element, for `Option`); `Base` is the snapshot a new one is cloned from.
`IngestTelemetry` is the whole of `ingest_telemetry`, the alert check included.
The state estimator is a numerical solver: it fails or returns any of
`FlowEstimates`, because only the flows that follow from its angles matter to
the alerts.  `Interpolate` follows the loop over the buses, which reads values it
has already filled in; its mean is rounded down to the unit of the instance.
Dedup records are a function of the watched pair.  `heard` is history: the latest
report of each voltage, of the flows and of the frequency, and when a bus was last
measured.  The
category and element of an alert are one pair, with element 0 for the frequency.
Generation and load per bus, reactive flows and `state_source` are read by none
of the operations modelled and left out.

**LoadShedding, SmartInverter, IslandingController, Microgrid.**  Nothing in the
library connects the three devices, but they are stepped by the same kind of call
with the same measurements; `Microgrid` is the simulation that owns them.
`TimeStep` is one turn of its loop: one sample, handed to `UflsScheme::step`, to
`SmartInverter::update` and to `IslandingController::step_islanded`.  Between two
turns come `initiate_islanding`, `reconnect_to_grid`, the scheme's `reset` and
`check_ride_through` called directly (`Probe`): it is public, and counts violation
time without changing the state.  The enum payloads are the `elapsed` fields.
Energy is a product of power and time in whole units, so that the division of
`autonomy_estimate_h` is multiplied out and no rounding is involved.
The load is an input of every step and does not follow from what was shed: the
library does not close that loop either.  The hysteresis-free comparisons are
kept as they stand (`<` for a low frequency, `>=` for a delay that is over).
`stress`, `calm` and `pledged` are history.

## 3. What is checked

| run | instance | what it shows |
|---|---|---|
| `recloser_line` | 3 shots, dead times of 1 and 2 ticks, ticks of 1 and 2; a line with faults, strays and an operator | breaker and phase agree; at most 3 reclosures; shot numbers advance; refinement of `ReclosingContract`; the device knows the breaker's position during a sequence; no reclose before the dead time and hold-off of the shot; liveness: sequences end, faults are resolved |
| `p2p_market` | 2 agents, 8 kinds of bids, up to 4 bids, any clearing at any time | volumes, limits, priorities and exhaustion of one clearing; efficiency of the auction against every other allocation; statuses over several clearings |
| `energy_ledger` | 3 participants, 3 transactions, re-registration at any time | ids, chain, balances replayed from the history, refinement of `TransactionLog` |
| `feeder` | 4 sections, 6 switches, 2 ties, 4 calls of any kind | border opened, capacity, one tie per section, wear, only ties are closed |
| `grid_twin` | 3 buses (two joined, one alone), 3 kinds of batches in any order, 5 batches, estimator failing or not | alerts spaced; every violation covered; no report lost before the next one |
| `microgrid` | 2 shedding steps, 3 frequencies, 2 voltages, 2 loads, 2 levels of generation, steps of 1 and 2 | order of shedding; shedding before the trip; ride-through and reconnection times; autonomy |

Six runs show the code doing something its documentation excludes:

* `lockout` - the recloser gives up during the reclaim time because of shots it
  fired in *earlier* sequences (`total_shots_fired` is cumulative and is never
  reset), though `Lockout` is documented as "all shots exhausted"; the run is
  under `UnattendedSpec`, so nothing but faults, ticks and correct reports leads
  there;
* `p2p_overfill` - a partially filled bid is offered again with its full
  quantity, so its trades exceed it;
* `feeder_faulted` - after a second fault, the restoration energises a section
  isolated earlier for a permanent fault;
* `feeder_fuse` - a blown fuse can be closed: open it first, or run
  `recloser_sequence` on it with no current;
* `stale` - `staleness_threshold_s` is documented as "Mark bus data as `Stale` if no
  update received within this window" (`twin.rs:119`).  The age and the old quality
  are read from `prev_state`, the snapshot *before* the current one, so a bus that
  the last batch measured and no batch has since is not marked.  The new snapshot
  is cloned from `prev_state` too ("starting from flat-start or previous state",
  `twin.rs:249`), so that in the same trace the voltage of the bus goes back to
  where it was before the measurement;
* `rejoin` - the controller documents a reconnection (`advanced_ems.rs:8`, `:910`)
  and `Reconnecting` as "Attempting resynchronization" (`:768`); no operation
  completes it.

Other differences between comments and code, with no run of their own:

* `energy_balance_mwh` (`ledger.rs:96`) and `compute_agent_balance`
  (`peer_to_peer.rs:760`) are documented as positive for a net seller while the
  code subtracts what is sold; `BalancesReplayHistory` leaves the direction open
  and asks only that it is the same for everybody;
* `local_only` is documented for bids of either direction (`peer_to_peer.rs:191`)
  and read for buyers only (`:853`);
* `run_bilateral_matching` documents ties "broken by price spread" (`:624`) and
  sorts by distance only (`:689`);
* the block header's price is documented as a weighted average and is the
  caller's argument;
* `process_fault` says that it opens "all switches that directly border the faulted
  section" (`feeder_automation.rs:392`) and de-energises sections downstream
  (`:420`); it opens sectionalizers, automatic switches and reclosers only, and
  clears the flag of the faulted section only;
* `active_alerts` is documented as "non-cleared" alerts, and nothing clears one;
* `time_in_violation_s` is documented as time "in the current voltage/frequency
  violation" and runs on from one kind of violation to the next.

What else a reader may not expect, and no comment excludes:

* phasors of a PMU frame with a bad status word still override the scan and are
  marked Good, and such a frame hides the scan's frequency (`twin.rs:302`);
* `interpolate_missing` takes values across branches that are out of service;
* a warning that grows into an emergency within the window raises no new alert, a
  late scan none for a pair with a later one, and the frequency cannot be
  suppressed;
* feasibility is judged on the load of the last step, at first on the default of
  `new`; the preparation phase draws nothing from the battery and no operation
  counts down the endurance of the diesel.

### Bounds, and why they are enough

* `MaxFired` (recloser): the counter `total_shots_fired` grows for ever.  Once it has
  reached 5 no new sequence starts, and no stray verdict, release or close by hand
  comes that could lead to one (`MoreSequences`).  With 3 shots that leaves
  room for a sequence that ends well, a second that starts with the counter
  below `n_shots` and crosses it, and a third that starts above it.  Two dead
  times for three shots exercise the clamped index; a tick of 2 overshoots.
* `MaxBids` = 4: one clearing needs two bids on a side to see an order, two on
  each to see two pointers move alternately; a second clearing needs a bid that
  arrives in between.  The offers include price ties, no volume, an expired bid,
  local bids of each side and a green buyer with a renewable seller.  The agents
  register at any time, so a bid may change bus between clearings.
* `MaxTx` = 3: two blocks with one and two transactions in any split; a trade
  with oneself; two orders that are refused.
* `MaxCalls` = 4: isolation, another fault, restoration and a manual operation fit
  in.  The run then stops, which is why deadlock is not checked there.
  `CountLimit` = 4 stands for `u32::MAX`; a permanent fault with 2 shots counts 3,
  so that it is reached and passed.

* `MaxDead` is a constant: where the count of dead ticks stops.  The assumption
  says that no dead time with its hold-off is longer, so nothing is lost.
* `MaxBatches` = 5: a base two batches back needs three batches to matter, a late
  scan between two alerts of one pair one more.  The
  instance has a critical voltage that is measured, a high one that a bad frame
  brings, one that is only interpolated, a flow that only the estimator finds
  and two low frequencies; time stamps may go back.  `AckIds` = {0, 1}:
  acknowledging more alerts sets more flags that no operation reads.
* `MaxIslanded` = 3 is beyond the minimum autonomy of 2; `MaxViolation` = 2 limits
  how often `Probe` adds to the violation time and leaves room to cross either
  trip limit by probes and samples mixed.  History counts stop at the longest
  limit that a property compares them with.
* Two shedding steps with different delays, an inverter whose two limits differ,
  batteries that last and that do not, with and without diesel.
  `CoordinationAssumption` (the inverter's low-frequency threshold at or below
  every step's, its limit no shorter than every delay) is what the default
  settings satisfy when a scheme of the same nominal frequency is used: 57.0 Hz
  and 2 s against the NERC steps down to 57.7 Hz and 0.28 s.

### Fairness

`RecloserLine` has two liveness properties.  Weak fairness is assumed of the
clock (the caller keeps calling `tick`), of the relay (a persisting fault current
on a closed breaker is eventually reported) and of the monitor (a reclose is
eventually judged).  These are the calls `process_event` and `tick` exist for;
none is assumed of faults, of arcs going out, of strays, of the crew or of the
operator, who may do anything at any moment.  The device could not make progress
without them: `WaitingDeadTime` is left by time or a trip only,
`ReclosingAttempt` by a verdict only.

The `rejoin` run assumes weak fairness of the time step (`RunningSpec`): the
simulation that owns the devices goes on stepping them.  The time step is the
only call that could complete a reconnection; the others refuse in
`Reconnecting` or do not concern the controller.

## 4. What is proved

Assumptions are those named in the modules: numbers are naturals, lists have
the right types.  No bound on the constants is used; `n_shots` = 0 and an empty
list of dead times are included;
only `WearCounted` assumes at least one shot.  Every safety and action property of the passing
runs, and both refinements, are stated by a theorem.

* **Induction** (`DataLemmas`).  The models fold over sorted lists, so the proofs
  need induction over data, and the provers cannot instantiate the library's
  induction theorems, whose parameter is an operator.  `DataLemmas` states
  induction over sets instead: a set of numbers that has 0 and with each number
  the next one is all of `Nat` (by the least element of its complement), and
  likewise for the subsets of a finite set.  On these rest: `FoldLeft` and
  `FoldFunction` are runs of their step function, a sorted list of a finite set
  exists and visits each member once, sums of finitely many numbers are linear
  and grow by what is added, and flattening a list of blocks that gains one
  appends that block.  An invariant of a loop is then an invariant of a run.
* **Recloser** (`AutorecloserProofs`).  `ReclosuresBounded` is not inductive: that
  `closures` stays below `n_shots` follows only with the shot number of the
  phase, and the reclaim arm takes its shot number from the life-time counter.
  `IInv` adds `ShotsConfigured` (the shot number is in `1..n_shots` and never
  above the counter) and `ClosuresBelowShot` (fewer closures than the shot number
  before the reclose, at most as many after it).  From `shot <= totalShotsFired`
  it follows that the reclaim arm numbers a later shot than the one in progress,
  which gives `ShotsAdvance`.  `ContractImplemented` maps each action to a step of
  the contract or a stutter and uses the invariant for the bound on reclosures.
* **Line** (`RecloserLineProofs`).  Every step of the composition is a step of the
  device or leaves it alone (`LineRunsDevice`), so the device's theorems carry
  over; with `BreakerFollowsPhase` this gives `PositionAgrees`.
* **Ledger** (`EnergyLedgerProofs`).  Ids, types, registered parties and the chain
  are proved together as one invariant.  Settlement reads the ids of the whole
  pool, so `IdsRunOn` must speak of pool and chain at once: blocks join up with
  one another and the last one with the pool.  `ChainIntegrity` holds for every
  `Hash`, because `validate_chain` recomputes the same function on fields that
  settlement copied.
  `LedgerImplementsLog` maps every step to one of `TransactionLog`: `LogInv` says
  that what the log has sealed is the flattened blocks, numbered from 0 to where
  the pool begins.  `AccountsReplay` shows that a balance is what the history since
  the account was opened adds up to, for any number of transactions: `Replays`
  relates each account to sums over its positions in the chain (`SumsTo`), and
  settling a pool is a run that posts one transaction at a time (`PostEffect`).
* **Market** (`P2pMarketProofs`), for every book, all offers and every premium.
  `Typed` bounds what the statuses can be.  A matching is `Sound` (what a bid has
  left and what its trades fill make up its quantity, within the limit prices) and
  exhaustive (`Exhausts`); the two-pointer walk and the greedy passes preserve the
  former at each turn, and the latter follows from the pairs that are still to
  come.  From these: `PricesWithinLimits`, `RoundWithinBid`, `StatusTellsTrades`
  over any number of clearings, `MatchedStays`, `CrossingsExhausted`.
  `NearestServedFirst` and `LocalServedFirst` look at the turn at which a trade was
  made (`MadeAt`) and at what an earlier pair still had.  `AuctionEfficient`
  compares the auction with *every* allocation within the quantities: the walk ends with
  a price that separates what is left (`Separates`), and weak duality with that
  price bounds the surplus of any other allocation.
* **Dead time** (`RecloserLineProofs`).  `ReclosesOntoDeadLine` needs
  `DeadTimeServed`: while the device waits out a dead time, its `elapsed` is no more
  than the time the line has really been dead since the shot's opening command.  It relates a timer of the device to
  one of the line, and needs `PositionAgrees` to know that the line is open.
* **Feeder** (`FeederAutomationProofs`).  `IsolationComplete` is an action property
  of `process_fault`: opening the border does not depend on which device ran the
  shots, and no later step of the same call closes one again.  The restoration is
  a run over the dead sections: `InProgress` (only ties closed, each with its
  count, the supplied load below the transfer limit) gives `FeederType`,
  `OnlyTiesClose`, `TransferLimited` and `WearCounted`; `TiesMatch` (as many ties closed as sections restored, each on the
  border of one) gives `TieForEachSection`.  `WearCounted` assumes `Shots # 0`:
  with no shots `recloser_sequence` locks a switch open without counting
  (`feeder_automation.rs:585`).
* **Twin** (`GridTwinProofs`; its first part is about the alert engine).
  `AlertsSpaced` is not inductive: that a new alert is far from all earlier ones of
  its pair follows only because the dedup table holds the time of the latest
  (`TableIsLatest`).  The same conjunct gives `ViolationsCovered`: a pair that is
  refused has an alert within the window.  `LatestReportKept` rests on
  `PastInv`: the snapshot the next one is cloned from is one of the two that may
  hold the report, so what a batch does not repeat is either copied or moves from
  the current to the previous snapshot.
  The theorems hold for every network and all telemetry; the voltages that the
  recursive interpolation computes are opaque to them, which is why
  `LatestReportKept` speaks of buses without neighbours.
* **Microgrid** (`MicrogridProofs`).  `ShedsInOrder` needs `TimersInOrder`: a step
  with a higher threshold has waited at least as long, unless it has fired.
  `RidesThrough` needs `HistoryCounts`, which ties the inverter's times to the
  history.  `LoadShedsBeforeTrip` relates two devices that never see each other:
  `SchemeKeepsPace` says that during a run of low frequency every step of the scheme
  has counted as much as the inverter, or has fired.  `AutonomyHonoured` is
  inductive in `IslandInv`, which adds that a pledge is only made without diesel.

Model-checked only: the liveness of the line (`SequenceEnds`, `FaultResolved`),
because fairness and ENABLED are outside the prover; and the six runs that end
in a violation, which are counterexamples.

## 5. What is not modelled

Numerical algorithms, reports and parsers: no discrete state, or floating point.
In the modelled files: `classify_fault` and the reliability statistics, the
market's analytics, block statistics, the feeder's health, N-1 and load-balance
reports, the twin's prediction, comparison and topology check, the inverter's set
points and compliance report, all of which only read or compute outputs.
Floating-point rounding is abstracted to integers; negative or NaN quantities
are not submitted to the market.

Of what keeps state:

* `realtime_sync.rs`: a second synchronisation engine beside the twin, with a buffer
  of its own.  `sync` drains the buffer before anything can fail, keeps only the
  update with the latest time stamp, which may be older than the current
  estimate, ignores the staleness threshold it computes, and never resets to a
  flat start on divergence although its comment says so (`:274`).
* `microgrid_protection.rs`: `update_mode` copies one of two settings into every
  relay; a relay added while islanded keeps the grid setting until the next
  change of mode.
* `frequency_monitoring.rs` beyond the scheme: relays with one timer; the meter and
  the estimators are numerics.
* `micro_scada.rs`, `rec.rs`: fields set by one assignment each; the copies they
  leave behind are listed as hazards (`check_compliance`, `rec.rs:351`, counts the
  certificates of the portfolio, not those of the registry).
* `black_start_procedure.rs`, `simulation/`: simulators over real variables.

## 6. Plan

Done: recloser, line, market, ledger, feeder, the twin with its alert engine, the
microgrid, and a theorem for every safety and action property and for both
refinements.

Left, in order of value:

1. `realtime_sync.rs` fed by the same telemetry as the twin, with what a failing
   sync consumes and a time that may go back.
2. The relay settings of `microgrid_protection.rs` following the phases of the
   islanding controller.
