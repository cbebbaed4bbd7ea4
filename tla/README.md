# ros2_perf in TLA+

TLA+ specifications of `ros2_perf`, a latency and throughput measuring tool for ROS 2
(`src/src/ros2_perf`), their TLC model checks, and TLAPS proofs of every invariant and
every refinement the checks look at. The paths below are relative to the repository;
`mode/` stands for `src/src/ros2_perf/src/mode/`.

A process is given one or more modes on its command line (`pub`, `sub`, `ping`,
`pong`), runs them side by side on one topic, prints one line per mode and second,
and a summary when it is stopped. What the tool is for is its *numbers*: how many
samples were received, how many were lost, how long they took. They are computed
by several threads at once, out of messages the network loses and reorders, and
read once a second without stopping anybody. So most properties here relate a
printed number to what really happened.

## Inventory

| component | source | state | operations | modelled in |
|---|---|---|---|---|
| publisher registry of `sub` | `mode/sub_mode.cpp` | a `PubTrack` per publisher GID: `last_seq` (32 bits), totals, per-second windows, latency; `next_id_`; one mutex | `on_message`, `apply_seq_gap`, `snapshot` (reset or totals) | `SubRegistry` |
| `ping` | `mode/ping_mode.cpp` | `pings_`, `pongs_total_`, `next_seq_` (atomics), `send_mu_`, a `PongTrack` per responder, `last_pings_`, `last_pongs_`, `lost_total_` (main thread only) | sender thread, `send_ping`, `handle`/`on_pong`, `tick`, `summary`, `stop` | `PingPong` |
| `pong` | `mode/pong_mode.cpp` | `roundtrips_` | `handle` (echo, then count), `tick` | `PingPong` |
| process | `main.cpp`, `mode.hpp` | `g_stop`, the modes, executor and spin thread, tick deadline | set-up, start, tick loop, cancel, join, stop, summary, signals, `-D` | `Lifecycle`; the clock of the loop: `PubSchedule` |
| waitset loop | `mode_utils.hpp` | none of its own | test of stop, timed wait, drain | `Lifecycle` |
| `pub` | `mode/pub_mode.cpp` | `sent_seq_`, `msg_index`, anchor | `publish_one`, `run` (anchored schedule), `tick` | schedule: `PubSchedule`; thread: `Lifecycle`; numbering: `SubRegistry` |
| peer tracking | `mode_utils.cpp` | the set of known peers per tracker; one mutex | `sync` (diff with the graph), `flush_gone`, matched event | `PeerTracker`; one bit per mode in `Lifecycle` |
| latency statistics | `stats.cpp` | the samples of the run and of the running second, each with a cap; a mutex | `add`, `summary_total`, `summary_window_and_reset`, `compute_summary` (one-pass moments, sort, percentiles) | `LatencyStat`; window fill also in `SubRegistry` |
| command line | `args.cpp`, `config.hpp` | none | one pass over `argv` | `Args` |
| report lines | `report.cpp` | none | formatting | not modelled |
| GIDs, message, build | `gid.hpp`, `Uks.msg`, CMake | none | hashing, hexadecimal form | a GID is a model value |

### How they interact

* **Calls**: `main` calls `start`, `tick`, `stop`, `summary` of each mode, in order,
  from one thread.
* **Shared state**: `g_stop` is read by every thread. A mode's counters are written
  by its callback (on the executor's thread, or the mode's own waitset thread) and
  by its sender, and read by the tick.
* **Callbacks**: samples, and in `listener` mode also matched events, arrive on the
  executor's thread.
* **Messages**: `pub` → `sub` on the topic; `ping` → `pong` → `ping` with the lowest
  bit of `seq` telling a ping (1) from a pong (0).

### What is hard, and what makes each part correct

* *sub*: samples are lost, overtaken or repeated, and the tick resets windows
  between any two of them. Correct when received and lost add up to what was sent,
  every sample is in exactly one line, and nothing is called lost that arrived.
* *ping*: three threads and no common lock. Counters are read one by one while the
  others move; a pong can be counted before its ping. Correct when every ping is
  counted once, every pong at most once, losses show up, nothing wraps below zero,
  and in a reply-driven run there is one ping per pong.
* *process*: taking down an executor thread, waitset threads and senders in the one
  order `main` has. Correct when nothing counts after its summary line, no thread
  outlives `main`, every peer is reported gone, and the process ends.
* *pub*: bursts against an anchored schedule, late wake-ups. Correct when the number
  sent by time t is the number due.
* *peers*: the same peer seen through the graph and through events. Correct when
  matched and gone alternate for every peer.

`PROJECT.json` lists the hazards one by one with the line they bite at.

## Modules

| module | what it is |
|---|---|
| `TickMeter` | Abstract. What every mode promises of its per-second line: the lines of a counter, added up, are the counter as of the last line. |
| `SubRegistry` | `PubRegistry` of `sub` with the topic in front of it. |
| `LatencyStat` | The samples behind a latency line, and the mean, deviation and percentiles of them. |
| `SubRegistryProofs`, `PingPongProofs`, `LifecycleProofs`, `PeerTrackerProofs`, `PubScheduleProofs`, `LatencyStatProofs`, `ArgsProofs` | Theorems about the module they are named after. |
| `PingAnswersProofs` | Theorems about `PingPong` that take sets of answers and their sizes, on top of `PingPongProofs`. |
| `PingPong` | A ping process (sender, handler, main thread) and the pong processes that answer it. |
| `Lifecycle` | A process from set-up to return. |
| `PubSchedule` | The clock: the anchored schedule of each `pub` and the tick loop of `main`. |
| `PeerTracker` | Which peers a mode has reported as matched, against the graph. |
| `Args` | `parse_args`, and the language it takes, as a grammar. |
| `MCSubRegistry`, `MCPingPong`, `MCLifecycle`, `MCPubSchedule`, `MCPeerTracker`, `MCArgs`, `MCLatencyStat` | Instances for TLC: networks, drivers, mode pairs, rates, command lines, samples. |

Operators whose comment begins with "Mutation" (for example `ApplySeqGapOffByOne`)
are plausible bugs in the definition that follows them. No specification refers to
them; they are there to be swapped in, to see that a property notices. `PROJECT.json`
pairs each with the property that does.

### SubRegistry and the code

Both sides of `PubRegistry` hold `mu_` for the whole call, so `on_message` is one
action (`Handle`) and `snapshot(kTickReset)` is one (`Snapshot`). `Handle` follows
the code's order: the track is found or created, then *either* the first sample is
set *or* the counters grow and `apply_seq_gap` runs, then the latency is added.
`SeqMod` is 2^32 in the code, the width of `PubTrack::last_seq`; the message's `seq`
is 64 bits wide and is not reduced. `Snapshot` skips publishers without traffic
(`Idle`), as the code does, and this is why `LatencyWindow` needs checking.

The topic is external. `net` fixes for a run what its network may do: a set of
`"lose"`, `"reorder"`, `"duplicate"`. `{}` is a reliable topic; `{"lose"}` is best
effort, which also drops what does not fit the history; the other two do not happen
between one DDS writer and reader, but the code has a branch for them.

`obs` and `shown` are history variables: what arrived, and what the lines said. The
code has neither. `shown` is the left side of every property about lines.

### PingPong and the code

A step is what a thread does between two accesses to something shared.

| code | actions |
|---|---|
| sender of `PingMode::start` | `Wake` (stop is tested after the sleep), then `send_ping` |
| `send_ping` | `PublishPing` (lock, number, publish), `CountPing` (`pings_` grows after `publish` returned; unlock) |
| `handle` | `TakePong` (`on_pong` with `LatencyStat::add`), `CountPong` (`pongs_total_`), `Reply` (rate, stop), `send_ping` |
| the loop of `main` | `TickDue` (tests stop; from here the tick comes whatever stop says) |
| `tick` | `TickPongs` (first load), `TickPings` (second load, differences, what is remembered), `TickReport` (snapshot of the rtt windows, `lost_total_`) |
| `stop`, `summary` | `Summary`, enabled once both threads are through |
| `PongMode::handle` | `Echo`, `CountRoundtrip` |

A sample is known by the number of its ping and `PingSeq`, `PongSeq` give what it
carries: `(n << 1) | 1` in 32 bits, and the same with the bit cleared. `next_seq_`
is kept unreduced so that properties can refer to it. The handler is one thread:
`sub_` is in the node's default, mutually exclusive callback group, so a
multi-threaded executor does not run it twice at a time. `driven` says whether the
run has a rate or answers pongs; how long a period is, is left out (any time).

Pongs are not addressed: `on_pong` looks at the GID of the responder and at the seq,
and neither says whose ping it was. So there are two pairs of channels on the wire,
`ping`/`pong` and `their_ping`/`their_pong`: with the fault `"foreign"` another ping
process has put `TheirPings` on the topic, numbered from 0 as ours are, and the
handler takes the echo of either. `answered` is the history of the pongs it accepted,
each with its channel, and `lined` those whose rtt a tick has taken out of a window.

Of an rtt the model keeps its sign and whether there was room for it. `Add` is
`LatencyStat::add`: it stops counting at `TotalCap` (the run) and `WindowCap` (the
second), 200000 each in the code, and is not reached by a negative rtt. Both stamps
of our own ping come from one steady clock, so only a pong to another process can have
a negative one (`RttSigns`). `timed` is the history of the pongs whose rtt was not
negative.

`HandlerExit` stands for the end of the executor or of the waitset loop. That it comes
is not assumed: `cancel()` may be forgotten and a drain may never find its topic empty
(both are in `Lifecycle`).

### LatencyStat and the code

One action per method; each holds a mutex where it touches the samples, and
`compute_summary` works on a copy. A mean is kept in units of `1/Scale`, where `Scale`
is divisible by every number of samples a buffer can hold, so that `delta / n` is
exact: what is checked is the algorithm, not the rounding of `long double`. The
deviation is represented by the sum of squares it is the root of. `Index` is
`floor(p * (n - 1) + 0.5)` in integers. A half goes up in it; where the double next to
`p` lies below `p`, the code may go down instead, which is no farther from
`p * (n - 1)`, and `RanksExact` allows both. `heard`, `taken` and `about` are history.

`Welford` is the loop of `compute_summary` as a function on the samples, `s[k]` being
its variables after `k` of them. `Sorted` is `std::sort` as what it returns: each
sample at its `Place`, the number of samples that come no later; equal samples keep
their order, which nobody can see in a sequence of numbers. What the figures are
compared with (`Sum`, `Squares`, `HasRank`) shares nothing with them.

### Lifecycle and the code

`pc` walks through `main`; `i` is the loop variable of the loop it is in. One action
per loop body: a mode is started, ticked, stopped, summarised. Senders (`pub`,
`ping`) and waitset workers (`sub`, `ping`, `pong`) have their own program counters,
which follow `PubMode::run` and `run_waitset_loop`. The counters of a mode are
reduced to one bit, `unprinted`: set by any thread that counts, cleared by the
mode's summary. Peers are one bit as well. A sample waiting is one bit (`inbox`).

`rclcpp` is external and modelled as `src/` relies on it: `spin()` sets a flag on entry,
runs callbacks while it is set, and returns when it is cleared; `cancel()` clears it.
The flag is tested when a callback begins (`CallbackBegins`), not again before it counts
or syncs (`Callback`): a callback may be under way across `cancel()`, one per mode at a
time (`calling`), and `spin()` returns after it. `Setup` may end in `aborted`, the
`catch` around the mode constructors: no thread exists at that point.

### PubSchedule and the code

Time is a number, counted from `ctx.t0`, which is both the anchor of every schedule
and what the tick loop counts from. `Begin`, `Check`, `Wake` and `PublishOne` are the
steps of the branch of `PubMode::run` with a rate; what `interval_ns_` is for a rate
and a burst is a constant. `Tick`, `Sleep` and `WakeMain` are the body of the loop of
`main`: `now` is read once, at the top, and `-D` is tested with it at the bottom, so
after a sleep it is tested with the time before the sleep (`read_now`). `Slack` is
`pub_tick_slack`. When the loop is left `main` is at `"join"`: it waits for each pub,
and nothing wakes a pub that sleeps until its next sample (`sleep_until`,
`mode/pub_mode.cpp:147`). `Join` ends the run (`"over"`) when all have seen stop.

A thread is *due* when it can move. While a run is `late` (a constant says until
when), time may pass however many threads are due: that is a process that was not
scheduled, or a `publish` that blocked. A run with `late = 0` is punctual: every
thread moves before the clock does. The schedule must be kept in both; when the lines
come and when the run ends is promised for the second only.

### PeerTracker and the code

`sync_from_graph` is two steps, because it reads the graph before it takes `mu_`:
`ReadGraph` and `SyncUnderLock`. It is called by a callback for a matched event
(`MatchedCallback`, on any thread of the executor) or by the tick (`PollingTick`, main
thread), depending on the trigger of the mode (`way`). The tracker of a `pub` has
neither: its tick does not poll and its node is on no executor (`way = "none"`), so it
never reports a peer, although `src/README.md:156` lists `pub` among those that do.
`FlushGone` comes after the executor was joined. The history variables count the lines
printed for each endpoint.

External, as the code relies on them: an event is one flag, raised by a change that
the graph shows already; the callbacks of a node never run side by side, because
nobody gives them a callback group. Without the second, `NoFalseMatch` fails (that is
its mutant): an older view applied after a newer one reports an endpoint twice.

### Args and the code

One action for each thing the parser does with the token it has got to: an option
(`Ask`, `Flag`, `Option`), a mode (`Sanity`, `StartMode`), a sub-argument of it, the
end of it (`EndMode`), and the two ends (`Unexpected` and other failures; `Finish`).
The four `parse_*_subargs` are the same loop over different kinds of sub-arguments;
`Sized`, `Rated`, `Triggered`, `Bursty` say which kind has which. A number is a token
that a conversion takes or does not take.

The second half of the module is the language the parser takes, written down as a
grammar, without any order of reading. A *piece* is an option with its value, the
keyword of a mode, or a sub-argument of the keyword before it; a *reading* is a set of
positions at which a command line can be cut so that there is a piece between any cut
and the next one. `Readings` has every such set. `ModeMeant` and `MeansOptions` say
what a reading means by looking at the last piece of each sort, and `ReadsGrammar`
compares that with what the parser holds. What it asks is whether a reader that goes
through the tokens once, from left to right, and decides by the next one alone ever
misses a reading, or finds one that is not there.

It does *not* ask whether this language is the documented one. It is not. The pieces
are those of `usage_text` and of `src/README.md`, but

* the text has each `[..]` once; the parser takes an option or a sub-argument again,
  and the last counts;
* the text gives `ping` a rate `[R[Hz]]` (`args.cpp:509`); the parser takes `kHz` and
  `inf` there as well;
* the text says that `MODE...` is zero or more (`args.cpp:501`); the parser wants one
  ("no mode specified");
* the text has options before the modes (`args.cpp:487`) and `help` and `--version`
  alone; the parser takes them anywhere (`src/README.md:90` says so of options);
* `src/README.md:102` lists an option `-1`, which the parser refuses.

`ConstantsAssumption` says of the tokens what the conversions of `args.cpp` make true:
no keyword, option, trigger or name of a sub-argument is a number with a unit. A rate
that begins with a dash is left out of `Frequencies`, because `is_subargs_boundary`
comes first.

## Runs

Every run is `tlc -config <run>.cfg <module>`.

| run | instance | asks |
|---|---|---|
| `sub` | 2 publishers, 3 samples each, 4 arrivals, 2 kinds of network | Does the registry account for every sample, in any order of arrival, with ticks anywhere? Does it implement `TickMeter`? |
| `sub_wrap` | 1 publisher, 2-bit `last_seq` | *violated*: `NoPhantomLoss` |
| `ping` | 1 responder, 2 or 3 pings, 6 kinds of network, both drivers, a seq that wraps, buffers of 2 and 1 rtts | Do the counts, the losses, the rtt windows and the summary agree with what happened? Does the loop go on, does the summary come once the handler is out? |
| `ping_summary` | 1 responder, 2 pings | *violated*: `SummaryAddsUp` |
| `ping_bootstrap` | 1 responder, late | *violated*: `BootstrapStartsLoop` |
| `lifecycle` | 4 pairs of modes | Is the way down complete and does it end? |
| `lifecycle_cancel` | 1 listener | *violated*: `DurationEnds` |
| `schedule` | 2 pubs, 2 seconds and some, punctual or late for 1.3 s | Are the samples sent those that were due? Do the lines come in time, and about their second? How long after `-D` is the run over? |
| `schedule_last` | 1 slow pub, `-D` of one second | *violated*: `EverySecondTicked` |
| `peers` | 2 endpoints that come and go twice, 2 executor threads, a listener, a waitset and a pub | Do matched and gone pair up, and follow the graph where anything syncs? |
| `args` | every command line of up to 4 tokens of 22, and of 6 tokens of 6 | Does reading once, from left to right, find what a command line can be cut into? |
| `latency` | buffers of 7 and 3, up to 8 samples of 3 values, and a negative one | Are a summary's figures those of the samples it should be about? |

### The properties

* `GapLedger`: received + lost = highest − first + 1 + the arrivals that did not
  advance. It holds in any order of arrival. `LossReported` ties "lost" to samples
  really dropped: at least those, and exactly those if the topic keeps order.
* `WindowPartition`, and `MeterSpec` above it: every arrival and loss is in exactly
  one line or the open window. `MeterSpec` says more: a line shows exactly the growth
  since the previous one.
* `LatencyWindow`: the window holds the samples since the last tick, up to its cap.
* `NoPongCountedTwice`, `EndsAgree`: what ping accepts is a set of answers, and no
  more than what the responder counts, with another ping process on the topic and with
  a seq that wraps. The rtts of the run are those of the answers, one each, up to
  `TotalCap` and without the negative ones.
* `SelfClocked`, `PingsExact`: about `send_mu_` and the bootstrap sender racing the
  handler.
* `LossBracket`, `LossNeverHidden`: `lost_total_` lies between the shortfall and the
  pings it was about; with one responder and no other ping process each ping gone for
  good is in it or still to be reported. (A second responder or a foreign pong can
  stand in for one that was lost.)
* `RttNotLate`: the order "register, then count" against "read the count, then take
  the windows". No rtt is in a window after the line of its pong; a window holds one of
  each pong accepted since the last, up to `WindowCap` and without the negative ones.
  Those left out are in no line.
* `LoopNeverStalls`, `SummaryComes`: without faults pings keep coming, in a
  reply-driven run up to the wrap of the seq; once the handler is out of its loop, the
  sender gets out, the tick ends and the summary comes. That the handler gets out is
  not promised here: `lifecycle_cancel` shows a run where it does not.
* `SummaryFinal`, `SummaryComplete`: nothing counts behind the summary's back.
* `PeersFlushed`, `NoThreadOutlivesMain`, `Served`, `StopEnds`: the way down.

* `ScheduleKept`: no sample before its time, and no drift: whoever sleeps has sent
  exactly what was due, whatever held it up before. `LinesExact`: what the slack of
  the tick is for. `TicksInTime`: the poll slices. `EndsInTime`: the loop is left two
  polls after `-D` at the latest, and the run is over when, from then on, the longest
  interval has passed. That is more than "at most DUR seconds" (`src/README.md:99`), and
  the code does take it: `pub 0.1Hz -D 1` is over after ten seconds.
* `LinesPaired`, `NoFalseMatch`, `NoLostEvent`, `PeersFollowed`: the view read outside
  the lock, and the one event for many changes. `PeersFollowed` is about a listener and
  a waitset; for a pub it does not hold.
* `BuffersExact`: a full buffer drops the late samples only, and a window starts anew.
  `MomentsExact`: one pass gives what the definitions of mean and variance give.
  `RanksExact`: each percentile has the rank nearest to it.
* `ReadsGrammar`: accepted if and only if there is a reading with a mode in it, and
  with the meaning of every reading there is. That there is one at most is proved
  (`Unambiguous`). The language is the parser's, not the documented one (above).

### Bounds, and why they are enough

* `sub`: a gap needs two samples around one that is missing, so 3 sequence numbers; a
  late sample needs the same three; 4 arrivals let one publisher have all three and a
  duplicate, or the two publishers two each. `SeqMod = 16` is above every seq: the wrap
  is the subject of `sub_wrap`, where 2 bits stand for 32. `WindowCap = 1` is reached by
  the second sample of a window. The two latencies are the largest that `on_message`
  refuses and the smallest it takes. The proofs lift every bound of this module.
* `ping`: one responder, because what depends on their number is proved for any. With 3
  pings one can be lost, one in flight and one being sent across a tick. Networks are
  the combinations that matter to each other: loss, loss with overtaking, late
  discovery, duplication (which on its own makes `Echo` and `TakePong` repeatable;
  `MaxPings` bounds round trips in that case only), and the pongs of another process.
  The last three multiply the states and get 2 pings, as overtaking does, which takes
  two. `TotalCap = 2` and `WindowCap = 1` are full with the third and the second rtt.
  `TheirPings = {1}` is a foreign pong that is ahead of ours, so that ours with number 0
  is refused if it comes later. `SeqMod = 4` stands for 2^32: the third ping has the seq
  of the first.
* `lifecycle`: two modes, in the pairs that bring each kind of thread together with each
  other and put the listener first and second. A counter is a bit, so there is nothing
  to bound.
* `schedule`: a second is ten poll slices (twenty in the code), the slack up to two of
  them, as in the code (`kMaxSlack` is two `kPollSlice`). Intervals are 3 and 5 of these
  units, so one divides the second and one does not; the clock goes to 23, past the
  second tick, and starts at 0 or 7, a set-up that took long. A run that is late until
  13 may miss the first tick and all its samples. A pub at a rate of thousands differs
  by a slack below a poll slice, which is the easier case.
* `peers`: an endpoint that comes, goes and comes again is the least that can be
  confused with one that stayed; two threads are the least that could overtake.
* `args`: an option with its value and a sub-argument with its value need four tokens;
  six allow one between two others. The tokens are those that more than one rule could
  take. 16 stands for 2^32.
* `latency`: seven samples are the least where p90 is not the maximum, and there p95 is:
  three different ranks with the median. (p99 leaves the maximum at 52 samples;
  `IndexNearest` is proved for any number.) Three values give ties, and one that is far
  away makes the mean fractional; eight samples overrun both buffers. `Scale` is 420,
  the least common multiple of 1 to 7.
* The guards that are not in the code: `Room` in `PingPong`, the bound on `roundtrips`
  for a duplicated ping in `Echo`, `MaxSeq` and `MaxArrivals` in `SubRegistry`,
  `MaxTime` in `PubSchedule`, `MaxChanges` in `PeerTracker`, `MaxAdds` in `LatencyStat`.

### Fairness

`SubRegistry` needs none. In `PingPong`, weak fairness of each thread: an operating
system schedules threads that can run; the main thread ticks on a timer. Delivery is
part of the handler's and the responder's step, so a sample that stays available is
taken; one that is lost is not. `Match` is fair: discovery finds a process that exists.
`Stop`, losses and `HandlerExit` are never fair. In `Lifecycle`, weak fairness of
`main`, of each sender and worker, of entering and leaving `spin()`, and of a callback
that has begun, which returns; not of callbacks beginning, of signals, of `-D` or of the
traffic. `StopEnds` has two premises, each of which can really fail: that the executor
was in `spin()` when it was cancelled, and that the traffic for waitset threads has gaps
(`run_waitset_loop` drains without testing stop). In `PeerTracker`, weak fairness of the
executor's threads as a whole and of the ticks. `PubSchedule`, `LatencyStat` and `Args`
have no liveness: that time moves on only when nobody is due says all that is needed of
a punctual run.

## Proofs

The theorems hold for all constants that satisfy the module's `ConstantsAssumption`:
any number of publishers, responders, endpoints, threads, any network, and none of
the bounds of the runs. Each rests on an inductive invariant with three facts: the
initial states satisfy it, every step keeps it (one lemma per action or per thread),
it implies the property.

| theorem | says |
|---|---|
| `SubRegistryProofs!TypeCorrect` | `Spec => []TypeOK` |
| `SubRegistryProofs!Partition` | `Spec => []WindowPartition` |
| `SubRegistryProofs!ImplementsMeter` | `Spec => MeterSpec`, the refinement of `TickMeter` |
| `SubRegistryProofs!GapsAddUp` | under `NoWrap`, `Spec => []GapLedger` |
| `SubRegistryProofs!NothingMadeUp` | under `NoWrap`, `Spec => []NoPhantomLoss` |
| `SubRegistryProofs!NoLossMissed` | under `NoWrap`, `Spec => []LossReported` |
| `SubRegistryProofs!WindowHoldsTheTick` | `Spec => []LatencyWindow` |
| `PingPongProofs!TypeCorrect` | `Spec => []TypeOK` |
| `PingPongProofs!PingsCounted` | `Spec => []PingsExact` |
| `PingPongProofs!OnePingPerPong` | `Spec => []SelfClocked` |
| `PingPongProofs!LossesBracketed` | `Spec => []LossBracket` |
| `PingPongProofs!ImplementsMeter` | `Spec => MeterSpec` |
| `PingAnswersProofs!CountedOnce` | `Spec => []NoPongCountedTwice` |
| `PingAnswersProofs!RttInItsWindow` | `Spec => []RttNotLate` |
| `PingAnswersProofs!SummaryIsFinal` | `Spec => []SummaryFinal` |
| `PingAnswersProofs!BothEndsAgree` | `Spec => []EndsAgree` |
| `PingAnswersProofs!NoLossHidden` | `Spec => []LossNeverHidden` |
| `LifecycleProofs!TypeCorrect` | `Spec => []TypeOK` |
| `LifecycleProofs!SummariesComplete` | `Spec => []SummaryComplete` |
| `LifecycleProofs!PeersAllFlushed` | `Spec => []PeersFlushed` |
| `LifecycleProofs!AllJoined` | `Spec => []NoThreadOutlivesMain` |
| `LifecycleProofs!AllServed` | `Spec => []Served` |
| `PeerTrackerProofs!TypeCorrect` | `Spec => []TypeOK` |
| `PeerTrackerProofs!PeersPaired` | `Spec => []LinesPaired` |
| `PeerTrackerProofs!NoLineMadeUp` | `Spec => []NoFalseMatch` |
| `PeerTrackerProofs!NothingMissed` | `Spec => []NoLostEvent` |
| `PubScheduleProofs!ScheduleHolds` | `Spec => []ScheduleKept` |
| `PubScheduleProofs!TypeCorrect` | `Spec => []TypeOK` |
| `PubScheduleProofs!TicksAreInTime` | `Spec => []TicksInTime` |
| `PubScheduleProofs!RunEndsInTime` | under `StartsInTime`, `Spec => []EndsInTime` |
| `PubScheduleProofs!LinesAreExact` | under `StartsInTime` and `CoarseRates`, `Spec => []LinesExact` |
| `LatencyStatProofs!TypeCorrect` | `Spec => []TypeOK` |
| `LatencyStatProofs!BuffersKeepTheFirst` | `Spec => []BuffersExact` |
| `LatencyStatProofs!MomentsAreExact` | `Spec => []MomentsExact` |
| `LatencyStatProofs!RanksAreExact` | `Spec => []RanksExact` |
| `LatencyStatProofs!IndexNearest` | the index of a percentile is in range, nearest to `p * (n - 1)`, and grows with `p` |
| `ArgsProofs!TypeCorrect` | `Spec => []TypeOK` |
| `ArgsProofs!Unambiguous` | no tokens have two readings |
| `ArgsProofs!GrammarIsRead` | `Spec => []ReadsGrammar` |

**SubRegistry.** `Partition` is not inductive by itself: the first sample of a
publisher *sets* `recv` and `recv_tick` to 1 instead of adding, which is right only if
nothing was counted. `Blank` says so (a track without id is `EmptyTrack`), and
`PartitionInv` is `TypeOK /\ Blank /\ WindowPartition`. `ImplementsMeter` follows:
`Handle` maps to `Count`, `Snapshot` to `Report` with every counter due (an idle
publisher's windows are empty, so its line would have added nothing), the topic's
steps to stuttering. `GapsAddUp` strengthens the ledger with: `last_seq` *is* the
highest seq heard, and every seq on the wire is below `MaxSeq`. The hypothesis
`NoWrap` (no seq reaches 2^32) is what `sub_wrap` shows cannot be dropped.
`NothingMadeUp` adds that on a network without faults the seqs on the wire are those
from `last_seq + 1` to `sent - 1`, so that the lowest of them, the only one that can
be delivered, opens no gap. `NoLossMissed` adds `Seen`: the arrivals that advanced
`last_seq` are distinct seqs of the stretch between the first and the highest, so the
ledger calls lost at least what of the stretch was never heard; in order, every seq of
it was heard or dropped, and the two are equal. `WindowHoldsTheTick` needs that every
latency sample came with a received one: `Snapshot` skips a publisher when nothing was
received, so it never skips a window with something in it.

**PingPong.** One invariant, `CountersInv`, carries all five. `Reads`: what a tick
has read is between what the last one remembered and what the counter is now, so no
difference is negative. `Locked`: who holds `send_mu_` is exactly who is between
publish and count. `Clocked`: pings sent, plus the bootstrap if still to come, plus
the reply the handler is on its way to, are at most one more than the pongs counted.
`Losses`: the bracket, and the same bracket shifted by the differences of a tick that
has not reported yet. `Remembered`: the lines add up to what was remembered. Nothing
in it depends on how many responders there are or how many pongs a ping gets, which
is why the runs need only one.

`AnswersInv`, on top of it, is about the set of pongs accepted. `Registered`: each has
a track, whose `last_seq` it cannot pass again. That `last_seq` only grows is all it
takes, so it holds whichever process a pong belongs to and after the seq has wrapped.
`Tracked` and `Totalled` count them: in `pongs_total_` but for one in the handler's
hands, and those with an rtt that is not negative also in the track and in its window,
as far as there is room (`AtMost`). `EndsInv` counts a pong on its way and a pong
accepted once together, and says that no more of them exist than were echoed.
`NoLossHidden` then has the pings that are gone and the pongs accepted as disjoint
parts of those sent, and the bracket of `Losses` does the rest. Sums of numbers over
responders do not occur: the total is the size of one set.

**Lifecycle.** `LifeInv` says what exists when. A mode has threads from its `start` to
its `stop`, forgets its peers in `stop`, and what it counted stays printed once nothing
of it is left; the executor's thread is there from `spawn` to the join, which comes
before the first `stop`, and no callback is under way outside `spin()`. `FromFirst` says
that every loop over the modes begins with the first. It holds for any list of modes and
of triggers, and with none of the fairness: that `main` gets there at all is `StopEnds`,
and TLC's.

**PeerTracker.** `OneSyncs`: at most one thread is inside `sync_from_graph`. `Honest`:
whatever a sync might still report (in the graph but not known, in the view read but
not known, come up since that view) has come up once more than it was reported.
`Fresh`: a listener without a waiting event has read the graph as it is.

**PubSchedule.** `IndexKept`: `msg_index` counts from `t0` what was sent since the
start, and is never past what is due. Three lemmas on division do the rest.
`LoopInv` is about the tick loop alone: it sleeps to the next tick at most. The
punctual runs need that whoever is due moves before the clock does (`PunctualInv`), so
that who wakes up does so on the very unit it slept for. `RunEndsInTime` adds `LastSleep`:
the sleep a pub is in once the loop has been left ends before two polls and one of its
intervals have passed since `-D`, and its thread, and then `main`, is through by then.
`StartsInTime` says that the
threads were started before the first second was over and before the end of the run; a
set-up that takes longer begins with ticks to catch up and lines that are late.
`CoarseRates` says that an interval is more than one unit of the clock. The slack is
half an interval but one unit at least, and with an interval of one unit it is as long
as the interval: the tick then comes together with the first sample of the next second.
In the code the unit is a nanosecond.

**LatencyStat.** `BuffersExact` is inductive once the types are known. `IndexNearest` is
arithmetic: that a rank is nearest does not depend on the bound of the run. The figures
are a matter of `ComputeSummary` alone, so `SummaryInv` says little: the summary is
`ComputeSummary(about)`, and `about` is no longer than a buffer, so that `Scale` is
divisible by every number the pass divides by. What the pass computes is shown by
induction along the samples. The prover cannot instantiate the library's induction
theorems, but it can take the least counterexample: the naturals are well founded, so a
set of positions where something fails has a first one (`UpTo`), and the position before
it gives the contradiction. `MomentsStep` is what one sample does to the moments: with
`k * mean` the scaled sum, `m2` stays the scaled sum of squares less `k * mean * mean`.
`PlacesTaken` is a counting argument: the places of n samples are n different numbers of
`1..n`, so each is taken, and the sample that `Sorted` has at k has rank k
(`PlaceIsRank`).

**Args.** `ReadInv` says that while the parser reads there is a reading of the tokens
before `i` and that it holds what this reading means (`Means`): the modes in their
order, the one it is in as the last of them, and the last value of each option. The part
that makes it inductive is about the next token: the parser is in a mode exactly when
that mode is the last head of the reading (`Open`), or else the next token cannot be a
sub-argument. So what a step reads is a piece, and appending it gives a reading again
(`ReadOn`) whose meaning changes as the step changes the fields (`SubargMeaning`,
`ModesAfterMode`, `OptionsAfterOption`). For the other direction, that what the parser
refuses has no reading, there must not be a second way to read what was read already.
`ReadingsAgree` says that it has none: the first token of a piece tells how long the
piece is, so of two readings the shorter is the beginning of the longer. Any reading of
the whole line then has a cut at `i`, and each `Fail` contradicts the piece that would
begin there (`Refused`).

Only model-checked: liveness (`LoopNeverStalls`, `SummaryComes`, `StopEnds`,
`PeersFollowed`), which with fairness and ENABLED is out of the prover's reach.

## What the runs found

1. `last_seq` is `uint32_t` while `seq` is 64 bits (`mode/sub_mode.cpp:43`). From
   sample 2^32 on, every sample looks like a gap of about 2^32 (`sub_wrap`).
2. The ping summary prints `lost_total_ + (sent - received)`
   (`mode/ping_mode.cpp:272`). Pings outstanding at a tick are in both, so received +
   lost can exceed sent (`ping_summary`).
3. The bootstrap ping is sent once, 200 ms after start. If no responder is matched by
   then, a reply-driven run stays silent (`ping_bootstrap`).
4. `cancel()` before the spin thread has entered `spin()` is forgotten, and `main`
   joins for ever: a short `-D`, or an early SIGINT (`lifecycle_cancel`). It rests on
   how `rclcpp` treats its flag, which is not in the repository.
5. The tick of a second comes up to 100 ms after it (the slack), but `-D` is tested
   without the slack. With a pub at 5 Hz or slower the loop is left in between, and a
   run with `-D 1` prints no per-second line (`schedule_last`, `main.cpp:308`).

Noted while reading, not the subject of a run of its own: `next_seq_ << 1` wraps after
2^31 pings, after which `on_pong` refuses every pong and a reply-driven run stops (which
is why `LoopNeverStalls` has `Wrapped`); pongs are not addressed, so a second ping
process on the topic has its pongs counted here and can hide losses; `pub_tick_slack`
takes the longest interval where its comment says the shortest (`main.cpp:93`), so the
line of a fast `pub` beside a slow one counts samples of the next second; a burst or
depth of 2^32 is cast to 0 after the test for at least 1 (`args.cpp:169`); `pub` neither
polls nor has callbacks, so it never reports a peer (`mode/pub_mode.cpp:77,105`), where
`src/README.md:156` promises "Peer presence (pub / sub / ping / pong ...)"; a `pub` that
sleeps for its next sample does not see stop, and `main` joins it, so that `pub 0.1Hz -D
1` takes ten seconds where `src/README.md:99` says "at most DUR seconds"
(`mode/pub_mode.cpp:147`, `main.cpp:320`; `EndsInTime` says how much is exceeded);
`src/README.md:102` lists an option `-1` that the parser does not know, and `usage_text`
says "zero or more" modes where none is an error (`args.cpp:501,472`; the other
differences are listed above, under `Args`); a pong registered after the count was read
has its rtt taken by a "(no pong)" line, which does not print it
(`mode/ping_mode.cpp:254`); two responders answer every ping, and in a reply-driven run
each pong starts a ping; `loss_rate_pct` is given received + lost where it wants
received.

## Plan

In this order; the most important first.

1. *(done)* `TickMeter`, `SubRegistry`, `PingPong`, `Lifecycle` with their runs;
   proofs about `SubRegistry`.
2. *(done)* `PeerTracker`, `PubSchedule`, `Args` with their runs.
3. *(done)* Proofs for `PingPong` (the counters), `PeerTracker`, and the schedule of
   `PubSchedule`.
4. *(done)* A second ping process on the topic and a seq that wraps, in `PingPong`;
   `LatencyStat` with its run.
5. *(done)* Proofs for `Lifecycle`, for the answers of `PingPong`, for the losses and
   the windows of `SubRegistry`, for the tick loop and the lines of `PubSchedule`, for
   the buffers of `LatencyStat`.
6. *(done)* Proofs for the figures of `LatencyStat` and for the language of `Args`.
7. Values of numbers in `args.cpp` (units, `strtod`).
8. Composition: a process with a `sub` whose registry is fed by the executor of
   `Lifecycle`.

## Not modelled, and why

* Formatting and printing (`report.cpp`, the `fmt_` functions of `stats.cpp`): no
  state. The figures the lines print are.
* GIDs, the message and the build files: a key, a record and declarations. The key is
  a model value, the record its `seq`.
* What a number on the command line means (`parse_with_units`, `strtod`): a token is
  one that a conversion takes or not. So it is not in the models that `-D nan` is
  accepted (it is not below 0) and ends no run (`args.cpp:354`).
* The line of `pong`: the growth of one atomic, loaded once, with no second load to
  race with. (That of `pub` is the same, and is `last_sent` in `PubSchedule`.)
* Per-second rates: `dt_s` is always 1.0 in `main.cpp`, so a rate is the difference.
* Values of latencies outside `LatencyStat`: to the other modules it matters how many
  the capped buffers took and, in `PingPong`, whether a value was negative. In `LatencyStat`, rounding: floating point is exact.
* Bytes and bandwidth: grow and are reset together with `recv`.
* Memory order: counters are incremented with `memory_order_relaxed` and loaded with
  the default order; the model interleaves. The order `RttNotLate` needs (a pong is
  registered, then counted) is kept by the mutex of `PongRegistry`, not by the
  atomics: a count that was read before the tick's lock belongs to a registration
  that precedes that lock. A stale load is a load made earlier, and `LossBracket` and
  `LossNeverHidden` rest only on the counters' growth. The summary reads after the
  joins.
* QoS beyond loss and order, DDS, `rclcpp`: external.
* SIGINT between `rclcpp::init` and `std::signal`: it is for `rclcpp`'s own handler.
