# A TLA+ verification of XDR-Correlator

XDR-Correlator turns observations of the network, the file system and the kernel into
`SecurityEvent`s, passes them through one event bus, looks for kill chains among them and
shows everything on a web dashboard. This directory holds TLA+ models of its parts, the TLC
runs that check them on small instances, and TLAPS proofs of the properties that matter most
for instances of every size. Paths below are relative to the repository; in
`PROJECT.json` they start with `src/`.

## The system

| Component | State | Operations | Talks to |
|---|---|---|---|
| Detectors of the network: `xdr/network/{tcp_detector,sctp_detector,payload_scan,pcap_investigator}.py` | last sequence number and anomaly count per connection; INIT count per source and window | `process_packet`, `check_thresholds`, `reset_window`, `log_packet` | publish to the bus from the capture's thread |
| Capture driver `xdr/correlator.py` | the capture window | `process_packet`, `run_on_pcap`, `run_live` | calls the detectors |
| File watchdog `xdr/host/file_watchdog.py` | the Observer thread | `on_created`, `on_modified`, `on_deleted`, `on_moved`, `start`, `stop` | pushes alerts, publishes to the bus |
| eBPF watcher `xdr/host/ebpf_hooks.py` | whitelist, perf buffer | `_handle_event`, `_is_descendant_of_self` | pushes alerts, publishes to the bus |
| Alert queue `xdr/core/alert_queue.py` | `ALERT_QUEUE` | `push_alert`, `drain_all` | drained by the host program |
| Host program `run_host_monitors.py` | `stop_event`, `seen_types` and its lock, three threads | `drain_queue`, `run_ebpf_poll_loop`, `main` | starts and stops the host detectors |
| Event bus `xdr/core/event_bus.py` | the bound loop, an `asyncio.Queue` | `bind_loop`, `publish`, `publish_threadsafe`, `get` | from threads to the dashboard's loop |
| Correlator `xdr/correlation/` | a deque of events per source | `add_event` (prune, evaluate, escalate) | calls `on_incident` |
| Dashboard `api/main.py` | `active_connections`, the drain task | `drain_engine_to_dashboard`, `broadcast`, `inject_event_to_dashboard`, `websocket_endpoint` | takes events off the bus, feeds correlator and browsers |
| Start-up `main.py` | `engine_ready` | server thread, wait, replay | bus and capture driver |
| ELF analyzer `xdr/binary/elf_analyzer.py` | `_got_sections`, kept after the first parse | `parse`, `get_got_range` | gives the capture driver the GOT range |
| IOC matcher `xdr/binary/ioc_matcher.py` | none | `sha256_of_file`, `analyze_file` | reads one file twice; no caller (its docstring names the file watchdog, which does not call it) |

What makes the system hard:

* *Threads and one loop.* Detectors publish from operating system threads by scheduling a
  callback on the loop, while coroutines put into the same queue; the loop may not be bound yet,
  may have stopped, or be closed.
* *Awaits.* A broadcast awaits each browser in turn while connections register, end and fail.
* *Time.* Events are stamped when built and judged when they reach the correlator, by a wall
  clock that may be set back; the deque is pruned from its head only.
* *Exceptions in the middle of a handler.* Every detector does something, publishes (which may
  raise) and then does something else.
* *Wraparound.* Sequence numbers are compared in a space of 2^32.
* *The world outside moves.* Processes exit and pids are reused while `/proc` is walked; files
  change between two reads; the server may fail after it has said that it is ready.
* *Shutdown.* Flags, joins with and without a timeout, and a lock, in the middle of everything.

The hazards, each at its line, are listed in `PROJECT.json` with the properties that would catch
them going wrong.

## The modules

| Module | Models | Notes |
|---|---|---|
| `StageMap` | `stage_map.py`, `REQUIRED_STAGES` | the table, spelling included |
| `KillChain` | `KillChainCorrelator` | with the wall clock and the delay of the bus |
| `SlidingWindow` | what the correlator promises | abstract specification: no deque, no pruning |
| `EventBus` | `CorrelationEngine` | with the loop's ready list and `asyncio.Queue` |
| `TcpHijack` | `TcpHijackDetector` | with a TCP sender and a capture that misses and repeats |
| `Dashboard` | `api/main.py` | tasks interleave only where the code awaits |
| `HostMonitors` | `run_host_monitors.py`, `file_watchdog.py`, `push_alert`, `_handle_event` | four threads |
| `Capture` | `correlator.py`, `sctp_detector.py`, `pcap_investigator.py` | one thread, a bus that may go away, Ctrl+C |
| `PayloadScan` | `payload_scan.py` | the three loops, against reference definitions |
| `ElfParser` | `elf_analyzer.py` | the GOT range of a binary |
| `Dpi` | the use of both in `correlator.py` and `pcap_investigator.py` | composes `ElfParser` and `PayloadScan` |
| `BpfWatcher` | `ebpf_hooks.py` | the walk over a process tree that changes |
| `IocMatcher` | `ioc_matcher.py` | on a file that changes |
| `Startup` | `main.py`, `lifespan` | EXTENDS `EventBus`, whose actions it calls |
| `Pipeline` | detectors, bus and correlator together | EXTENDS `EventBus`, implements `KillChain` |
| `EventBusProofs` | `EventBus`, `Startup` and `Pipeline` | theorems and their proofs |
| `KillChainProofs`, `TcpHijackProofs`, `DashboardProofs`, `HostMonitorsProofs`, `CaptureProofs`, `BpfWatcherProofs` | the module of that name | theorems and their proofs |
| `PartsProofs` | `Dpi` (with `PayloadScan` and `ElfParser`) and `IocMatcher` | theorems and their proofs |
| `MC*` | | instances for TLC; `MCEventBus` holds the bus by itself and `Startup`, `MCParts` holds `Dpi` and `IocMatcher`, which do not meet; each of their behaviours is one of a single part |

Definitions whose name has a suffix after an underscore and whose comment begins with "Fault:"
are variants of the definition after them with a plausible mistake in it. No specification uses
them; they are there to confirm that each property notices the mistake (`PROJECT.json`,
"mutants").

### KillChain

`window` is `self._window` (an absent key is an empty deque), `now` is `time.time()`, `pending`
holds the events built and not yet delivered. `AddEvent` is one call of `add_event`: append, prune
(`PruneWindow`: pop from the head while older than the cutoff), evaluate, escalate. There is no
await between those, so it is one action. `incident` is the report that the latest call
dispatched. `Tick` and `StepBack` move the clock; `high` remembers the highest time shown and
`MaxSkew` bounds how far the clock falls below it. Events of one source are delivered in the order
they were built, which is what `EventBus` establishes for one publisher.

The interesting question is whether pruning only from the head is the same as a sliding window.
`SlidingWindow` says what is promised: keep everything, look at what is at most `WindowDuration`
old. With an exact clock there is no freedom in it; with a clock that may be set back by `Skew`,
an event whose age is within `Skew` of the window may or may not be looked at. `KillChain`
implements it under the refinement mapping that forgets the order of the timeline.
`RetainsFresh`, `IncidentSpan` and `TimelineOrdered` are what a reader of an incident relies on.

### EventBus

`ready` is the loop's list of scheduled callbacks, `queue` the `asyncio.Queue`, `held` the event a
thread or a coroutine has built and not yet put: a coroutine waits with it in `put` until there is room,
and a callback of the loop may take the place it waits for. `publish_threadsafe` raises when no loop is bound or the
loop is closed; between "stopped" and "closed" it succeeds and the callback never runs.
`put_nowait` is the callback; on a full queue its exception goes to the loop's handler and the
event is gone (`lost`). The `async def publish_threadsafe` at lines 22-23 is replaced by the
definition after it when the class body is executed, so only the latter is modelled.

### TcpHijack

`seq_registry` and `anomaly_count` are the detector's dictionaries, as functions on the keys
present. A sender transmits in order (`Send`, or `Miss` when nobody captures), an earlier segment
is captured again (`Retransmit`), or a foreign one is (`Inject`). `process_packet` is the whole
handler, including the exception of `publish_threadsafe`, which leaves it after the count and
before the baseline and ends the capture (`running`). The bus is bound at the start, or it never is, as
for a capture that is run by itself; a bound one may be closed. `BaselineTracks` and `StepTolerated` are
about the sender's own segments; what a foreign one does to the baseline is the subject of
`SpoofedIsNoBaseline`.

### Dashboard

A broadcast is a snapshot (`targets`) and one step per `send_text`, which succeeds (`SendOk`) or
raises (`SendFail`). The drain task goes through "event", then `kill_chain.add_event`, then perhaps
"incident". An endpoint registers after `accept`, and ends by `WebSocketDisconnect`, which
unregisters, or by another exception, which does not. `Cancel` is the `task.cancel()` of
`lifespan` and may hit any await. `Disconnect` is `list.remove` behind its test, the first
occurrence. Whether an event escalates is left open here: that is
`KillChain`'s matter.

### HostMonitors

Each thread has a program counter (`observer`, `ebpf`, `consumer`, `main`). A handler is two
steps, up to and including `push_alert` and then the publish, because the consumer can run between
them. No loop exists in this program, so the publish raises each time: in the Observer that ends the
thread, in a BCC callback it is printed and dropped. A call of
`perf_buffer_poll` reads at least what was in the buffer when it began (`due`); records that arrive meanwhile
are read too or stay for the next call. When `main` has returned all actions are
disabled: the other threads are daemons. Whether a call is to be ignored (whitelist, or a descendant
of this process) is an input here and the subject of `BpfWatcher`. `HandledIsAlerted` compares what
the handlers have done with what was pushed: for each side of alerts (`AlertedInOrder`) the same
occurrences, in the order of their numbers, so each once.

### Capture

One thread: `pc` says which call of `run_on_pcap` or `run_live` it is in. Loops that publish
(`log_packet` over the findings, `check_thresholds` over the sources) are one step per event, since
the bus can be closed between any two of them (in a capture without a bound loop every publish
raises); `Publish` then takes the thread to "failed", because
nothing above catches the exception. A packet is what the detectors tell apart, with IPv6 packets that the SCTP detector ignores among
them. How many findings
its payload has and whether its sequence number is a jump are inputs here, from `PayloadScan` and
`TcpHijack`. `keys` is the insertion order of the dictionary that `check_thresholds` iterates over.
The variables `inits`, `floods`, `anomalies` and `events` only record what happened. When scapy
answers Ctrl+C by returning from `sniff`, that is a short window.

### PayloadScan

Each action is one turn of one of the three loops, with the jump behind a hit that the loop makes:
`find` from `index + 16`, `finditer` from the end of the match, `range` by one byte. The lengths
16, 12 and 8 and the byte values are constants. The properties compare with definitions that know
nothing of loops: places with enough NOPs, maximal runs, and pointers by offset. The module has no
specification of its own; `Dpi` calls it.

### ElfParser

`get_got_range` from the header on; each step chooses the outcome of its read or of running
`readelf`, so that a file that is cut, no ELF, or replaced between two reads is among them. A
further call finds `_got_sections` set. The names of the sections are taken as resolved.

### Dpi

What `correlator.py` does with `--target-binary`: the range that `ElfParser` returned is kept and
handed to `scan_payload` with each payload. `gotBytes` remembers the addresses of the two GOT
sections, taken from the section headers and not from the range; `GotPointersFound` goes from the one
end to the other, over `min`, `max` and the loop of the scanner: a pointer into either section is
reported wherever it stands in a payload.

### BpfWatcher

`parent` is what `/proc` shows. `birth` is a history variable that says what a process is by
descent, independently of `/proc`: this program, its shell, a helper (with the chain of processes
that link it to this program, as long as they live) or another. `on_sys_bpf` records a call;
`_is_descendant_of_self` is one step per read of `/proc`. A record also remembers, as history, the pids
that were given to new processes since the call (`given`): a caller outside the program's family is ignored only
when the walk passed one of those, or when it has the pid of the shell, which stays whitelisted. Children of a process that exits go to
init; subreapers, and a watcher that is itself process 1 (as in a container, where the walk would
never find it), are left out.

### IocMatcher

The environment may append, overwrite, truncate, replace or remove the file between any
two reads. A digest is what was hashed.

### Startup

The main thread, the server thread and the drain task on one `EventBus`, of whose threads only "main"
publishes. uvicorn runs
the start-up hook, which creates the drain task, before it opens its port; when the port is taken it
runs the shutdown hook and ends its loop and thread, after `engine_ready` was set.

### Pipeline

`EventBus` and `KillChain` put together: `KillChain`'s `pending`, the events on their way to the
correlator, is mapped to everything built and not yet added, wherever in the bus it is. The
detectors are reduced to the thread they publish from and the form of their `src`. This is the
architecture the repository's README describes; the two programs there are (`main.py`, which replays,
and `run_host_monitors.py`, which has no bound engine) each run a part of it. That the events of one
`src` arrive in order follows from the bus only because no two threads use the same `src`: with a
shared identity for all detectors (`SrcOf_Machine`) the refinement fails too, so whoever introduces
the "shared asset-identity scheme" of the README's Limitations has to look at `_prune_window`
again.

## The runs

| Run | Config | Checks | Result |
|---|---|---|---|
| `kill_chain` | 1 source, 4 event types (one without a stage), window 1, skew 1, time 0..4, 4 events | types, `RetainsFresh`, `IncidentSpan`, `TimelineOrdered`, `ImplementsSlidingWindow` | hold |
| `kill_chain_documented` | `file_modified` among the types | `DocumentedDetection` | violated |
| `event_bus` | 2 threads, 1 coroutine, 4 events, maxsize 2; or the threads of `main.py`, 4 events, no maxsize | `PublisherOrder`, `NoLoss`, `Delivery`; `NeverUnbound`, `ReplayDelivered` | hold |
| `tcp_hijack` | 1 connection, sequence space 10, threshold 5, segments up to 2 and SYN/FIN, start at 8, 4 segments captured, the loop bound or not | `BaselineTracks`, `InOrderSilent`, `AlertPerAnomaly`, `JumpDetected`, `StepTolerated` | hold |
| `tcp_hijack_documented` | the same | `SpoofedIsNoBaseline` | violated |
| `dashboard` | 2 browsers, 1 injected message, 2 events | `FeedExact`, `ServedIsRegistered`, `CorrelatedInOrder`, `EventCorrelated`, `GoneIsRemoved` | hold |
| `host_monitors` | 2 file events of 2 types, 2 calls | `HandledIsAlerted`, `SeenExact`, `StableReport`, `ShutsDown`, `CallAlerted` | hold |
| `host_monitors_observer` | the same | `FileAlerted` | violated |
| `capture` | 2 sources, threshold 1, 3 packets per file or window with up to 2 findings, 2 windows, the loop bound or not | `FloodExact`, `FindingsPublished`, `FloodAlerted` | hold |
| `parts` | payloads of up to 6 bytes of 3 values, sleds of 3, runs of 2, pointers of 2 bytes; 3 sections of 3 names, addresses 0..2, sizes 0..1, 2 calls; files of up to 4 bytes, chunks of 2, 2 files, 2 changes | `SledsCovered`, `RunsMaximal`, `PointersComplete`, `GotPointersFound`, `WholeVersions` | hold |
| `bpf_watcher` | 4 pids, init, shell and program at the start, 1 record in the buffer | `OutsiderAlerted`, `LiveHelperIgnored`, `WalkEnds` | hold |
| `pipeline` | 6 event types, 3 threads, 3 events, window 0, time 0..1 | `NeverEscalates`, `ImplementsKillChain` | hold |

The bus without a bound on its queue, which is how `CorrelationEngine` is built, is part of the second half of
`event_bus` (`MCEventBus` chooses one of the two settings at the start) and of `pipeline`; several sources at a time are part of `pipeline`, and of the theorems.

Why the bounds are enough. Three events make an incident, the fourth is the one that comes after,
from outside the window, or of another stage; the clock goes far enough that spans larger than
the allowed ones exist. The sequence space is small enough for four segments to go around it, and
the threshold is the smallest that `InOrderSilent` allows for two segments. Two browsers are what a
broadcast needs to skip one because of the other; two events make two broadcasts and an incident
between them. Two file events are one before and one after the Observer's death. A queue of two places
can be full while a callback and a coroutine wait for it. Three packets are
a flood of one source and a chunk of another, or the two halves of a flood over two windows. Six
bytes hold two adjacent sleds, a run that is not a multiple of the sled, and the words at both ends. Three sections are both GOT sections and a repeated name. Four pids leave one
for helpers and strangers, and a second one once the shell has exited: a helper of a helper, a stranger with
the pid of a helper or of the shell, and a walk that comes back to a pid. Both exceptions in `OutsiderAlerted` are met:
without either of them it fails. Three events are a
kill chain; a window of 0 with a clock of two values has events inside and outside of it. All counters that
the code does not bound are bounded by a `Max...` constant, in the guard of the action that
increases them. The models may run out of events, therefore deadlock is not checked.

Fairness. `EventBus`: a running loop gets to its callbacks and to its consumer; nobody has to
publish or to bind the loop. `Dashboard`: the loop schedules each task that can go on, each
`send_text` returns or raises, and an endpoint gets to know that its browser is gone (the
server's keep-alive sees to both). `HostMonitors`: each thread that can go on does; strong fairness
for taking the lock, which is held for an instant at a time. `Capture`: the one
thread there is goes on, and `sniff` returns because of its timeout. `BpfWatcher`: the polling thread
goes on, nothing else has to. `Startup`: the main thread, the loop's callbacks and the drain task;
`wait` returns because of its timeout, while the server may take for ever. Nobody has to press Enter
or Ctrl+C.

### What the violated properties show

* `DocumentedDetection`: `STAGE_MAP` says `"persit"` for `file_modified` (line 20) where the
  docstring says persist (line 9). A kill chain that ends in a modified file is never reported.
* `FileAlerted`: in `run_host_monitors.py` the Observer thread dies after the first file alert,
  because `publish_threadsafe` raises in its handler.
* `SpoofedIsNoBaseline`: the comment at `tcp_detector.py` 65-67 says why the baseline is not updated on every
  packet: a spoofed jump would become the baseline and mask the next anomaly. Line 68 only keeps segments out
  that are less than their own length ahead. A foreign segment that was just flagged is far enough ahead, and
  is the baseline from then on.

### What the models show besides

Where a comment, a help text or a test says something else than the model, the model follows the
code. Met on the way:

* A retransmission, seen as a jump of nearly a whole turn, is flagged and sets the baseline back.
* The report of `run_host_monitors.py` (lines 53 and 127) denies alerts that were still queued when the
  program was stopped. `SeenExact` says what it does cover: all that the consumer got.
* `--quiet` ("Suppress per-packet log lines") also turns the payload scan off (`correlator.py` 38);
  `FindingsPublished` is therefore about runs without it.
* Without a bound loop (initial states with `bus = "unbound"` in `Capture` and `TcpHijack`)
  `check_thresholds` raises for a source over the threshold, while `tests/test_xdr_detector.py` 93-98 expects it to
  return; and `process_packet` raises for a jump, after it has counted it, while lines 59-74 of the same file expect it
  to return with a count of 1. `conftest.py` binds no loop.
* `parse_gotverify` handles a missing `readelf` (`elf_analyzer.py` 150-152); `cross_check_header`,
  which runs first, does not (line 45), and the program ends.
* A short-lived helper is gone when its record is looked at (`ebpf_hooks.py` 84-85), and is alerted.
  `LiveHelperIgnored` says when it is not.
* `main.py` 39 announces a live dashboard also when the server has failed to open its port after
  its start-up hook had set `engine_ready`; the replay then publishes to a closed loop or to nobody.

## What is proved

Every safety invariant that a passing run checks, the action properties, and one of the two refinements
are theorems, for every value of the constants that the assumptions in the modules allow. Where
a property is not inductive, the module of its proof defines the invariant that is, as a conjunction of
named parts, and has a lemma per action. TLC finds those invariants to hold on the runs' instances too,
but for the ones of `PartsProofs`, which quantify over all natural numbers.

`KillChainProofs`, for every set of sources and event types, every window, skew and bound. `IInv`
adds: the clock is never more than `MaxSkew` below `high`
(`ClockInv`); no event in the deque or in flight has a timestamp above `high`, and along deque and
flight together a later event is at most `MaxSkew` older than an earlier one (`OrderInv`); the deque
holds only delivered events (`WindowInv`). Then the event at the head at which pruning stops bounds the age of all the
others, which gives `IncidentSpan` and the upper half of the refinement, and a popped event was too old
at `high`, which gives `RetainsFresh` and the lower half. That `Chronological` sorts is a lemma, by
counting with the cardinality of initial segments.

`EventBusProofs`, for any number of threads and coroutines and every `MaxSize`. `PublisherOrder`
speaks of `got`, `queue` and `ready` together, since only the concatenation is left alone by the moves
between them; the strengthening says that a publisher holds only an event of its own (`HeldInv`), that
all stamps are below `created` and the event a publisher holds is younger than all it has published
(`StampInv`), and that only threads go through the ready list, so that a coroutine's newer event
never overtakes one of its own there (`ReadyInv`). For `Startup`,
`BoundBeforeReplay` needs that the drain task and `engine_ready` are each behind `bind_loop`
(`StackInv`).

For `Pipeline` the module proves `NeverEscalates` (`NeverRaised`). `PipeInv` follows an event from
the detector that builds it over the thread's hand, the ready list, the queue and the drain task's
hand into a deque: all the way its stamp is that of an event that was described, and what a deque holds fits
its `src` (`Fits`). A `src` either only persists or never does (`StagesOfSource`, from the tables of
stages and of identities), and what pruning leaves of a deque is a part of it, so no `src` has all three
stages.

`TcpHijackProofs`, for every sequence space, threshold and payload bound with
`MaxPayload + 1 < MAX_SEQ`. The baseline is either the latest captured sequence number or behind it by
less than that segment's length; that fact (`LagInv`), which holds for foreign segments as well, is inductive
given the types, and `BaselineTracks` is the part of it about the sender's own segments. From it and the
additivity of `seq_delta`, the distance from the baseline equals the distance from the latest
segment plus a lag of less than a segment, up to a whole turn, whence `JumpDetected` and
`StepTolerated`. `InOrderSilent` needs besides that the sender of a connection seen in order is one
segment after the latest captured one, and `AlertPerAnomaly` that a connection of which nothing was captured has no alert.

`DashboardProofs`, for any browsers, injected messages and number of events. `FeedExact` has to say what a browser
has between two sends of one broadcast: all messages since it joined, the last one missing exactly while
it is still in drain's snapshot (`FeedInv`). That holds because a snapshot lists a connection at most
once and only connections that were accepted, that the list of connections does too, and that an endpoint ends
only when its browser is gone (`ConnectionInv`); and because drain begins a broadcast with an
empty snapshot (`DrainInv`). `CorrelatedInOrder` is about drain alone.

`HostMonitorsProofs`, for all alert types, with the two sides disjoint, and any number of events and calls.
`HandledIsAlerted` needs the numbering of what waits for the handlers (`NumberInv`), `SeenExact` that the consumer
holds the last alert it took exactly while it waits for the lock (`QueueInv`, `SeenInv`) and that the
report was computed from `seen_types` (`ReportInv`), `StableReport` who holds the lock (`LockInv`).

`CaptureProofs`, for all hosts, thresholds and windows. The dictionary is the count of this window,
its keys are its sources in order of arrival, each once (`KeysInv`), what `check_thresholds` has before it is a suffix
of them (`UncheckedInv`), and a window begins with nothing counted (`WindowInv`). `AccountInv` says for each
place in the thread what of the packet in hand is still to be published.

`BpfWatcherProofs`, for all pids and every process tree at the start in which this program has no children.
`OutsiderAlerted`: the ancestors of an outsider are outsiders (`OutsiderInv`), and as long as the walk of its record has
passed no pid that was given to a new process since the call, it is at an outsider, at such a pid, at an exited one or
at 0 (`WalkInv`). `LiveHelperIgnored`: the chain of a
helper grows by one process per generation (`ChainInv`), and the walk is on it, above all it
has seen, so the test for a cycle cannot strike.

`PartsProofs`, for payloads, words, section tables, files and chunks of every size. Each loop has its
invariant over what lies in front of `start`: the sleds do not reach behind it (`SledInv`), a run
may begin at it and all earlier ones are reported (`RunInv`), and the pointers in front of it are listed
(`PointerInv`). `GotPointersFound` goes from the section headers (the last section of a name counts, `WalkInv`) over the
range of `min` and `max` (`ResultInv`) to what the scanner is given (`GotInv`). For `IocMatcher`, what was
hashed is a prefix of the version being read, and the whole of it when the loop ends (`VersionInv`,
`GrowInv`).

The assumptions are those named in the modules, and TLC evaluates them for each instance. They say
that bounds are natural numbers, lengths are positive, and names that the code tells apart differ.
Some say more: `PipelineAssumption` that the threads which publish are among the
bus's; `TcpAssumption` that a segment is shorter than the sequence space; `BpfAssumption` that
parents at the start are processes there are, and that this program has started none before it watches; `DpiAssumption` that a run
has at least two bytes (it has twelve).

Recursive definitions. The library's induction theorems take an operator as a parameter, which the
provers cannot instantiate. Where a fact needs induction it is proved by a least counterexample instead: the
least element of a set of naturals (`LeastElement`) gives that the function counting the events to pop
(`PopCountExists`) and the value of a word (`HornerExists`, `ValueInt`) are defined and have their
types. The proofs about the scanner need no more of a word's value than that.

Only model-checked:

* The liveness properties (`Delivery`, `EventCorrelated`, `GoneIsRemoved`, `ShutsDown`,
  `CallAlerted`, `FloodAlerted`, `WalkEnds`, `ReplayDelivered`): fairness and `ENABLED` are out of the
  proof system's reach.
* `ImplementsKillChain`: the mapping for `pending` sorts the events on their way by their stamps with
  `SetToSortSeq`, which rests on `SortSeq`, an operator the provers know nothing of.
* The three violated properties, which have counterexamples.

The type invariants other than `KillChain`'s are proved and have no run of their own.

## Not modelled, and the plan

What is left to prove is `ImplementsKillChain`. It needs a mapping that describes the sorted sequence by what is true of
it and not by sorting, or the lemma that there is exactly one such sequence, and then, per action, that
building an event appends to it and adding one removes the first of its source.

Left out for good:

* `shannon_entropy` (floating point) and SHA-256 (taken to be injective).
* `find_got_addresses` and `analyze_elf`: the same steps as `ElfParser.parse` without the cached
  sizes, called only by the block at the end of `elf_analyzer.py`, which stands inside the class
  body. The text that `parse_checkelf_file` and `parse_gotverify` read from `readelf` is the outcome
  of a comparison.
* `drain_all` of `alert_queue.py`: it has no caller.
* The option parsing of the programs, console output, `get_packets`, and `GET /`: no state.
* The HTML client (presentation) and the benchmarks.
* Memory over time: windows per `src` and connections in `seq_registry` are never dropped;
  no property is about it.
