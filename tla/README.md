# Verification of the Sycope recorder

The recorder takes alerts from Sycope's webhook, has the external
`npcapextract` cut the alert's packets out of a rolling capture, and answers
with the URL of the PCAP. This directory holds TLA+ models of its program
(`src/sycope_recorder/`) and of the v1 listener it replaced
(`old/src/listener.py`), the TLC runs that check them, and proofs for TLAPS.

    tlc -config MC_Listener_gate.cfg MC_Listener     # any run of the table below
    tlapm Listener_proofs.tla                        # any *_proofs module

## The system

| Part | State it keeps | Operations | Talks to |
|---|---|---|---|
| webhook listener, `api.py` | the gate's counter `active_extractions`; coroutines of the requests; the executor's queue and threads | `extract`, `GET /`, `GET /healthz`, start and stop of retention | clients through Caddy; `run_extraction` through `run_in_executor` |
| extraction runner, `extraction.py` | the files of `output_dir` | `run_extraction`, `compute_window`, `sanitize_id`, `build_filename` | `npcapextract` (child process), the filter builder |
| retention, `retention.py` | the snapshot of a running sweep; the files of `output_dir` | `sweep_once`, `retention_loop` | the event loop it blocks; the directory it shares |
| filter builder, `bpf.py` | none | `build_bpf_filter` | |
| alert parser, `alert.py` | none | `parse_alert` | |
| settings, `config.py`; parameters, `_resolve_params` | the settings of the process | `get_settings`, the validators, `_resolve_params` | |
| startup and logging, `main.py`, `logging_config.py` | none | | |
| Caddy, compose, gunicorn | the worker process | authentication, downloads, restart of the worker | |
| v1 listener, `old/src/listener.py` | a semaphore of slots, a thread per connection | `do_POST`, `parse_alert`, `build_bpf_filter`, `parse_url_params`, `run_extraction` | clients; `npcapextract` |
| v1 file server, configuration reader, replay, `old/src/` | none | | |
| shims and test stub | | stand in for `npcapextract` | |

What is hard about it:

* **Interleaving.** One event loop runs all handlers, and the gate's test and
  increment are safe only because no `await` separates them. The extractions
  themselves run in threads, and share one directory with each other, with
  their children, with the retention sweep, and with what earlier alerts left.
* **Failure.** A child may hang, fail, or succeed without a result; its file may
  vanish between two looks at it; the worker may be killed over running
  children; a file may refuse to be removed.
* **Order.** Cleanup in `finally`, aged files before the size budget, oldest
  first, aliases of an alert by priority.
* **Compatibility.** The documents promise that v2 keeps v1's contract, and it
  was written anew: another gate, other tables, other conversions.
* **Edges.** Milliseconds against seconds, NaN, port 0, a JSON `true`, windows
  out of range, a filter that would select everything.

What makes each part correct: the listener admits at most the limit, answers
everyone it admits and refuses nobody without cause; a runner's answer is true;
a sweep removes what the limits ask for and nothing else, and aged files go; a
filter selects its flow and is never useless; a window holds its alert; an
alert is understood as it was meant.

## Modules

| Module | Stands for | Source |
|---|---|---|
| `Webhook` | what a client is promised | `extract` in `api.py`, read from outside |
| `Listener` | handler, gate, executor, children, worker | `api.py`, `gunicorn.conf.py` |
| `Shutdown` | the same with a clock, and a worker that is told to stop | `gunicorn.conf.py`, `extraction.py` |
| `Extraction` | `run_extraction`, one step per system call | `extraction.py` |
| `Retention` | `sweep_once`, one step per system call, and the loop | `retention.py`, the lifespan of `api.py` |
| `Filter`, `Bpf` | terms of a filter and the packets they select; the building of one | `bpf.py` |
| `Params` | settings, `_resolve_params`, the window | `config.py`, `api.py`, `extraction.py` |
| `Alert` | `parse_alert`, `sanitize_id` | `alert.py`, `extraction.py` |
| `Recorder` | the service: `Listener`, `Extraction` and `Retention` over one directory | where the three meet |
| `LegacyListener` | v1's handler, threads and semaphore | `old/src/listener.py` |
| `LegacyFilter`, `LegacyParams`, `LegacyAlert` | v1's rules, each beside v2's | `old/src/listener.py` |
| `MC_*` | instances for TLC | |
| `*_proofs` | theorems | |

Operators named in a comment "Mistake: ..." are plausible bugs of the
definition below them. No specification uses them; put in that definition's
place, each makes the check of a property fail, which shows that the property
would notice.

### Listener

A step of a handler is what happens between two awaits. `pc[c]` is where client
`c`'s request stands: `posted` (task created), `body` (awaiting the body),
`queued` (in the executor's queue), `thread` (on a thread, no child yet),
`running` (a child runs), `exited`, `returned` (the future is done, the
coroutine not yet resumed), `idle`. A slot is held from `queued` to `returned`,
the lines inside the `try`. `Crash` drops everything of the worker and turns
its running children into `orphans`; `Restart` is `create_app`, with a counter
of 0. Statuses stand for responses, and the texts of a 200 are left out here.
`parse_alert` or `_resolve_params` raising is `FailToParse`: no await comes
before it, so slot and all it is one step.

`Webhook` is the promise: rejected, refused when there is no room, or admitted
and answered once unless the process dies. `Listener!Exchange` maps the
handler's state to it and `KeepsPromise` is that specification, liveness included.
It lets a worker die at any time; who may then lose an answer is `Shutdown`'s question.

### Shutdown

`Listener`'s own actions, each with what it does to the clocks: `elapsed[c]`, how
long the child of `c` has run, and `grace`, how long ago the worker was told to stop.
`Expire` is the timeout, now at its time (`Due`); `Stop` is SIGTERM, after which no
request is accepted; `Leave` is the end of the worker, when nothing is at work any
more or when `graceful_timeout` is over. The clock runs (`Tick`) only while
everything waits for clients or children (`Settled`): the steps between take no
time beside the seconds of the timeouts. The worker dies in no other way here.
`owed` is who held a slot at the stop. The service promises them an answer
(`StoppedKindly`). It keeps this if each slot has a thread and `graceful_timeout` is
longer than an extraction may take, and does not with what is shipped. With fewer
threads than slots a job may first wait for another's timeout, and the
`graceful_timeout` would have to be longer by that.

### Extraction

One `pc` per call of `run_extraction`: `Prepare` (lines 79-98), `Spawn`,
`Timeout` or `Wait`, `Exists`, `GetSize`, `Report` (the second `getsize` and the
URL), `Recheck` and `Remove` of a MISS. `dir` maps a name to a file and
`contents` a file to the jobs whose packets it holds, so that an open file
survives its unlinking, as in POSIX. The child may open (truncating), write and
exit in any way; `Creates` says whether one that succeeds has always created
its file, as the shims in `tools/` do; `Stuck`, which files may refuse to be removed;
`garbled`, whose output does not decode. `text=True` makes `subprocess.run` raise
over such output, after the child has exited, and `api.py` answers 500 (`Wait`). A
removal that fails is swallowed, and the empty file of the MISS stays (`Remove`).
`VerdictRight` says what holds in spite of both.

The child is one process: the timeout of `subprocess.run` kills it, and with it all that
writes. The shims in `tools/` are bash scripts, of which a timeout kills bash only: the
`cp` or `tcpdump` they have started may write on. With them a timeout, like the death
of a worker, leaves an orphan, which this model has only for the latter.

`Prune` is any sweep. Two jobs have the
same name when they share the second and the sanitized id: a re-posted alert,
ids that differ in stripped characters only, or null ids, which all become
`None`.

### Retention

The steps are the system calls of a sweep, in its order: `List`, `Stat`, and for each
file that goes the three calls of a deletion. `AgeDelete` or `SizeDelete` chooses the
file (`victim`) and asks for its size (`GetSize`), `Remove` removes it, and `Exists`
looks whether it is gone, if nothing was freed; `Settle` is what the size pass
then makes of it. Extractions may create, rewrite or remove the file between any two.
`doomed` and `kept` are what the age test makes of the snapshot (`seenMtime`,
`seenSize`), `total` the size pass's account. Names within one pass are handled in any
order, as `listdir` gives none; a stuck file is one that `os.remove` may refuse. `busy`,
chosen at the start, says whether extractions run during sweeps: the strict
properties are about sweeps that have the directory to themselves, `AccountSound`,
`AgedOnly` and `AgedGoes` about both. `Stop` comes at any moment: as the end of the lifespan
while the loop waits, as the death of the worker elsewhere.

What the account is worth while extractions run is easily overrated. If a file is
empty when it is measured, removed, and written anew before the last look at it, the code
takes it for a file that could not be removed and does not subtract what it had
listed: `total` then is more than the list has left, with nothing stuck. `AccountSound`
says so: beside the list, the account has only files that were found there still after the
attempt (`spared`), each once and by its listed size, and only without extractions are
these the stuck ones.

### Filter, Bpf, Params, Alert

Pure functions, each with a state machine around it that takes every input
once. A filter is the set of its terms; `Packets` and `Selects` give it the
meaning pcap-filter documents (a host or port term matches on either side).
`Useless` says "no term but protocols", which for `Terms` is the code's "no
term, or just one and a bare protocol". In `Alert` a JSON value is a record
naming its type, times are in milliseconds, and ids are sequences of pieces
inside or outside of `sanitize_id`'s alphabet; `IdKept` says of the cleaned id,
piece by piece, what it must be (`Rank`), where the code filters and cuts
(`Picked`, `Cut`). In `Params` a query gives each key a sequence of values, up to
`MaxGiven` of them: of several, v2 takes the last (`LastOr`), blank or not, and v1 took
the first that is not blank (`FirstGiven`).

### Recorder

The composition adds no behaviour of its own: each of its actions is a conjunction
of actions of the three modules, taken with `INSTANCE`, and of what only shows
in the whole.

* `Run(j)` is a step of `Extraction`'s caller, and `Place` says where the
  listener takes that job to be meanwhile (`step` is `Listener`'s `pc`, `pc` is
  `Extraction`'s). The slot is held from `Admit` on through all of it.
* `OnLoop`: `sweep_once` runs on the event loop, so that no handler moves until
  the sweep is over (`stage = "waiting"`). Threads and children do move, and
  meet the sweep in the directory. Retention's `present`, `mtime` and `size` are
  mapped to what `dir`, `contents` and `written` say, so that its properties can be
  asked here and its theorems carry over (`RetentionKept`). A file that
  was unlinked while open is on neither side.
* `Crash` takes the sweep and the threads with it and leaves the children. An
  orphan's job stays at `wait`, and it writes on into whatever file it has open.
* `Tick`, a day or so, falls between two extractions, which take minutes; it may
  fall within an orphan's life.
* A re-posted alert is another job of the same name. Each job is posted once;
  repeated posts by one client, bad requests and `429` in all their orders are
  `Listener`'s own business.

`CaptureKept` says when a capture that was sent may go: aged, over the budget, or because
a child of its own name is at work. A retry's child truncates the file when it opens
it, so the earlier capture is lost even if the retry finds nothing; but what
`run_extraction` itself removes after a failure or a MISS was empty before. Only beside
a second extraction of that name, at a limit above 1, does a removal take a capture.
`UrlTrueWhenSent` excepts names with an orphan (`Stranded`), and goes on doing so
after the orphan has exited: what it wrote stays.

### LegacyListener, LegacyFilter, LegacyParams, LegacyAlert

`LegacyListener` has a thread per connection, whose steps interleave with those
of all others. Three things differ from v2: the alert is parsed before the gate, the
slot is given back before the answer is sent (`released`), and a
`Content-Length` that is no number drops the connection where v2 answers 400.
`Exchange` counts an exchange that only awaits the sending of its answer as
answered, since it holds nothing any more. The 401 is v1's own; in v2 Caddy
sends it. No crash is modelled: the unit that `old/README.md` offers has the
service manager start the listener anew, with no memory of the old one.

The three others are read beside the v2 module they extend, on the same inputs,
with one property each: v1 and v2 build the same filter, the same parameters,
the same alert. For parameters that is so for queries that give no key two values that
differ (`Unambiguous`), of which v1 takes the first and v2 the last. For alerts that is only so outside of `ReadApart`, which lists
what the two read differently: a boolean (to v1 it is a number), a port in a
text that is not plain digits, a time in a text or of 0, letters beyond ASCII in
an id.

## Runs

| Run | Shows | Instance and bounds |
|---|---|---|
| `listener_gate` | `ActiveMatches`, `RefusedOnlyWhenFull`, `AdmittedAnswered`, `KeepsPromise` | 3 clients, limit 2, 1 thread: a refusal needs one client more than slots, a queue one slot more than threads. `MaxOrphans` = 1 bounds orphans |
| `shutdown_patient` | `StoppedKindly`, `ChildrenBounded` | 3 clients and threads, 2 slots, so that the gate alone caps the children; 2 units for an extraction and 3 of grace; 2 orphans, the children of both slots |
| `extraction_names` | `VerdictRight`, `Finishes` | 3 jobs with names of their own, one of them of a file that may be stuck, 2 slots; children that need not create a file |
| `recorder_shared` | `UrlTrueWhenSent`, `CaptureKept`, `KeepsListener` | an alert and the same again (2 jobs, 1 name, whose file may be stuck), the shipped limit of 1 and no budget, 1 orphan; `Horizon` = 2 lets a file age past the limit of 1 and be rewritten then |
| `recorder_orphans` | `MissReportedFailed` fails | the same, with a clock that stands |
| `recorder_vanish` | `OutcomeIs200` fails | the same as `recorder_shared`, without orphans |
| `retention_sweeps` | `AgedPurged`, `BudgetMet`, `AccountSound`, `PolicyRespected`, `AgedOnly`, `AgedGoes` | 2 files; a file holds up to `MaxSize` = 2 bytes against a budget of 1, so that none, one or both have to go; `Horizon` = 2 lets a file age past the limit of 1 |
| `retention_stuck` | `BudgetMet` fails | 2 files, one may refuse to be removed |
| `bpf_filter` | `FlowCovered`, `RejectedIffTooBroad`, `ModesNarrow`, `FilterAsV1` | 3 hosts (client, server, bystander), 2 ports, all alerts, all modes |
| `params_resolve` | `WindowSane`, `ModeKnown`, `ParamsAsV1` | clamp at 3; numbers below, at, inside and above it (`Numbers`, `Defaults`); each key given up to twice |
| `alert_parse` | `FlowFaithful`, `TimeFaithful`, `RejectedOnlyUnbounded`, `IdKept`, `AlertAsV1` | 2 aliases per field, one field at a time (they are parsed apart); 10 ms to the second and a threshold of 20, with values at, below and above it; `MaxPort` = 3, ids of up to 3 pieces (clean, unclean, non-ASCII, and the stand-in itself) against a cap of 2 |
| `legacy_gate` | `SlotsExact`, `AdmittedAnswered`, `KeepsPromise` | 3 clients, 2 slots: one thread more than slots |

Deadlock is checked where the system is meant to go on (the listener, the
runner, retention); `Extraction` says by `AllDone` that its jobs are finite.
The functional modules stop after their one answer, and their runs say
`CHECK_DEADLOCK FALSE`. `params_resolve` has 1,533,812 states, one
for each request; the largest of the others are `recorder_shared` with 816,633 and
`extraction_names` with 380,570.

### What the failing runs found

* **`MissReportedFailed`**: a killed worker leaves its child running, and the
  next worker counts from 0. A client that posts its alert again gets a slot,
  and the orphan writes into the file that the second child opened: a MISS of
  the second returns a URL. So the limit the README (line 121) calls the maximum
  of concurrent `npcapextract` runs is that of one worker's life. A worker also
  dies over an extraction because `graceful_timeout` is short (below). With a limit
  of 2, as in `compose.fieldtest.yaml`, two posts of one alert are enough, without
  a crash. `UrlTrueWhenSent` shows that at
  the shipped limit of 1 the orphan is the only way, if `npcapextract` is a single
  process; with the bash shims of `tools/` a timeout leaves one as well.
* **`OutcomeIs200`**: retention may remove the file between `exists` and
  `getsize`; `run_extraction` raises and the client gets a 500, where the README
  (line 198) has a 200 for every outcome. The run sets output that cannot be decoded aside
  (`garbled`), which is answered with 500 too.
* **`BudgetMet`**: an aged file that cannot be removed is not counted by the size
  pass, so the directory can stay over the budget.

Seen without a run:

* Configured windows are not clamped, unlike requested ones (`api.py:129`; `SPEC.md`
  192-193) and unlike in v1: a negative one makes a window that misses the alert.
  `WindowSane` is checked and proved for configured windows in range.
* `graceful_timeout` is 30 s by default and an extraction may take 300 s, so that the
  assumption of `StopsKindly` is false of what is shipped: a stop of the container
  kills the worker under a request it has admitted. The design says that "a legitimate
  long extraction is never killed by gunicorn; graceful-timeout configured accordingly"
  (`docs/superpowers/specs/2026-07-01-sycope-recorder-v2-design.md:352-354`).
* Of a query key that is given twice v1 took the first value and v2 takes the last,
  where `README.md:157` calls filter and window "unchanged from v1". `ParamsAsV1`
  excepts queries that contradict themselves in this way.
* A sweep deletes by path what it has measured by `stat`. If an alert is posted again
  after its capture has aged, and the second extraction rewrites the file between the
  two, the new capture is deleted in the age pass, which is to delete "anything older
  than max_age_seconds" (`retention.py:58`). `AgedOnly` says that nothing else does
  so; `Recorder` has this behaviour.
* `config.py:63-65` says an unknown filter "should widen to no filtering", while the
  mode it falls back to, `full`, is the narrowest, as `ModesNarrow` shows.
* `alert.py:122-125` prefers a wrong time to rejecting an alert, and
  `RejectedOnlyUnbounded` shows the one exception, a NaN or infinite number, for which
  `int()` raises at line 158; a time that is finite but out of `datetime`'s range
  raises later (`Prepare` of `Extraction`).
* `docs/SYCOPE_PASSTHROUGH.md` describes an `SR_DOWNLOAD_URL_BASE` that the code does
  not have.

## Fairness

* `Listener`: weak fairness of `StartJob`, of a thread's own steps, of the
  timeout of a running child and of the resumption of a coroutine. The
  executor, the operating system and the event loop justify it:
  `subprocess.run` has a timeout, so that a running child is either gone or
  killed. Nothing is assumed of a child, a client, a crash or a restart.
* `LegacyListener`: weak fairness of a thread's steps from `Acquire` on and of
  the timeout. A thread that still reads its request waits for its client, of
  whom nothing is assumed.
* `Extraction`: weak fairness of each caller. Its `Timeout` is enabled for as
  long as the child runs, and is thus what ends the wait for a hung child.
* `Retention`: weak fairness of the sweep's steps, which the loop's `try` and
  its `wait_for` with a timeout justify. Nothing is assumed of extractions,
  and a stop may come at any time.
* `Recorder` and `Shutdown`: none. In `Shutdown` the clock waits for the steps that can
  be taken, which is a bound where fairness would not do. `Recorder` is there for safety; what must happen is shown of the
  parts.

## Proofs

Each theorem holds for every value of the constants under the named assumptions
of its module: finitely many clients, jobs and names, any integer as a limit, at
least one thread, a positive time for an extraction, `None` outside of what it stands in
for. TLC evaluates these
assumptions on every run.

* `Listener_proofs`. The invariant is `IInv`: type correctness, a dead worker has
  no request at work (`DeadIdle`), the counter is the number of holders
  (`ActiveMatches`), the holders are at most the limit (`SlotsKept`), threads at
  work at most the pool (`PoolKept`), and the queue holds the queued requests,
  each once (`QueueExact`), which is the executor's doing and only a part of the
  argument. `ActiveMatches` alone is inductive only with
  `DeadIdle` (a restart sets 0), and `ChildrenBounded` follows only from
  `SlotsKept`, which needs `ActiveMatches` to carry the gate's test over to the
  holders. From it: `TypeCorrect`, `GateExact`, `ChildrenCapped`,
  `RefusalsJustified` (a step property: a 429 appears only from
  `Refuse`, whose guard the counter's exactness turns into a statement about
  holders), and `PromiseKept`: every step is a step of `Webhook` or a stutter
  under `Exchange`. `StopsKindly` is about `Shutdown`, and assumes a thread for each slot
  and `ExtractTimeout < GracefulTimeout`. Its invariant `InTime` says of each request
  that is owed an answer that the time since the stop is at most what its child has run,
  and nothing while it has none. `NobodyQueued` carries it: time passes only if
  no job waits for a thread, since the threads at work are fewer than the slots held.
* `Extraction_proofs`. `VerdictCorrect`, for names that are all distinct
  (`DistinctNames`). The invariant says per job what it owns (`Own`: under its
  name stands its own child's file or nothing, which holds its own packets if
  any), what its place in the code tells of the child (`Knows`: past `Wait` the
  child succeeded, at `report` it found packets), and what was returned
  (`Verdict`). Jobs of other names cannot disturb it; the one environment step
  that can is `Prune`.
* `Recorder_proofs`, in four parts.
  * `ListenerKept`: under the identity on `Listener`'s variables every step of the
    service is a step of `Listener` or leaves those variables alone. The
    invariant is `Coupled`: where the listener takes a job to be is where its
    `run_extraction` stands, which needs that a job no thread has taken up has
    not begun (`Unstarted`), that the head of the queue is queued (`Queued`), and
    that a child has no exit status before it runs. So what `Listener_proofs`
    shows of jobs that come to something arbitrary holds of the real extraction,
    its files, sweeps and crashes included.
  * `CapturesKept`, with no assumption: a capture behind a URL goes only for the
    reasons `CaptureKept` names. The invariant `FInv` adds where files stand
    (`Linked`), what a job's place tells of its child (`Progress`), that what a
    sweep condemns was old (`SweepListed`), and `Seen`: a capture that was sent and
    that a sweep has condemned is the one the sweep has measured, since whoever
    opens or writes to a file that was sent makes another capture of it. At a limit of 1 two
    more are needed: one job holds the slot (`Alone`), which carries over the exact
    counter, and the file it is about to remove as a MISS is not the capture of
    another (`Spared`), since it has just looked at it and nobody else is at work.
  * `UrlsTrue` assumes `Exclusive`: all names distinct, or a limit of 1 and
    children that create their files (`Creates`), the shipped setting. `OwnFile`
    says that under the name of that job stands its child's file, with its own
    packets, or nothing, as long as no orphan has the name (`Clear`). At a higher
    limit with shared names two extractions disturb each other, and without
    `Creates` a MISS may find the file of an earlier alert.
  * `RetentionKept`: each operation of a thread or child on a file is a `Write` or
    `RemoveMiss` of that one name, since a file stands under one name only
    (`Linked`), or is on a file that has none and is a stutter.
* `Retention_proofs`. First what sums over sets of files come to: `tlapm` has no
  induction rule to instantiate, so each lemma takes a smallest set, or a least
  number, for which it fails (`SmallestSet`, `MinNat`) and refutes it. `SumRemove`
  (a sum is any term and the rest), `SumSame` and `SumMonotone` are what the rest
  cites. The invariant `IInv`: what each stage has left on its lists (`Passes`), and what a
  deletion has chosen (`Chosen`); that without extractions the snapshot is true of the
  directory, and each file listed until its deletion is tried or under deletion
  (`Undisturbed`, `Attended`), and that the account then is no more than what is on
  disk (`Balanced`). From it: `TypeCorrect` (no account falls below zero);
  `AccountKept`, under any interference, in which the file under deletion is counted
  until it is settled, and is one of the `spared` if it is found there still;
  `PolicyKept`, for which `Balanced` turns the budget of the account into that of the
  directory; `AgedFilesGone`; `AgePassKept`, since a file is condemned by an age that can only
  have grown; `BudgetKept`, which assumes `AllCounted`, every file can be
  removed or there is no age limit. Without that assumption it is false, as
  `retention_stuck` shows.
* `Bpf_proofs`. `FlowNeverMissed`: each term the filter has selects every packet
  of the flow, whence all of them do. `ModesOrdered`: the terms of a narrower
  mode include those of a wider one. `RejectionExact` assumes that there are
  other hosts and ports than those of the alert, without which no filter is too
  broad. `KeepsV1`: the elements of v1's list, flag by flag, are v2's terms, and
  a list of one protocol term is a set without any other.
* `Params_proofs`. `ModeCorrect` for all configurations; `WindowCorrect` and
  `KeepsV1` assume configured windows within the clamp, without which both are
  false. Queries of any length are covered: of values
  that are all the same, the first that is not blank is the last (`ParamsAsV1`).
* `Alert_proofs`. `FlowUnderstood`, `TimeUnderstood`, `RejectionJustified`, for
  any number of aliases. Per value: what an extractor makes of it is falsy
  exactly if the value says nothing of the field, and is otherwise what it says
  (`IpSays`, `PortSays`, `ProtoSays`, `TimeSays`). Per list: `FindField` gives
  the value of the first alias that says something, whose existence is the
  well-foundedness of the naturals (`SomeFirst`, `FindsSaid`). `AlertAssumption`
  says what JSON may stand where, and that ports are at most `MaxPort`, which
  may be any number. `IdsKept`, for ids of any length: `PickedIs` shows of the
  recursive function that filters a sequence, by least counterexample, that the
  element at a picked place comes at that place's rank. `ContractUnchanged`: per
  field, v1's conversion and v2's are usable for the same values and then equal
  (`IpAsV1`, `PortAsV1`, `ProtoAsV1`, `TimeAsV1`), so that the first usable
  alias is the same one; it assumes that plain digits are a natural number.
* `LegacyListener_proofs`. `SemaphoreExact`, inductive with the types alone, and
  from it `PromiseKept`, v1's refinement of the same `Webhook`.

Every safety property of a passing run is proved. Only model-checked is liveness:
`AdmittedAnswered` (of both listeners), `Finishes`, `AgedGoes` and the fairness
part of `KeepsPromise`. Fairness is `ENABLED`, out of the prover's reach. And what
a theorem assumes beyond its module's assumptions is the instance of its run, or
less: `VerdictCorrect`, `UrlsTrue`, `StopsKindly`, `BudgetKept`, `WindowCorrect` and `KeepsV1` of
`Params_proofs`, and `RejectionExact`.

No module uses a recursive operator.

## Not modelled

* `GET /` and `GET /healthz`, which have no state; logging; `main.py`.
* The formatting of times, names and URLs, pydantic's coercions, and the exit on
  a bad environment: the process does not start. Local time is a number here,
  and the hour that a change of the clocks repeats is not told apart.
* In `Alert`: fractions of a second, numerals under an address alias,
  `alert_name`, which is only logged.
* What v1's `run_extraction` does to files, which is v2's but for the second
  size query; here it has only its outcomes. A quirk of its parser is left out
  too: `isdigit` holds for superscripts, which `int` refuses.
* v1's file server, a stateless handler that Caddy replaced; its configuration
  reader, which reads one file at start; the replay, a generator of traffic for
  demonstrations. Nothing in v2 runs them.
* Caddy and the containers, beyond `Crash`, `Restart` and `Disconnect`; the
  shims and the stub, stand-ins for `npcapextract`, which is modelled, like
  the filter language, from how the code uses it.

## Plan

1. Done: `Listener` with `Webhook` (the most important behaviour), `Extraction`,
   `Retention`, `Filter` and `Bpf`, `Params`, `Alert`; proofs of the first two
   and of the filter.
2. Done: `Recorder`, the three over one directory, with its refinement of
   `Listener` proved; v1's handler under the same promise, and its rules beside
   v2's; proofs of `Retention`'s age policy, `Params`, `Alert` and the rest of
   the filter's properties.
3. Done: proofs of the rest of the safety properties: `Retention`'s account,
   budget and policy, the URLs and captures of `Recorder` and its refinement of
   `Retention`, the ids of `Alert` and v1's reading of an alert.
4. Done: a deletion of retention in its three calls, failing removals and undecodable
   output in the runner, repeated keys of a query, and `Shutdown`; their proofs.
5. Left: liveness stays with TLC.
