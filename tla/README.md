# Formal models of the Marqov SDK

TLA+ modules, TLC runs and TLAPS proofs about the part of `marqov` where order,
failure and time decide whether the program is right: the durable execution of a
task graph, the attempt of one task, the executors that submit a job which cannot
be taken back, and the client of the hosted platform; and about the conversions
on which the meaning of a result rests: the arguments of tasks, circuits and
their qubit order, and counts. Paths below are relative to `src/marqov/` (the
package directory of the repository) unless they name a document.

    tlc -workers 2 -config MCJobWorkflow.cfg MCJobWorkflow    # a run
    tlapm JobWorkflowProofs.tla                               # a proof module

`PROJECT.json` lists the components, runs, mutants, hazards and theorems, and
maps every definition to the source lines it stands for.

## 1. The system

A user captures a Python function as a graph of tasks, and a Temporal worker
executes the graph durably; a task (or a script) hands circuits to an executor,
which runs them locally or submits them to a vendor. Beside this, a platform
client submits whole jobs to the Marqov service over HTTP and follows them.

| Component | State it keeps | Operations | Talks to |
|---|---|---|---|
| **Transport graph** `workflows/graph.py` | nodes, dependencies, edges, outputs | `add_node`, `set_output_node(s)`, `get_execution_order` | capture, dispatch |
| **Capture and dispatch** `workflows/decorators.py`, `capture.py` | the graph being captured (a context variable) | call tasks on proxies, build the workflow input, start the workflow | graph, Temporal client |
| **Job workflow** `workflows/temporal_workflow.py` | level, `completed_results`, status; replayed from history | prepare a node, gather a level, store results, return, be cancelled | two activities through the server |
| **Task activities** `workflows/activity.py` | child process and its group, stderr reader, heartbeat task, workdir | `prepare_node_inputs`, `execute_task` | server, child, file system |
| **Task child** `workflows/_task_child.py` | none after exit | load, run, write `result.json` or `error.json` | its workdir |
| **Owned blocking calls** `executors/_blocking.py` | two-thread pool, flags and reply under a lock | `call`, `submit_owned`, `wait`, `close` | QB, SpeQtrum, Braket, Azure, IBM, Rigetti |
| **QB, SpeQtrum, IonQ executors** `executors/` | `last_job`, or the shared state of one submission | submit once, poll, fetch, cancel | vendor HTTP APIs |
| **Braket, Azure, IBM, Rigetti executors** `executors/` | identity of the current job; Rigetti: its job handles | connect, submit, wait, cancel, decode | vendor SDKs in threads |
| **CUNQA executor** `executors/cunqa.py` | raised Slurm family | `qraise`, run, gather, `qdrop` | Slurm |
| **Local engines** `executors/cudaq.py`, `lightning.py`, `qilisdk.py` | locks, process-wide target, seed and token, qualified devices | run under a lock, qualify once | simulator libraries |
| **Circuits** `circuits.py` | a list of gates | fluent gates, `from_*`, `to_*`, `to_dict`/`from_dict` | executors, devices |
| **Shot allocation** `executors/_counts.py` | none | `allocate_counts`, `widen_counts` | executors |
| **Devices and backends** `device.py`, `backends.py` | catalogue | choose a provider and a format, run, decode | executors' vendors |
| **Executor factory, simulation, benchmarking, preflight, CLI** | configuration and data | validation, numerics, output | libraries |
| **Platform transport** `platform/_transport.py` | one session, its idempotency key per write | `request` with retries and a deadline | service |
| **Platform client, job, watcher** `platform/` | snapshot and staleness of a watched job | submit, poll, `result`, refresh loop | transport |

The components interact by calls, except at these places, which are the hard
ones:

* **workflow – server – worker.** The workflow sees an activity only through the
  server, which retries, times out and forgets attempts on its own; a worker may
  die and leave a child running beside the next attempt.
* **coroutine – thread.** An executor awaits a blocking vendor call in a thread
  that no cancellation can stop. The two share flags under a lock, and the
  thread may outlive the call it was started for.
* **activity – child – grandchildren.** Signals, pipes and files, with a workdir
  that is removed while somebody may still write to it.
* **client – service.** A write whose answer is lost may have been done.
* **call – call.** Calls of one process share a simulator's global settings, an
  executor's job handles or its `last_job`, and the threads that abandoned calls
  left running.
* **program – circuit – provider.** Each pair has a convention for the order and
  the number of qubits; a circuit that passes through several must mean the same
  at the end.

What makes each correct, in one line: the graph returns the earliest levels
that respect all dependencies, or a real error; the workflow stores one result
per node, computed from the results of its dependencies, tries no task more
often than allowed and always ends; an attempt leaves no writer, workdir or
swallowed cancellation behind; a submission is never sent behind a caller told
that it was not, and an accepted job is never lost without a word, nor cancelled
twice, nor cancelled under a caller that gets its result; within a
call the transport never repeats an ambiguous write, and an operation becomes at
most one job; waiting for a result keeps its deadline; the watcher keeps its
pace and says how old what it shows is; an error of an executor names every job
that may exist at the vendor; a raised family is dropped; a circuit runs under
the settings it was given; an imported circuit does what its program does, or is
refused; counts have one key per outcome, qubit 0 leftmost, on every way to
them, and add up to the shots; a task receives the arguments its workflow wrote.
`PROJECT.json` lists the hazards behind these at their lines.

## 2. Modules

| Module | Models | Composes with |
|---|---|---|
| `Dataflow` | abstract: what executing a graph promises | refined by `JobWorkflow` |
| `JobWorkflow` | `JobWorkflow.run`, its activities as the server runs them, workers, crashes | takes the levels `GraphLevels` builds; one attempt is `TaskActivity` |
| `WorkflowInput` | what `dispatch` hands to the workflow | extended by `JobWorkflow` |
| `GraphLevels` | `TransportGraph` and `get_execution_order` | its levels are a well-formed `WorkflowInput` (proved) |
| `Capture` | the body of a `@workflow`, the encoding of its arguments, their decoding in the child | extends `GraphLevels` |
| `TaskActivity` | one attempt of `execute_task`, await by await | inside an attempt of `JobWorkflow` |
| `StderrTail` | `_StderrTail` | |
| `TaskStderr` | an attempt with the reader of its stderr | composes `TaskActivity` and `StderrTail` |
| `OwnedSubmission` | `submit_owned` under QB and SpeQtrum | |
| `IonQExecution` | one execution by `IonQExecutor`, both API routes | |
| `RemoteCall` | concurrent `execute` calls of Braket, Azure, IBM and Rigetti on `BlockingCalls` | |
| `VqpuFamily` | `CUNQAExecutor.execute` | |
| `LocalEngines` | CUDA-Q, Lightning and QiliSDK in one process | |
| `Executors` | the executor a process uses | composes the three above |
| `Circuits` | circuits, identities, and what counts mean (`LocalExecutor`) | |
| `CircuitImport` | the five importers | extends `Circuits` |
| `CountsRoutes` | every way from a circuit to counts | extends `CircuitImport` |
| `ShotAllocation` | `allocate_counts` | |
| `Conversions` | a user who writes, imports, extends and runs circuits | composes `CountsRoutes` and `ShotAllocation` |
| `PlatformTransport` | one call of `Transport.request` | extended by the next two, which say where answers come from |
| `Admission` | abstract: what submitting an operation promises | refined by `PlatformSubmission` |
| `PlatformSubmission` | `submit`, `submit_native`, `submit_script`, the service and the user | `PlatformTransport` |
| `JobPolling` | `Job.result` | `PlatformTransport` |
| `Watcher` | `marqov watch` with `recent_jobs` and `project_jobs` | |
| `PlatformReaders` | what a process reads over time | composes `JobPolling` and `Watcher` |

`MC*` modules give the constants of a run; `*Proofs` modules hold the theorems.

An operator named `Mistaken…` is a wrong version of the definition that follows
it, of the kind a bug would produce (a dropped guard, a wrong comparison, the
wrong flag). No action uses it. Put in the place of the real one it breaks a
property, and `PROJECT.json` says which: it documents what the property is for.

### JobWorkflow

The workflow's variables are the locals of `run` (`temporal_workflow.py`):
`lvl` and `pos` are the positions of its two loops, `gathering` says that it
stands at the `gather`, `completed` is `completed_results`. `PrepareNode` is one
`prepare_node_inputs` call, `Gather` starts the level's activities in one
activation, `StoreLevel` is everything after the `gather`: the loop that stores
results in order and raises the first failure, the next level, and the return
(`Finish`) if it was the last. `Cancel` may come at any await.

`act`, `attempt` and `outcome` are the server's view of each node's
`execute_task`; `alive` and `orphans` are children. A child that outlives its
attempt (a timeout, a crash) stays in one of the two sets, so that two
executions of a body can overlap as they do in the field, and its answer comes
to nothing unless it is the attempt the server waits for (`Current`). A value
carries its node, its attempt and the inputs it was computed from; this is all
the properties tell apart. `Classify` is how `execute_task` judges the output
of its child.

Left out: the timeline metadata, the bodies of tasks and the encodings of values
(`Capture` has them).

### GraphLevels

Capture adds nodes and replaces the outputs in any order, with any dependencies,
also on later nodes or on ids that are no nodes. `BeginOrder` is the checks of
`get_execution_order`, `Peel` one round of its loop. The order of the nodes
inside a level is that of insertion in the code and a set here: nothing in
`JobWorkflow` depends on it, whose levels are sequences in any order.

### Capture

A value is a leaf inside some containers. The body of a workflow (`CallTask`)
writes values that hold proxies of earlier calls, or a graph is built with
`add_node` directly (`builder = "methods"`, the actions of `GraphLevels`).
`Dispatch` encodes every argument by `_serialize_value` and reads the levels off
the graph; `RunLevel` resolves the placeholders as `prepare_node_inputs` does,
lets the child decode them, and encodes what the task returns. The two walks
the code makes over an argument, one for dependencies and one for its encoding,
are two operators here, as they are two functions there: `ValuesArrive` is about
their agreement. A value holds one item per container, and a task takes one
argument, because no conversion looks from one item to another. `Captured` and
`ResolvedOutput` are the other way to run a workflow: `capture()` turns what the
body returned into a template, and an adapter that has run the tasks fills it.

### TaskActivity

One await of `execute_task` per value of `pc`; `child`, `group` and `stray` are
the child, a process in its group and one that called `setsid`; `removal` is the
thread that runs `rmtree`. The five `Cancel…` actions are a cancellation at each
await, any number of times. `Leave` is the inner `finally`.

`StderrTail` adds the bytes: a byte is its position in the stream, `Feed` is
`feed`, with the eviction of whole chunks and the trimming of the oldest.
`TaskStderr` lets the reader run between the spawn and the end of `stderr_task`,
so that the tail is compared with the stream at every step of an attempt.

### OwnedSubmission

`caller` is the coroutine, `post` the thread, `fut` what the event loop knows of
the thread, `wire` the request (external). `Claim`, `Record`, `Interrupt` and
`StopWaiting` are the four blocks under the lock. Several executions of one
executor follow one another and share `last_job`; the thread of an interrupted
one runs on. Both ways a vendor function sets `last_job` are modelled: QB clears
it in `execute`, SpeQtrum after its `claim()`.

### IonQExecution

`coroutine` is where `execute` stands and `ending` how it ended; `worker` POSTs,
`cleaner` is the second worker the coroutine schedules for the
cancel request of an interrupted submission, `putter` the thread of
`_cancel_interrupted_job`. The vendor accepts, refuses, runs, completes, fails
or invents a status as it likes. The v0.3 and v0.4 routes differ in what the
timeout covers and in what an unknown status does.

### RemoteCall

`at` is the caller of a call, `work` what became of each piece of work it gave
to a thread: connecting, submitting, the result, the cancellation of `wait()`,
and an auxiliary lookup. A thread may hang for ever, and no cancellation stops
one that runs. The executors differ in the operators of the second section: who
connects inside the pool, who asks the vendor to cancel, who looks something up
after the result, and which awaits the configured timeout bounds. `identity` is
the `submission_status` an executor keeps for the job under way, `told` what the
error carries to the user. `active` and `interruptedJobs` are Rigetti's two tables
of handles, shared by its calls; `Release` moves a handle between them.

### VqpuFamily

One `execute` of CUNQA with the threads it leaves behind. `qraise` may submit
its Slurm job after its caller gave it up; the thread then drops the family
itself (`abandoned`). The caller may be cancelled at every await, those of the
teardown included, a bounded number of times. Time is the startup budget.

### LocalEngines

A thread takes a lock, changes what the whole process shares (CUDA-Q: target,
`IQM_TOKEN`, seed; QiliSDK: the generator; Lightning: the table of qualified
devices), runs, and restores it. Its caller may be cancelled and go away at any
point, which the thread does not notice. A random generator is its seed and the
number of samples drawn from it.

### Executors

The three above share no state, so the one in use is chosen at the start
(`kind`) and the other two rest in an initial state.

### Circuits, CircuitImport, CountsRoutes

A circuit is the sequence of its gates, a gate a name and its qubits. States are
weights: `H` without its factor, so that the probabilities of one circuit are
its weights over `2^(number of H)`, and everything is in whole numbers. `H`, `X`,
`CNOT`, `SWAP`, `CCX` and `CSWAP` tell wires and their order apart; angles do not.
The operators are written with the folds and recursive functions a proof can
unfold: `Select`, `GatesOf` and `Flat` flatten blocks of one gate or none, and
`Ascending` picks the number with as many smaller ones before it as its place.

`CircuitImport` translates the loops of `from_braket`, `from_qiskit` (also
`from_openqasm`), `from_cirq`, `from_pennylane` and `from_pyquil`: unrolling,
what is dropped (barriers, declarations, terminal measurements, identities below
the last wire), and what is refused (`Accepts`). `ForeignCounts` in the same
module is the reference, the semantics of the *foreign* program: each
measurement copies its qubit to a wire of its own, which a condition reads, and
a reset exchanges its qubit with such a wire.

`CountsRoutes` has one operator per way: what the executor sends, the order in
which the provider reports (external: the documented convention of each
library), and what the executor makes of the keys, with `widen_counts` and the
refusal of circuits that are identities only.

### ShotAllocation, Conversions

`allocate_counts` one turn of a loop per step. Probabilities are multiples of
`1/Parts` and may sum to less or to more than one, which is what rounding in a
vendor's answer comes to. `Conversions` is a user who writes a program, imports
it, applies fluent methods, and may stop anywhere; and, beside it, an allocation.
What a program may say is the constant `Instructions`: any gates, measurements,
resets, conditions, modifiers, hints and repetitions on `WordWires` qubits.

### PlatformTransport

The variables are the locals of `request`: `attempt`, `nextSleep`, `last` (of
`last_exc` and `last_resp` at most one is set, each resets the other), `limit`
for `attempt_timeout`, and `call` for the arguments. An attempt is two steps,
`Transmit` and its end, so that a process can die with the request out. Each
`except` clause, the success, the two ways a status is treated and the top of
the loop (`Retry`) is an operator. Time is in ticks of half a second and stands
still in a call without a deadline, where the code does not read the clock.
Error codes are abstracted to what callers distinguish: is it a `TransportError`
and does it carry the key. `request` can also make a write that is not marked
idempotent; no method of the client does, so none is made here.

### PlatformSubmission

`kind`, `chosen`, `calls` and `verdict` are what the user knows of an operation:
the method, the key he passes, how often he called and what came back. `sent`
remembers every request that left the client and what the client saw of it;
`Admit` is the service taking one of them, now or long after the call, once per
key. `Posted` is what the three methods make of the answer: `submit` passes the
transport's error on, the other two put the key into every error, and only
`submit_native` checks the receipt. The user follows the documentation
(`docs/platform-client/error-handling.md` and the error texts): he submits again
under the key an error names, with a fresh one if it names none, and after a
crash only if he had chosen a key. That the service deduplicates by key is the
requirement the same document states in lines 75–79.

### JobPolling

`Poll` computes timeout and hold and calls the transport, `Attempting` is a step
of that call, and the three actions after it are the three ways `result` treats
the outcome. Jitter is any value up to a quarter of the back-off. Two
idealisations: the timeout of a request bounds all of it (the documentation,
lines 139–142, says that `requests` applies it to each socket operation), and a
sleep is exact. `timeout=math.inf`, for which nothing is bounded, is left out.

### Watcher, PlatformReaders

`run_plain` and `run_rich` take the same steps: refresh, draw, sleep. A refresh
of a team is one read; that of a project is the loop of `project_jobs`: the
list, documents until enough jobs are linked, one status per job. A read is one
call of the transport that takes a while and answers or fails. `FrameHonest`
compares what `refresh` keeps (`stale_since`, `failures`, the next delay) with
the history of the reads. `PlatformReaders` puts `Job.result` beside it.

## 3. Runs

| Run | States | Shows |
|---|---|---|
| `job_workflow` | 18 143 | a durable run over five graphs with two worker crashes: consistency, first failure, barriers, termination, refinement of `Dataflow` |
| `graph_levels` | 356 927 | every graph over three ids, with cycles, self loops and dangling ids; and every workflow of two tasks, from the values its body writes to those its tasks receive and its caller gets |
| `task_activity` | 42 147 | cancellations at every await, processes left behind, a failing heartbeat loop, and a child that fills its stderr |
| `owned_submission` | 2 891 | two executions of one executor, interrupted anywhere |
| `ionq_execution` | 323 | one execution on each route, interrupted or timed out anywhere |
| `platform_submission` | 36 125 | one operation submitted up to twice by each method and kind of key, with a crash anywhere and a service that admits late: refinement of `Admission` |
| `job_polling` | 485 418 | `result` with short and long deadlines, held, slow and failing polls; and `marqov watch` over three frames with every failure |
| `executors` | 474 716 | two calls on a remote executor whose threads may hang; a vQPU family cancelled up to three times; three jobs on a local engine |
| `circuits` | 44 043 | short programs through every importer, short circuits through every export, executor and device route, histograms through the allocation |
| `last_job` | violation | finding 1 |
| `ionq_unknown_status` | violation | finding 2 |
| `hold_fits` | violation | finding 3 |

Two components whose state is disjoint share a run where a composition says so
(`Executors`, `PlatformReaders`, `Conversions`, `Capture` with `GraphLevels`): the
one in use is chosen by the initial state, so the run is the sum of the two, not
their product.

**Bounds.**

* `job_workflow`: `Empty` has no node (the loop that never runs), `Chain` a
  dependency, `Join` a level with two siblings of which one may fail, one after
  the other retried, `LostOutput` an output that is no node, `Deep` three
  levels. `MaxCrashes = 2` lets both attempts of a retried task lose their
  worker. Retries are 0, 1 and 2: the budget is met by one attempt, by its last
  one, and with attempts to spare. More nodes add interleavings of activities
  that do not see each other.
* `graph_levels`: three identifiers give cycles of every length up to three,
  also behind a level that could be peeled, and diamonds cut down to a path and
  a join. The theorems hold for every set. For the capture, two calls and a
  foreign proxy give a producer and a consumer in every order, and two containers
  every pair of a walked, a pickled and a mixed one (lists, tuples, namedtuples,
  dictionaries with and without string keys, sets, objects); results come in four
  shapes.
* `owned_submission`: a thread can disturb only a later execution, so two are
  enough; the theorems hold for any number.
* `ionq_execution`, `task_activity`: the program's own state is finite. One
  process per kind stands for any number of them, because signals and pipes
  treat them alike. The stderr tail keeps 8 bytes of up to 12, in chunks of 1 or
  2: a read is at most a quarter of the limit, as 8 KiB of 32 KiB, and the stream
  is long enough to evict whole chunks, to trim the oldest, and to do both.
* `executors`: a call is disturbed by another only through Rigetti's handles,
  and `MaxRetained = 1` (32 in the code) makes two calls enough to push one out.
  Braket stands for the two Azure routes, whose steps are Braket's with or
  without the lookup; the theorems hold for all six. Of a family of two
  vQPUs, 4 shots are shared and 3 refused, since they do not split evenly; three units of startup budget with
  polls two apart let the last poll fall on and beyond the deadline; three
  cancellations are one before and one in each of the two waits of the teardown.
  Three jobs with two settings let two that agree and one that does not meet at a
  lock.
* `circuits`: programs of up to four instructions, of which the first is `H` on
  qubit 0 or an identity on qubit 1, over sixteen instructions on two
  qubits: enough for a measurement, what follows it, and the identity that fixes
  the width. Circuits of up to three gates on three qubits have idle wires below,
  between and above the ones in use, and a third wire to be permuted with. Three
  bins with quarters, summing from 0 to 3, for 0, 3, 5 and 8 shots: leftovers of
  both signs, larger than the number of bins.
* `platform_submission`: operations share only the client, which runs one call
  at a time, so one operation is enough; two calls give every succession of two
  verdicts, and `Retry-After` values differ only in how long a pause is, which
  no property of this run reads. The theorems hold for any numbers.
* `job_polling`: a deadline of 2.5 s is shorter than any hold, one of 30 s has
  room for a hold, a failed poll, its retries and a second poll; request
  timeouts of 8 s and 30 s put the hold below and at the server's cap. Attempts
  end at once, after 10 s or at their timeout. The theorems hold for all values.
  The watcher is asked for 5 and 20 s, below and above the pace of a project view
  of two jobs and two documents (10 s); its server may list five documents; a
  back-off cap of 30 s and a `Retry-After` of 90 s meet their limits; three frames
  are a success, a failure and whatever follows.

**Fairness.** Only what the code or its runtime guarantees.

* `JobWorkflow`: the server resumes a workflow whose awaited activity has
  closed; workers poll; every attempt has a finite `start_to_close_timeout`
  (`TaskConfig` refuses any other); heartbeats go out every ten seconds. No
  fairness on an orphan's exit, a cancellation or an attempt that returns:
  `Terminates` holds if no attempt ever answers.
* `GraphLevels`: `Peel`; the call is synchronous.
* `TaskActivity`, `TaskStderr`: the event loop, its two timers (two seconds for
  stderr, five for the killed child) and `rmtree`. The child may run for ever, and
  the reader of its stderr owes nothing.
* `OwnedSubmission`: the event loop with its one-second timer and the thread's
  own instructions. The vendor may never answer, so a thread may hang.
* `IonQExecution`: scheduled workers run, their requests have a socket timeout,
  the loop runs. The vendor owes nothing.
* `Executors`: the event loop of a remote call, and the one-second timer of the
  cancellation it waits for. No vendor thread owes an answer, and no call need be
  interrupted. Nothing is assumed of the family and the engines.
* `PlatformSubmission`, `JobPolling`, `PlatformReaders`: the client runs and every
  attempt has a timeout. The service never need answer, the job may run for ever,
  and the user need not submit again.
* `Watcher`, `Capture`, `Conversions`: none; their properties are safety.

### Findings

1. **`last_job` of an interrupted execution** (`executors/_blocking.py:98`). The
   note added to the interruption says that the accepted job "is retained in
   last_job for readback". `last_job` belongs to the executor and is written by
   the submission thread, and an abandoned thread goes on. Its reply may arrive
   after that of the next execution; when that one is interrupted, the note
   names its job while `last_job` names the earlier one. The executions do not
   overlap as far as their callers can see. The note still names the right job
   id, so nothing is lost; the property it promises does not hold.
2. **Unknown status on the v0.4 route** (`executors/ionq.py:561`). The docstring
   of `execute()` promises a best-effort cancel before an unrecognised status is
   raised. The v0.3 route sends one; `_execute_v04` does not.
3. **A retried poll keeps its hold** (`platform/_transport.py:418`). The
   docstring of `Job.result` guarantees that the hold is strictly shorter than
   the request's timeout. For a retry it need not be: its timeout is capped at
   the time left, while the `wait` parameter stays what it was for the first
   attempt. Such a retry is cut off by the deadline before the service has to
   answer. `result` then raises `TimeoutError`, as it should at the deadline,
   but without a last look at the job that a shorter hold would have given.

### Observations

What else came up, short of a disagreement with a text of the repository or out
of the reach of a property.

* `marqov watch` paces *reads*: each is one call of the transport, which may send
  up to three requests, so that the requests of a failing minute can exceed the
  thirty the comment in `watch.py` speaks of. `PaceKept` is about reads.
* Its back-off is capped at five minutes; an interval above that is *shorter*
  after a failure than after a success.
* The teardown of the CUNQA executor shields two waits. A cancellation in each
  lets the pool be shut down with `cancel_futures`, which takes back a `qdrop`
  that has not started, against the comment in `_teardown`; the allocation then
  lives until its walltime. `NothingStranded` excludes this case by name
  (`qdrop = "dropped"`).
* Braket's counts are reordered by `measured_qubits` only if the circuit has idle
  wires; otherwise the order is taken to be that of the qubits.
* A task argument is kept by reference and pickled at dispatch
  (`decorators.py:381`): an object changed between two calls reaches both in its
  last state.

## 4. Proofs

Checked with `tlapm`, for every value of the constants under the assumptions the
modules name. Most say of what kind a constant is: numbers and times are natural,
`None`, `Absent` and `Nothing` are none of the values they stand beside. The
others are these.

* `InputsAssumption`: workflow inputs are well formed. `DispatchedInputsWellFormed`
  proves it of the levels `GraphLevels` ends with, where the other fields come from
  the same graph.
* `PaceAssumption`: what a project view may spend on a refresh, two seconds a
  request, is no more than the longest back-off. In the code it is 62 seconds
  (10 documents, a `--limit` of 20) against 300.
* `PowersAssumption`: the powers of two up to 2^16 are positive numbers. The
  prover knows nothing of `^`; TLC evaluates the formula.
* `ExecutorsAssumption`: a remote executor is one of the six modelled.
* `WordsAssumption`, `FluentAssumption`: a program is written in the instructions
  of `Elementary` and repetitions of them, on some number of qubits; a fluent
  method is given a gate of the six kinds or an identity on any qubits. That no
  gate of a program repeats a qubit is the frameworks' own check, that no applied
  one does is `RequireDistinct`.
* `ResultWrapsAssumption`: the shapes of a result are sequences of container kinds.

`GraphLevels` needs none.

| Module | Theorems |
|---|---|
| `JobWorkflowProofs` | `TypeCorrect`, `ResultsFollowDependencies`, `RetryBudgetKept`, `EndClosesActivities`, `LevelsAreBarriers`, `FirstFailureReported`, `RunImplementsDataflow` |
| `CaptureProofs` | `GraphTypeCorrect`, `LevelsCorrect`, `LevelsEarliest`, `CycleErrorIsReal`, `DispatchedInputsWellFormed`, `CaptureBuildsGraphs`, `ValuesAlwaysArrive` |
| `OwnedSubmissionProofs` | `SubmissionTypeCorrect`, `NothingSentBehindTheCaller`, `NeverReportedTwice`, `NeverForgotten` |
| `ExecutorsProofs` | `RemoteTypeCorrect`, `ErrorsTellTheJob`, `CleanupFindsAThread`, `OnlyAbandonedJobsCancelled`, `HandlesStay`, `NoFamilyStranded`, `EveryCircuitAsConfigured`, `OneProbePerDevice`, `ExecutorsAlone`; of IonQ `IonQTypeCorrect`, `OneCancelRequest`, `OnlyAbandonedIonQJobs` |
| `ConversionsProofs` | `ImportsAlwaysFaithful`, `KeysAlwaysFaithful`, `CountsAlwaysExact`, `AllocationAlone` |
| `TaskActivityProofs` | `TaskTypeCorrect`, `GroupDeadBeforeRead`, `RemovalAlwaysFinished`, `HeartbeatsSpanRemoval`, `NoCancellationSwallowed`, `ReaderAside`, `TailAlwaysExact` |
| `PlatformSubmissionProofs` | `TypeCorrect`, `NoAmbiguousReplay`, `KeysAreTold`, `SubmissionImplementsAdmission` |
| `PlatformReadersProofs` | `TypeCorrect`, `DeadlineIsKept`, `TimeoutIsHonest`, `PaceIsKept`, `FramesAreHonest`, `ReadersAlone` |

Each follows the same line: an inductive invariant, initial and preserved by
every action, that implies the property. Fourteen of the theorems are about invariants
that no run lists, because the run would only repeat, on a small instance, what
is proved: the eight type invariants, `AttemptsBounded` (no task is tried more
often than its retries allow), `LevelsRespectDependencies`, `ReportedOnce` (a
reply is reported on one channel), `CancelledAtMostOnce`, `RemovalFinished` and
`KeyTold`. `ExecutorsAlone`, `ReadersAlone`, `AllocationAlone`, `ReaderAside` and
`CaptureBuildsGraphs` say that a composition steps as its parts do, so that what
is proved of a part is so of what a run checks.

Values, circuits, histograms and byte streams come in every size, and what is
computed from them is defined by recursion. The library's induction theorems take
a predicate, which none of the provers can instantiate; they do take a *set* and
a relation. The proofs therefore state an induction about the set of the numbers
(or sequences) for which a claim holds: a non-empty set of numbers has a least
element (`LeastNumber`, from `NatLessThanWellFounded` and `WFMin`), so a set with
0 that is closed under successors holds every number up to a bound
(`BoundedInduction`), and a set with the empty sequence that is closed under
`Append` holds every sequence (`SequenceInduction`). That a recursive function
satisfies its equation is proved the same way, by building it up one argument
at a time.

* **JobWorkflow.** `DataflowConsistent` is not inductive: what an attempt
  computes depends on what was resolved when its level was prepared. The
  invariant adds that the nodes of earlier levels are exactly the stored ones,
  that the prepared nodes of the current level hold exactly the stored results
  of their dependencies, that an activity of a later level has not been
  scheduled, and that an activity closed as "ok" carries its own node's id (the
  check of `execute_task`) and a value computed from the resolved inputs. That
  levels respect dependencies is `WellFormed`. `RunImplementsDataflow` uses the
  same invariant: `StoreLevel` commits a level, every other step stutters or
  only ends the run. `LevelsAreBarriers` needs that an activity is scheduled only
  at the gather of its level; `FirstFailureReported` that a failure is raised
  from the level being stored, whose earlier nodes in order have succeeded.
* **GraphLevels.** The levels appended so far and `remaining` partition the
  nodes, dependencies of a node in a level are in earlier ones, and every
  remaining node has a predecessor in the last level or in `remaining`; for the
  cycle, `remaining` itself is the set of nodes that wait for each other.
  `DispatchedInputsWellFormed` lays the levels out as sequences: a dependency in
  an earlier level is then in an earlier place.
* **Capture.** What an argument becomes on its way depends on the kinds of the
  containers around a proxy: lemmas say, by induction over them, what the body's
  encoding, the substitution of results and the child's decoding do to one value.
  The invariant adds that the dependencies of a node are the proxy found in its
  argument, that a node refers to nodes of its own graph, and that exactly the
  nodes of the levels that ran have results. Every step of a session is a step
  of `GraphLevels` or leaves the graph alone, so its levels are in order.
* **OwnedSubmission.** What each flag says about the two partners: a request is
  on its way only after a claim, a claim only without an interruption, an
  abandoned caller has taken the reply if there was one, so that a thread that
  is late knows that nobody else reports.
* **IonQExecution.** An interrupted submission has one claim to its
  cancellation, held by the worker or by the second worker, never by both; a
  cut wait exists only if the submission was not interrupted.
* **Circuits.** A circuit is run gate by gate (`Runs`), and every gate but `H`
  permutes the amplitudes. Three facts about running carry everything: gates that
  change nothing can be left out (`SelectRuns`), a wire that only identities name
  is 0 in every outcome that can be seen (`IdleAreStill`), and counts under keys
  that tell those outcomes apart are determined by the amplitudes (`CountsSame`).
  Every route is then one of four: the register read forwards, read backwards and
  reversed, read from the working wires and widened (`RestoredIsLocal`), or read
  after identities were put on the unnamed wires (`PaddedIs`).
* **CircuitImport.** An accepted program only computes and measures, and after a
  measurement nothing but an identity names its wire (`AcceptedPrograms`). While
  its simulation runs, the amplitudes it can be seen with are those of the gates
  alone, in the outcomes where each measurement's own wire repeats the measured
  one and the wires to come are 0 (`Follows`, `Copied`); at the end each outcome of
  the program is one such outcome (`OneOutcome`). The Quil importer's recognition
  of a `SWAP` is an identity of three permutations (`ThreeCnots`). The invariant of
  the user (`CircuitInv`) says that the circuit he holds is well formed, and after
  an import is the program's, converted.
* **ShotAllocation.** Handing out: a turn each in the order of the remainders,
  fewer turns than bins if the histogram is normalised. Taking back: with `q`
  full rounds done, `q` shots at least have been recovered (`Rounds`), since as
  long as a shot is missing some bin has one to give; `NBins * (1 - leftover)` turns
  are therefore enough. That the remainders of a normalised histogram leave fewer
  shots than bins is a linear identity of sums (`SumLinear`).
* **StderrTail.** The kept chunks, one after another, are a window of the stream
  that ends where the stream does; `feed` drops whole chunks while the rest still
  fills the limit and then trims the oldest.
* **RemoteCall.** What a call's position says of its five pieces of work, its
  identity and its verdict (`CallFits`), and what Rigetti's two tables hold
  (`HandlesFit`): jobs that are waited for, and jobs that were submitted and whose
  call ended without a result. That
  clean-up finds a thread is counting: while it is queued only the abandoned
  result call can run in the pool. Most actions move one call and one piece of
  its work; `KeepShape` is the common part of their proofs.
* **VqpuFamily.** A Slurm job that is up will be dropped (`DropToCome`): by the
  coroutine that has not reached the end of its teardown, by the `qdrop` it
  queued, or by the abandoned `qraise` thread itself. The one step that could
  leave it without either is the one that sets `spoiled` or `qdrop = "dropped"`.
* **LocalEngines.** Whoever holds the lock has set what he has set, nobody else
  changed it, and what a thread saw when it ran was that. For Lightning, a device
  has been probed as often as it is known, and a thread past the probe has a
  device that passed.
* **TaskActivity.** Where `execute_task` stands determines what is dead and
  what the removal has done.
* **PlatformSubmission.** Everything sent for an operation carries one key, the
  one its next call would use (`KeyOf`), although that key moves from the call
  that made it to the user when an error names it; of the call under way, every
  request before the last attempt was answered. The first makes two jobs
  impossible, the second an ambiguous replay.
* **JobPolling.** The timeout of the attempt under way fits into the time left.
  The end of an attempt, a back-off and a nap are each shown to end in time.
* **Watcher.** `PaceKept` looks at one point of the loop. The invariant bounds the
  reads of the refresh under way at every point (`Spent`: documents first, then
  statuses) and says that the delay to come, after a success or a failure, is not
  below the pace. `FrameHonest` needs that a watcher told to stop draws and ends.

**Only model-checked.** Liveness (`Terminates`, `ChildrenStop`,
`InterruptionEnds`, `InterruptedJobCancelled`, `CutWaitEnds`, `AttemptEnds`,
`CallEnds`, `ResultReturns`, `AbandonedReturns`): proofs under fairness need
`ENABLED`, which the prover does not support. Every safety property a passing run
checks is a theorem.

## 5. Plan

Done: everything in sections 2 to 4. Left, the riskiest first:

1. Task arguments and return values with several items per container, shared and
   cyclic objects; the size limits of a dispatch.
2. The order of the IonQ v0.3 and CUNQA keys, once the vendors' documents settle
   it: the code takes both as unverified.
3. The threads in which Quantinuum and Alice & Bob wait for a result, as further
   kinds of `RemoteCall`.
4. The requests inside a read of the watcher, with `PlatformTransport` in place of
   the single step (see the first observation).

**Not modelled.**

* `executors/factory.py`, `base.py`, `params.py`: configuration records, their
  validation and lookup tables. No state over time; each check is one condition.
* `benchmarking`, `preflight`: floating-point estimates and static checks.
* The command line: parsing and output. `marqov watch` behind it is `Watcher`.
* Numerical simulation (`LocalExecutor`'s state vector, CUDA-Q, Lightning): the
  libraries'. What the circuit converter measures and how it names the keys is in
  `CountsRoutes`.
* In the circuits: rotation angles and parameters, circuits without a qubit,
  Qiskit's legacy `c_if`, `preserve_qubit_labels`, the native gate sets of Braket
  and QB remote.
* In the devices: the catalogue, `validate_circuit`, construction of the clients.
* Of the executors: `get_status` and its kin (one read each), the provenance
  records, the waiting of Quantinuum and Alice & Bob.
* Of the platform client: `save_script`, `analyse_script`, `cancel` (one
  idempotent write each, as `PlatformTransport` models it) and its single reads.
