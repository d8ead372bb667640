# Verification of the judge

TLA+ models of the judge in this repository and of the EOJ runner beside it, the TLC
runs that check them and the TLAPS proofs about them. The judge takes submissions from
a site, compiles them, runs them in a sandbox against the test cases of a problem and
reports the verdicts; the EOJ server offers the toolchains of a machine and runs single
programs with an interactive session. Every definition follows the Python, Cython, C,
C++ and shell source; `PROJECT.json` gives, for each definition, the lines it stands for.

Contents: 1 the system, 2 the modules, 3 the runs, 4 the properties, 5 the proofs,
6 disagreements, 7 not modelled, 8 plan.

## 1. The system

| Component | State it keeps | Operations | Talks to |
|---|---|---|---|
| **Judge core** (`dmoj/judge.py`) | the grading lock, `current_judge_worker`, the ready signal of each attempt, `updater_signal`, `updater_exit` | `begin_grading`, `abort_grading`, `murder`, one grading thread per submission with a handler per IPC message, `log_internal_error` | the packet manager (calls), the worker process (a pipe), the monitor (callback) |
| **Worker** (`JudgeWorker`) | the `_abort_requested` flag, the grader, the running test process | `_grade_cases`, the receiver thread, `_do_abort` | the judge (pipe), the sandbox |
| **Packet manager** (`dmoj/packet.py`) | the connection, `_closed`, the test case queue and its lock | a method per packet, the periodic flush, the reconnection, `_receive_packet` | the site (socket), the judge core |
| **Case selection** (`Problem.cases`, `_grade_cases`) | the flattened cases, batch numbers, `passed_batches`, the two short-circuit flags | flatten an item, begin and end of a batch, a case graded, failed or skipped | the worker |
| **Problem data and configuration** (`dmoj/problem.py`, `dmoj/config.py`, `dmoj/judgeenv.py`) | the generated data of a case, the dynamic keys of a configuration, the caches of problem directories | match the files of an archive to cases, make the input and the answer of a case, look up a key, find a problem | the worker, the updater |
| **Graders** (`dmoj/graders`, `dmoj/utils/communicate.py`) | the current process, the poll set, what was read and written; with an interactor, two processes and their pipes | launch, exchange data, interact, wait, check | the sandboxed processes (pipes) |
| **Sandboxed process** (`dmoj/cptbox`) | pid, returncode, `_is_tle`, the events `_spawned_or_errored` and `_died`, the times, the children of the program | spawn, `monitor()`, kill, the shocker | the kernel (ptrace, wait4, signals) |
| **Sandbox policy** (`isolate.py`, `filesystem_policies.py`) | a tree of path rules, handlers per system call | decide a call or a path | the sandboxed process |
| **Executors** (`dmoj/executors`) | `_dir`, `_executable`, `is_cached`, the cache of compiled binaries | construct, compile, cleanup, evict | the file system, the compiler |
| **Checkers, contrib modules** | none | compare outputs, read exit codes | the graders |
| **Monitor, updater, control** (`dmoj/monitor.py`, `dmoj/control.py`, `dmoj/judgeenv.py`) | two events, a terminate flag, the caches of problem directories | file events, `update_problems`, pings, the scan, the shutdown | the packet manager, other services |
| **Command line, test suite** | none beyond the judge's | drive `begin_grading(blocking=True)` | the judge core |
| **EOJ server** (`server.py`, `toolchain_discovery.py`, `install_all_toolchains.sh`) | the cached catalogue and its time, two globals without a lock; what is installed | discover, answer, install | clients, the interactive runner |
| **Interactive runner** (`interactive_runner.py`) | the terminal, the time waited for input, what was sent, the directory of the run | compile, forward output and input, stop, limit, finish | a client, the program |

What makes this code hard: five kinds of thread and a forked process per submission
around one current worker; two threads that send the same queue; aborts, timeouts and
crashes at any point of a grading; a process group that is started, signalled, traced
and waited for by different threads; pipes and terminals that fill on both sides; two
processes with limits of their own that wait for each other; a cache whose entries are
shared without being counted; globals that several handler threads refresh; events that
are waited for and cleared while others set them. `PROJECT.json` lists these hazards at
the lines where they bite, each with the properties that watch it.

What makes each part correct:

- judge core: one submission at a time, each packet about the right one, verdicts in
  order and final, an answer to every submission, a network thread that always comes
  back, no worker left behind;
- case selection: exactly the cases the rule says are skipped, dependencies obeyed;
- problem data: every file in one case and with its partner, one input and one answer per
  grading, one value per key, a directory that is there;
- exchange with a program: all input delivered, no output lost, the limit exact, no
  deadlock;
- interactive graders: whoever hangs is the one that is blamed, points are earned, every
  case is graded;
- sandboxed process: signals reach the right group, a run over its limit is a TLE and no
  other is, a refused call ends the program, nothing survives, `wait()` returns;
- policy: a file no rule covers is opened by no spelling, one a rule names can be opened;
- checkers: each accepts what its definition says;
- compiled cache: an executor has its files, the right binary, and nothing leaks;
- problem updates: what the site was told last is what there is;
- EOJ server and runner: what is offered runs, an answer is fresh, a session shows all of
  the output, limits computing and ends.

## 2. Modules and how they correspond to the code

| Module | Models | Checked by |
|---|---|---|
| `Judge` | judge core, worker and IPC, packets about submissions | `MCJudge` with `JudgeSafety`, `JudgeLive` |
| `SubmissionLife` | the abstract life of a submission as the site sees it | refined by `Judge` (`ImplementsLife`) |
| `GradeCases` | `problem.cases()` and the flags of `_grade_cases` | `MCGradeCases` |
| `Communicate` | `safe_communicate` and its caller in the standard grader, the program as the environment | `Communicate` |
| `InteractiveGraders` | `InteractiveGrader`, `BridgedInteractiveGrader`, the contrib modules and the flags of the result | `InteractiveGraders` |
| `TracedPopen` | `TracedPopen`, its worker with `monitor()`, its shocker, killers, the traced program | `TracedPopen` |
| `SandboxPolicy` | `FilesystemPolicy`, `_access_check` and the handlers that look at paths | `MCAlgorithms` |
| `Checkers` | the checkers, `_checker.c` among them | `MCAlgorithms` |
| `ProblemData` | `_match_test_cases`, `_resolve_test_cases` | `MCAlgorithms` |
| `TestCaseData` | the input and the answer of a `TestCase`: files, archives, a generator, line ends | `MCAlgorithms` |
| `ProblemRoots` | `get_problem_root` and its two caches, the problems that are listed | `MCAlgorithms` |
| `ConfigNodes` | the look-up of `ConfigNode` with its dynamic keys | `MCAlgorithms` |
| `Algorithms` | the inputs of the six modules above, one more in each step, and what must hold of each | `MCAlgorithms` |
| `CompiledCache` | the metaclass of compiled executors and the destructor | `MCCompiledCache` |
| `ProblemUpdates` | monitor, `RefreshWorker`, updater thread, reconnection, shutdown | `ProblemUpdates` |
| `Toolchains` | the installer's steps, `toolchain_discovery`, `compile_source` | by `EojServer` |
| `EojServer` | the cached catalogue under the server's threads, with an installer at work | `MCEojServer` with `EojServer`, `EojServerOffered` |
| `InteractiveRunner` | `run_interactive`, its client, its program, and `POST /run` | `InteractiveRunner` |
| `JudgeProofs`, `GradeCasesProofs`, `EojServerProofs`, `InteractiveRunnerProofs`, `InteractiveGradersProofs` | theorems about the module they are named for | TLAPS |
| `ExecutorProofs` | theorems about `TracedPopen`, `CompiledCache` and `Communicate` | TLAPS |
| `CheckersProofs` | lemmas about what the checkers accept | TLAPS |
| `AlgorithmsProofs` | theorems about `Algorithms`, that is, about the six modules it asks | TLAPS |

The modules meet where the code calls: `Judge` takes what `GradeCases` yields as its
constant `Plan`, and a test process as the step from `Launch` to `Graded`; `Communicate`
and `InteractiveGraders` are what happens in that step, `TracedPopen` is the process they
talk to, `SandboxPolicy` what its tracer answers, `Checkers` what its output is compared
by, and `CompiledCache` where its executable comes from. `EojServer` and the compile step
of `InteractiveRunner` share `Toolchains`.

`CompiledCache` and `Communicate` name their specifications `CacheSpec` and
`ExchangeSpec`, and `Algorithms` has one variable, `sample`, which is a record of what the
sample is about: a file policy with its rules, two outputs, an archive, a file, a case
with what a grading was told so far, problem directories with what the judge remembers of
them, or a configuration with the values it gave.

A definition named `X_Variant` (for instance `Flush_Uncleared`) is not part of a
specification. It is `X` with a plausible mistake; each checked property is violated when
one of them replaces its original, which shows that the property depends on the code.

**Judge.** A submission identifier also names its JudgeWorker, its grading thread (`gt`)
and its worker process (`main`, `recv`). The network thread is `netPc`: `Request`,
`AcquireLock`, `StartGrading`, `AwaitReady` are the four steps of a submission-request
through `begin_grading`, split where other threads can run; `Terminate`, `Disconnect`,
`Interrupt`, `Murder`, `CloseConnection`, `NetJoin`, `Exit` are the aborting packets and the
shutdown. A SIGINT is taken where the main thread, which is the network thread, waits: for
a packet, the grading lock, the handshake or a worker. `Exit` comes after the flush thread
and the worker processes, which the interpreter joins; as that thread looks at `_closed`
before it sleeps, one flush may follow the close (`flushing`). The grading thread
takes a message from the pipe (`Receive*`), and the handlers that flush before they send
are two steps, as the queue lock is released in between. `_send_packet` on a connection
that was shut down ends the process (`SendPacket`). The worker's `Launch`, `Graded`,
`CheckAbort` are the three points at which an abort has different effects;
`WorkerReceive` and `WorkerAbort` are the flag and the kill of `abort_grading`, in that
order. Python's exceptions are steps to the `error` state of the grading thread or to the
`finally` state of the worker. `log`, the packets the site received about each
submission, is a history variable; a flush adds one packet per queued case to it, as the
site counts cases and not messages. Left out: a second SIGINT during the shutdown, one
between two statements that do not wait, and the one a terminal sends to the workers too;
bytes of a worker that cannot be decoded and messages of an unknown type; every result is one
that `json.dumps` accepts; a sent packet reaches the site unless the connection was closed
(a connection that breaks in the middle of a grading ends the process in `_send_packet`,
and `ProblemUpdates` has the reconnection); the pid of a worker is not reused; SIGKILL acts
at once.

**SubmissionLife.** Four phases (unknown, acknowledged, grading, answered), the number of
cases delivered and the verdict: cases arrive only while grading, never more than the
problem has, all of them before a `grading-end`, and a verdict never changes. `Judge`
implements it under the mapping that reads the phase, the first verdict and the delivered
cases off `log`.

**GradeCases.** One run of `_grade_cases` per behaviour. `CasesOf` is what
`problem.cases()` returns, `FlattenItem` one turn of the loop that makes
`flattened_cases` and `batch_dependencies` of it; both number the batches, as the code
does. The verdict of each graded case is chosen freely. The rule against which the flags
are checked (`Skipped`) mentions verdicts and dependencies only.

**Communicate.** Bytes are counted, not stored. The program may read, write and close its
ends in any order and at any time, or exit. `Events` is what `poll(2)` reports on a pipe;
`Serve` handles the ready descriptors in the order in which they were reported, one step
each, so that the program runs in between.

**InteractiveGraders.** `pc` is the judge's thread through `_launch_process`,
`_interact_with_process`, the two waits and the check. Messages are counted. Both sides
compute, talk, fill their stderr, exit with any of the codes the contrib modules tell
apart, or are killed by their own shocker; `Tick` advances the two clocks of each process.
An interactor of `InteractiveGrader` is code on the judge's thread and has no limits.

**TracedPopen.** One action per statement that another thread can observe in
`_run_process`, `_shocker_thread`, `kill` and `wait`, and one per branch of `monitor()`:
the first stop, the first `execve`, the end of a call that was refused, `fork`, `clone`
and `vfork`, signals, exits, and a process that vanished between `wait4` and the look at
its registers. The program is its first process and one that it starts; what one does
after a second `execve` or what a third process adds is the same again. Times are
Booleans ("over the limit"); the counted time (`execOver`) lags behind the real one
(`ran`) until `wait4` returns, which is why there is a shocker. A SIGXCPU may stop a program
at any moment (`xcpu`): `RLIMIT_CPU` counts all of its threads, and the sandbox lets it
signal itself.

**SandboxPolicy.** A path is a sequence of names; a file system is a function from paths
to directories, files and links. `AddRule`, `CheckPath` and `AccessCheck` go along a path
like the loops they translate, with both looks of `_access_check`, the projection
of `/proc/self` to the calling thread and what `open`, `rename`, `utimensat`, `fchmod`,
`kill`, `prlimit` and `prctl` add. `rename` has two names and both are looked at; `link` has
two and only the new one is (`HandleLink`). Reading a path from the memory of the process
succeeds. `utimensat` with explicit times is left out: it is never checked
(`compiler_isolate.py:121`).

**Checkers.** An output is a sequence of characters; `CheckStandard` moves two positions
as `_checker.c` does, a turn of its loop (`Compare`) at a time. Numbers are a function from
words to whole multiples of the smallest difference that matters, `One` of which are 1.0;
other words are an infinity of either sign (`Infinite`) or NaN. What rounding does to
a difference, and a product that overflows to infinity, are left out.

**ProblemData.** A file of an archive is what its name makes it, its batch and its case;
`MatchTestCases` builds the cases from an unordered list. Both patterns are tried on every
name, so a file may be an input and an output at once, as `intro.1.out` is. Of two files for
one side of one case (`Rivals`) the later replaces the earlier, and a lone case may have
the number of a batch, without a word (the check at `problem.py:155` can never fire):
`Clear` is without either. A problem may bring patterns of its own; they are
taken to read the same batch and case of a name that both match.

**TestCaseData.** A text is a sequence of characters that tell the line ends apart.
`DataFits` looks at what one grading was told in any order of calls to `input_data_io`
and `output_data`, with a generator that may fail or write something else in each run.
`LinesAgree` compares `_normalize` with `normalized_file_copy`, which does the same in
blocks by other means.

**ProblemRoots.** A path is a sequence of names, the disk the set of directories with an
`init.yml`; it may change between any two calls. What `glob` and `fnmatch` make of a
pattern are two operators, as they differ: the star of `fnmatch` crosses a slash, and a
pattern carries the directories it matches only so (`across`). Patterns have their wildcards
in the last name, or are a directory with `**` behind it.

**ConfigNodes.** A node is its dictionary and those around it. `RunDynamicKey` replaces a
key `k+` or `k++` by what it gave, so that a read changes the configuration.

**CompiledCache.** An executor object is constructed by a hit, a miss, a failed compilation or
without the cache; it may be dropped at any time, and its destructor runs `cleanup`. The
directory an object uses is the object that made it, so sharing is visible. The key of a
source is any function of it: it is a hash of parts joined without separators, and two sources
may share one. `Sweep` removes files from outside, which the code allows for ("is the file
still there?").

**ProblemUpdates.** The problem files are a version number. The waits, clears and sets of
both events are steps of their own. The shutdown is the statement sequence of `murder`
followed by that of `Monitor.stop`. A ping is an attempt, remembered in `tried`: `monitor.py:54`
gives `urlopen` a `str` for data, which raises on Python 3, and a failure is only logged.

**Toolchains, EojServer.** A machine is the set of files that the successful steps of the
installer leave; `Discover` and `CompileSource` are what the discovery finds on it and
what the runner needs for a target. That `gcc` compiles Objective-C takes a package of the
scripting group, `npx` comes with NodeSource's node only, and a key that cannot be fetched
aborts the script. A handler thread of the server reads the time, compares,
discovers, stores and stamps in steps of its own, and any of the others may run between them.
A discovery takes at most `Probe` and may raise.

**InteractiveRunner.** `pc` is the runner: the request, the compilation, the loop with its
`poll`, its `select` and its reads, the drain and the final wait. A tick is the 20 ms of
the select. `kernel` is the pipe from the client and `hidden` the buffer of `readline`,
which `select` does not see. Each read of the terminal is decoded by itself: `cut` has the
outputs (of those that end within a character, `Wide`) after which one ended. A line may be
odd, JSON that is no object or whose data is no text, and what it raises ends the session
(`TakeOdd`). The program computes, writes, waits for input, grows over its memory limit,
ends, or ignores SIGTERM. Whether it is taken to wait is read off its main thread alone
(`main`), which reads the terminal itself, sleeps in a futex while another thread reads (a
JVM, Node), or is in the read of some pipe. `POST /run` sends all lines and closes the pipe,
and kills the runner after `HttpLimit`.

## 3. Runs

Sizes are distinct states; each run takes from a few seconds to about three and a half
minutes.

| Run | States | What it shows |
|---|---|---|
| `judge_safety` | 490,565 | two submissions, a batch of one case and a case of its own, aborts at any time, a SIGINT at any wait, workers that crash, raise, hang or are killed: the safety properties and the refinement |
| `judge_live` | 197,837 | one case per submission, every packet of the site, a SIGINT: answers, the network thread, orphans |
| `grade_cases` | 179,511 | every problem of up to three items, or of up to two after up to two pretests, with every dependency, empty batch and verdict |
| `communicate` | 338,124 | input up to a chunk and a half, output up to one unit over the limit |
| `interactive_graders` | 226,316 | both graders and all contrib modules, two ticks of limit, pipes of one message, an abort at any time |
| `traced_popen` | 448,702 | a limited program of two processes, monitor, shocker, one killer and a waiting caller |
| `compiled_cache` | 273,791 | five executors, three sources of which two have one key, a cache of two (up to symmetry) |
| `problem_updates` | 93,371 | three versions of the files, lost connections, a shutdown at any time |
| `eoj_server` | 1,980,787 | three threads, any one of fourteen installation steps failed or the script aborted, one more under way |
| `toolchains_offered` | violation | what the catalogue offers after a perfect installation and the runner cannot run |
| `interactive_runner` | 1,334,703 | two lines, two outputs of which the first ends within a character, a terminal that holds one line, both clients, every main thread |
| `algorithms` | 151,548 | policies of up to two rules, outputs of up to three characters, archives of up to four files, some of them of both types, the calls of one grading for a case with files or a generator, problem directories that move between calls, two nodes of a configuration |

**Why the bounds are enough.** Judge: the hazards are between one submission and the next, so
two submissions are needed and a third repeats the second; the plan has a batch boundary, a
case inside and a case outside a batch, which are the distinct orders of flushing packets. The
liveness run uses one case, as its properties do not depend on the plan; exceptions in the
grading code are left to the safety run (the state space with them is too large for liveness),
a crash of a worker and a stall are in both. GradeCases: dependencies need two batches and an
effect on a third item. Communicate: a pipe holds one chunk (`Cap = Chunk = 2`), so that every
write can be full, partial or blocked; `Limit + 1` outputs reach both sides of the limit.
InteractiveGraders: with `TL = 2`, `Extra = 2`, `WallFactor = 3` each of the four limits can
be the first to be reached, and a pipe of one message blocks its writer. TracedPopen: the
hazards of `monitor()` are between the first process and another one of the program.
CompiledCache: a cache of two with three sources has an eviction that is not of the only
entry; five executors leave room for a hit on an entry that is evicted later. ProblemUpdates:
two changes, one before and one during a scan. EojServer: two threads can refresh at once
while a third is answered. InteractiveRunner: two lines are what it takes for one to hide
behind another; `Limit = 2` lets a program compute before and after a wait. The programs of
`POST /run` ignore SIGTERM there and those of a terminal do not: heeding a signal only adds
fairness, so no safety property tells them apart, and `SessionsEnd` promises an answer to the
one and an end to the other. Algorithms: two rules can overlap, contain each other or name a
link and its target; three characters hold a word, a blank and a line end, or a number, an
infinity and a blank, on each side; four files are two cases of a batch or two items, or a
file of both types with a rival. The proofs of section 5 remove the bounds for most of these
properties.

**Deadlock** is not checked where the program may rest: a judge without submissions that
nobody contacts, a grading or a session that is over, a process that was waited for, a
site that changes no files. That nothing gets stuck half-way is stated by the liveness
properties instead.

**Fairness.** Every thread of the judge that can run eventually does (weak fairness per
thread): they are operating system threads, and the locks between them are held for a bounded
number of steps. In `judge_live` nothing is assumed of a worker whose judge is up: it may hang
anywhere, and progress comes from the timeouts of `communicate` and `wait_with_timeout`, which
the judge's own steps contain. The threads of a worker that lost its judge are fair. The site
never has to send anything. In `TracedPopen` the threads are fair, a killed process ends, a
started one reaches its first stop, one that was allowed to exit exits, and a running one uses
time (strong fairness, as it may be stopped again and again); nothing makes a program end by
itself. In `Communicate` the caller and the program are fair; the program does a bounded
amount of input and output, so it ends unless a pipe blocks it for ever, which is what the run
asks. In `InteractiveGraders` the judge's thread, the clocks and the shockers are fair, and
code on the judge's thread ends once the submission is gone; a submission or a bridged
interactor may hang. In `InteractiveRunner` the runner and `POST /run` are fair, time passes
(strong fairness: the runner's other steps interrupt a tick) and a program that got a SIGTERM
it does not ignore, or used up its `RLIMIT_CPU`, dies; neither the user nor the program ever
has to do anything. In `ProblemUpdates` threads are fair and a shutdown that began is carried
through; files need not change. `CompiledCache`, `EojServer` and `MCAlgorithms` have safety
properties only.

**Type invariants.** Those of `Judge`, `TracedPopen`, `Communicate`, `EojServer` and
`InteractiveRunner` are theorems and not repeated in the runs. Those of `GradeCases`,
`ProblemUpdates`, `CompiledCache`, `InteractiveGraders` and `SubmissionLife` document the
variables; they are no part of a run's properties.

## 4. The properties

**Judge.** `OneGrading`, `OneWorker` (with `Handover`): the lock of `begin_grading` hands
the judge from one submission to the next without overlap. `CasesBelong`,
`NothingQueuedWhenIdle`: the queue never carries a case into the next submission, which
the comment at `packet.py:227` relies on. `ResultsInOrder`: no case twice, none missing,
each on its side of the batch packets, and nothing after a verdict but the failure of the
judge. `NoCutCaseReported`: the race between the flag and the kill of an abort never lets
a killed run be reported. `AbortAfterHandshake` answers the FIXME at `judge.py:141`: the
network thread that would deliver the site's abort is waiting for the handshake. Only the
judge's own end breaks into that wait: a SIGINT reaches `murder`, which aborts the
submission it was starting. `ExitExplained`:
the judge process only ends itself after a disconnect or when asked for a submission that
does not exist. `EventuallyAnswered`, `NetworkResponsive`, `OrphansExit`: see their
comments.

**GradeCases.** `SkipRule` states by verdicts and dependencies which cases are
short-circuited; `DependenciesRespected` that nothing is graded before what it waits for;
`AllCasesReported` that every case ends in a result.

**Communicate.** `NothingLost`, `LimitExact`, `GraderReturns`.

**InteractiveGraders.** `WaitingInteractorSpared` is the comment at `bridged.py:81`: an
interactor that only waited is not killed before a submission that hangs. It holds because
`WallFactor * TL < 3 * (TL + Extra)`; with a larger `wall_time_factor` and a long time limit
(from 12 s on for a factor of 3.5 and the default two seconds) the interactor is killed first
and the result is an internal error. `VerdictEarned` ties points and flags to what both
processes did; `GradingEnds`.

**TracedPopen.** `SignalsReachProgram`: the judge never signals its own group and the
shocker's only SIGKILL is not lost. `TimeVerdict`: a program whose counted time passed the
limit is over its time when `wait()` returns, and nobody is without having passed one or
got a SIGXCPU, which counts as such whatever the clocks say (`tracer.py:327`).
`FaultVerdict`: a kill in the wrong moment is not
taken for a refused call, and a refused call ends the program. `NoSurvivors` is the
comment at `ptproc.cpp:341`; the children of `clone()`, which `monitor()` never records,
depend on `PTRACE_O_EXITKILL` for it. `WaitReturns`.

**CompiledCache.** `EntriesKeepFiles`; `RightBinary`, up to the key: what an executor runs
was compiled from a source with the key of its own, and from its own only if no other has
that key (section 6); `CleanedUp`.

**ProblemUpdates.** `SiteLearnsAll` (unless a connection was lost, see section 6);
`PingsAttempted`: the last change is followed by an attempt to ping, which is all that
holds, as none succeeds; `UpdaterEnds`.

**EojServer.** `AnswersFresh`: two threads that refresh at once may store an older
catalogue over a newer one, or with its time, and still no answer is older than the limit
and one discovery. `OffersRun`: whatever step of the installer failed, what the branches
of discovery and runner that agree offer does compile. It excepts the targets that no
machine compiles (`Gap`) and what half an installation leaves (`Halved`): Objective-C, found
by clang and compiled by gcc, without the scripting group, and TypeScript without
NodeSource's node. `OnlyExecutable` is what the discovery says of itself, and fails
(section 6).

**InteractiveRunner.** `ProtocolKept`, `DataKept`, `TimeLimitExact`, `SessionsEnd`.
`TimeLimitExact` says for each kind of main thread what the limit is of: of computing where
the main thread reads the terminal, of computing and waiting together where it sleeps in a
futex, of nothing where it sits behind a pipe. `SessionsEnd` is limited by what the code does:
a stop behind another line stays in `readline`'s buffer (line 1074), and after a stop the
runner waits without limit for a program that ignores SIGTERM (line 1108). `DataKept` allows
for the input the code drops: a line that is split over two reads (1090) and one that finds
the terminal full (1083); and for the output it spoils, characters that two reads share (1067,
1099), and nothing else. A session that an odd line ends shows no more output and has no exit
(1090).

**Algorithms.** `FilesAllowed`: every name that is looked at for an allowed call, with any
`..` and links on the way, is covered by the rules where it really is. The old name of `link`
and `linkat` is not looked at (`compiler_isolate.py:39`), and the property says nothing of it.
`RulesFollowed`: the tree does not depend on the order of the rules, and what a rule names can
be opened by that name. One thing is excepted from it: a file below `/proc/[pid]` that is no
link is denied to a thread that is not the main one, though it may open it below `/proc/self`
(`isolate.py:369`). `CheckersAgree`: `check_standard`, which never goes back, accepts exactly
the outputs with the same words on the same lines; laxer checkers accept what stricter ones
do; points stay within the case's. The error modes of `floats` are ordered where the judge's
output has no infinity: `relative` accepts an infinity for the same one, which `default`
refuses. `ProblemsRead`: a file of an archive is lost only to a later one for the same side of
the same case; if there are no such rivals, every file stands in one case, as all that its
name says, with its partner and in order; a grading has one input and one answer, of one run
of the generator if both are generated, and of none that failed; the two normalizations of
line ends agree; a directory that is answered is there, and is of a problem that is listed
unless a star crossed a slash; a problem that is listed is found once the caches are cleared;
a key has one value whoever reads it.

## 5. Proofs

The theorems hold for every value of the constants that satisfies the modules' named
assumptions: any sets of submissions, executors, sources and threads, any plan, any sizes,
limits and numbers of lines; any file system, rules, archive, case, configuration and
outputs of any length. In each proof module a conjunction of named parts is shown to
be inductive, with one step per action, and the properties follow from it. `TLAPS` checks
all of it from nothing in about ten minutes for the longest module.

- **JudgeProofs**, types: `TypeOK` is inductive. Lemmas give the type of what `Flush`,
  `SendPacket`, `Gone`, `WaitWithTimeout`, `AbortGrading` and `Yield` leave.
- **JudgeProofs**, `Handover`. None of `OneGrading`, `GradesItsOwn` or `OneWorker` is
  inductive alone: that two grading threads never overlap depends on who holds the lock
  between its acquisition and the start of the thread, that no two workers overlap depends on
  each being gone before its thread leaves the join. `Handover` adds exactly these facts: the
  lock is held iff the network thread has just taken it or a grading thread is active; the
  current worker is that of the thread that has not cleared it; a live worker implies its
  thread has not passed the join; the network thread stays until the handshake is over or a
  SIGINT ends its wait (`ShuttingDown`). From it: `OneGrading`, `HandoverClean` (the assertion
  at `judge.py:132`), `GradesItsOwn`, `OneWorker`, `ExitExplained`, `AbortAfterHandshake`.
- **JudgeProofs**, `Delivery`, inductive given `Handover`. Why the queue is empty when a
  submission is torn down: the last message of a worker before BYE is one whose handler
  flushes, or there was no case (`FlusherFollows`, `NothingEarly`); BYE is the last message
  (`PipeProper`); every other way out of the grading thread goes through the flush of
  `log_internal_error` (`QueueProper`). A killed case is never sent because whoever killed
  it has set the flag before (`AbortKnown`). From it: `CasesBelong`, `NoCutCaseReported`,
  `NothingQueuedWhenIdle`.
- **JudgeProofs**, `Narrated`. `ResultsInOrder` says that the site's packets about a
  submission are a `Story`: an opening, entries of the plan one by one, a verdict, at most
  one failure after it. It is not inductive, as the next packet may come from the queue,
  from the hand of the grading thread or from the pipe. `Narrated` says that all of these,
  one behind the other, are one story `F`. A step of the judge moves entries of `F` from
  one place to the next (lemmas `ToldFlush`, `ToldSend`, `ToldResult`) or, when the judge
  fails, replaces what is still to come by an internal error (`ToldFail`); a step of the worker
  adds at most one entry, and `WorkerAt` says which one it is allowed to add. What the site
  has is a beginning of `F`, and every beginning of a story is one. From it:
  `ResultsInOrder`.
- **JudgeProofs**, the refinement. `ImplementsLife` holds because every action that
  sends adds one packet, or the queue, to the log of one submission (`HistoryStep`): an
  acknowledgement, a `grading-begin`, cases, a verdict, or nothing `SubmissionLife` sees.
  The cases delivered are counted by their positions, which the story gives; that no other
  submission is being graded when one begins follows from `Handover` and `Narrated`
  together: a submission whose grading thread is done was answered.
- **GradeCasesProofs**: the rule looks back at all results, the code only at four flags,
  so `Flags` says what each flag remembers: `passed_batches` is the set of batches whose
  cases were all accepted before the next one (`PassedRight`), the first flag says that
  short-circuiting was asked for or a case worth nothing failed (`EnabledRight`), the
  second one that something came while it was on, or that the batch being graded misses a
  dependency or has failed (`SkippingHere`, `BetweenBatches`). `Flat` says that the cases
  of a batch stand together and in the order of the items, so that between two batches no
  batch is half graded (`OneSplit`). From it: `SkipRule` for every problem and every
  verdict. `DependenciesRespected` needs besides that the numbers the dependencies were
  checked with are those of the flattening (`NumbersAgree`), which is where pretests with
  batches are excepted.
- **ExecutorProofs**, the process: `Lifecycle` ties the place of the worker to the events it
  sets and to the first process, `Users` says how far the other threads are then, `Clock`
  follows the time from the program through the stop that `wait4` reports to `is_tle`, which a
  SIGXCPU sets by itself, `Faults` follows a refused call and the children. From it: `TypeOK`,
  `SignalsReachProgram`, `TimeVerdict`, `FaultVerdict`, `NoSurvivors`, with a time limit and
  without.
- **ExecutorProofs**, the exchange: what a program wrote is what was collected and what its pipe
  still holds (`Books`), and a stream is given up only when its writer is gone and its
  pipe is empty, which what `poll` said before still tells (`Verdicts`). From it:
  `ExchangeTypes`, `NothingLost`, `LimitExact`.
- **ExecutorProofs**, the cache: an executor that does not own its directory was made on a hit
  and stays marked as cached, so that the one directory a dying executor removes is its
  own, which no entry has (`Sharing`); a directory holds what its owner was compiled from
  or nothing (`Contents`). From it: `EntriesKeepFiles`, `RightBinary`, `CleanedUp`, for any
  function `Key`, colliding ones included.
- **EojServerProofs**: the recorded time may belong to another refresh than the
  catalogue, but whoever sets it has seen a catalogue stored during its own refresh
  (`TimeTells`, `RefreshTells`). From it: `TypeOK`, `AnswersFresh`. The argument needs
  `Probe <= MaxAge` (`TimeAssumption`): a discovery takes no longer than the 30 s for
  which its result is cached. `Shows`: every catalogue, the global, one a thread holds or
  the one last shown, comes from the machine before some of its steps. From it:
  `ShownIsInstalled`. What then compiles on the machine of today is a question to the tables
  of toolchains, built by joining strings, which the provers do not compute: `OffersRun` stays
  with TLC.
- **InteractiveRunnerProofs**: `Phases` ties the messages sent to the place of the
  runner, `Clocks` the three clocks: for a main thread that reads itself, what is charged is
  what the program computed but for one turn each time it began to wait; for one in a futex,
  at least what it computed; for one behind a pipe, nothing. From it: `TypeOK`,
  `ProtocolKept`, `TimeLimitExact`, and that all output is shown and only characters that were
  cut are unreadable (the first part of `DataKept`). `Input`
  follows the lines from the client through the pipe and the buffer of `readline` to the
  terminal and the program: what is ahead of the program stands in the order it was sent,
  a line cut in two as its head and its tail next to each other (`Straight`); all of it is
  younger than what was fed (`Behind`), which is increasing; and a line that was sent is
  fed, ahead or lost (`Covered`). From it: the rest of `DataKept`.
- **InteractiveGradersProofs**: a verdict is given when both sides are dead (`Settled`),
  and the submission, started first, has the larger wall clock (`Clocks`). From it:
  `VerdictEarned`, and `WaitingInteractorSpared` under
  `WallFactor * TL < 3 * (TL + Extra)`, the condition it really depends on.

- **AlgorithmsProofs**, what computes over sequences. The theorems of the library for
  induction cannot be applied by the installed provers, so the principle is proved for
  sets of numbers (`NatUpto`, from the well-foundedness of `<`), what a recursive function
  is follows from it (`RecursionExists`), and an invariant of a loop is a set of numbers.
  No module that is proved about declares a `RECURSIVE` operator.
- **AlgorithmsProofs**, policies (`PolicyInv`, `AtEach`). A walk along a path finds a
  canonical one (`normpath`, `realpath`). After each rule the tree holds what the rules so
  far said of each path, with `recursive` over `exact` and a directory on the way to each
  of them; a descent ends at the first entry that answers (`TreesFollowRules`). The first
  look of `_access_check` covers the name and the second what is behind it, after a
  projection of `/proc/self` that names the calling process and no other. From it:
  `FilesAllowed` for any file system, rules and threads; and `RulesFollowed`, as the rule
  for a link brings the rule for its target. What the assumptions ask of file systems
  (`WellFormed`, and `/proc/self` is a link), of rules (normalized, of no process by
  number) and of threads is named in `Algorithms`.
- **AlgorithmsProofs**, `ConfigurationsAgree`: what a read keeps in the place of a key reads
  the same as the code or the expression did (`Faithful`). `ProblemsAreFound`: what is
  remembered of a problem bears its name and is where a pattern finds problems, or across a
  slash, there or not (`JudgeKnows`). `ArchivesAreMatched`: the keys have one order, in which
  `InOrder` gives every finite set of them once; a place has the last of the files for it
  (`LargestOf`, `LastStays`), so that a file is lost to a rival behind it or not at all
  (`NoneLost`), and without rivals has its own place. `LineEndsAreOne`: the text and the block
  copy are two decoders of line ends, equal after each beginning of a file, with what is
  pending told apart; the last block ends the text. `CaseDataFits`: one run of the generator
  is known (`g`), and all that was told is of it. Together: `ProblemsRead`.
- **CheckersProofs**, **AlgorithmsProofs**, `CheckersAgree` (`OutputsInv`). The words of a
  line and the loop of `_checker.c` have no step in common, so both are compared with a third
  thing: the marks of an output, its characters that are not white with the gap before
  each. A turn of the loop stands, on both sides, behind equal marks (`Abreast`), so that it
  accepts exactly the outputs with the marks of the judge (`CompareAgrees`, `StandardMarks`).
  Marks and words by line determine each other: `Build` makes a page of words of marks,
  `PageMarks` finds them in the page (`Shown`, `MarksAreWords`). From it: `WordsAreCompared`.
  What is sorted is equal when the places of one list can be matched with those of the
  other (`Inverses`), which is how the words of equal lines make `easy` and `sorted` accept;
  the error modes of `floats` are compared by arithmetic on multiples of a unit, which needs
  that epsilon is at most 1.0, that is, that `precision` is not negative
  (`EpsilonsAssumption`; `floats.py:47`).

Only model-checked: liveness, which needs fairness and `ENABLED` (beyond the prover):
`EventuallyAnswered`, `NetworkResponsive`, `OrphansExit`, `AllCasesReported`,
`GraderReturns`, `GradingEnds`, `WaitReturns`, `SiteLearnsAll`, `PingsAttempted`,
`UpdaterEnds`, `SessionsEnd`; and `OffersRun`, which is about tables of strings.

## 6. Disagreements found

`toolchains_offered` checks what `toolchain_discovery.py:6` says of itself, "only 100%
available and executable runtimes are returned", after an installation in which every
step succeeded, and finds it violated; the finding in `PROJECT.json` lists the targets.

Others came up while modelling. They are in the models, where the properties are stated
so as to say what the code does keep:

- `judge.py:151` against `judge.py:674`: a SIGINT during the handshake puts an abort in the
  pipe before the worker's HELLO (`Interrupt`, `Murder`).
- `compiled_executor.py:224` and `c_like_executor.py:50`: the parts of a cache key are joined
  without separators or file names, so two sources can have one key and the second runs the
  executable of the first (`Key`).
- `monitor.py:54`: `urlopen` is given a `str` for data, which raises `TypeError` on Python 3;
  the failure is logged and not tried again, so no service is ever told of a change.
- `interactive_runner.py:919`: whether a program is "actively blocked on stdin read" (1022) is
  read off the stat and the wchan of its main thread alone. One whose main thread sleeps in
  a futex while another waits for the input, as in a JVM, is charged for what its user takes
  to type and is killed with "Computation exceeded" (1041); `OnlyComputingCharged` fails of it,
  and `TimeLimitExact` claims it where the main thread reads the terminal (`Blocked`).
- `interactive_runner.py:1099` and 1067: a read of the terminal is decoded by itself, so that
  a character that two reads share becomes two replacement characters (`cut`).
- `interactive_runner.py:1090`: JSON that is no object, or data that is no text, raises what
  is not caught: the session ends with no exit and its last output unsent (`TakeOdd`).
- `compiler_isolate.py:39`: of the two names of `link` and `linkat` the new one is looked at
  only (`HandleLink`).
- `floats.py:15` against 25: for two equal infinities `relative` accepts what `default`
  refuses, as their difference is no number (`VerifyInfinite`).
- `problem.py:42` and 125: the input pattern matches `intro.1.out` too, with `in` at its
  start, so that the answer of a case may replace its input (`Rivals`).
- `judgeenv.py:242`: the star of `fnmatch` crosses a slash, so that a directory may be
  answered that no `glob` lists (`FnMatched`).
- `toolchain_discovery.py:506` against `interactive_runner.py:450`: Objective-C is found by
  clang and compiled by gcc (`Halved`).
- `problem.py:247` against `judge.py:486`: pretests with batches change the numbers of
  the batches that the dependencies of the tests use (`CasesOf`, `FlattenItem`).
- `problem.py:253`: failed pretests stop the tests, but not those in a batch, whose cases
  keep their points (`ForcePoints`).
- `communicate.py:90`: to name the stream over its limit, `fileno()` of a closed stdout
  is asked for and raises `ValueError` instead of `OutputLimitExceeded`.
- `compiled_executor.py:61`: an executor made on a cache hit loses its directory when the
  entry is evicted.
- `packet.py:91`: a reconnection may send an older problem list after a newer one.
- `ptproc.cpp:302`: when `PTRACE_GETEVENTMSG` fails, `npid` is not set and what it holds
  is killed at line 343 (the pid `stray` of `HandleFork`).
- `bridged.py:81`: the comment holds up to the wall limits named in section 4.
- `interactive.py:118`: a `WrongAnswer` does not close the input of the submission, which
  then waits until its limit; its time limit flag is added to the verdict.
- `peg.py:38`: the fraction of the points may be larger than one.
- `floats.py:35` says that it discounts empty lines; `floats`, `sorted` and `rstripped`
  count lines of white space only.
- `problem.py:155`: conflicting test cases are never reported; a list of points that is
  too short ends the matching with `StopIteration` (151).
- `problem.py:455`: what a generator wrote is kept before its failure is raised, so that a
  second look at the same case would find it; the grading ends before there is one.
- `judgeenv.py:242` against `judgeenv.py:303`: a problem that is itself the directory
  before `**` is listed by `glob` and rejected by `fnmatch`: the site is offered a problem
  the judge does not find.
- `packet.py:91`: the list of problems in the handshake does not clear the cache of their
  directories, as `judge.py:108` does.
- `config.py:106`: a dictionary with both `k++` and `k+` answers the one at the first read
  of `k` and the other at the second.
- `filesystem_policies.py:48`: for a rule on a link below `/proc/self` no rule for the
  target is added.
- `isolate.py:350`: the comment of `_access_check` excepts `/proc/self` from what it does
  with links, and the projection handles it at the start of a name; `FilesAllowed` is
  stated of names that come to `/proc/self` there or not at all (`Direct`).
- `interactive_runner.py`: end of input is ignored and polled again at once (1072);
  exceptions of the compilation leave the directory behind (960, 999); `POST /run` looks
  for message types that are never sent and kills the runner only (`server.py:143`).

## 7. Not modelled, and why

Framing, TLS, JSON and the authentication of the packets, logging and formatting: I/O
without a state another part reads. The compilation and the limits of a generator, the
YAML reader, the iteration over a `ConfigNode`. The tables of system calls and the
debugger of each architecture: data. Command lines and runtimes of the language
executors: strings without a state beyond the executor. The token and line readers of
`Interactor` and the bridged checker. The command line and the test suite drive the same
judge from one thread. `run_code.py`, static files, the build of the extension and the
watch script.

Hazards known but of no property: terminate-submission carries no id that is looked at
(`packet.py:282`); a result that `json.dumps` refuses stays in the queue (`packet.py:221`);
`_reconnect` and `_do_reconnect` call each other (`packet.py:127`); files that change before
the observer starts (`monitor.py:116`); for a process over its wall time only, `_is_tle` is
set after the kill (`tracer.py:381`); a compiler over its output limit is not waited for
(`compiled_executor.py:202`).

## 8. Plan

1. Done: all modules of section 2 and the proofs of section 5. Every invariant and every
   action property that a passing run checks is a theorem, the algorithms' ones included,
   except `OffersRun`.
2. An abstract specification of one run of a program (started, ended with a verdict, gone)
   that `TracedPopen` and the step from `Launch` to `Graded` of `Judge` both implement.
3. The compiler's process in `compiled_executor.py:100-237`, composed of `TracedPopen`
   and `CompiledCache`.
