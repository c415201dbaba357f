# A verification development of coderef

`coderef` is a collection of C and C++ programs and small libraries: a thread
pool, loggers, libcurl drivers, clock arithmetic, and pure functions on text and
numbers. This directory models the parts that keep state or run concurrently,
model-checks them with TLC and proves their central properties with TLAPS.

Contents: [inventory](#inventory), [plan](#plan), [modules](#modules-and-the-code),
[runs](#runs-what-each-one-shows), [bounds](#bounds), [fairness](#fairness),
[proofs](#proofs), [findings](#findings), [not modelled](#what-is-not-modelled).

## Inventory

### Components

| component (under `src/`) | state | operations | status |
|---|---|---|---|
| thread pool, `线程池/threadpool.{h,cpp}`, driver `post_task.cpp` | two queues, a counter, a mutex with a condition variable, a spinlock, a flag in each task | init, cycle, event handler, post, exit handler, destroy | modelled, proved |
| asynchronous log, `日志/CXX/asynclog.{h,cpp}`, driver `asynctest.cpp` | a queue, a mutex with a condition variable, a file | `operator<<`, `log_run`, `log_decorate` | modelled, proved |
| producer and consumer, `线程池/tp_cond_mutex.cpp` | an array of slots and two indices, shared without a lock | the two thread functions, main's count | modelled, proved |
| range downloader, `curl/下载/demo_easy_1.c` | a slice table, one `FILE`, two mutexes | slicing, claiming, transfer, write callback, joins | modelled, proved |
| typed logger in C++, `日志/CXX/cxxlog.{h,cpp}` | a log file and its backup, a table of types and levels, a stream | construct, register, look up, set levels, print, free, initialise again, destroy | modelled, proved |
| typed logger in C, `日志/C/log.{h,c}` | the same table in a global object | init, free, register, set levels, print | modelled, proved |
| HTTP client, `curl/http/httpclient.{h,cpp}` | the options kept in one easy handle per object, the count of initialisations of libcurl | construct, destroy, GET, three POSTs | modelled, proved |
| libcurl multi drivers, `curl/下载/demo_multi_*.c` | the multi handle, interest sets, timers | socket callback, event loops, clean-up, URLs of the command line | partly, proved |
| growing memory, `测试/memory_increase.c` | an array of pointers, shared with a handler of SIGINT | two loops, the handler | modelled, proved |
| benchmark loop, `工具/benchmark.c` | a flag and a timer, shared with a handler of SIGALRM | set, loop, handler | modelled |
| Tai clock arithmetic, `Tai/tai.{h,cpp}` | one time | construct, seven additions | modelled, proved |
| clock conversion and rotation, `时间/time_conver.c`, `时间/month_rotate.cpp` | three times and a buffer that options overwrite | four conversions, next rotation | modelled, proved |
| codes, `编解码/`, `转换/`, `测试/` | none (pure functions) | base64, hex of strings, integers and files, dump, colons, exclusive or | modelled, proved |
| string tools, `字符串处理/` | none | split, strip, doubled slashes, header and footer, matrix | modelled |
| command line, `命令行/` | a map | parse options, ask for one | partly |
| number tools, `工具/`, `时间/` | none | gcd, extended gcd, nonce counter, offset binary, byte length, first zero, difference of times | modelled |
| synchronous log and `tp_log.cpp` | one mutex around one write | print | not modelled |
| forms, other time programs, library samples, language notes, measurements | none worth keeping | | not modelled |

The programs are independent: only the thread pool's locks
(`ThreadMutex`, `ThreadCond`) are used by a second program, the producer and
consumer. Inside a component the interactions are these.

* **Thread pool.** Clients call `thread_pool_task_post`, which takes `m_mtx`,
  pushes and signals. Workers loop in `thread_pool_cycle`: lock, decrement a
  counter, wait for a task, take it, unlock, run its handler, push it on a second
  queue under a spinlock and call `thread_pool_event_handler`, which pops *some*
  task from that queue and calls its event handler. `thread_pool_destroy` posts a
  task whose handler ends the worker, and spins until that handler has cleared a
  flag.
* **Asynchronous log.** Producers push under the mutex and notify; the log thread
  waits with a predicate for a second at most, pops one record, unlocks and writes.
* **Producer and consumer.** The consumer waits *without* a predicate and touches
  the shared slots outside the lock; the producer signals, urges, and at the end
  scans and signals until nothing is left.
* **Range downloader.** main cuts the file and creates the threads; each thread
  claims the first unused slice, and libcurl calls its write callback, which seeks
  and writes in one `FILE` shared by all the threads.
* **Typed loggers.** A C++ program constructs the logger (which may rotate the file
  it finds there with two file-system calls), registers types, sets levels and
  prints; programs follow one another and may be killed at any point. The C logger
  has the same table in one global object and no files of its own. All its
  functions may be called at any time.
* **HTTP client.** Each object owns an easy handle, whose options stay set between
  requests; the methods set, send and unset some of them. libcurl reads the body,
  the headers and the place for the response through pointers while it sends.
* **Multi drivers.** Each program gives its transfers to one multi handle and drives
  libcurl: in a loop of `perform` and `curl_multi_wait`, in one with `select` and a
  give-up timer, or by socket events, where libcurl calls back to change the
  watched events and the timer while the program is inside a call.
* **Signal programs.** Two programs share a variable with a signal handler, which
  runs between any two of main's statements, and inside `malloc` and `free` too.
* **Clock arithmetic.** Hand-written month lengths and leap rules that have to
  agree with `mktime` and `localtime`.

### What is hard here, and what makes each part correct

| component | hazards | correct when |
|---|---|---|
| thread pool | a counter that goes negative; signals that find nobody waiting; an unguarded `front()` in a second critical section; an object reused after its handler was moved out; destroy waiting for a worker | the queue is bounded, `front()` finds a task, no task stays queued while workers sleep, each accepted task is handled once and its event raised once, destroy returns |
| asynchronous log | notifications before the log thread waits, or before it exists; the timeout racing a push; writing outside the lock | what was accepted gets to the file once, in order, filtered by level |
| producer and consumer | lost signals, data races on both indices, a final scan that is not atomic | every item is consumed, in order, and both threads end |
| range downloader | slice bounds at uneven, small and unknown lengths, in an unsigned type; two threads in one slice; seek and write interleaved; a server that ignores ranges; short writes | a transfer that is reported good has put its slice into the file |
| typed loggers | a crash between unlink, rename and open; a failing allocation; a size and a table that go apart; ids used after the table changed; calls before the first init and after free | no gap in what the two files hold, ids stay valid, no call reads beyond the table |
| HTTP client | an option or a pointer of one request left for the next; objects that share the initialisation of libcurl; parameters put behind what the URL has already | a request is the one asked for, and its parameters arrive |
| multi drivers | a timer dropped or kept at the wrong moment, events watched that libcurl no longer wants, a pause measured from the wrong start, messages left unread | handles are released, a program gives up only when nothing happens, and it ends |
| signal programs | a handler between `free` and the clearing of the pointer, between `malloc` and the store, or before the flag it clears is set; a flag a build reads once | each block is freed once; the loop ends |
| codes, strings, options, numbers | incomplete last groups, buffers that keep what they held, a scan that cuts the string it reads, options given twice, overflow | encoding inverts, cuts lose nothing, the last option given counts, arithmetic is exact |
| clock arithmetic | leap years behind and ahead of a date, December, the ends of long months; results of one option left for the next | it agrees with the calendar; the last option counts |

`PROJECT.json` lists each hazard at its line with the property that covers it.

## Plan

In order; all but the last are done.

1. `TaskExecutor` (what a pool promises), `ThreadPool`, which implements it, and
   `ThreadPoolProofs`: the type invariant, the counter, the bound, the second
   queue, the wakeups, the refinement.
2. `LogChannel` (what a log promises), `AsyncLog`, which implements it, and
   (in `LoggersProofs`) the refinement.
3. `ProducerConsumer`, then `SharedStateProofs`: order and the final scan.
4. `RangeDownload`, then `RangeDownloadProofs`: one thread per slice, the
   slices partition what they cover for every length, and a slice reported good is
   in the file.
5. `TypeTable` (what both typed loggers promise of their types), `TypedLog` and
   `CLog`, which implement it, and `LoggersProofs`: both refinements, the ids, and
   the two files.
6. `Calendar`, `Dates`, `Tai` and `TimeConver`, then `TaiProofs`: the calendar is a
   calendar, the tests a date must pass, the rotation, the additions of months and
   years, and the options of `time_conver`.
7. `CurlMulti`: external transfers, messages, socket interest and timers, with the
   four programs as their drivers; `HttpClient`: which options of one request stay in
   force in the next, and what the server reads of it; then `CurlProofs` about both.
8. `MemoryIncrease`, with its part of `SharedStateProofs`, and `Benchmark`: signal handlers.
9. `Codes`, `TextTools`, `NumberTools` and `Tools`, which runs them: operators on
   small sequences and numbers, checked against their inverses or against
   definitions by sets over all inputs up to a length; then `ToolsProofs`: what
   `Codes` writes is read back, whatever its length.
10. Left: proofs about the functions of `TextTools` and `NumberTools`.

## Modules and the code

Definitions carry the source's names where TLA+ allows it; the `map` of
`PROJECT.json` gives the lines of each. An operator that a comment calls a mutant
is a plausible slip of the definition after it, kept to see that the properties
would notice it; no specification uses one.

Some MC modules check two programs in one run (`MCLoggers`, `MCCurl`, `MCSignals`,
`MCTai`): the first state chooses one of them, and the variables of the other keep
their values.

### `ThreadPool` (implements `TaskExecutor`)

`m_mtx`, `m_spinlock`, `m_queues`, `m_queues_done` and `m_waiting` are the members
of that name; `pc` and `cpc` are program counters of workers and callers; `cur` and
`evt` are the local `task` of `thread_pool_cycle` and of
`thread_pool_event_handler`. Every lock, unlock, wait, push and pop is an action.
`CondWait` gives up the mutex and sleeps in one step, as `pthread_cond_wait` does;
`Signal` wakes one sleeper, who must then take the mutex again (`Relock`);
`SpuriousWakeup` wakes one unsignalled.

Two details of C++ matter. The task is *moved* into the queue, so the flag
`event.active` that a worker clears is that of its own copy, and the caller's
object (`active`) stays refused for ever; and the exit handler gets
a pointer to the task instead of the task's `ctx`, so it clears the copy's id and
not the flag that destroy spins on.

`TaskExecutor` has no threads: a bounded FIFO backlog, at most `Threads` tasks
running, a set of tasks handled, a set completed. The mapping gathers a task from
wherever it is: in a queue, in `cur` or in `evt`. `completed` is a history
variable, because after the event handler ran nothing in the pool remembers the task.

### `AsyncLog` (implements `LogChannel`)

`Lock`, `Push`, `Notify`, `Unlock` are `operator<<`; `Enter`, `Acquire`, `Wait`,
`Timeout`, `GiveUp`, `Take`, `Release` and `log_decorate` are `log_run`. A wait
that times out goes through `relockLate` to `late`, where the predicate
is evaluated once more: this is where a push can race the timeout. `LogChannel`
is the sequence of records not yet written and the file; the record in the log
thread's hand stands in front of the queue. `asynctest.cpp` starts the log thread
last, so all producers may be done before it waits for the first time.

### `ProducerConsumer`

The program is compiled without optimisation, so a load or a store of `idx_p`, `idx_c` or
a slot is one step, and `queue[idx_c++] = 2` is two stores in either order
(`Consume` followed by `Advance` or by `Mark`). `spurious` says whether this
platform wakes waiters unsignalled.

### `RangeDownload`

A byte is its position in the remote file, so that "the slice is right" can be
said of the local file. libcurl and the server are external: a transfer is
answered with its range, with the whole file, or with an error page, chunk by
chunk, and may break anywhere. `Width` stands for 2^64: an unknown length is -1,
stored in a `size_t`.

The program cuts `THREAD_NUM` slices of a length divided by `THREAD_NUM - 1`. The
last slice is meant for the rest of the division, and is as long as the others at most:
where the rest is more, the end of the file belongs to no slice and is never
asked for. With the program's thirty threads this takes a file of at least 29
bytes whose length, divided by 29, has a rest greater than the quotient: the longest
has 811 bytes, and 27 bytes at most are lost. `SlicesPartition` says exactly what
the slices cover; no comment or document of the repository promises more.

### `LogTypes`, `TypeTable`, `TypedLog` and `CLog`

`LogTypes` holds the built-in types and levels. `TypeTable` is what a user of either logger may rely on: a table that starts with
the built-in types, grows by one entry for each new name, has one id for a name, and
is given up as a whole. Both loggers are shown to implement it.

In `TypedLog`, `log` and `old` are the two files as sequences of line numbers, or
`Absent`. The constructor is `Construct`, `UnlinkOld`, `RenameLog` and `Open`, each of
which may fail, with `Die` between any two of them. `limit_size * 1024 * 1024`
wraps at `Width`, as `uint32_t` does, and so does the file's size. An allocation of `log_init` that fails leaves a
null table or a type without a name; `log_free` leaves the size behind, as the code does;
`UseFreed` and `LogNull` are the calls that then use a null pointer, and `TooShort` says
when freeing reads beyond the table.

In `CLog` any function may be called at any time. The table is the sequence
`dynamic_types`, whose length and `dynamic_types_len` go apart where the code lets
them. An access beyond it sets `undefined`, and nothing is said of the program after
it. `ready` is a history variable: the last `rte_log_init` had its memory and no
`rte_log_free` followed.

### `HttpClient`

An option of an easy handle is `"unset"`, set by the `"own"` request, or left from an
`"earlier"` one; libcurl keeps pointers to the body, the headers and the
response, so an option left from an earlier request points at what is gone. `methodGET`
and `methodPost` record in `sent` the options a request goes out with; `Return` ages them. The
parameters are strings, because `ParamsArrive` is about what the server reads of them:
`makeUrlencodedForm` and `appendUrlParams` are modelled by what they do, and the
server's reading is defined apart (`Query`, `Form`): a machine that takes one character at
a time (`Parse`) and knows whether it is in the path, a pair or the fragment.
`HttpAssumption` says that the separators differ from one another and are escaped. What `CurlMulti` has by the same name (`Init`, `Next`, `Spec`)
begins with `Http` here, so that `MCCurl` and `CurlProofs` can extend both. `sent` holds the
request that is out, if any. `global` counts
`curl_global_init` less `curl_global_cleanup`, `lost` the objects whose handle could
not be had.

### `MemoryIncrease` and `Benchmark`

`MemoryIncrease` has a call of `malloc` or `free` as two actions, with a place
inside. `heap` says what became of each block and `came` where main was when SIGINT
came; a handler that starts inside a call may do anything, its own `free` being one.
`Benchmark` has the two statements of `benchmark_set` as two actions: a SIGALRM
between them clears a flag that is then set. `hoisted` says whether the build reads
`m_iLoop`, which is not volatile, once or in each round.

### `Calendar`, `Dates`, `Tai` and `TimeConver`

`Calendar` is `mktime` and `localtime` for Beijing time after 1991 (no daylight
saving): a day's year (`YearOf`) is looked for around where the mean length of
a year puts it, its month (`MonthOf`) within that year; `Dates` has the month lengths and tests that the programs write out
themselves. `Tai` has the additions as actions on one time; `addYears` and `addMonths`
sum what the loops of `tai.cpp` sum. `Convert` is `clock_to_other` with its
tests, `Construct` the constructor that makes none, `next_rotation_tp` the
rotation. A time is its day and its second of the day, which keeps the
numbers within TLC's integers up to the year 2100 and beyond.

`TimeConver` is main's loop over the options: each converts into the same three
variables, and `clock_time` is a buffer that a new text is copied over (`memcpy`). The
library's `sscanf` goes through a text character by character, with the states of
`Scan`: blanks and a sign before a number, its digits, and the separator that the format
has behind it, or the end of the reading; `Count` is what it returns. `strftime`
writes nineteen characters for years of four digits, which `FourDigits` asks of the
times that are given. Here a time is one number of seconds, so TLC's years end before
2038.

### `CurlMulti`

`program` says which of the four programs runs; each has its own actions over the
same external libcurl. A call that drives libcurl lets any transfers end and, in the
programs that watch sockets, calls `sock_cb` for each changed interest
(`interest`, `watched`) and `multi_timer_cb` when it wants another timeout
(`asked`, `timer`), all inside the one action, as the callbacks run inside the call.
`sock_cb_epoll` keeps what the socket was added for, which is both directions,
since `what & CURL_POLL_INOUT` holds of either. `since` is `tvnow() - mp_start`,
which only `Tick` lets grow; `quiet` is a history variable, the
time since `select` found a socket ready. `died` is the exit in `check_curlm_code`.

### `Codes`, `TextTools`, `NumberTools` and `Tools`

The first three are operators only, with the functions' names: a text is a
sequence of characters from 0 to 255. Loops over a buffer are folds or recursive
functions, and the exclusive or goes bit by bit. `FileToBin` goes block by block through a buffer that keeps what it held
unless it is wiped; `split_c` writes NULs into the string it scans;
`base64_decode` looks up the equals signs of the last group and gets `npos`;
`CmdLine` takes the arguments as `/proc` gives them; `fetched` reads the URLs of the
multi downloaders, and says whether more were given than there is room for.
`to_array` tests neither the rows nor the columns it fills, `remove_hf` takes the
first footer it finds, and `time_delta` multiplies seconds in an `int`: the properties
say for which inputs this does harm and for which it does not. Numbers are `Bits` wide, unsigned
modulo `Width` and signed as the code declares them. `Tools` has every text and
every pair of numbers for its states, so that each property is evaluated on all inputs.

## Runs: what each one shows

| run | question | result |
|---|---|---|
| `pool` | do the counter, the bound, the second queue and the wakeups work, is the pool the abstract executor, does every accepted task complete? | holds |
| `pool_destroy` | does `thread_pool_destroy` return? | violated, see findings |
| `asynclog` | is the log a lossless ordered channel, does every record get there? | holds |
| `prodcons` | is every item consumed, in order, and do both threads end, although the wait has no predicate? | holds |
| `download` | is a slice reported good in the file, whatever the server does, and what do three and thirty slices cover? | holds |
| `loggers` | does rotation survive crashes, and do both type tables keep their promise in any order of calls, with any failing allocation? | holds |
| `typedlog_null` | may the stream be null, as the comment says? | violated |
| `tai` | do conversion, months, early years and rotation agree with the calendar, and does the last option of `time_conver` count? | holds |
| `tai_years` | do years, in any month, as `tai.h` says? | violated |
| `tools` | do the codes invert, do cuts lose nothing, are options kept and is arithmetic exact? | holds |
| `curl` | are handles released, does `select` give up only when nothing is ready, are the right events watched, do the multi programs end; does a client object send the request it was asked for? | holds |
| `signals` | is each block freed once wherever SIGINT comes, and does the benchmark end? | holds, with the exceptions the properties name |

Properties worth a word:

* `WaitingCount` explains `m_waiting`: it is the queue's length less the workers
  that have announced themselves and not taken a task. `QueueBound` follows, and is
  not what one reads in the code: the test on `m_waiting` bounds the queue by
  `m_maxqueue + 1 +` the number of workers.
* `DoneOwed` is why `front()` needs no test: the second queue is as long as there
  are workers between their push and their pop.
* `WakeupsCoverBacklog` says that a single `signal` per post is enough.
* `EveryWakeupHasItem` is why the consumer needs no predicate where the platform
  does not wake it unsignalled.
* `OkSlicesAreRight` relates the callback's cut, the abort of a transfer by a short
  count, and the shared position of the `FILE`; and it says what happens when the
  length is unknown or less than the slices.
* `NoGap` says that the two log files always hold the newest lines without a
  hole, wherever a rotation was cut short.
* `ImplementsTable` and `CImplementsTable` are refinements of `TypeTable`: whatever
  fails, no id changes its name and no name gets a second id.
* `IdsStable` says the same of `m_nLogTypesSize`, and what is left of an object whose
  program called `log_free`: no id, no line, and a crash in whatever trusts the size.
* `CutsLoseNothing` also names the inputs that do harm: a field with no place in the
  matrix, and a header and footer that share a character.
* `OrderlyProgram` draws the line in the C logger: every call is defined from an
  `rte_log_init` that had its memory to the next one or to `rte_log_free`; beyond it,
  `rte_log_free` before any init or called twice, and most calls after a second init that failed,
  are not.
* `OwnRequest` names the one option that survives: an object that posted once goes on
  posting, its GET being a POST of a body that is gone.
* `ParamsArrive` compares what the server reads with what was passed, through both
  separators and all escapes; a URL with a fragment loses its parameters.
* `EventsFollowInterest` says why no running transfer is forgotten: each is either
  watched for what libcurl wants of it or has a timer that will drive it. A timer
  dropped one transfer too early breaks it.
* `GivesUpOnlyWhenQuiet` compares the program's flag and start, which are set in
  different branches, with a clock of its own.
* `BlocksFreedOnce` names the windows in which SIGINT frees a block twice or leaves one
  behind, and `BenchmarkEnds` the two ways in which the loop never ends. Outside these
  the programs are right.
* `LastOptionCounts` names the four ways in which an earlier option of `time_conver`
  shows through a later one: the rest of a longer text behind a shorter one, and behind
  the clock time of a number; a text without a number, which is no error; and a number
  out of range, which ends the program with the success of the option before.

## Bounds

* `pool`: two workers, two clients with three task objects and one destroy,
  `MaxQueue = 0`, one spurious wakeup. Zero makes the overflow branch reachable
  with three tasks; two workers are needed for one to pop the other's task and
  for a signal to choose. The two violations of the wakeup property a mutant
  shows need no more.
* `asynclog`: three producers, five records on both sides of the threshold.
* `prodcons`: seven items, urging from a lag of two (the code has 50000 and 10):
  enough for the urging loop to be entered, left and entered again, and for a
  scan that starts with several items left.
* `download`: three threads instead of thirty; lengths of 1 (shorter than the
  slices), 2 (a last slice of nothing), 5 (with a rest) and unknown; chunks of
  two bytes, so that a chunk can straddle the end of a slice; a `size_t` of 12 bits.
  Three slices always cover the file, so the thirty of the program are cut too, of
  twelve lengths on both sides of each case, without running their threads.
* `loggers`: four lines, a table of at most four types, limits 0, one megabyte
  (two lines) and the one that wraps to 0; one built-in type and an unused id behind
  it, so that a table can end among the built-in ids.
* `tai`: dates at both ends of months of 2023, 2024, 2099 and 2100, real and
  not, and two operations in a row, so that an addition starts from a date made by
  another. 2100 is the first century year without a leap day the code can meet.
  Three options of `time_conver`, among them a short text after a long one, one with
  more characters than a clock time has, one with a blank before and a sign within, a
  blank, a word, a date that does not exist and a number out of range.
* `tai_years`: dates after February 2023 and five years, so that one leap day is met by
  the loop and another lies in the year it ends in.
* `tools`: texts of up to six characters over NUL, blank, an equals sign, a letter
  and 255: three ways to fill a last group twice over, a last block of one
  character behind a full one (the buffers have room for a few characters), keys,
  values and separators in every arrangement, more fields than rows and more
  characters than columns; numbers of five bits, so that products overflow and every
  wrap is met.
* `curl`: three transfers, so that one can end, one wait and one be driven in
  the same call, and a give-up timeout of two seconds instead of sixty: long enough
  for a pause to end just before it, and for a second pause after the first. Two
  client objects, URLs with and without parameters and a fragment, and parameters that
  are empty or made of separators.
* `signals`: four blocks (a first, a last and two between), and SIGINT in every place;
  the rounds of the benchmark are not counted beyond three.

Bounds on behaviour are constants: `MaxSpurious`, `MaxLines`, `MaxTypes`,
`MaxCalls`, `MaxGlobal`, `MaxOptions`, `MaxRound`.

## Fairness

Only where a liveness property is checked, and never more than the scheduler gives.

* `ThreadPool`: weak fairness of each worker's and each caller's steps (a thread
  that can go on does), none for the clients' decision to post, for thread creation
  or for spurious wakeups. No mutex is assumed to be fair.
* `AsyncLog`: weak fairness of starting threads, producers and the log thread.
  Producers log finitely often, so the log thread gets the mutex in the end without
  a fair mutex.
* `ProducerConsumer`: weak fairness of both threads. `Succeeds` is stated for
  platforms without spurious wakeups: with them the consumer could keep the mutex
  from the producer for ever.
* `RangeDownload`: weak fairness of main and the threads; a transfer ends because
  `CURLOPT_TIMEOUT` ends it.
* `CurlMulti`: weak fairness of the programs' own steps and of the clock. None for
  sockets becoming ready or for transfers ending: `Returns` therefore assumes that
  all transfers have ended, or, of the program with `select`, that no socket is ever
  ready again.
* `Benchmark`: weak fairness of main and of the timer, which the kernel lets expire;
  none of the SIGALRM from elsewhere.
* The other modules have safety properties only.

## Proofs

TLAPS checks these for every value of the constants that satisfies the named
assumptions (`PoolAssumption`, `AsyncAssumption`, `WorkAssumption`,
`DownloadAssumption`, `TableAssumption`, `LogAssumption`, `MemoryAssumption`,
`MultiAssumption`, `HttpAssumption`, `TaiAssumption`, `ConverAssumption`), none of which
limits the number of threads, tasks, records, items, types, transfers, objects, blocks or
options beyond finiteness. Four of them say more than that. `DownloadAssumption` keeps lengths,
as signed numbers, within what `size_t` holds. `LogAssumption` has an absent file
differ from every file of lines. `TaiAssumption` takes the dates entered from the years 1970
to 3199: the tests of `time_conver.c` refuse earlier ones, and in 3200 their leap
rule, which has a clause for multiples of 3200, leaves the calendar's; the month and the
day may be any numbers, and the amounts that are added any natural ones.
`ConverAssumption` has the digits and the three separators be different characters, and
takes numbers out of range or of years of four digits; texts are any sequences of
characters.

**`Induction`.** The library's induction theorems take an operator as a parameter, which
the provers here cannot instantiate. Two lemmas take a *set* of numbers in its place:
`LeastElement`, and from it `AllNumbers` and `CountingUp` (a set with 0, and with
`k + 1` for each of its `k`, holds every number up to a bound). `Loop` derives from them that a
recursive function exists: for every first value and every step there is a run
`f[k] = step[k][f[k - 1]]`, so that what a definition by recursion over a text or over
months yields is the value of the run, about which `CountingUp` can speak.
`Flattened` uses it to say what a sequence of sequences is when it is put together.
`RangeDownloadProofs`, `TaiProofs`, `CurlProofs` and `ToolsProofs` cite them.

**`ThreadPoolProofs`.** The inductive invariant is

    Inv == TypeInv /\ Hands /\ Locks /\ Fresh /\ WaitingCount /\ DoneOwed

`WaitingCount` and `DoneOwed` count sets of program counters, so a step preserves
them only if one knows that a thread inside a critical section owns the lock
(`Locks`) and what it carries (`Hands`); `Fresh` covers `thread_pool_init`
emptying the queues. The step lemmas go action by action; the cardinality
arguments are `GainOne` and `LoseOne`. `TypeCorrect`, `WaitingCounts`,
`QueueBounded` and `DoneNeverEmpty` follow. `NoLostWakeup` is inductive relative to
`Inv`: a sleeper that a signal wakes becomes one of the `Lookers`, and one that
takes a task leaves one task fewer.

`Refinement` is `Spec => ImplementsExecutor`. It needs, beside `Inv`,

    Places == OnePlace /\ Accepted /\ Posting

A task is at most once in one of five places: the first queue, the hand of a worker, the
second queue, a worker that raises its event, and `completed`. Were it in
two, a worker that takes it would change the image twice. `Accepted` says that
`active` marks whatever is in a place, so that `post` refuses it; `Posting`, that a
task between the test and the push belongs to the caller that pushes it. The lemmas
`TakeElement`, `TakeMaps` and their like say what one pop, push or raise does to the image, and
`ImageBound` and `RoomForOne` derive from the counter that the executor has room when the
pool accepts.

**`LoggersProofs`: the asynchronous log.** `AInv == TypeOK /\ Hand /\ HasNext`: the log thread holds a record exactly
between `Take` and `log_decorate`, and a producer about to push has a record
left. `StepMaps` shows that each step is a step of `LogChannel` or a stutter:
`Push` accepts, `log_decorate` emits, everything else leaves hand, queue and file
concatenated as they were. `ARefinement` is `ASpec => ImplementsChannel`.

**`SharedStateProofs`: the producer and the consumer.** The inductive invariant is

    Inv == TypeOK /\ Shape /\ Inside /\ Mutex /\ Lag /\ Passed /\ Wakes

`Shape` says what the array looks like: 2 below what the consumer used, 1 up to what
the producer made, 0 above, whichever of the two stores of an unordered pair was
made first. `Inside` and `Mutex` tie the program counters to the mutex, `Lag` bounds
the consumer by the producer. `Passed` says that what the final scan has seen
consumed stays consumed (lemma `ConsumedStays`), which makes a scan that is not atomic
sufficient. `Wakes` says that where nothing wakes unsignalled, a signal that is
about to be sent to a waiting consumer has an item to show for it. The theorems hold
for any number of items and any lag. `LeadBounded` adds that urging keeps the producer
at most one item more than the lag ahead.

**`RangeDownloadProofs`.** The inductive invariant for the threads and slices is

    IInv == TypeOK /\ LengthKnown /\ Started /\ Locked /\ InUse /\ OneThreadPerSlice

`OneThreadPerSlice` alone is not inductive: `Search` may choose slice 0 for want of an
unused one, and a slice may be in use without a thread. `InUse` says that the slices
in use are those of the threads behind the critical section, `Locked` that one thread
at most is inside it. So the threads that hold a slice are fewer than the slices
when another searches, and by the pigeonhole lemma `SliceLeft` one is unused, and the first unused
one (`FirstUnusedIsUnused`) is nobody's. `SlicesPartition` follows from
`LengthKnown` by arithmetic alone (`CutPartition`): the slices are consecutive
intervals of one length that do not wrap in `size_t`, for any number of threads and any length
from `THREAD_NUM - 1` bytes on.

`SlicesAreRight` is `Spec => []OkSlicesAreRight`, from `FileInv` relative to `IInv`:

    FileInv == (\A i : SliceInv(i)) /\ (\A t : ThreadInv(t)) /\ ContentInv

`SliceInv` bounds how far a slice has gone on. `ThreadInv` says of a thread in a
transfer that what it has written is right and that its chunk and its body are what
belongs behind that (`Ahead`), or that it was sent more than there is room for, in
which case its transfer will fail; and of the thread that writes, that it holds `g_mutex` and
that the file is positioned where its slice goes on, which is what makes seek and write
safe in a shared `FILE`. `ContentInv` is about the lengths for which nothing, or
the whole file by every thread, is written.

**`LoggersProofs`: the typed loggers.** Both refinements show each step to be a step of `TypeTable` or a
stutter. For C++ the invariant is `TableInv`: unless the table is null, its length is the
member `m_nLogTypesSize`; with `CrashInv` (no process that is running has crashed)
`IdsStay` follows. The C logger needs less, since a call
with a length that goes beyond the table is `undefined` and changes nothing: its
`CInv` says that the length is zero or `dynamic_types_len`, and that after an init that
had its memory it is the latter and covers the built-in ids.
`OrderlyIsDefined` follows from it. `OneIdPerName` and `COneIdPerName` say of both that a name has
one id: `NamesDiffer` is kept because a name is appended only after a search did not find it.

`NoLineLost` is `Spec => []NoGap`. `NoGap` is not inductive: a rename onto a
backup that is still there would lose its lines. `FileInv` adds that the backup is absent when a
program is about to rename, that only a log with a line in it is rotated, and that a live
program has its log open.

**`CurlProofs`.** For the four programs with a multi handle the invariant is

    IInv == Places /\ Counted /\ LeftLoop /\ Kept /\ Pause /\ Watched

`Counted`: the count libcurl gave last is the number of running transfers until it is driven
again. `LeftLoop`: a program behind its loop that did not give up saw none running.
`Kept` lists the handles still held, for each program, by what runs and what was not read;
`NothingIsLeft` is what remains of it when a program returns. `Pause` bounds the program's own
clock by the time that really passed, which `GivesUpLate` needs. `Watched` adds to `EventsFollowInterest`
that a transfer without a socket made libcurl ask for a timeout: otherwise a timer could be
dropped although it was the only thing to drive that transfer.

For `HttpClient`, `HttpInv == HandlesInv /\ SentInv /\ LibraryInv /\ OwnRequest`: a handle
that posts has a body, its own or an earlier request's; at most one request is
out, and only its handle has options of its own; and libcurl is initialised once for each
object and each constructor that threw. `RequestsAreOwn` holds for any number of objects, URLs
and parameters.

`ParamsAlwaysArrive` is `HttpSpec => []ParamsArrive`, for URLs and parameters of any
characters and any length. Its invariant, `Made`, says that what is out is made of what was
asked; the rest is about text. `ParseJoined` reads a text behind another from the state
the first one left, and `ParseFlat` does so for the texts a loop puts together
(`Flattened`). `EscapeParsed` shows that an escaped text is added whole to the key or the
value it belongs to, `PairParsed` that a pair is read as one pair, from between two
pairs to between two pairs, and `FormParsed` that a form is read as its pairs. `UrlParsed` says
where any URL leaves the server: in the path unless it had a question mark, in the
fragment if it had a hash; so `appendUrlParams` picks the separator after which a pair begins
(`QueryParsed`).

**`TaiProofs`.** `LeapStep`, `LeapBounds` and `YearBounds` place the start of each year, before
and after the origin, to within two days of its mean place; so the years follow one
another (`YearsInOrder`), the three that `YearOf` tries contain the day's, and `Civil`
returns the one month the day is in and its place there (`CivilIs`). With
`SameLengths` (the hand-written month lengths are the calendar's from 1970 to 3199) and `ClockInv`,
`DatesAccepted` shows that the tests let all real dates pass and nothing else but a day 0.
`RotatesMonthly` is about every step whose day is in those years (`[]InCalendar`): the
additions can move the time anywhere, and from 3200 on February would be measured wrongly.

`MonthsAdded` and `YearsAddedEarly` are about the loops of the additions, for any number
of months or years. `MonthLengths` is a run (`MonthLengthsLoop`) whose sum after `k` months
is the distance to the first of the month `k` months on (`MonthsCounted`, by
`CountingUp`; `MonthCarry` follows the month across December). `LeapYears` is a
cardinality, which grows by one with each leap year (`LeapCount`), so that the days added
are those between two dates (`YearsCounted`). `TimeInv` keeps the second of the day
within its day.

`LastCounts` is `ConverSpec => []LastOptionCounts`, by the invariant

    ConverInv == ... /\ (status \in {"options", "printed"} => Answered) /\ ...

`Answered`: the text in `clock_time` is no longer than one of the options writes, and the
last option was answered with one moment, unless it is a text without a number. The
two steps that matter are these. What an option writes is at the beginning of the buffer, and is all of
it unless an earlier option wrote more (`TextWritten`). And it is read as it was
written: `ScannedIs` makes `sscanf` a run over the characters, `StartsWithNumber`
says that a text that begins with a number does so whatever follows it, and
`ClockRead` follows the six numbers of a clock time through the nineteen characters. Hence
`ReadBack`: for every moment of a year of four digits, `mktime` of what `sscanf` reads
of what `strftime` wrote is that moment.

**`SharedStateProofs`: the growing memory.** `MemoryInv` says of each block what the two loop variables say
of it (`LoopInv`) and that it is freed exactly if it was allocated and its pointer is null
(`BlockInv`), but for the block the interrupted statement was about, which depends on `came`.
`FreedOnce` is `MemorySpec => []BlocksFreedOnce` for any number of blocks.

**`ToolsProofs`.** `CodesAlwaysInvert` is `Spec => []CodesInvert`, for texts of any bytes
and any length, any even size of the blocks `hex_bin_conv.cpp` reads and any width of a dump
(`CodesAssumption`; `ToolsAssumption` has the characters of a text be bytes). The
invariant is only that the text is a sequence of bytes; the rest is about the functions.

Three lemmas carry it. `GroupFacts` says what the groups of a string are, and with
`PieceCount` how many; `JoinedPieces`, that pieces which lie end to end in a text, put
together, are that text; and `WithoutLeaves`, that a string without a character is `d`
if each of its places holds that character or the next one of `d`. Hexadecimal: any
digits that stand for the bytes are read as them (`HexRead`), in upper or lower case, since a
digit or-ed into a half that is zero is that half (`OrZero`). A file: `GroupDigits` has the
digits of a block be those of the whole at its place, `HexFile` and `BinFile` make both loops
runs over the blocks whose buffer is zero before each, and `SameRuns` compares them with
the recursion of `Converted`; an even block size is what keeps the two digits of a byte in
one block. A capture loses its colons (`CaptureLeaves`) and a dump its blanks (`ColumnLeaves`),
also those that fill the last line. An integer: the bytes above the highest that is not zero are zeros
that come back (`IntegralBack`). The exclusive or: a byte is the sum of its bits (`SumOfBits`), and
each comes back (`XorBack`). Base64: `SextetFacts` is the arithmetic of three bytes and four
characters; the decoder stops at the first equals sign, which is behind one character more than
the last group has bytes (`EncodedEnd`, `ReadAll`), so its groups are the encoder's
(`Base64Back`), and `DecodedGroup` turns each back, for one, two and three bytes.

**Model-checked only.**

* Liveness (`AcceptedCompletes`, `DestroyReturns`, `EverythingLogged`, `Succeeds`,
  `Terminates`, `Returns`, `BenchmarkEnds`), since TLAPS does not handle fairness and
  ENABLED here.
* `CutsLoseNothing`, `OptionsKept` and `NumbersExact`, about the functions of `TextTools` and
  `NumberTools`: they are checked over all texts up to a length and all pairs of numbers
  of a small width.
* `ManySlicesPartition`: it puts the program's thirty threads into
  `SlicesPartition`, which is proved for any number.

## Findings

* `pool_destroy`: `thread_pool_destroy` never returns: the exit handler is handed
  the task and not the `ctx` destroy waits on (`threadpool.cpp:248,272,363`).
* `typedlog_null`: `log_open_stream` documents a null stream as standard
  error; the next line printed crashes (`cxxlog.cpp:318`).
* `tai_years`: after February `addYears` drops the first leap day it meets, also when it
  lies ahead (`tai.cpp:56-60`), and never looks at the year it ends in (`tai.cpp:50`). In
  the trace five years are added to 2023-03-01: the leap days of 2024 and of 2028 are both
  lost, 1825 days are added instead of 1827.

Behaviours of the code that contradict no comment or document, and that the
properties therefore state as they are: the end of short files the range downloader
does not ask for (`SlicesPartition`), the method that stays POST (`OwnRequest`),
parameters put behind a fragment (`ParamsArrive`), the windows of the signal handlers
(`BlocksFreedOnce`, `BenchmarkEnds`), what earlier options leave (`LastOptionCounts`),
and the calls of the C logger that are undefined outside an orderly program.

## What is not modelled

Formatting, the text of log lines, the printing of results, TLS options and
command-line parsing of the programs above are left out of their models. The
components marked not modelled are programs of one
system call or one rule of the language, with no state to be wrong about:
form uploads, file and CAN samples, `注意/`, most of `测试/`; the synchronous log and
`tp_log.cpp` write one line each and keep nothing between two calls. The programs of
`CurlMulti` give their easy handles options and files, which matter to what is
downloaded and not to when a program ends; so the model leaves them out. Of the option
parser, the conversion of a value to a number or a flag is left out, and of
`time_conver` texts longer than the buffer they are copied to, numbers in them that
no `int` holds, and plus signs. The range downloader's HEAD request is answered with the
file's length or with none: an error page that gives a length of its own, which
`get_download_file_length` would take for the file's, is left out, as is the error that
`split` of `split.c` returns for null pointers.
`HttpClient`'s setters change numbers that each request reads anew.
