# TLA+ models of nginx-tools' test-rate-limiting

This directory holds TLA+ models of the concurrency layer of
`src/src/apps/test-rate-limiting/test_rate_limiting.cpp` and of
`src/src/libs/utils/interr_usleep.c`, of the libcurl wrapper and of the file
utilities in `src/src/libs/utils/`, with the TLC configurations that check them.
`PROJECT.json` maps every modelled definition to the source lines it translates.
It also lists the runs, the mutants that each property must catch, the
findings, and the hazards of the code.

## 1. The system (inventory)

| Part | Source | State | Operations |
|---|---|---|---|
| Interruptible usleep (the spec's CancellableWait) | `interr_usleep.c` | `flag_exit`, `interr_mutex`, condition variable `interr_signal` | `interr_usleep_open`, `interr_usleep` (lock; `while(!flag_exit && ret!=ETIMEDOUT) timedwait`; unlock; map to 0/EINTR), `interr_usleep_unblock` and `_close` (the `UNLOCK()` macro: flag outside the mutex, then lock, broadcast, unlock) |
| ExperimentDriver | `main()`, lines 427-540 | program point, setting index `i`, `plottingThread` | launch origin, wait 1 s, and for each setting: launch proxy, wait, start sampler, run `fxn`, join clients, drain loop, stop and join sampler, wait 2 s, kill proxy. EINTR from any wait does `goto end`. |
| BurstLauncher | `http_get_nginx`, `curl_req` | `clients_threads` vector | spawn N threads without joining; each requests once and, on success, `push_back`s one record under `clients_stats_mutex` |
| SharedSampleLog | `clients_stats` | vector of lines | push (clients), dump and clear (sampler, **no mutex**) |
| CounterSampler | `plottingThr`, `trace_stats*` | `tot_*_prev`, `burst_level` | every 100 ms: fetch the status JSON, print the counter deltas, store the `nowMsec` field in `burst_level`. On exit: write the client log, clear it, and run gnuplot. |
| Signal handler | `main_proc_quit_signal_handler` | `flag_exit` | `flag_exit=1`, printf, `interr_usleep_unblock` on whatever thread the kernel picks |
| nginx wrapper | `nginx_wrapper_open/close` | child processes | fork and exec; read the pidfile, send SIGQUIT, then `waitpid` up to 10 times |
| Config writers, logs, time | `configure_*`, `utils_logs*`, `utils_time*` | files | pure I/O |
| File utilities | `utils_files.cpp` | the file tree under the path | `utils_files_mkpath` (a `mkdir` per prefix, EEXIST ignored), `utils_rmpath` (an `nftw` that unlinks what has `S_IFREG`'s bit, then a depth-first `nftw` that `rmdir`s what has `S_IFDIR`'s), `utils_files_dump2file` (optional mkpath, `open`, `write`, `close`, failures only logged), `utils_files_file2buf` |
| libcurl wrapper | `libcurl_wrap.c` | per request: the CURL handle, the URL, the header list, two write buffers, the read context | `libcurl_wrap_cli_request`: a chain of `CHECK_DO(..., goto end)` steps, `curl_easy_perform` running the read and write callbacks, the hand-over of the body, and the cleanup at `end`; `find_header` |

How the parts interact:
- main(), the client threads and the sampler share `flag_exit`,
  `flag_exit_plotting_thr`, `burst_level` and `clients_stats`.
- main() and the signal handler share the interr_usleep context.
- The handler runs on an arbitrary thread and suspends that thread.
- After main() returns, `std::terminate` (for a thread still joinable) or `interr_usleep_close` (from the global `interr_usleep_uptr`) ends the process's use of the context.

What makes this code hard to test:
- the lost-wake-up window of `UNLOCK()`;
- spurious wake-ups;
- a time-out racing a cancellation;
- a handler taking a mutex its own thread may hold, in main()'s `interr_usleep` or in a handler of the other quit signal it interrupted;
- the context freed by a global's destructor while a late signal's handler may still use it;
- the EINTR gotos skipping cleanup;
- the sampler dumping the log while clients still append;
- the drain loop depending on a gauge that someone else refreshes;
- `utils_rmpath(TEST_DIR)` following links out of `/tmp/test_rate_limiting`.

`PROJECT.json` lists each of these under "hazards", at the line where it bites.

## 2. Modules

* `CancellableWait.tla` is the abstract promise of the interruptible sleep.
  - It is a one-shot latch `cancelled`.
  - A call is `blocked` until it times out (at any moment), is interrupted (only once cancelled), or fails at once (clock failure).
  - Weak fairness on `Interrupt` says that a cancelled latch releases every blocked call.
* `InterrUsleep.tla` models `interr_usleep.c` per thread.
  - Variables:
    - `iflag` is `flag_exit`;
    - `imutex` is the mutex owner;
    - `slp[t]` is t's point inside `interr_usleep`;
    - `ret[t]` is its `ret_code`;
    - `res[t]` is the value returned;
    - `unb[t]` is t's point inside `UNLOCK()`.
  - Two sub-states per thread are needed because a signal handler can run `UNLOCK()` on a thread that is inside `interr_usleep`.
  - Actions:

    | Action | Code |
    |---|---|
    | `SleepCall` | clock read, or the `-1` return |
    | `SleepLock` | lines 176-177 |
    | `SleepCheck` | the loop test, block or return; lines 178-184 |
    | `Timeout`, `Spurious` | the kernel's wake-ups |
    | `SleepReacquire` | the mutex retaken on return from the wait |
    | `UnblockCall`, `UnblockLock`, `UnblockBroadcast`, `UnblockUnlock` | the four lines of `UNLOCK()` |
* `MC_InterrUsleep.tla` is a harness of sleepers and unblockers.
  - `Abs` instantiates `CancellableWait` with `cancelled <- (iflag = 1)`, and maps each thread's point and return value to `idle`, `blocked` or an outcome.
  - `ImplementsCancellableWait == Abs!Spec` is checked as a PROPERTY.
* `TestRateLimiting.tla` models `main()`, the client threads, `plottingThr` and the signal handler. It composes `InterrUsleep` by `INSTANCE`, and its threads are `Main`, `Plotter` and the clients.
  - Every program point of `main()` between `select_stdin()` and `return` is a value of `mpc`, with one action per statement group:

    | Action | Code |
    |---|---|
    | `LaunchOrigin` | the origin launch |
    | `MainWaitCall`, `MainWaitStep`, `MainTimeout`, `MainSpurious`, `MainWaitReturn` | the four `interr_usleep` calls |
    | `SettingLoop` | the settings loop |
    | `LaunchProxy` | the proxy launch |
    | `StartSampler` | starting the sampler |
    | `ScriptBurst`, `ScriptUsleep`, `ScriptEnd` | the setting's `fxn` |
    | `JoinClients` | joining the client threads |
    | `DrainTest` | the drain loop's test |
    | `StopSampler`, `JoinSampler` | stopping and joining the sampler |
    | `KillProxy` | killing the proxy |
    | `MainEnd` | the `end` label and the `return` |
    | `Terminate` | after the return, the destructor of a still joinable `plottingThread` or `clients_threads` entry: `std::terminate` |
    | `CloseCall`, `CloseUnlock`, `CloseFree` | otherwise the deleter of the global `interr_usleep_uptr`: `interr_usleep_close`'s `UNLOCK()`, then the destroys and the frees |
  - A setting's `fxn` is a sequence of `Burst(n)` and `Usleep` steps (the constant `Scripts`).
  - The clients are numbered in spawn order:
    - `Request(c)` succeeds or fails;
    - `PushRecord(c)` is the locked `push_back`.
  - The sampler's actions:
    - `SamplerTick` stores `Gauge`, the constant `NowMsec` read from the status JSON's `nowMsec` field, in `burst_level`;
    - `SamplerStop` is the loop test;
    - `SamplerDump` writes the records to the setting's log;
    - `SamplerClear` does the `clear()` and the plotting.
  - `Signal(t, s)` starts a handler for signal s on thread t: it sets `flag_exit` (line 603). Its `putc` and `printf` come next and are left out, but the window they open stays: `Handler(t)` then enters `interr_usleep_unblock`, whose `UNLOCK()` sets the context's flag, and runs the lock, broadcast and unlock one step at a time. Thread t does nothing else meanwhile. `signal()` blocks only the signal being handled, so the other quit signal can interrupt the handler: `handling[t]` is the stack of t's running handlers, and only the innermost one steps.
  - After the return, main() stays a signal target until the process ends (`mpc` is `exited`, `closing`, `closed` or `aborted`), so a late handler can run on the context `CloseFree` has freed. Other threads still running then make the process abort before the context is closed; their later steps are not modelled.
  - The `InterrUsleep` instance is keyed by `Contexts`: `<<t, "thread">>` for a thread's own code and `<<t, s>>` for its handler of signal s, so a handler owns the mutex apart from the thread it interrupted.
  - The model keeps the process's own state and abstracts the rest:
    - nginx processes are `proxyUp` and `originUp`;
    - the std::thread object `plottingThread` is `joinable`;
    - the records are the ids of the clients that pushed them, and `written` holds the pairs <<setting, client>> the sampler wrote.
* `CounterSampler.tla` models the body of `plottingThr`'s loop and `trace_stats*`, against the counters of the proxy it polls.
  - The proxy's side is environment actions:
    - `ClientConnect` increments `connections.accepted`;
    - `ClientComplete` increments the `nginx-proxy` zone's requestCounter and its 2xx or 5xx count, and creates the zone.
  - `ClockSetBack` sets `CLOCK_REALTIME` back.
  - `SamplerTick` is one whole iteration. It makes the fetch, whose own connection is accepted before nginx renders the document, then:
    - reads the clock;
    - prints the row (`TraceRow`: the elapsed time as a uint64 difference kept modulo `2^Width`, `IRequestsDelta`, and the `ZoneTotals` deltas);
    - updates `tot_*_prev` (`TracePrev`);
    - stores the gauge and sleeps.
  - A failed fetch is the `"none"` reply. It ends in the crash of `trace_stats(NULL)`.
  - The ghost variable `seen` records the client connections and completed requests at the last read.
* `LibcurlHeaders.tla` translates `find_header` (libcurl_wrap.c 468-518) into recursive operators:
  - `StrNCaseEqFrom` is `strncasecmp`, stopping at n characters, at a difference, or at both NULs;
  - `FindHeaderFrom` is the loop, with its malformed-header and `HDRS_MAX_*` skips.

  It checks them against `FindHeaderRef`, the first well-formed header whose tag is the needle, ignoring case.
  A header is abstracted to its tag (the text before the first `:`), whether it has a `:`, and its value.
  The characters come from {a, A, b}. `MC_LibcurlHeaders` enumerates every array of up to three such headers.
* `LibcurlRequest.tla` models `libcurl_wrap_cli_request` as a program counter over its steps, one action per step:

  | Action | Code |
  |---|---|
  | `Begin` | the argument and method checks (lines 145-159) |
  | `EasyInit` | `curl_easy_init` |
  | `ComposeUrl` | the URL `calloc` and `CURLOPT_URL` |
  | `MethodOptions` | the POST and PUT option setters (`UploadSource` says what will be uploaded) |
  | `SetHeader`, `SetHeadersDone` | `set_headers`' loop and the `CURLOPT_HTTPHEADER` setopt |
  | `WriteSetup`, `HeaderSetup` | the two write contexts |
  | `RequestOptions` | the user agent, time-out and `NOSIGNAL` setopts |
  | `ReadBody` | `curl_read_body_callback` |
  | `ReadStdin` | libcurl's default read on stdin |
  | `WriteHeader`, `WriteBody` | `curl_write_body_callback` on the header and the body buffer |
  | `PerformOk`, `PerformFail` | the outcome of `curl_easy_perform` |
  | `Finish` | the stats, the hand-over of the buffers and `CURLINFO_RESPONSE_CODE` |
  | `Cleanup` | the `end` label |

  - Every kind of step that can fail in practice does so nondeterministically when it is listed in `Faults`. That covers an allocation, a setopt, `curl_slist_append`, the transfer, the write callback's `realloc`, and the final `getinfo`.
  - A failure follows the code's `goto end` (`GotoEnd`, the `CHECK_DO` macro of `utils_logs.h`).
  - `heap` and `ptr` say, per block, whether it is live and whether the function still points to it.
  - `slistLive` and `slistRef` count the header-list nodes allocated and those still reachable.
  - Strings are lengths. The body a server sends is the sequence of chunk numbers `1..replyLen`.
  - `find_header`'s two answers (a User-Agent header, a chunked Transfer-Encoding) are fields of the request.
* `UtilsFiles.tla` models `utils_files.cpp` on a file tree: `fs` maps every path of at most `MaxDepth` names to nothing, a directory, a file (its contents) or a link (its target).
  - `Walk` is the kernel's lookup: links inside a path are always followed, a final one by `Stat` and not by `LStat`; more than `MAXSYMLINKS` give ELOOP.
  - `Trees` is every tree the process may find at start, with links to `Targets`.
  - One caller makes `MaxCalls` calls (`Call(c)`); `op`, `snap` and the return values stay after a call for the properties.

  | Action | Code |
  |---|---|
  | `CallMkpath`, `MkpathStep` | `utils_files_mkpath` and one pass of its do-while loop |
  | `CallDump2file`, `Dump2fileWrite` | `utils_files_dump2file`: the optional mkpath of the dirname, then `open`, `write` (which may fail after writing a prefix of the string, possibly empty) and `close` |
  | `File2buf` | `utils_files_file2buf`: open, `calloc` (which may fail), the unchecked `read` (which may fail and leave `Garbage`) |
  | `CallRmpath`, `StartWalk` | `utils_rmpath` and the start of each `nftw` |
  | `VisitFile`, `VisitDir`, `VisitError`, `LeaveDir`, `EndWalk` | glibc's `nftw` without `FTW_PHYS`: the callback on a file or dangling link, entering a directory (through a link too, once), the -1 return on ELOOP or ENOTDIR, the post-order `rm_dirs` on leaving a directory, and the second walk after the first |

  - `stack` is nftw's open directories, each with the entries it has not visited yet, in any order; `visited` is the set of directories entered.
  - `Callback` is `unlink_files` or `rm_dirs`, testing one bit of `Mode` as the code does.
* `MC_TestRateLimiting.tla` defines the configurations:
  - the scripts `<<Burst(1)>>` and `<<Burst(1), Usleep, Burst(1)>>` (the two shapes of the settings table);
  - the signal targets.

## 3. Runs

| Run | cfg | Expect | What it shows |
|---|---|---|---|
| iu_refinement | MC_InterrUsleep.cfg | pass | Two sleepers making two calls each, raced by two unblockers, refine the latch. No lost wake-up, no spurious EINTR, and every blocked call is released after a cancel. |
| signal | MC_Signal.cfg | pass | With no signal, or one on any thread but main() at any moment: main() joins every client before it returns (`ExitJoinsClients`), and until a signal each setting's client log holds exactly its successful requests (`FlushedUntilSignal`). Once a signal has set `flag_exit`, main() returns (`ShutdownCompletes`), although the `nowMsec` gauge never lets the drain loop end by itself: the loop tests `flag_exit`, and `UNLOCK()` cuts main()'s waits short. Without a signal main() need not return; `nowmsec_gauge` shows that. |
| exit_unclean | MC_ExitUnclean.cfg | violation | EINTR in the drain wait jumps to `end` with `plottingThread` joinable (`std::terminate`) and the proxy alive. |
| handler_on_main | MC_HandlerOnMain.cfg | violation | Up to two signals on any thread. The handler blocks forever on `interr_mutex` held by its own thread: on main() inside `interr_usleep`, or nested, a SIGTERM handler inside a SIGINT handler that holds the mutex (the counterexample TLC reports). |
| lost_records | MC_LostRecords.cfg | violation | After a signal, the sampler dumps and clears `clients_stats` while a client is still between its request and its push. A record pushed between the dump and the clear is erased without being written. |
| sampler | MC_Sampler.cfg | pass | Over every interleaving of two client connections with three ticks, one failed fetch and one clock step, no printed delta is negative (`TypeOK`). The columns sum exactly to the client connections and completed requests at the last read (`RowsAccountForTraffic`): the `-1` takes out exactly the fetch's own connection, and the absent zone reads as 0 without breaking the next delta. |
| sampler_fetch_fail | MC_SamplerFetchFail.cfg | violation | A failed status fetch is only logged by `CHECK`, and `trace_stats(NULL)` then dereferences NULL. The spec says the failure ends the setting's sampling. |
| files | MC_Files.cfg | pass | Two calls of any of the four file utilities on `a` or `a/b`, over every tree of two levels with links, and every `write`, `calloc` and `read` failure. `rmpath(p)` removes p unless the tree holds a link to a directory or a link loop (`RmpathRemoves`): the `S_IFREG` bit test happens to unlink dangling links too, and a link to a directory is neither unlinked nor removed by `rmdir`. `mkpath`, `dump2file` (short writes included) and `file2buf` run in this state space, so `rmpath` meets the trees they leave. |
| rmpath_symlink | MC_RmpathSymlink.cfg | violation | `utils_rmpath(TEST_DIR)` with a link `a/b -> b` in the test directory unlinks `b/b`, a file outside it: `nftw` is called without `FTW_PHYS` (`RmpathConfined`). |
| find_header | MC_FindHeader.cfg | violation | `strncasecmp(needle, hdr, tag_size)` compares only the tag's length, so header `a:` is found for needle `ab`. With needles no longer than the tags, the operator agrees with the reference on all 57700 inputs. |
| request | MC_Request.cfg | pass | Every method (and one past the enum), bodies NULL, 0, 1 and 3, up to two headers, a reply of up to two chunks, and any one failure of every kind but `curl_slist_append`. The cleanup frees each block once and never what it handed over, and nothing is left behind (`HeapSafe`). The call returns 0 exactly when the status was read, with the whole body in order (`ResponseIsBody`). The read callback hands over exactly the body (`UploadIsBody`). With `curl_slist_append` failures allowed, `HeapSafe` fails: `set_headers` overwrites the list head with NULL, and the nodes appended so far are lost. |
| nowmsec_gauge | MC_NowMsecGauge.cfg | violation | `burst_level` holds `nowMsec`, a timestamp, so the drain loop never ends without a signal (`ExperimentCompletes`, that main() eventually returns, fails). |

Every property of a passing run has a mutant in `PROJECT.json`: a plausible bug
in the mapped code (a dropped wait, a dropped `flag_exit` test, a missing unlock, an
off-by-one spawn loop, `signal` for `broadcast`) that TLC shows breaks it.

### Bounds

- Two settings of one request per burst. The second setting has two bursts, which is enough to get:
  - two client threads alive at once;
  - a burst after a pause;
  - a record that outlives its setting.
- One signal in the passing runs: on another thread, or after the first handler returned, a second one only re-runs `UNLOCK()`, whose effect is idempotent. Two in `handler_on_main`, where the second can nest inside the first's handler on the same thread.
- CounterSampler uses two client connections and three ticks. That is enough for:
  - a read before the zone exists;
  - a read with a request still in flight;
  - a read after it completes.

  `Width = 3` reproduces the uint64 wrap. It happens exactly when the clock is below `tstart`.
- LibcurlRequest:
  - a body of 3 bytes read at most 2 at a time takes a partial read, a final read and the 0 return;
  - two headers and two chunks make appending differ from overwriting;
  - one header line is enough, since the header buffer is handled like the body's.
- UtilsFiles: two names two levels deep give the test directory `a`, something beside it (`b`), and entries inside each. The link targets `a`, `b` and `b/a` give a link loop, a link out of the test directory, and links to a file, to a directory and to nothing. Two calls give a call on the tree another call left. The one string has two characters, so a short write can leave part of it.
- For `InterrUsleep`, two sleepers and two unblockers cover:
  - the broadcast waking more than one thread;
  - two cancellations racing;
  - a sleeper calling again after it has been cancelled.

### Fairness

- Every thread that can step keeps stepping, since the kernel schedules all of them: weak fairness on main's steps, on each client, on the sampler, and on each started handler.
- The deadline of `pthread_cond_timedwait` is finite, so a time-out of main's wait eventually comes. This is strong fairness on `MainTimeout`, because spurious wake-ups disable it periodically.
- No fairness is assumed for spurious wake-ups or signals.
- `UtilsFiles` is checked for safety only: its caller may stop calling at any time.
- In `MC_InterrUsleep` no fairness is given to `Timeout`. The refinement's release-after-cancel is therefore checked without any help from the deadline.

## 4. Not modelled (yet) and plan

1. CounterSampler leaves out the `CHECK_DO` early returns for fields missing from the document. The vts module always emits those fields, so the only replies modelled are a full document and a failed fetch.
2. **nginx wrapper**: the pidfile read, SIGQUIT, and the `waitpid` retry loop bounded by `maxTries`. The question is a proxy still running when the next setting launches its own.
3. **libcurl wrapper**: `libcurl_wrap_init_global` and `_deinit_global`, which nothing calls.
   The list leak of `set_headers` and the stdin upload of a PUT without a body are reachable only by callers that pass headers or use PUT or POST, and this repository has none. No run checks them; `PROJECT.json` lists them as hazards.
   **mkpath's result**: `MkpathStep` returns 0 on EEXIST whatever the existing entry is, as the code does, so a path or folder that names a file or a dangling link yields 0. The header (utils_files.h:50-56) says 0 means the folders were created. No run states that promise; it stays a listed hazard.
   The elapsed column's step back after `CLOCK_REALTIME` is set back is reachable in `CounterSampler` (`ClockSetBack`), but no run checks it.
   **interr_usleep context teardown**: `interr_usleep_close` is modelled after main()'s return (`CloseCall`, `CloseUnlock`, `CloseFree`), but no property is checked on it. With main() as a target, TLC finds a handler inside `UNLOCK()` on the freed context, but the run that signals main() checks `ShutdownCompletes`; the late signal stays a listed hazard. `interr_usleep_open`'s failure paths are not modelled: they close a context calloc() zeroed, whose mutex and condition variable glibc treats as statically initialised.
4. Out of reach or pure I/O, not to be modelled:
   - the configuration writers, logging and gnuplot;
   - in `UtilsFiles`: permissions, FIFOs, sockets and devices (whose mode bits the callbacks also test) and other processes changing the tree during a call. The two `utils_rmpath` calls of main() run while no nginx is up, except the final one after an `EINTR` that skipped the proxy's stop; `dump2file` runs while the origin writes its log into other entries of the directory.
   - libcurl internals, including the implicit `curl_global_init` race;
   - the non-async-signal-safe `printf` in the handler (the stdio lock is not state of this program);
   - weak memory ordering of the `volatile` flags. The model treats them as sequentially consistent.
