# A verification project for the OPENED extraction tool

The tool copies one function of an eBPF repository, with everything it needs,
into a program that compiles on its own. This directory holds TLA+ models of
the tool, of the scripts around it, and of three of the eBPF data paths that it is
applied to; the TLC configurations that check them; and proofs that TLAPS checks.
Line numbers are those of `src/function-extractor.py` unless another file is
named.

## 1. The system

The tool is a set of Python scripts that run one after another and communicate
through files. What is hard about them is that they read C text with string
searches, that many steps can fail with the files of earlier steps already
written, and that those files are read by the next run, of the same or of another
shell. The example programs are the opposite: short handlers that run on every
CPU at once over shared maps, with a user-space thread beside them.

| Component | State it keeps | Operations | Interacts through |
|---|---|---|---|
| Preprocessor map (65-143) | stack of open conditionals, list of regions | one branch per directive, query for a span of lines | the query decides the `#ifdef` written around a function |
| #define extraction (288-332) | `multi`, table of names, table of duplicates | one branch per kind of line, per file of a set | appends to the extracted program |
| Call graph parser (271-285, 347-406) | `fns`, `maps`, `headers`, `duplicates`, brace counter | function line, map line, brace | reads what Phase I wrote and a developer edited |
| Main program (14-62, 147-268, 417-586) | the dictionaries above, `opMaps`, `presDict`, the output files | empty the directory, copy headers and Makefile, the loops that fill the dictionaries, the loops that write | output directory, `extractedFuncList.out`, `cscope.files` |
| Phase I, `src/extraction_runner.py` | `cscope.files`, `cscope.out`, `tags`, database, call graph | cscope, ctags, cqmakedb twice, cqsearch, sed, clean-up | working directory |
| Workflow | all of these files | Phase I, manual edit, Phase III, repeated | working directory |
| `src/verify_extraction.py` | namespaces, veth pairs, hook points | set-up, attach at XDP, attach at TC, `bpftool net` | the kernel |
| `src/utils/update_ai_comments.py` | TinyDB records | search, update | a database file |
| SYN rate limiter, `examples/ebpf-ratelimiter-main` | counts per second, totals | XDP program, daemon | BPF maps, without locks |
| Policer, `examples/loxilb-ebpf-main/kernel/llb_kern_policer.c` | two token buckets | refill, colour, charge | a map element with a spin lock |
| Connection tracker, `llb_kern_ct.c`, `llb_kern_l3fwd.c`, `loxilb_libdp.c` | two entries per connection | fast path, creation, state machines, ageing | `ct_map` |
| `src/attach_test.py`, `run2_all.py`, `Dockerfile`, other examples | - | see section 8 | - |

What makes each part correct:

- *Preprocessor map*: the region returned for a function is the innermost
  conditional around it, the guard written says that conditional's condition,
  and no legal file makes the scanner raise.
- *#define extraction*: only `#define`s are copied, each `#ifndef` is closed
  before anything else is written, the first definition wins, duplicates are
  reported.
- *Call graph parser and main program*: the functions written are exactly those
  asked for, each once, after the `#define`s and `#include`s of its file; the
  list of functions agrees with the program; a program with a license line is
  complete; every run ends, and ends early only for a cause.
- *Phase I and workflow*: a run that indexes uses its own complete index;
  Phase III has the headers that its call graph was computed from.
- *verify_extraction*: a run that ends well is evidence that the program loads.
- *AI comments*: an update reaches the records of its function and no others.
- *Rate limiter*: a bound on what is accepted in a second, also when increments
  are lost; the map does not fill up.
- *Policer*: green and yellow traffic conform to their rates and bursts;
  truncation costs little.
- *Connection tracker*: the two entries of a connection agree; only established
  connections bypass tracking; nothing stays in the map for ever; connections of
  well-behaved endpoints are recognised, kept and forgotten in time.

The behaviours a test hardly reaches are listed, each at its line, under
`hazards` in `PROJECT.json`.

## 2. Modules of the tool

| Module | Models |
|---|---|
| `CppGroups` | reference: the conditional groups of a C file (external) |
| `PreprocessorMap` | `create_preprocessor_map`, `contained_in_preprocessor`, the guard line of `extractAndDump`; reads the same lines as `CppGroups`, in step |
| `DefineScan` | `addDefines`, called for each file of the set (519-520) |
| `FunctionExtractor` | the main program, with the call graph parser |
| `Extraction` | what Phase III promises; `FunctionExtractor` implements it |
| `ExtractionRunner` | Phase I |
| `Workflow` | the three phases; extends `ExtractionRunner` |
| `VerifyExtraction` | `verify_extraction.py` |
| `CommentsDB` | `update_ai_comments.py` |
| `Scripts` | the sum of `Workflow`, `VerifyExtraction` and `CommentsDB`: which script runs is chosen in `Init` |
| `PreprocessorProofs`, `DefineScanProofs` | theorems about the scanners |
| `FunctionExtractorProofs` | theorems about the main program, and that it implements `Extraction` |
| `ScriptsProofs` | theorems about Phase I, the workflow, the load verification and the comment database |
| `MC...` | instances for TLC |

**PreprocessorMap.** `stack`, `pres` and `lc` are the code's variables. Each
step reads one line, chosen from `Lines`: `PushIf` (85-105), `SwapElif`
(108-114), `SwapElse` (116-122), `PopEndif` (125-129), `SkipLine` when no
`find` succeeds, `PopEmpty` when `stack.pop()` raises. A line is its directive,
its condition, and whether it is *spelled* as the code expects (column 0, one
blank after the directive). The same step runs the reference, so every file
considered is one C accepts: `open` and `closed` are the groups C sees.
`FirstHit` is the loop of `contained_in_preprocessor`, `GuardLit` the literal
of the line that `extractAndDump` writes. `FirstToken` is `tokens[1]`.

**DefineScan.** `multi`, `names`, `dups` are the code's variables; one action per
branch of the loop. Beside them the model keeps what C makes of the text read
(`inDir`, `sites`) and of the text written (`guards`, `defs`). `Tidy` says that
the line after a backslash is not blank and that a file does not end in one. A
`#define` line has the macro it defines and the token that the code takes for its
name; they differ for function-like macros.

**FunctionExtractor.** `stage` is the loop the program is in, `at` its index, and
each action one iteration (or one call, for the calls at 488-495: the four files
are opened one after the other, each may fail, and three are emptied by it). The
stages follow lines 488-586. `dead` is set by `exit(1)` or by an exception, with the
files as they are at that point: what was written is on disk, because Python
flushes open files when it exits. `inp` is what the run finds: the call graph, the
two JSON dictionaries flattened in their order, what is missing, which files
make `create_preprocessor_map` raise, which source files may be removed while the
program runs (`Vanish`; `gone` has those that were), and whether the user may stop it
(`Interrupt`, between any two steps or within a function, of which a `part` then stays
in the program; buffers are flushed, so that `kill -9` is not modelled). An iteration
of `dumpFns` is two steps: `ListFn` writes the line of the list (216), `DumpFn` is
`extractAndDump` (217), which returns without a word if the file has gone (168-170);
`DumpFails` is the file that goes between the test and its `open` (181). `Rerun`
starts the program again over the same directory. A function line of the call graph takes a step for each `#include`
line that `addDependsOn` reads (`inc` counts them) and one to enter the function in
the table; a file that cannot be opened ends the run after any of the earlier lines
(`DependsOnFails`). The program text is a sequence of items; the guard of a function
(PreprocessorMap) and the `#define`s of a file (DefineScan) are one item each.

**Extraction** says of the same input which definitions are *wanted*, by sets
rather than by the tables that the program overwrites as it goes. A run lists
them one at a time, finishes only when all are listed and then reports the
ambiguous lines; it may fail at any time and be started again. `FunctionExtractor`
instantiates it with the list of functions, the status of the run and the duplicates
file (`ListMatchesProgram` relates the list to the program text), and every step maps to a step of `Extraction` or to none: the run
`extractor` checks it, `FunctionExtractorProofs` proves it.

**ExtractionRunner.** Each shell executes runs, one command a step; a command may
fail, also after it has had an effect (`cqmakedb` between its two tables). A list
or an index carries the repository it is of and the number of edits that had been
made, so that "old", "of another repository" and "partial" can be told apart.
`cscope.files` is emptied in one step (`OpenList`, line 37 of `extraction_runner.py`)
and filled in another (`FillList`, 38-47); in between, after a failure and where two
shells write to it, it is not `whole`. The
files have fixed names and are shared by all shells, the database is per
repository, the call graph per repository and function (line 115 of
`extraction_runner.py`).

**Workflow** adds the developer of Phase II, and Phase III as two steps:
`copy_include_files` reads `cscope.files`, whole or not, as it is at that time, and
later the call graph is read.

**VerifyExtraction** has one step per shell command. What the commands need and
what they reject is external knowledge about `ip`, `ifconfig`, `route` and `tc`
(`Needs`, `Once`); that `tc qdisc add` is never accepted follows from the command
line at 61 of that script. The machine may be rebooted between runs.

**CommentsDB** has the search and one update for each record found. The regular
expressions are relations between names (`occurs`, `begins`) and between paths.
`res` holds the numbers of the records found that the loop has not visited, `old` the
records as the search returned them: the loop writes what it computes from `old`, not
from `db`. `HistoryKept` is about databases with one record for each function (see
section 6 for others).

## 3. Modules of the example programs

| Module | Models |
|---|---|
| `RateLimiter`, `RateLimiterProofs` | `_xdp_ratelimit` on several CPUs, `delete_stale_entries` and the loop that calls it; theorems about them |
| `Policer`, `PolicerProofs` | `do_dp_policer`; theorems about it |
| `CtProto` | `dp_ct_tcp_sm`, `dp_ct_udp_sm`, `dp_ct_icmp_sm` (and its copy for ICMPv6), `dp_ct_sctp_sm`, as operators |
| `Conntrack`, `ConntrackProofs` | `dp_do_ctops`, `dp_ct_in` on two CPUs, `ll_age_ctmap`; extends `CtProto`; theorems about it |
| `TcpSession`, `SctpSession` | a connection of well-behaved endpoints through the tracker; extend `CtProto` |
| `Sessions`, `SessionsProofs` | the sum of the two, as in `Scripts`; theorems about it |

**RateLimiter.** A tick is a part of a second. Every `++` on a map value is a load
and a store. A pointer obtained by a lookup stays usable after its element was
deleted and reused, as in a preallocated map. The comparison at line 263 of
`ratelimiting_kern.c` is as in the code: without the factor `MULTIPLIER`, which the
commented line 264 has. `passed` counts the SYNs let through, also those that are not
counted in a window, so that every SYN can be accounted for.

**Policer.** A tick is a nanosecond. The timestamp is taken in `Arrive`, the
section under the lock is `Police`; between the two other CPUs may meter packets
with later timestamps. `WORD` is 2^64, and the difference of two timestamps is
taken modulo it, as the unsigned subtraction does. `slow` is a history variable
for `HalfRate`.

**CtProto** is a case per `case` of the code, with the values that `nstate` has when
no branch assigns it. UDP and SCTP read the state before they take the lock, so the
operators have that value as a parameter.

**Conntrack.** `el` are the elements of `ct_map`. The steps of a CPU are those
between which other CPUs can act: the fast path, the first lookup, each of the two
updates, the second lookup, the time stamps with the choice of the entry to lock,
the section under the lock, the two writes that mark the connection established,
each of the two deletions. `idle` says that the time stamp of an entry is older than
its timeout; `used` is the counter that the ageing thread compares. The walk of the
ageing thread stands at a key of this connection or of another one (`ager.key`). When
that key has been deleted, by itself or under it, `bpf_map_get_next_key` begins with the
first key again (`Lost`, `Ahead`); `AgeOther` is a step at other connections, whose
entries may be deleted under it too (`churn` bounds how often). A walk takes at most
`max_entries` steps (`loxilb_libdp.c:990`), which is enough unless it began again:
`AgeEnd` may then end it anywhere.
`Store` forgets the contents of free elements to which no CPU holds a pointer, and
`Takes` lets an update choose one of those only: they differ in nothing that any
step reads. The scratch entries from which new ones are copied have `lts` 0, so
a new entry counts as idle until the first packet stamps it.

**TcpSession, SctpSession.** One CPU, so that the tracker is one step per packet
(`Tracked`). The endpoints are not part of the repository; they say which packets
make up a connection. TCP loses nothing, starts at sequence numbers just before the
wrap, and has data under way in both directions. SCTP loses INIT and INIT ACK
before or after the tracker and repeats them. `Drops` is the drop of a chunk that is
too short for the state, `Errs` a packet that `dp_ct_sctp_sm` takes for an error, for
which `dp_ct_in` deletes the entries and lets the packet pass.

## 4. Runs

| Run | Checks | Result |
|---|---|---|
| `preprocessor` | `TypeOK`, `ScanInv`, `FirstHitIsInnermost`, `NoUnderflow`, `GuardFaithful` | hold for files in either spelling; the last two where their conditions on the file hold |
| `else_polarity` | `GuardMeansGroup` | violated: `#ifndef A`, `#else`, text, `#endif` |
| `defines` | `TypeOK`, `DuplicatesExact`, `GuardsClosed`, `FirstDefinitionWins` | hold for tidy files |
| `extractor` | `TypeOK`, `DefinesPrecedeFunctions`, `HeadersIncluded`, `ListMatchesProgram`, `LicenseMeansComplete`, `CompletesUnlessCause`, `ImplementsExtraction` | hold over two runs with faults, files removed and interruptions |
| `scripts` | `ScriptsTypeOK`, `OwnIndexRight`, `HeadersCoverGraph`, `Loaded`, `Described`, `DescribedOwn` | hold; the third where Phase III read a whole list |
| `tc_hook` | `FirstRunAttaches` | violated: `verify_extraction.py -t` on a fresh machine |
| `rate_limiter` | `TypeOK`, `RateKept`, `RateKeptByTwo`, `MapHasRoom` | hold |
| `policer` | `TypeOK`, `ColoursConform`, `HalfRate` | hold; the last two if the lock is taken in the order of the timestamps |
| `conntrack` | `TypeOK`, `PairAgrees`, `FastIsEstablished`, `NeverBothOut`, `CountedIsMarked` | hold; the second and third with one CPU |
| `conntrack_fair` | `Reclaimed`, `Establishes` | hold under fairness; the second with one CPU |
| `sessions` | `TypeOK`, `OpenIsTracked`, `TrackedUntilClosed`, `NothingDropped` | hold; the third with orderly ends |
| `sctp_timeout` | `EstablishedTimeout` | violated: COOKIE ACKED and ESTABLISHED are one bit |

The violated ones are the `findings` of `PROJECT.json`, each with the text it
contradicts. Each property that holds has a mutant: a plausible slip in the code
under which TLC finds it violated.

`Scripts` and `Sessions` are sums: the first variable chooses one of several
specifications that share no state, and the variables of the others are `Off`.
They say nothing about the parts acting together, because the parts do not.

**Bounds.**

- `preprocessor`: `MaxLines = 6` lets two conditionals nest or follow one another,
  with an `#elif` or `#else` and a line of text; `ScanInv` and `NoUnderflow` are
  proved without the bound.
- `defines`: files of 4 lines hold a continued `#define` of two or three lines
  between others; two files and two macros let duplicates arise within a file and
  across files in both orders.
- `extractor`: two functions, two `.c` files and a `.h` file, up to two call graph
  lines and three definitions, so that a key is repeated, overwritten, missing or
  ambiguous; two runs, because what a run finds of earlier ones is one set of files;
  every single missing or unscannable file, and runs in which any source file is
  removed at any time or which are stopped at any step, with a second run after them.
- `scripts`: two repositories, one edit each, two runs of a shell that indexes and one
  with `-d` beside them; three runs and two reboots of the verification; two
  updates of three records, each with every history, for names that are prefixes or
  substrings of one another and for names that are not.
- `rate_limiter`: two ticks to a second, six SYNs; one CPU and two with the daemon
  asleep, one CPU over two sleeps of the daemon, shortened to three seconds.
  The fourth setup has a rate of 0, which the
  daemon sets without `-r`. `RateKeptByTwo` is a bound that the racing CPUs reach.
- `policer`: three nanoseconds to a microsecond and two microseconds, three packets,
  two CPUs colour-blind, one colour-aware.
- `conntrack`: one connection, three elements (two entries and one to take), four or
  five packets on one CPU and two or three on two; one entry of another connection is
  deleted under the walk of the ageing thread, where the map is shared.
  `CT_UDP_CONN_THRESHOLD` is 2 instead of 4, so that a one-sided connection passes it.
- `sessions`: four data packets of each end, sequence numbers modulo 16 from 0, 13 and
  15; three losses.

Deadlock is not checked: the programs end, and the traffic is bounded.

**Fairness.** `FunctionExtractor` has weak fairness on `Work`: the program is
sequential and waits for nobody. `Rerun`, a person's decision, has none. In
`Conntrack` a CPU finishes the packet it has begun (an eBPF program cannot be
blocked), the control plane calls the ageing function again and again (weak fairness
on its steps), and time passes (`Elapse`, strong, because packets and walks of the
ageing thread disable it over and over). In endless traffic both sides keep sending,
which is the hypothesis of `Establishes` (strong, since a CPU that is busy disables
it), with one CPU. `Reclaimed` assumes of the traffic of its connection that it stops,
and of other connections that they cut off walks finitely often.

## 5. Proofs

Eight modules hold theorems. Every invariant and the refinement that a run checks is
the statement of one of them; the liveness properties are not. Each invariant was checked with TLC on the run of its
module before it was proved. Listed with each theorem is what had to be added to
its property to make it inductive.

`PreprocessorProofs`, for any number of lines and any conditions:

- `TypeCorrect`: `Spec => []TypeOK`.
- `RegionsNest`: `Spec => []ScanInv`. That regions are nested or disjoint is not
  inductive: the region that an `#endif` adds must be compared with those already
  listed. `StackOrdered` (marks in line order, all above the current line) and
  `RegionsBehind` (a listed region lies before or within each open conditional,
  and ends before the line last read) give that comparison.
- `FirstHitInnermost`: `Spec => []FirstHitIsInnermost`, from `ScanInv`.
- `OpenersPreventUnderflow`: `Spec => [](DepthCovered /\ NoUnderflow)`. As long as
  every opening directive was spelled as expected, the scanner's stack is at least as
  deep as C's: a missed closing line only makes it deeper.
- `GuardsAreFaithful`: `Spec => []GuardFaithful`. In a file without odd spellings the
  scanner and the reference run in lockstep (`StepInv`): the stacks are equally deep,
  each mark of the one is the twin of a group of the other, with the same lines and,
  where the form can be said, the same condition, and likewise for the regions listed
  and the groups closed.

`DefineScanProofs`, for any set of files and any lines:

- `TypeCorrect`: `Spec => []TypeOK`.
- `GuardsAreClosed`, `OnlyDefinesCopied`: `GuardsClosed`, `MultiTracksDirective` and
  `DefinesOnly` (which no run lists) together are inductive: in a tidy file `multi`
  says what C says of the next line, so exactly one `#endif` is due.
- `DuplicatesAreExact`: by `DefineOrQuiet`, every step copies one `#define` or
  touches neither table nor list.
- `FirstDefinitionTakesEffect`: needs `DefsAreSites` (what takes effect was read)
  and `GuardsAreClosed` (a `#define` is not written inside another's guard).

`FunctionExtractorProofs`, for any inputs and any number of runs. `RunInv` says, stage
by stage, what the dictionaries and the files hold:

- `TypeCorrect`: `Spec => []TypeOK`.
- `ListAgrees`: `Spec => []ListMatchesProgram`. Both files follow the table: by
  `WrittenInv` and `DumpInv` the list has the entries gone through, with the one in
  hand, and the program those without it and without removed files; by `OrderInv` both
  have them in the order of the table, which has one entry for each key (`OneEntry`).
  `AgreeNow` is the run that writes the files; `AgreeLater` says that from its end until
  the list is emptied again nothing changes them but the deletion of the program.
- `DefinesComeFirst`: `Spec => []DefinesPrecedeFunctions`. `DefInv`: the file of every
  entry that will be dumped is either waiting in `todo` or has its `#defines` in the
  program, never both.
- `LicensedIsComplete`: `Spec => []LicenseMeansComplete`. `DumpInv`: the functions of
  the program are the entries gone through, but those of removed files, and nothing
  follows the license line.
- `HeadersAreIncluded`: `Spec => []HeadersIncluded`, if the last word of each
  `#include` line is the header's name and no two quoted headers have the same guard
  macro. Without these the code does lose headers (section 6). `ReadInv`, `KnownInv`:
  the headers of the lines read, and then of every file of the table, are in
  `headers`; `OnceInv`: no header is known or written twice.
- `ExtractorKeepsPromise`: `Spec => ImplementsExtraction`. `Extraction` speaks of sets
  of the input, the program of tables that it overwrites as it reads. `ExInv` connects
  the two: `ct` is the number of braces before the line (`CtInv`), the table has one
  entry for each function line of one definition that was read (`KeysInv`), the
  duplicates are the others (`DupInv`), the span of an entry is that of the last
  definition of its key read so far (`SpanInv`), and the list has the entries gone
  through (`WrittenInv`). After the loops this gives that the entries to dump are
  exactly the wanted definitions (`WantedIsDumped`) and that what is reported is
  exactly what is ambiguous (`ReportedIsAmbiguous`). `WorkRefines` then has one case
  per action: `ListFn` is a write, the end a finish, a failure a fail, everything else
  a stutter; `RestartRefines` is the rerun.

`ScriptsProofs`, for any repositories, functions, shells, runs and edits, any number of
verification runs and reboots, any records, names and relations between them:

- `TypeCorrect`: `WfSpec => []WfTypeOK`.
- `IndexedRunsAreRight`, `HeadersAreCovered`: `WfSpec => []OwnIndexRight` and
  `WfSpec => []HeadersCoverGraph`, if at most one shell indexes (`SingleIndexer`). In
  `WfInv`, `FilesInv` says that every file that goes back to a list of `cscope.files`
  goes back to one of its repository and not newer than the present one, `OwnAt` what
  an indexing run has made of its own by each of its steps (from `FillList` on, a whole
  list), `PhaseInv` what Phase III has copied when it comes to read the call graph.
- `ScriptsTyped`: `ScriptsSpec => []ScriptsTypeOK`.
- `LoadIsEvidence`: `ScriptsSpec => []Loaded`. That a run ended well says nothing by
  itself of commands executed earlier, perhaps by another run. `LoadInv` says which
  commands of the script have been executed when a given rest of it is left
  (`Progress`), that after the last one all have (`Ran`), and that an attach command
  was only executed when both interfaces were set up (`BothSetUp`).
- `CommentsAreWritten`, `DescriptionsAreOwn`: `ScriptsSpec => []Described` and
  `ScriptsSpec => []DescribedOwn`. `CommentsInv` follows the loop: the records keep
  their functions and files (`SameRecords`), those that match hold what was computed
  from the record last visited, and the others what they held (`Rewritten`, `Visited`),
  no description is newer than the present update (`Dated`), and those read are of
  their own functions (`OwnIn`).

`RateLimiterProofs`, for every rate, resolution of the clock, size of the map and
sleep of the daemon, on any number of CPUs:

- `TypeCorrect`: `Spec => []TypeOK`.
- `MapNeverFull`: `Spec => []MapHasRoom`. `RoomInv`: no two elements have the same key,
  and every key is a second from the one before the daemon last finished to the present
  one. Time passes a tick at a time and does not outrun the daemon or a packet in hand
  by more (`Clocked`, from the guards of `Tick`), so that these are at most `sleep + 2`
  seconds.

Until the daemon wakes, again for every rate:

- `OneCPUKeepsRate`: `Spec => []RateKept`. On one CPU the count of an element is what
  was accepted, and does not move between comparison and store (`OneInv`).
- `TwoCPUsKeepBound`: `Spec => []RateKeptByTwo`. An increment that is overwritten sets
  the count back, so that no bound on the count helps. `Stand` is the count from which
  a CPU will go on: the one it loaded, or else the one in the map. `Potential` is twice
  the number of SYNs that can still be accepted from where the two CPUs stand, and
  `TwoInv` says that what was accepted plus the potential never exceeds its initial
  value, R(R + 3) for a rate of R. Each accepted SYN lowers the potential by at least
  2; a load or a store of the other CPU does not raise it.

`PolicerProofs`, for every policer, any number of CPUs and packets:

- `BucketsBounded`: `Spec => []TypeOK`, which is inductive. `RefillType` says that a
  refill stays within the size of the bucket whatever the timestamps are (what is
  accrued is a remainder modulo `WORD`, hence a natural number), `ChargeBounds` that
  a charge is covered by the bucket it is taken from.
- `ColoursKeepRates`: `Spec => []ColoursConform`. `Balance` bounds, for each packet
  metered, the bytes since then plus what is in the bucket by the size and what the
  time since is worth (`Worth`); a refill adds no more than `Worth` grows
  (`WorthGrows`).
- `TruncationCostsHalf`: `Spec => []HalfRate`, inductive together with the types of
  the meter: a refill takes place after a whole microsecond at least, so that what it
  truncates is less than what it adds.

`ConntrackProofs`, for any set of CPUs, any number of elements, packets and spells of
time, all four protocols and a map that other connections may fill:

- `TypeCorrect`: `Spec => []TypeOK`. Of the state machines only the range and that
  both entries get the same state is used (`TcpMachine` and its like for the others).
- `NeverLeftBothOut`: `Spec => []NeverBothOut`. It is not inductive: while CPUs race to
  create the entries, both may be of direction out. `OutInv`: then some CPU is about to
  write its second entry, which is of direction in.
- `PairsAgree`, `FastPathIsEstablished`: `Spec => []PairAgrees` and
  `Spec => []FastIsEstablished`. `OneInv` says, step by step of the one CPU at work, that
  any two live elements agree except between its two updates, that so do those it
  points to, in the map or deleted from it by the ageing thread, and that marked
  entries are established unless a packet that ends the connection was seen, while the
  CPU holds none that are marked but the two it is marking.
- `CountedIsFast`: `Spec => []CountedIsMarked`. `UdpInv` adds the entries in the state
  EST: they too are marked, or held by a CPU that is about to mark them. Whoever counts
  the first packet of the other side writes EST unless it is there, whoever writes EST
  goes on to mark both entries, and a state that is written back takes no mark away.

`SessionsProofs`, for any number of data packets and losses, any size of the space of
sequence numbers above 3, from every initial number of `ISNs`:

- `SessionsTyped`: `Spec => []TypeOK`, with DSR or without, orderly ends or not, and
  any chunks that may be lost.
- `OpenSessionsAreTracked`, `SctpNothingDropped`: `Spec => []OpenIsTracked` and
  `Spec => []NothingDropped`, without DSR, with orderly ends of TCP (`OrderlyEnds`) and
  losses of INIT and INIT ACK only (`HandshakeLosses`). `NothingDropped` is about the
  packets that were dropped and about the next one of each end: it is neither too short
  nor an error (`NextIsFine`). For SCTP, `SctpPhase` says that
  until the tracker marks the association established it knows exactly how far the
  handshake has come: `Inviting`, in which a repeated INIT takes it back, `Echoing`,
  `Answering`.
- `TcpTrackedUntilClosed`: `Spec => []TrackedUntilClosed`, under the same hypotheses.
  `TcpPhase` is the life of a connection in ten phases, from `Idle0` over `Talking` to
  `Closed`. The tracker forgets a connection only if the ACK of each FIN acknowledges
  the number that it recorded of that FIN, and it records no numbers of data. `Chain`
  closes the gap: the sequence numbers of the packets under way follow from one another,
  from the one that the receiver expects to the next of the sender, modulo `SEQ`. Hence
  with nothing under way both ends have the same numbers, and an orderly end closes
  only then.

The assumptions are those on the constants, each named in its module and
evaluated by TLC in the runs, and the hypotheses named above: numbers are natural
(`CtNumbersAssumption`, `NumbersAssumption` and their like), there is a CPU
(`CPUsAssumption`), the records of the database are records (`CommentsAssumption`),
`NoEntry` is not an entry and the three initial sequence numbers differ
(`SessionsAssumption`).

Only model-checked is liveness (`CompletesUnlessCause`, `Reclaimed`, `Establishes`),
which is out of the prover's reach. The three safety theorems on sessions say nothing
outside their hypotheses: `OrderlyEnds` and `HandshakeLosses` exclude connections of
which the tracker does lose track (section 6).

## 6. What the models show beyond the runs

These follow from the models when a hypothesis is dropped; no text of the
repository claims the opposite, so that they are not runs of their own, or the
claim is stated only in general terms.

- A plain `#endif`, without a blank after it, is not seen; the function before it is
  copied without its `#ifdef`, and a later `#endif ` closes the wrong conditional. In
  the `.c` files under `examples` 235 of 369 `#endif` lines are plain.
- Only the innermost condition is written around a function, and of it only the
  first word.
- `ARRAY_SIZE(x)` and `ARRAY_SIZE(arr)` are two names to the table of duplicates.
- A map defined in a `.c` file ends the run (242, `fileNmae`).
- An `#include` with a trailing comment includes the comment's last word (275).
- Of two quoted headers whose paths end in the same name only the first is included:
  the guard macros around them are the same.
- If the output directory cannot be emptied and the program cannot be opened, the list
  is empty beside the program of an earlier run (494, 495).
- A source file that is removed before its function is dumped leaves a line in the list
  and nothing in the program, without a message (168-170).
- Phase III that runs while Phase I rewrites `cscope.files`, or after a Phase I that
  failed in between, copies a part of the headers and says nothing (`whole`).
- A line after a backslash that is blank leaves `multi` set (300): the next unrelated
  line is copied, and the `#endif` comes late or never (`Tidy`).
- The files whose `#define`s are copied are iterated over as a set (519): which of two
  definitions of a macro takes effect differs from run to run.
- Two shells that index at once mix up their indexes, whose names are fixed;
  `IndexedRunsAreRight` has one indexing shell as its hypothesis.
- Phase III with a `cscope.files` of another repository copies the headers of that
  one; `HeadersCoverGraph` is about the lists of the repository itself.
- The rate limiter compares 100 times the count with the rate once there is a previous
  window, and then drops nearly every SYN (`ratelimiting_kern.c:263`).
- With a rate of 0 the limiter lets one SYN of a window pass if the window before had
  one: a total of 0 is not greater than the rate (`Quota`).
- If a policer's lock is taken out of the order of the timestamps, the difference is
  negative, which is huge as an unsigned number, and both buckets are filled.
- The ageing thread may delete a connection whose entries were just created and not
  yet stamped (`lts` 0).
- Two CPUs may set the state of a UDP connection back from EST, since it is read
  before the lock (`llb_kern_ct.c:507`); the mark of the fast path stays
  (`CountedIsMarked`).
- Two CPUs that create the entries of a connection at once may leave both of direction
  in (`llb_kern_ct.c:1119`): each entry then counts one side, and a UDP connection stays
  in the state UEST for ever, however much both sides send. `Establishes` is therefore
  stated for one CPU.
- A walk of the ageing thread that began again may end before it reaches an aged entry;
  other connections that come and go can delay its deletion without a bound
  (`loxilb_libdp.c:989-1004`).
- A TCP connection older than the tracker is never picked up: the first ACK leads to
  the state ERR, which deletes the entry that would count the further ones
  (`llb_kern_ct.c:335`).
- Data sent after the other end's FIN leads to CLOSED, and the next packet to ERR: the
  entries of a half-closed connection are deleted (`Orderly = FALSE`).
- A COOKIE ECHO or COOKIE ACK that is repeated after the tracker has seen it is taken for
  an error (`Lossy`).
- If two records of the comment database are of the same function, an update writes the
  history of the one visited last to both, and that of the other is lost (`OneEach`).
  If the name of one function is the beginning of another's, or two files have one name,
  the descriptions of one function are carried over to another (`Distinct`).

## 7. Abstractions

Comments, log output and the wording of the written text are left out. A
condition, a macro, a file, a function, a map is a model value. `line.split()`
is modelled by what it returns where that matters: `FirstToken`, the `tok` of a
`#define`, `Token` of an `#include`. A struct of `struct_info` is the set of
words of its text. Parts of the code that nothing calls (`dump_to_file`,
`search_function` and `buildIncludesOrderingGraph` in the extractor, the dictionary
`graph`; `attach_only`, `attach_and_check`, `clean` and the packet generators of
`verify_extraction.py`) are left out. `#define` in a comment or a string, and
`/* ... */` that spans lines, are not distinguished from code, as in the scanner
itself; the reference assumes there are none. In the examples, packet parsing,
addresses and their translation, byte counters and debugging output are left out; a
packet is what the state machine looks at.

## 8. Not modelled

`attach_test.py` mixes tabs and spaces and uses undefined names, so it does not
run. `run2_all.py` only prints commands. The codequery tools and the container are
external. Of the connection tracker, the NAT actions, the flow cache, the statistics
maps and the fields that only the control plane reads are left out. The other
programs of `examples/` are third-party input of the tool: data planes whose
control plane is not in the repository, collections of stateless tracing tools, and
headers. More than 500 thousand of the repository's 617 thousand lines of C are
generated kernel headers (`vmlinux_*.h`), so that the models can cover only a
small share of its lines; the tool itself is less than two thousand lines of
Python.

## 9. Plan

All modules of the plan are written, with their runs, and every safety property of a
passing run is proved. What would extend the project: the address translation of the
connection tracker, with a pair of keys that are not each other's reverse; loss and
retransmission for TCP; a bound on the time after which ageing has removed an entry,
as a safety property in place of `Reclaimed`.
