# A TLA+ verification of ikigai-store

ikigai-store keeps one RDF dataset (oxigraph, on RocksDB or in memory) and
serves it as endpoints bound into an ikigai kernel: reads (`select`, `dump`,
...), writes (`update`, `graph-update`, `load`), and a handle for modules of the
host that write the dataset themselves. The data structures are oxigraph's. What
this crate adds is coordination: who may run an evaluation and for how long, on
which thread a write is committed and under which lock, which reads a kernel may
cache, and who may write what through the handle that was given out. That is what
these modules specify, check with TLC and prove with TLAPS.

`PROJECT.json` lists for every definition the lines of source it stands for, for
every run its properties, for every property a plausible bug in the code that
breaks it (the operators whose comment begins with "Mistaken"), the hazards, and
the theorems.

## 1. Inventory

### 1.1 Evaluation admission and time budgets (`budget.rs`; `DurableStore::evaluate`)

*State.* Per store: `Counts` (reads running, evaluations overdue, reads overdue,
and the same per caller and for all callers but the host) behind a mutex with a
condition variable `changed`. Per evaluation: `State` (Running, Settled,
Abandoned) behind a mutex, the caller's deadline, the `Hold` its worker owns.

*Operations.* `reserve` (a read takes a slot or waits for one),
`refuse_at_the_cap` (an update takes none), `on_its_own_thread` (start, wait with
a timeout, give up or hear the outcome), `Deadline::settle` (the worker asks
whether its caller still waits, then commits), `Hold::drop` (the slot and the
place among the overdue are given back when the thread ends, however it ends).

*Hard.* An evaluation inside oxigraph cannot always be stopped: the caller leaves
and the thread stays, holding its slot. The timeout races the commit. The hold is
released on another thread than the one that counted it overdue, and the
subtractions saturate, so a miscount would be silent and permanent. Three nested
bounds (cap, pool of everybody but the host, share of a caller) are kept over two
counts each.

*Correct when* the counters stand for threads that exist; the bounds hold of the
threads; nobody sleeps through a free slot; every caller is answered although
evaluations may not return; a write is in the store exactly when its caller was
told so; the reserve of the host is the host's; a refusal says truly whose bound is
full and by how many.

### 1.2 Writer thread and write lock (`budget.rs`: `Writer`; `store.rs`: `on_writer`, `write_lock`)

*State.* The one long-lived thread on which a store's writes are committed, its
stack and its queue of jobs; the lock shared by every writer of one dataset.

*Operations.* `submit` (queue a job, or replace the thread with a larger one),
`call` (queue a job and wait for it for ever), a job's life on the thread (skip
if abandoned, parse, take the lock, evaluate, settle, commit, reply).

*Hard.* A replaced thread finishes its queue while the new one already runs: two
threads on one dataset. A closure may ask for another write from inside its own.
The lock is taken on the thread, never by the caller, or a queue and a lock would
wait for each other.

*Correct when* no write is lost and none that was refused or timed out is in the
dataset, no job runs on too small a stack, every write is answered, and nested
writes are refused.

### 1.3 Spaces, coverage and the caching handshake (`store.rs`; `endpoints.rs`: `with_freshness`)

*State.* Two atomics per dataset, `spaces` (bound, or about to be) and `cached`
(a read has been given to some kernel's cache); the `Coverage` of the dataset
(owned by this crate, shared, or shared with a declaration); each kernel's cache.

*Operations.* `bound_into_a_space` (count, then look at the flag, then perhaps
back out), `SpaceBinding::drop` (count out, and the last one lowers the flag),
`read_is_covered`, `commit_to_caching` (raise the flag, then look at the count).

*Hard.* Each of these is two atomic operations, and four actors run them at once.
A kernel only hears of writes it served itself.

*Correct when* no kernel's cache holds an answer that another writer has made out
of date with nothing left to evict it.

### 1.4 Shared writers and the registry of handles (`store.rs`: `SharedWriter`, `given_out`)

*State.* `GIVEN_OUT`: for each raw handle a weak reference to its write lock and
its writer thread, and what may be written; the strong references held by stores,
`SharedWriter`s and jobs; the transaction of a closure.

*Operations.* open a store that gives its handle out, drop it; `SharedWriter::over`
(prune, join and narrow, or start a new entry), `shared_writer`; `write`,
`write_declared` with `DeclaredTransaction::permit` before each insert or remove.

*Hard.* An `Arc<Store>` does not say where it came from. Stores, writers and jobs
come and go in any order, and the entry is alive as long as any of them. Two
references are upgraded one after the other while their owners are being dropped.

*Correct when* transactions on one handle never overlap, whoever joins is bound
by the promise the store made to its readers, and a transaction that was refused
a graph is not committed, whatever the closure does after.

### 1.5 Updates: one graph or all (`confine.rs`; `endpoints.rs`: `graph-update`, `update`)

*State.* None of its own: the dataset, the write lock of 1.2, and for the length of
a request a private copy (the scoped door) or a transaction (the broad door).

*Operations.* `parse` (and SILENT where the caller may not read), the read rule
(`reads_the_dataset`), `reads_outside`, then under the lock `scoped_update`: copy
what the update can observe of its graph (`footprint`), run it on the copy, refuse
it if anything landed elsewhere, apply the difference in one transaction. The broad
door runs the update in a transaction and looks through what it inserted
(`check_inserted`).

*Hard.* The footprint is read off the text by rules about every operator of SPARQL;
a rule that is wrong copies too little and is a wrong answer nobody notices. The
difference is taken against an earlier copy. A quad that was not copied may be
inserted again. An update of several operations may leave its graph in the last.
Every answer a write-only caller gets, a refusal too, may be a read. A term may be
wrapped by one legal update after another.

*Correct when* each door does at once, or not at all, what the update says on the
dataset as it is then; the scoped one as if against the whole of its graph and
nothing else, changing no other; the counts are true; no other graph is silently
read as empty; a caller who may not read learns nothing; no term nests past the
bound.

### 1.6 Scoped reads (`scope.rs`, `endpoints.rs`)

*State.* None: a read sees the dataset as it is when it is evaluated.

*Operations.* `urn:iki:store:graph-select` and its siblings read a set of graphs:
`GraphSet::parse`, a grant for each of them, `graphs_outside` (the constant `GRAPH`
names of the query that are not of the set), `names_its_own_dataset` (FROM), and
`confine`, which makes the set both what the default graph merges and what `GRAPH`
reaches. `urn:iki:store:graphs` lists the graphs a caller's grants name that exist;
`graph-info` counts one. `urn:iki:store:select` and its siblings read everything.

*Hard.* A wrong confinement may show as rows that are missing. A graph outside the
set is empty to the evaluator, so a query that names one by mistake would be
answered, plausibly and wrongly.

*Correct when* what a caller hears depends on the graphs it has grants for and on
nothing else, and an answer is to the query as it was written.

### 1.7 Texts, their algebra, and egress (`limits.rs`, `budget.rs`, `service.rs`, `sparql.rs`)

*State.* None: functions of a text, its algebra, a document, a request's arguments.

*Operations.* `check_sparql` scans a text before the recursive parser sees it, and
again with its unicode escapes replaced. `check_query` and `check_update` measure
the parsed algebra before the planner gets it, which takes the cube of the widest
join and cannot be interrupted. `has_service`, `refuse_load` find what would reach
another machine. `check_load` bounds a document. `parse_bindings`, `query_error` are
about values bound to a query's variables.

*Hard.* The scan cannot parse: a `<` has up to three readings, brackets stand in
strings, comments and IRIs, and a bracket may be written as an escape. The planner
erases wrappers before it flattens joins, and which ones is decided out of reach.
A walk that leaves out a branch lets through what stands in it.

*Correct when* what is let through nests, and is as wide, as the bounds say, and
what is refused is refused for that; nothing that would have been fetched from
elsewhere is read as nothing; advice that comes with a refusal works.

### 1.8 Answers (`budget.rs`: `AnswerBudget`, `CappedWriter`; `endpoints.rs`: serializers, `dump`)

*State.* The writer of one answer (its bytes, its reserved memory, whether it ever
refused a write), the rows not yet written, the snapshot they are of.

*Operations.* A bound on rows, bytes and time is a base, lifted by a capability's
grants up to a ceiling and lowered by arguments. Each row is written in several
pieces. A dump is collected like any answer, or streamed a quad at a time.

*Hard.* The serializer stands between the writer that refuses and the door that
answers. A stream is polled while writes are committed and time runs. The last
piece, the row past the bound, and a bound of which nothing is left are boundaries.

*Correct when* an answer is whole or refused, never cut; of one snapshot, taken while
its request was served and before its body is handed out; refused for its size exactly
when it is larger than its bound; and no writer of it reserves more memory than that.
(A collected dump of a store in memory is sorted in a second copy, of as many bytes
again, which no writer reserves: `sorted_lines`.)

### 1.9 Fingerprints (`store.rs`: `GraphFingerprint`)

*State.* What a host kept of the graphs that no sharer of its store may write.
*Correct when* comparing two sees every change a reader of those graphs could see.

### 1.10 How they interact

A request enters through an endpoint. A read asks 1.1 for a slot, is evaluated on
its own thread, and its answer passes 1.3, which says whether the kernel may cache
it. A write is a job of 1.2 whose caller waits under 1.1 and whose commit happens
under `Deadline::settle`; a scoped one runs 1.5 there. A host's own module writes
through 1.4, whose jobs run on the thread and under the lock of 1.2 and whose
declaration is what 1.3 relies on when it lets a scoped read be cached. On its way
in, a text meets 1.7 before anything is parsed or planned; on its way out, an answer
meets 1.8.

## 2. Modules

| module | what it is |
| --- | --- |
| `Evaluations` | 1.1: the two mutexes, the condition variable, caller and worker of each request |
| `SlotPool` | the abstract specification of 1.1: who holds a slot, who is overdue, three bounds |
| `WriterThread` | 1.2: threads, queues, the lock, nested writes |
| `Spaces` | 1.3: every atomic operation a step, kernels and their caches |
| `SharedWriters` | 1.4: stores, writers, lines (a lock with its thread), the registry, transactions |
| `Algebra` | SPARQL's patterns, expressions and paths: the walks over them, and their solutions over a dataset (external), as recursive functions along their parts |
| `Operations` | parsed updates, what oxigraph does with each operation (external), and what this crate finds out about an update before it runs it |
| `TermDepth` | 1.5: terms that nest too deep, and the probes that look for them |
| `Footprint` | 1.5: what an update can observe of its graph, by the patterns in it |
| `Confine` | 1.5: the copy, what escaped it, the difference; nothing of SPARQL in it |
| `ScopedRead` | 1.6, 1.7, 1.9: the scoped read doors, their grants and spellings, the list of graphs, graph-info and info, and fingerprints, as functions (over `Bindings`) |
| `Bindings` | 1.7: values bound to a query's variables, the answer to a query that has some, and the advice that comes with a refusal |
| `Doors` | 1.5, 1.6: all these doors, and `load`, as functions of a text and a dataset (composes `Footprint`, `ScopedRead` and `Confine`) |
| `TextScan` | 1.7: the scan for nesting, and SPARQL's own grammar as the actions that write a text (external) |
| `AlgebraCost` | 1.7: the measure of an algebra, and the lists the planner may make of it (external) |
| `Answers` | 1.8: the bound of a request, and the answer written piece by piece, collected or streamed |
| `ScopedUpdate` | 1.5: both doors step by step, with the lock, other callers and the time (composes `Confine`) |
| `AtomicUpdate` | the abstract specification of 1.5: an update is applied at once or not at all |
| `EvaluationsProofs`, `WriterThreadProofs`, `SpacesProofs`, `SharedWritersProofs`, `ScopedUpdateProofs`, `AlgebraProofs`, `DoorsProofs`, `AnswersProofs` | the theorems |
| `MCSparqlCases` | the updates, queries, documents and datasets that `Doors` is tried on |
| `MCDoors` | those, `TextScan`, `AlgebraCost` and `Answers` side by side |
| `MCFootprint` | the cases of one update that `Footprint` is wrong about (section 5) |
| other `MC*` | the constants of the instances TLC checks |

`Algebra` is what the modules of 1.5 to 1.7 have in common: `Operations` extends it,
`TermDepth`, `Bindings` and `AlgebraCost` extend `Operations`, `Footprint` extends
`TermDepth`, `ScopedRead` extends `Bindings`, and `Doors` puts them together. The
patterns of a run, with all they are made of, are the constant set `Part`, and each part
has a `Rank` above its own parts: any finite trees (`PatternsAreTrees`). Every walk of the
code over a pattern, and the evaluation of one, is a recursive function with one
definition that says what it makes of a part, given what it makes of the parts in it
(`Reached` and `ReachedOf`, `bindings` and `BindingsOf`, `pattern_probes` and `ProbesOf`,
`Evaluation` and `SolutionsOf`). So TLC evaluates them, and theorems about them are
proved by induction along the rank (section 4).

### How state and actions correspond to the code

**Evaluations.** `caller[r]` is where the thread of the caller stands in
`DurableStore::evaluate` and `on_its_own_thread`, `worker[r]` where the thread of
the evaluation stands. Steps are the critical sections of the two mutexes and the
calls between them. While a caller is `"givingUp"` or `"counted"`, or a worker
`"committing"`, it is inside the state mutex (`StateFree` is the guard of whoever
needs it): that is what makes giving up and counting oneself overdue one thing to
`Hold::drop`, and settling and committing one thing to the caller. The counts are
the code's record, with a map of tallies per caller; an absent entry is the empty
tally. Elapsed time is the flag `late`: it may be raised at any moment from the
first step to the last, so the budget includes the wait for a slot. A caught panic
is the outcome `"err"`. `WakeUp` is a timeout of the wait and a spurious wakeup
alike. A `TimeBudget` belongs to one clone of a `DurableStore` while the counts
are shared by all; the model gives all clones one budget.

**WriterThread.** `threads` is every thread there ever was; the last is the one in
the `Writer`'s slot, the others finish their queues. `at[w]` is the life of a
write. A write's data is the set of writes it read under the lock, so a write that
read before another wrote, and writes after, loses it visibly. After the commit the
dataset is counted for the answer; a caller whose write is in and could not be counted
is told `"uncounted"`, which is an error to it (section 5). Each write is asked
for once; sizes are small numbers in place of bytes, rounded as the code rounds
(next power of two, clamped, raised to the need). The branch of `submit` for a
thread that died is unreachable (jobs catch panics) and left out.

**Spaces.** A kernel is identified with the space it was bound through. Answers
carry no data: an answer is current until somebody writes a graph it reads. The
kernel and its cache are external and modelled as this crate uses them: an answer
that may be cached is stored unless a cut came in between, and a successful write
served by the kernel itself cuts its cache in a later step. The window between
the two is bounded and accepted by the code; what must not exist is staleness
nobody will end (`NoUnboundedStaleness`). `BindsOverlapDrops` and
`ReadsOverlapDrops` say what a host may do at once (section 5).

**SharedWriters.** A line is the lock and the thread that go together. Weak
references are modelled by who still holds the strong ones (`Alive`); the window
in which one of the two can still be upgraded and the other not is there. The two
Arcs of a dropped `DurableStore` go in one step. The registry's mutex is the
variable `registry`. The host keeps its handle, so an address is not reused.

**Algebra, Operations, Footprint.** A pattern is a record named for spargebra's variant, an
update a sequence of operations, a term its name and the depth to which it is
wrapped in triple terms. `Evaluation`, `Evaluated`, `Effect` and `Execute` are
oxigraph's, written from SPARQL's definition over sets of solutions: a store is a
set, so how often a solution occurs cannot be seen in it. The rest is this crate's.
Operators the code treats alike are one: `modifier` is DISTINCT and REDUCED, `or`
any function of several arguments, `not` any of one. A `VALUES` block has one
variable. `false` of a walk, "observes the graph as a whole", is a probe for
everything. LIMIT (which solutions it keeps is not defined by SPARQL, and may differ
between a copy and the graph) and LATERAL are measured and not evaluated. SERVICE
reaches one other machine, `Remote`, so that what a SILENT one would have brought
can be told from nothing. COPY, MOVE and ADD are rewritten by the parser.

**ScopedRead** is what stands between a `graph` argument and the evaluator, over the
same patterns. A spelling is a list of tokens and whether its spacing is tidy; a
grant is a name matched exactly. Solutions are a set here too, though oxigraph's
merge of several graphs is a bag, so how often a row is answered is not looked at. A
fingerprint is the set of a graph's quads: hashes are taken not to collide.

**Doors** has the steps `Send` (an update), `Ask` (a query), `Load` (a document)
and `Reply`, and no state but the case: its operators are the doors, from the text
to the answer.

**TextScan.** A text is grown token by token by SPARQL's grammar, which knows what
each bracket is (`opened`) and how deep it ever was (`nested`): that is what the
parser recurses on, and it is external. `deepest` is the code's scan, a set of
readings advanced a character at a time. A character that a name may hold is "a".

**AlgebraCost.** `walk` is the code's recursion over patterns, expressions and paths as
one recursive function: `join`, `expression` and `path` say what it makes of a part,
given what it makes of the parts below. `nodes` and `widest` are
the code's accumulators, `operands` what its `join` returns. The code's loop over `todo`
adds up what each wrapper passes on, which the model does by recursion. `Lengths` are
the lengths that a pattern may come to in the list it is planned in, whichever wrappers
the planner erases; `Widths` those of all the lists in it, `Depths` how far down the
evaluator may be.

**Answers.** A row is the widths of the pieces it is written in; a place is a row
and a piece, and the writer holds places, so that a lost or doubled piece shows.
`source` is the snapshot and `store` goes on changing (`Write`); `stood`, which no guard
reads, is what the store has held from the request to the snapshot. A refused piece may
be reported by the serializer or not (`RefusePiece`): the writer remembers it. The
time may be up at any step (`Expire`); a stream looks between items, the caller of
a collected answer leaves. A request's three bounds are computed from bases,
ceilings, grants and arguments as the code does.

**ScopedUpdate** is the same doors as their steps under concurrency, where what an
update computes, observes and names is a constant with its assumption. `Lock` is
`write_lock()` on the writer thread (1.2 is about how it gets there). `TimeOut` is any
`deadline.check()`, the refusal to settle, and a failure of the storage before the commit.
`CommitInPlace` commits the writes of a transaction, not the dataset it saw, and counts
the dataset then, which may fail (`uncounted`). A refusal says why (`refused`, `failed`,
`escaped`), not in words.

## 3. Runs

All runs finish within four minutes on two workers, most within one; `doors` takes
about two minutes.

| run | instance | what it shows |
| --- | --- | --- |
| `evaluations_counts` | two reads and an update of one caller, cap 3, default reserve and share (so pool 2, share 1) | counters, bounds, write/answer agreement, refinement of `SlotPool` |
| `evaluations_reserve` | reads of two callers and the host, cap 2 | no lost wakeup; the reserve; what refusals say of whom |
| `evaluations_live` | two reads of one caller, cap 1, fairness | every caller is answered |
| `writer_threads` | two calls, an update that needs a larger thread, and two nested updates, one of which needs a larger thread still; fairness | no lost update, stacks, answers |
| `spaces_handshake` | three interchangeable spaces, two graphs, one of them declared | the handshake and freshness |
| `shared_writers` | two handles (one the host opened, one a declaring store gave out), two writers asking for different graphs, three lines | serial transactions, registry, promise, refusals |
| `doors` | four stages, each by itself. Updates, queries and documents, some 3200, on 21 datasets; every text of up to four tokens after three beginnings; every wrapper around every wrapper around six patterns, and joins of those; answers of stores of up to three rows under a base, a ceiling and grants of six callers, collected and streamed | the footprint suffices; no other graph read or answered as empty; a write-only caller learns nothing, a reader nothing of what it has no grant for; terms do not grow; fingerprints see every change; advice works; texts and plans stay within bounds; answers are whole or refused, and refused exactly for their size |
| `scoped_update` | two callers, 10 updates through either door, two graphs and the default one, copies of at most one quad | one graph is changed; refinement of `AtomicUpdate` |
| `footprint_by_name` | ten updates that delete by what a GRAPH finds, whose name a VALUES inside lists for all, some or none of its solutions, on 16 datasets | the copy is not enough for one kind of update (section 5) |
| `evaluations_count_fails`, `writer_nested_call`, `spaces_bind_in_drop` | | the other disagreements of section 5 |

**Why the bounds are enough.** In `Evaluations`, requests of one caller only meet
through the counts; two reads and an update give a read that is overdue beside one that
waits and an update that is overdue with no slot, and the settings are chosen so that
cap, pool and share all differ. Requests are made again after they ended (`AskAgain`),
so counters that drift show. In `Spaces`, a violation takes one space that caches, one
that writes and one that is dropped or refused; spaces are bound again by new kernels.
In `WriterThread`, two generations of replacement occur. In `SharedWriters`, three lines
let two be alive while a third is made. The theorems of section 4 remove the bounds for
everything but liveness and the scan of texts.
The stages share no state, so their states add up (some 350,000) and are not multiplied.
In the stage of the store, a graph holds any of four triples that make a cycle of one
predicate, an edge of another and a nested term, beside none or two quads of another
graph or one of the default graph; updates are made of patterns three operators deep
(every pair of a basic pattern or a VALUES block under each binary operator, all of them
under each unary one, those again beside a VALUES block or an OPTIONAL), of every way to
name a graph with every place to read one, and of pairs of the operations without a
WHERE, in both orders. A rule of `footprint` is about one operator and what its operands
say of a variable, so a wrong one shows within an operator and its surroundings. The
queries are every form over each way to reach another graph (by name, by a variable, in
EXISTS, MINUS, OPTIONAL, a path, an aggregate, an order, a sub-select, by FROM), and
every set of graphs is asked for in nine spellings under nine capabilities, root, the
pattern of grants and the broad grant among them. Of texts, the three beginnings put
what follows into a group, a triple and the arguments of a call after an operand, where
a `<` reads differently; four tokens make every pair of neighbours around every bracket,
past the bounds of three brackets and two terms. Of patterns, a rule of the walk is
about one operator, so two around a core show what it passes on and what it closes;
these, and all they are made of, are the `Part` of the run. Of answers, stores have an
empty piece, a row wider than the bound and as many bytes as the bound, and hosts ask
for nothing, for a bound that is allowed and for more than is. In `scoped_update` a copy
may have one quad, so that both sides of the bound occur.

`TypeOK` is checked in one run of a module at most; those of `Evaluations` and
`Spaces` are proved and not run.

**Deadlock** is checked everywhere but in `WriterThread`, where each write is asked
for once and the system stops when all were answered.

**Fairness.** `Evaluations`: threads that can run do (the steps between two blocking
calls), a budget runs out, and a waiter whose timeout passed wakes. Nothing is
assumed of the evaluation (`FinishWork`, `Settle`: oxigraph may never return), of
when a queued job is begun, or of spurious wakeups. So the answer a caller gets
rests on its own timeout alone, or, once its update settled, on the commit
returning. `WriterThread`: a thread goes through its queue, a begun job goes on to
the lock and returns, a budget runs out. The writes are finitely many, so weak
fairness of `TakeLock` does not ask the mutex to be fair. In
`evaluations_live` there are reads only; that updates are answered is checked
in `writer_threads`, where the thread and the lock they wait for are.

## 4. Proofs

The safety properties the passing runs check are proved for every value of the
constants that satisfies the named assumptions, except `TextsAreAdmittedByTheirNesting`.

**EvaluationsProofs** (any requests, callers, cap, reserve and share).
`TypesAreCorrect`. `PhasesHold` is the inductive invariant: for each request,
where its caller and its worker may be at once (`Together`), that an evaluation
is Abandoned only by its caller and before its worker let go (`GivenUp`), and what
outcome, answer and transaction have to do with the state (`Settled`). A step of
one request leaves the others in their phase, except that it may wake a sleeping
reader (`Left`), so each action is examined for its own request only.
`TimeoutsWroteNothing` and `WritesAreTold` (the latter if the count after the
commit does not fail) follow. `CountersAreTrue`: `TakeSlot`, `CountAbandoned` and
`ReleaseHold` are the only steps that change the counts, and they change the set
of holders or of the overdue by the same request; `OneMore` and `OneLess` say what
that does to cardinalities per caller, and that nothing saturates. The other
steps change neither. From it, `SlotsStayBounded`, `HostKeepsItsReserve` (reads
that fill the cap must include as many of the host's as its reserve, because the
others fit the pool), `WakeupsAreNotLost`, `RefusalsSayTrue` (what a refusal quotes
is the cardinality of the set it describes), and `PoolIsImplemented`: every step is
a step of `SlotPool` or a stutter.

**WriterThreadProofs.** `WritesAreNotLost`. The strengthening says that only the
holder of the lock is between reading and writing, and that what it read is still
the dataset. `TypesAreCorrect`. `JobsFitTheirStacks`: the sequence of threads is
typed and strictly growing, and each of the three things that happen to it (a larger
thread, one more job, one job less) keeps every job on a stack that holds it. It
rests on `PowersReach`, that the next power of two exists, which is arithmetic the
prover has no induction for and TLC evaluates.

**SpacesProofs.** `SpacesAreCounted` (and the types) for any number of spaces.
`CachedReadsAreAlone` and `SlatesAreClean` under `~BindsOverlapDrops`: a space
whose flag is raised, or that has cached, is the only bound one, and nobody can
become bound while the flag is up. `CachedReadsAreFresh` also under
`~ReadsOverlapDrops`: whatever is current and about to be cached has no one beside
it who could write unseen, except a sharer that keeps its promise.

**SharedWritersProofs.** `TypesAreCorrect` and `RegistryIsComplete` (every line
that is alive is in the registry with what may be written through it: the
invariant everything else needs), from which `WritersAreSerial`,
`DeclarationsAreKept` and `RefusalsAreFinal`.

**ScopedUpdateProofs** (any callers, graphs, triples, updates, datasets). The
inductive invariant `IInv` adds to the types that whoever is past the lock holds it
(`Controls`) and that its copy or snapshot is of the dataset as it is now, and what
it ran is the update's outcome on that (`CopyIsCurrent`); a step of one caller
leaves the others theirs, because only the holder of the lock writes (`Orderly`).
`TypesAreCorrect` follows, and `OneGraphIsChanged`: the difference of a copy that
nothing escaped lies in the graph (`TheDifferenceStaysInItsGraph`), whatever the
update computed. `TheDoorsAreAtomic` is the refinement. It rests on
`FootprintSuffices`, the assumption that an update computes on what was copied what
it computes on the whole graph; with it, `TheDifferenceReplacesTheGraph` shows that
applying the difference replaces the graph by what the update makes of all of it,
and that the quads counted are those gained and lost. The assumption is about SPARQL, of
which this module knows nothing. `DoorsProofs` proves it for SPARQL under the same name,
of every update but those that list the name of a GRAPH, of which `Update` is to have
none; TLC evaluates it for the updates of `scoped_update`.

**AnswersProofs** (any stores, hosts, callers and pieces). `AnswerInv` says, for each
phase, which places the writer holds (all the lines before this one and so many pieces
of it, of a stream only the latter) unless it has refused one (`Writing`); what the
caller was given (`Told`); that a line past the bound on rows is never begun
(`Counted`); and that what is held, reserved and spent fits the bound (`Reserved`).
`OfItsTime` says that the store holds, until the snapshot, one of the states it is known
to have held since the request came, and that the answer is of one of those.
`AnswersAreWhole`, `RowsAreCounted` and `MemoryStaysBounded` follow, the last with
`BoundIsBounded`: no base, ceiling, grant or argument takes a bound past what any host
may allow. `BytesAreCounted` is about the sum over the places of a text: what the writer
has taken is the bytes of the pieces it holds, so an answer refused for its bytes is
longer than its bound written in full, and one that is whole is not. With it
`SizesAreExact`: refused for its size exactly when it is larger.

**Induction.** The prover cannot instantiate an induction theorem that takes an
operator, so induction is stated for sets: a set that holds 0 and the next of each of
its numbers holds them all (`AllNumbers`), and one that holds each element whose lower
ones it holds, by a rank, holds them all (`ByRank`, from the well-foundedness of the
numbers; `ByPatterns` and `ByPaths` are it for parts). A property is proved of everything
by the set of what it holds of. That a recursive function is what it was defined to be is
proved once: `Recursion` says that a function defined along a rank exists, and `Computed`
says it of all the steps of `Algebra`, `Footprint` and `Bindings`, which are numbered as
cases of one operator `Step`, if the step of a part looks at lower parts only (`Local`).
`ReachedStep`, `BindingsStep`, `ProbesStep`, `EvaluationStep` and their like are then what
the proofs cite in place of the definitions.

**AlgebraProofs** (patterns of any shape and size; any bounds, graphs and datasets; under
`PatternsAreTrees`).
`PlansAreBounded`: the operands counted of a pattern are the largest of its `Lengths`
(`OperandsAreLengths`), because a wrapper that stays is one operand and every pattern
counts at least one; so the wider of what is counted around a part and inside it bounds
all its `Widths` and is one of them; and each level the evaluator goes down is an operator
that was counted (both `WidthsAreCounted`). The bound on widths is not only safe: some plan
attains it.
`CertainIsCertain` and `ConfinedIsConfined` are what the doc of `Bindings` says of the two
lists, for each solution of a pattern: `certain` variables are bound, to one of the IRIs
listed; `confined` ones are if they are bound at all. The second needs that a variable out
of scope is not bound (`SolutionsAreInScope`), for the side that cannot bind what the
other one confines, and that no GRAPH in the pattern binds a name that is listed inside
(`ListsNoName`), which is what the code gets wrong (section 5).
`FoundOnCopies`: a pattern none of whose probes sees a triple that is missing from a copy
has the same solutions on the copy, in an EXISTS, on the right of a MINUS or an OPTIONAL,
under GRAPH and through paths. A basic pattern in a join is probed for what its sibling is
certain of, so it may have fewer solutions on the copy, and only the join has the same: a
solution that is lost is one that no solution of the sibling joins.
`ShownAndHidden` relates the two ways in which a variable is looked for: one that is in the
scopes of a pattern and not in its own is under an EXISTS, a MINUS, a sub-select or a GROUP.

**DoorsProofs** (any datasets, grants, spellings, queries and documents; updates of any
length). An update is run an operation at a time (`RunsStepByStep`), and each of the
following carries something along the run. `TypeCorrect`. `FingerprintsAreExact`:
between what a door finds and leaves, exactly those reserved graphs have changed whose
readers would see it. `WritersLearnNothing`: what the doors run for a caller who may not
read is made of operations that do not look at a graph, and are SILENT on the one they
could fail for (`SilencedIsMute`); such a run never fails and adds the same to any two
datasets, so the broad door answers alike on all of them, and the scoped one on those
that differ in the caller's graph alone. `TermsStayShallow`: a term that is new and too
deep agrees with a probe of an insert template, so the broad door finds it, and the
scoped one has its difference in hand; that an update which cannot construct a triple term
stores none deeper than it found or spells out is `BuildsNothingDeep`.
`ReadsAreConfined`: what a caller hears is a function of the graphs it has grants for,
because a query is answered from the graphs it sees (`AnswersAreOfWhatIsSeen`).
`ReadsMeanWhatTheySay`: no named graph is answered as if it were empty, since one outside
the set is refused before, and by GRAPH a query reaches only those it names
(`NamesAreAllThatIsReached`).
`FootprintSuffices`: the copy is enough, for every update that does not list the name of a
GRAPH, every graph and every dataset. No probe sees what is left out (`NoProbeSeesTheRest`),
so every WHERE finds the same on the copy (`FoundOnCopies`), nothing that is left out is
deleted (`ConfinedIsConfined`), and each operation leaves two datasets that differ by it
alone. `CopiesAreEnough` is it for every case of `Doors`. From it `NothingElseIsRead`: an
update that spells out its graphs does to its graph through the scoped door what it does
through the broad one; a WHERE reads what it names (`WheresReadWhatTheyName`).
`AdviceWorks`: a caller is told to write SELECT * only of a variable that would then be in
scope, or that a sub-select or a GROUP closes, and is told to name it in a pattern only
where SELECT * would not help.

What is assumed is named. `PatternsAreTrees`; that the default graph and the machine that a
SERVICE reaches are no IRIs of graphs (`DefaultIsNoIri`, `RemoteIsNoGraph`); that bounds
are numbers (`BoundsAreNumbers`); what the parser and oxigraph keep to (`InputsAreParsed`:
operations and queries have their fields, LIMIT and LATERAL are not evaluated, a quad's
graph is registered); and that no text or dataset begins with a term past the bound
(`NothingIsTooDeepYet`, which is the scan's to see to, and of texts is model-checked).
Nothing is assumed of the evaluator but its definition in `Algebra` and `Operations`.

**Only model-checked.** Liveness (`EveryCallerIsAnswered`, `EveryWriteIsAnswered`) is
out of the prover's reach, as is `ENABLED`; so is the arithmetic by which the next power
of two exists (`PowersReach`), which is an assumption that TLC evaluates.
`TextsAreAdmittedByTheirNesting` says that among the readings of the scan, a fold over
characters with some look-ahead, is one at least as deep as that of a grammar whose tokens
are constants of the run; a proof would be about the characters of arbitrary tokens, and it
is checked on every text of up to four of them.

## 5. Where code and text disagree

Four runs are expected to find a violation.

- `spaces_bind_in_drop`: the last drop counts itself out and lowers the flag in
  two steps. A space bound in between can have a read cached before the flag is
  lowered; a later bind then sees no flag and is let in beside it. The doc of
  `bound_into_a_space` says "never a cached read beside a writer it cannot see",
  in every interleaving. It is true when no bind overlaps a drop (proved).
- `evaluations_count_fails`: after the commit the broad update counts the quads
  for its reply and returns that scan's error as its own. The write is in all the same:
  in `WriterThread` and `ScopedUpdate` it is, for a caller told `"uncounted"`.
- `writer_nested_call`: a nested call is refused only while its asker's thread is
  the one in the `Writer`'s slot. After a larger thread took over it is queued
  there and waits without a deadline for the lock its asker holds.
- `footprint_by_name`: what a footprint knows of the variables under a GRAPH is what the
  pattern inside says of them (`src/src/confine.rs:625`). But `GRAPH ?g` binds `?g` to the
  graph's name where a solution leaves it unbound inside, as in `GRAPH ?g { { ?x q ?y }
  OPTIONAL { VALUES ?g { H } FILTER(false) } }`. A template `?g p ?y` that deletes is then
  probed for H only, so a quad about the graph itself is not copied, and the update is
  applied without deleting it. The doc of `Bindings` says "Every solution binds it to one
  of these or leaves it unbound" (line 550) and "each rule below may only drop an entry it
  cannot prove, never invent one" (line 543), that of `Footprint` that an update is run
  against "all it needs to" (line 448). Of every other update it is proved: those
  that `NameIsListed` describes are the only exception of `FootprintSuffices`.

Two more have no run. Coverage is asked after the read was evaluated
(`src/src/endpoints.rs:655`), so a second space that wrote meanwhile and is gone is not
seen. It can be seen by setting `ReadsOverlapDrops = TRUE` in `MCSpaces.cfg`, with
`NoUnboundedStaleness` as its only invariant; otherwise it is proved absent
(`CachedReadsAreFresh`). With binds overlapping drops, `SlateIsClean` fails
too: a bind about to be refused is counted for a moment, so the drop of the last
space does not see itself as the last and leaves the flag up
(`src/src/store.rs:526`; the doc of `spaces_bound` says "once every space is
dropped the slate is clean again"). It can be seen by setting
`BindsOverlapDrops = TRUE` in `MCSpaces.cfg`, with `SlateIsClean` as its only
invariant.

Two more are of the wording of refusals.

- `no_slot` says of the evaluations that fill a bound that "none ended within this
  request's time budget". One may have: a waiter that is woken by its slot and finds
  it taken by a read that came later waits on, and then says that nothing ended
  (`src/src/budget.rs:1683`, `reserve`). The counts it quotes are true
  (`RefusalsAreTrue`).
- `query_error` names every bound variable that only an EXISTS or a MINUS mentions,
  not the one that was refused. With several values bound, the one refused may be
  another (`src/src/endpoints.rs:909`); `BindingAdviceWorks` is about one.

## 6. Plan

1. *Done:* the coordination core (sections 1.1 to 1.4), with proofs.
2. *Done:* the updates (section 1.5), with proofs.
3. *Done:* texts, their algebra, egress, bindings, spellings, fingerprints and answers
   (sections 1.6 to 1.9), in the run `doors`, with proofs.
4. A composition of `WriterThread` and `Spaces`: a write that is committed on the
   thread and cut by the kernel after the reply.
5. Solutions as bags in `ScopedRead`, to say how often a row is answered.
6. *Done:* `AlgebraCost` as recursive functions along a set of parts, with proofs.
7. *Done:* `Algebra`, `Footprint` and `Bindings` in the same way, so that the doors are
   proved about with SPARQL's evaluator and not for one that is assumed to behave.
8. The scan of `TextScan` against the grammar, proved: that among its readings is always
   one as deep as the grammar's own.

## 7. Not modelled

WebAssembly builds (no threads: every path runs inline). Content negotiation,
descriptions and wording, but for what a refusal counts. How often a row is answered.
The evaluation of LIMIT and LATERAL. The scan of loaded RDF text for nested terms
(`depth.rs`; its verdict is taken to be right, which syntaxes are let in is
modelled), and the stack sizes in bytes, which are measurements. The quoting of
literals and IRIs into SPARQL (`sparql.rs`) and the parsing of settings
(`config.rs`): functions of one string whose tests enumerate the cases a model would.
Collisions of fingerprints. The second copy of a dump that is sorted. Crashes:
durability and atomicity of a commit are RocksDB's; this crate keeps nothing else on disk.
