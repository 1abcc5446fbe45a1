# sqlite-migrate in TLA+

A verification development kept beside
[mdg-labs/sqlite-migrate](https://github.com/mdg-labs/sqlite-migrate): TLA+
modules of the parts of the tool that keep state or race, TLC configurations
that check them on small instances, and theorems checked by TLAPS.
Paths are those of the repository; `runner.go:231` is a line of it.

## The system

sqlite-migrate keeps a SQLite schema in `schema.sql`. `generate` compares it
with what the existing migration files produce and writes the next migration
file; `check` verifies the files; `apply` takes a snapshot of a database and
runs what is pending in one transaction; `status` and `verify` report.
`Runner`, `Snapshot` and `LoadDir` are also a Go library that programs embed.
There is no daemon and no lock of its own: commands run as processes that share
a migrations directory, a snapshot directory and a database file.

| component | state it keeps | operations | hard behaviour | what makes it correct |
| --- | --- | --- | --- | --- |
| Runner (`runner.go`, `cmd/…/apply.go`) | `schema_migrations` rows and the schema, in the database | `Apply`: snapshot, `BEGIN`, plan, run, record, check, `COMMIT` | several appliers under SQLite's locks in two journal modes, the application writing, failures, crashes | a row exists iff its migration ran, whole, once; a batch is atomic; success means everything is recorded; calls return |
| Migration files (`migration.go`, `checksum.go`) | the migrations directory | `Load`, `LoadDir`, `Checksum` | files edited or deleted between and during calls | order by version, no duplicate version, checksum identity |
| Snapshot (`snapshot.go`) | the snapshot directory, `snapshotClockLast` | reserve a name, `VACUUM INTO`, fsync, rename, fsync the directory, prune | calls and processes sharing a directory, crash or power loss between any two file operations, a clock that steps back | a snapshot is whole, never replaced, and there when its apply begins; a durable one always remains |
| generate, outer part (`cmd/…/generate.go`) | migration files | `readJournal`, `verifyCandidate`, `nextTimestamp`, `writeMigrationFile` | concurrent runs, a file written in place, the wall clock as version | the journal grows at its end and reproduces `schema.sql` |
| generate, inner part | none | rename resolution, destructive gate, `buildMigrationBody` | two rename passes, refusals, routing to `ADD COLUMN` or a rebuild | no column or table lost without consent; a safe change is generated |
| `schemadiff` (`internal/schemadiff`) | none | `Parse`, `Diff`, `Classify` | – | destructive iff a table or column is gone |
| `rename` (`internal/rename`) | one buffered reader over the input | `Detect`, `ResolveCandidates`, `Confirm` | greedy one-to-one matching, two passes over one input, an input that ends | no name in two questions, each question its own answer, nothing dropped without consent, every run ends |
| `rebuild` (`internal/rebuild`) | none (emits SQL) | `Generate`: order, copy, drop, rename, preserve | cyclic references, views and triggers over several tables, rowids, AUTOINCREMENT | the script runs; no row, rowid, index, trigger or view lost |
| check (`cmd/…/check.go`) | none | header checksums, replay, compare | – | what passes can be applied |
| verify and drift (`drift.go`, `cmd/…/verify.go`) | none | `ReplaySchema`, `CaptureSchema`, `diffSchemaObjects` | – | no drift is reported iff there is none |
| status, dry run (`cmd/…/status.go`, `apply.go`) | none | reports | prediction may be stale | a clean status means no drift |
| `sqldefwrap` (`internal/sqldefwrap`) | the masker's placeholders, during one `Diff` | mask, quote, ask sqldef, restore, fold | walkers that find names and expressions in a text without its grammar | exactly the names and expressions sqldef rejects are hidden from it, and all come back in place |
| `sqlident`, `main.go` | none | quoting, dispatch | – | – |

The components meet in three places: `generate` writes the files `apply` and
`check` load; `Apply` calls `Snapshot` before it begins its transaction; appliers
and the application meet in SQLite's locks.

## Modules

| module | what it is |
| --- | --- |
| `Migrations` | the data of Runner: journals (version → body), bookkeeping rows, the contents of a database, and the pure functions of `runner.go` on them (`Pending`, `Mismatched`, `Missing`, …) |
| `Ledger` | abstract: a database that changes by whole batches (`ApplyBatch`) and by writes of its application; no process, lock or transaction |
| `Runner` | `Runner.Apply` by any number of processes; implements `Ledger` |
| `RunnerProofs` | theorems about `Runner`: those that need no lock (types, bookkeeping), then those that need SQLite's locks: `Runner` implements `Ledger`; the order in which migrations run |
| `Snapshot` | `Snapshot` and `pruneSnapshots`, one action per file operation |
| `SnapshotProofs` | theorems about `Snapshot` |
| `Journal` | the migrations directory under `generate`, `check`, `apply` and developers, and what `status` and `verify` report of it |
| `JournalProofs` | theorems about `Journal`: types, the order of its files, and on top of them what replaying a journal computes |
| `FoldProofs` | induction and recursion over finite sets, for theorems about folds |
| `Body` | `Diff`, `Classify`, `buildMigrationBody` and `internal/rebuild`, and the body they yield, run statement by statement |
| `BodyProofs` | theorems about `Body` |
| `Renames` | `Diff` and `Classify` on names, rename detection, the prompts, and the two passes of `generate` |
| `RenamesProofs` | theorems about `Renames` |
| `Tokens`, `Quoter`, `Masker` | the walkers of `sqldefwrap` over the words of a statement (`quote.go`, `expr_mask.go`) |
| `Grammar` | external: SQLite's grammar of `CREATE TABLE` as a transition table, which the walkers must agree with |
| `Sqldef` | `sqldefDiffer.Diff` on every text of that grammar up to a size |
| `WalkerProofs` | lemmas: each walker is, on every text of the grammar, where it should be |
| `SqldefProofs` | theorems about `Sqldef` |
| `MCRunner`, `MCSnapshot`, `MCJournal`, `MCBody`, `MCRenames`, `MCSqldef` | definitions for TLC: symmetry sets, which call runs in which process, families of edits, placeholders |

`Runner` composes `Migrations` with SQLite's locks and refers to `Ledger` by
`INSTANCE`; its action `Backup` stands for all of module `Snapshot`, whose
action `Apply` stands for all of module `Runner`. `Journal` has the whole of
`Runner` as one action `Apply`, which is what the refinement of `Ledger` allows;
its `ReadJournal` stands for all of modules `Renames` and `Body`, whose outcomes
`failed` and `refused` are its `Refuse`. `Body` starts where `Renames` ends: its two
schemas are what is left to do when the confirmed renames have been replayed. Its
`AddColumns` stands for all of `Sqldef`.

### Runner

`pc[p]` says where a process is in `Apply`. `Load` is `RunApply` up to the call;
`Backup` the snapshot (`runner.go:231`); `BeginReading`, `WaitToCreate` and
`BeginWriting` are `BEGIN` (deferred) with its first statement, `CREATE TABLE IF
NOT EXISTS`, which writes only if the table is missing; `Plan` and `RefusePlan`
are `pendingAgainstRecorded`; `Execute`, `RefuseNul` and `Record` are the loop
body; `Check` and `RefuseOrphans` the two checks; `Commit`; `Restore` the
`PRAGMA foreign_keys = ON` afterwards. `Return` is every `return` with the
deferred `Rollback` and `Close`. `Fail`, `RestoreFails`, `WaitTimesOut` and
`Crash` end a call at any statement.

SQLite is external. The operators `MayRead`, `MayWrite`, `MayUpgrade` and
`MayCommit` state what its locks admit: one writer; in rollback mode a committing
writer waits for readers and admits no new one; in WAL mode readers never block,
and a reader whose contents are out of date is refused the write lock. A reader
that wants to write gets `SQLITE_BUSY` at once (`UpgradeBusy`), because waiting
could deadlock; other waiters wait for `BusyTimeoutMillis`. The journal mode is a
variable that never changes (`wal`), so each run covers both.

A database is reduced to `table`, `rows`, `log`, `orphans`, `app`. The `log` is
the sequence of bodies that ran: schema and data are a function of it, so two
databases with equal logs are equal as far as the tool is concerned. A body is a
model value and stands for its checksum. A body with a NUL byte runs in part if
it is executed; bodies may leave or repair rows that violate a foreign key.

### Snapshot

A file name is its timestamp; the record `fs[n]` holds what the final and the
temporary name of timestamp `n` refer to. `disk` is the directory as of the last
directory sync; after a power loss each name is as in `fs` or as in `disk`, and
data that was not synced may be cut. `Stamp` and `Create` are
`reserveSnapshotName`; `VacuumBegin` and `VacuumEnd` bracket `VACUUM INTO`;
`CreateFails` is an open that fails for another reason than a name that is taken;
`Abandon` and `Discard` are the clean-ups before and after it has begun (also when
`VACUUM INTO` meets a temporary file that a crash has left); `List`
and `Prune` are `pruneSnapshots`, which reads the directory once and then removes
file by file; `Warn` is a `SnapshotWarning`, after which `Apply` goes on.
Simplified: all names are of the present format (`snapshot.go:223` knows an older one),
`MkdirAll` succeeds, the two removals of `Discard` are one step that succeeds, and a
power loss keeps or loses the two names of one timestamp together.

### Journal

A schema gives each table a shape, and the body of a migration is a set of steps
from shape to shape. A step fails on a table of another shape. `ReadSchema`,
`ReadJournal`, `Refuse`, `PickName`, `Create` and `Fill` are the stages of
`generate` between which other processes run: `os.WriteFile` creates the file
empty and fills it afterwards. How a difference becomes SQL is left to `Body`:
`ReadJournal` yields a body that passes `verifyCandidate`, or `Refuse` declines.
A file holds its body and the body its checksum header was computed over; a
developer's `EditFile` changes the first and not the second. A write that fails leaves
a whole header and some steps (`FillFails`), never half a statement. All files have
names that both `readJournal`, which takes every `*.sql`, and `LoadDir` accept.

`Status(n)` and `Orphans` are the lines `status` prints; `Verify` is the verdict of
`verify`, which replays the whole directory, pending files included, and compares
the schemas. They change no state and are operators.

### Renames

A schema gives each table its columns, each with a type, a place, whether it is
generated (`table_info` does not list those) and `of`, the name it had in the
journal's schema: so the model can say where a column's data went. `Start` is
`generate` up to the first pass, with `Detect`; `ColumnPairs` and `TablePairs` are
the plausible pairs with their scores, `assignGreedy` the choice among them, best pair
first: the last pair is decided after all others, which is how the fold is written.
`InOrder` lists the questions in the same way. `Assume`,
`Answer`, `AskAgain` and `DeclineAtEnd` are the ways out of `Confirm`, or round its
loop; `Fill` is external: `bufio.Reader` takes in a line from a terminal, or as much
as a pipe holds, which the second pass must not lose. The end of the input is for good,
as in a file or a pipe; a terminal may give more lines after Ctrl-D, to the questions
that follow (`prompt.go:64-66`). `Replay` and `RefuseRename`
are `ALTER TABLE … RENAME` on the journal's schema, `SecondPass` the columns of renamed
tables, `Gate` the destructive gate. `nameSimilarity` is the constant `Similarity`.

### Sqldef

A text is a sequence of words. `Grammar` says what may follow at each place of a text:
a symbol, which is a word with the role the grammar gives it, the parentheses that are
open behind it, its column, and, in an expression, the words so far. `Write` goes
along these arcs, each at its cost, until `Budget` is spent. `Masker` and `Quoter` are
the two walkers, operator by method, and see the words alone. The code has a program
counter, local variables and a stack of calls; a walker is a record of these (`at`,
`depth`, `then`), and `next` is what the code does with one word. So a method becomes
the places where it waits for a word, and no operator is recursive: `mask` and
`walked` are functions on the places of the text. `Ask` masks and quotes both texts
with one masker; `Answer` is sqldef, which answers when it gets a text it can read,
and may `Refuse`; `Restore` unmasks and folds each foreign key into its column. Texts
come out of `sqlite_master`, so there is no `IF NOT EXISTS`, and callers
(`generate.go:461`, `:539`) send no `CREATE INDEX`; a table is new, or its last
columns are. sqldef takes one `REFERENCES` to a column; a second is caught later, by
`additiveChangeReproducesAfter`. `Grammar` has no type parameters (`DECIMAL(10,2)`), no
column without a type or with a type of several words, and no `ON CONFLICT`, so what
`columnBody` does with a parenthesis outside of an expression is not exercised. Errors
that say that the code's own assumption broke (a placeholder left over, a key of a
column that is not added) are left out.

### Body

A schema gives each table a definition: for each column whether it is there, and
plain, `VIRTUAL` or `STORED`, and the tables its foreign keys refer to; the column that
is an alias of the rowid, if any; `WITHOUT ROWID`; `AUTOINCREMENT`; its explicit
indexes; and `rest`, which is everything else in its text. A view or trigger is
the set of relations its text names. An edit is a pair of schemas. `Generate` is
`generate` from `Diff` to the body: `Destructive` is `Classify`, `NeedsRebuild`
the routing (`needsRebuild` looks at `table_info`, which lists no generated column; so
new columns that are all generated mean a rebuild, while next to a plain one a
generated one goes through `additiveChangeReproducesAfter`, which replays `ADD COLUMN`
on an empty table), `Direct` and `Statements` the statements in their order, `Affected`,
`Dropped` and `Recreated` the treatment of triggers and views in `preserve.go`,
`OrderByDependency` that of foreign keys, `Carried` and `NewRow` the copy. A statement
has a phase, the place of its table in it and a step; `todo` is the set of those that
have not run, and the next one is the first of them in that order (`Due`). Then
one action per kind of statement runs the body on a database with rows. That is
`verifyCandidate` (which runs it on empty tables) and `apply` at once: if a
statement `Fails`, `generate` refuses to write the file; but for `ADD COLUMN`
(`AddRefused`), which fails only on a table with rows, thus in `apply`.

What SQLite does is external and was read off its behaviour: `RENAME` compiles
every trigger and view first (`Compiles`), `DROP TABLE`, `ADD COLUMN` and `CREATE
VIEW` look at none, `ADD COLUMN` adds a `STORED` column to an empty table only,
dropping a relation drops its triggers, and the name of an index is taken in the whole
database. Other failures that depend on data are left out. Triggers and views of a
journal's schema come from migrations written or completed by hand, or from the
rebuilds before.

## Runs

| run | question | properties |
| --- | --- | --- |
| `runner_safety` | two appliers, application, developer, faults, both journal modes | `TypeOK` `RowsMatchRuns` `OkMeansRecorded` `ImagePrecedesBatch`, and `LedgerSpec`: the refinement |
| `runner_live` | two appliers that retry while files are added | `CallsReturn` `JournalGetsApplied` `ReplayOrder` |
| `snapshot_concurrent` | three calls in two processes, coarse clock that steps back | `TypeOK` `OneOwner` `NeverReplaced` `UndoAvailable` |
| `snapshot_retain` | retention with faults, crashes, power losses | `FinalIsWhole` `UndoAvailable` `SomeSnapshotRemains` |
| `snapshot_pruners` | two processes prune one directory: only the oldest go | `NewestKept` |
| `snapshot_race` | violation | `UndoAvailable` |
| `journal_append` | one generate, a clock that does not step back, faults, apply, one edited file | `TypeOK` `NewestLast` `GeneratedReproduces` `NoDrift` `CheckedApplies` `CleanStatusVerifies` |
| `body_runs` | what generate writes, for all edits below | `TypeOK` `ScriptRuns` `ObjectsFollow` `SchemaReached` `RowsSurvive` `MarkSurvives` `NothingLostUnasked` `ParentsFirst` |
| `body_index` | violation | `SafeIsGenerated` |
| `body_stored` | violation | `AddIsAccepted` |
| `renames` | every edit, answer and end of the input below | `TypeOK` `NothingLostUnconsented` `AnswersInOrder` `OneQuestionPerName` `ProposalsAreStable` `RunEnds` |
| `sqldef` | every text below, through `Diff` | `TypeOK` `SentAsTheGrammarReads` `CommonPartAlike` `AddedAsWritten` |

Bounds, and why they are enough for the cases that matter:

- `runner_safety`: two processes (every lock conflict is between two), two
  versions (a batch of two, and a batch after a batch), three bodies (one that
  leaves orphans, one that repairs them, one with a NUL byte), one edit and one
  write of the application, at any moment. Processes are interchangeable, so
  symmetry is used; not in `runner_live`, where it is unsound.
- `runner_live`: three versions, two edits: a process may find files its
  predecessor did not see. `AppendOnly`, as `generate` adds files.
- `snapshot_concurrent`: three calls, of which two share a process and its
  `snapshotClockLast`; three timestamps, so a second attempt can fail too.
- `snapshot_retain`: one call at a time, retention 1 (the tightest), four
  snapshots. The clock is monotone here: with retention, a clock that steps back
  makes the newest snapshot the oldest by name, and it is pruned.
- `snapshot_pruners`: retention 2, four snapshots, no failures: what two
  listings remove together. As nothing fails, each timestamp the clock has passed was
  that of a snapshot, so one without a file was pruned: `NewestKept` says which these
  may be, and so does not only count what is left.
- `journal_append`: two tables of two shapes, so that a failed write leaves some
  steps of a body; two seconds, so that a file can be ahead of the clock or behind
  it; an edit of `schema.sql` and one of a migration file, at any moment.
- `body_runs`: every edit of one table of three columns (with one that shadows the
  rowid, and one that may be `VIRTUAL` or `STORED`); every graph of foreign keys over
  three tables, of columns that were there, so that all are rebuilt, or of new ones,
  plain or generated, in tables that are rebuilt or altered; two tables that come, go or
  are rebuilt with one index name in two readings; two views and a trigger in any graph
  over two tables, one of them edited at a time, and a view and a trigger edited
  together. Tables are empty or have a gap in their rowids, below the AUTOINCREMENT mark.
- `renames`: four names, of which two pairs look alike, one pair more than the other.
  `Compound`: one table of two columns, renamed or not, becomes any table of two
  columns (of either type) or of three; `Crossed`: two tables become two tables, so
  that each has two candidates; `Hiding`: a generated column or a view has the name a
  rename would take. With both flags, one or none, and up to three lines of input,
  which arrive one by one or together (`MaxLines`).
- `sqldef`: `Budget` 4: each choice but the plainest costs 1 (a further column, clause
  or constraint, a name that is a keyword, an operator sqldef does not know, a function
  or CAST in an expression), space or a comment 3. So a text may have two columns with a
  clause each, two expressions that are masked, a constraint whose name collides, or an
  expression four parentheses deep, and space in any one place. The theorems hold for
  every `Budget`.

`CHECK_DEADLOCK FALSE` in the body runs: a run of generate ends. In the snapshot runs:
a call ends, and time ends at `MaxTime`, after which none can begin. In all other runs
deadlock is checked.

Each property of a passing run has a mutant: an operator that stands before the
definition it would replace, as `PlanFromImage` before `Plan`, and makes TLC find
the property violated.

### Fairness

`runner_live` and `renames` need it. In `runner_live` it is weak fairness of each
process's `Advance`. A process that is scheduled goes on with its next statement;
`apply` has no sleep. That processes start again after a busy error is the user's
retry, and part of `Advance` (`Load`). Nothing is assumed of timeouts, the application
or the developers. `runner_live` has no faults and no timeouts: a batch that fails for
ever is never applied.

In `renames` it is weak fairness of `Step`, all of one process that never waits but
for its input; there a line comes or the input ends, and the lines are finitely many
(`MaxLines`). A user who types nonsense for ever is asked for ever.

## What the violations show

- `snapshot_race`: with retention 1, an apply that lists the directory while
  another has just reserved its name prunes its own snapshot and goes on.
- `body_index`: a redefined index is created before the old one is dropped
  (`generate.go:324-333`), so `generate` refuses any such edit of a table that
  needs no rebuild, although it is safe. The same holds when an index moves to
  another table.
- `body_stored`: a plain and a `STORED` column are added in one edit. `table_info` shows
  the plain one, so the table is not rebuilt out of hand; the replay that decides
  (`generate.go:461-490`) and `verifyCandidate` run on empty tables, where SQLite adds a
  `STORED` column; with rows it refuses, and `apply` fails. The probe with one row
  (`generate.go:448-459`) is for defaults only.

Other things the models show, and which no run is spent on. `verifyCandidate` replays
the candidate last, but `nextTimestamp` may give it a version that sorts earlier, as
when a colleague's file comes from a clock ahead: with `ClockSteps = TRUE` in
`JournalAppend.cfg`, TLC finds `GeneratedReproduces` violated. `apply` never compares
a file with its own checksum header, contrary to `faq.md:25-29`, and `generate` does
not either, contrary to `safety-model.md:107`: only `check` does, which is why
`CheckedApplies` starts from it. Triggers and
views to drop are closed over references in each schema separately
(`rebuild/generator.go:91`), contrary to the comment at 95-98: a view that goes, over a
view that only comes to name the rebuilt table, is left without its source, and `RENAME`
fails. With `Edits <- TwoViewEdits` in `BodyStored.cfg`, TLC finds `DropsAreClosed`
violated. Further, the snapshot is taken before the
transaction, so restoring it also undoes what the application committed in between; a
process that dies in `Snapshot` may leave an empty file under a snapshot's name; two
concurrent runs of `generate` may write one file. And `Diff` sees no edit of a trigger
or view alone: `generate` answers that nothing changed, or, when a table goes with its
views, leaves the views in the journal, where they name nothing and fail every later
`RENAME`. The conditions in `ScriptRuns` (which with `StoredOnRows` also leaves out what
`body_stored` shows, and no more) and `ObjectsFollow` are as wide as this allows.

## Proofs

`RunnerProofs` proves, for every finite or infinite set of processes, versions
and bodies and both journal modes:

- `TypeCorrect == Spec => []TypeOK`;
- `BookkeepingIsTrue == Spec => []RowsMatchRuns`.

`RowsMatchRuns` is about committed contents and is not inductive: `Commit`
replaces them by what a transaction built. The inductive invariant `Inv` adds
`WorkInv`: what a transaction sees is consistent except between `Execute` and
`Record`, where one `INSERT` makes it so, and what is still to do has no row. One
lemma per group of actions shows that `Inv` is preserved; `RunAndRecord` is the
step that matters, and needs that a body without NUL byte runs whole. The proof
uses no lock: that every migration has its row is due to the transaction alone,
while locks decide whether two batches exclude each other, which is part of the
refinement of `Ledger`.

It proves further, for the same constants,

- `ApplyIsAtomic == Spec => LedgerSpec`: `Runner` implements `Ledger`;
- `OkIsRecorded == Spec => []OkMeansRecorded`;
- `SnapshotPrecedesBatch == Spec => []ImagePrecedesBatch`.

Here the locks do the work. `IInv` adds to `Inv`, for each process: `LockInv`, a
transaction that may still write (any in rollback mode, the writer in WAL mode) has read
the database as it is; `ReadInv`, every transaction has read a past state, of which the
database is a growth (`Grown`); `BatchInv`, it has run, in order, the part of its batch
that is no longer to do; `ImageInv`, its snapshot is older still. With `OneWriter`, a
commit replaces exactly what the transaction read: `CommitLedger` makes it an
`ApplyBatch`, and `Outlives` shows that what the others know survives, as the database
only grows. In WAL mode a commit leaves readers with contents that are out of date;
that is why `LockInv` promises nothing to a reader there, and why SQLite must refuse it
the write lock (`MayUpgrade`).

And, if files are only ever added after all that exist
(`AppendOnly`, which `GeneratesAppend` below is about),

- `ReplaysInOrder`: `Spec => []ReplayOrder`.

`ReplayOrder` alone says nothing of a process that loaded the directory long ago.
`OrderInv` adds that the rows, and every journal a process holds, are a `Beginning` of
the directory. A batch is what such a journal has and the rows lack, so it lies behind
all rows (`BatchFollows`); what a commit is, and that it extends the log it is appended
to, comes from `CommitsBatch`.

`SnapshotProofs` proves, for any number of calls and processes, with any failures,
crashes and power losses,

- `SnapshotTypeCorrect == Spec => []TypeOK` of module `Snapshot`;
- `NamesAreOwned`, `SnapshotsAreWhole` and `SnapshotsStay`: if `Safe`, then `Spec`
  implies `[]OneOwner`, `[]FinalIsWhole` and `NeverReplaced`;
- `UndoIsThere`: if `Retain = 0`, `Spec => []UndoAvailable`.

`Safe` is that nothing is pruned, whatever the clock does, or that no two calls can be
given one timestamp. One of the two is needed: a placeholder that another call prunes
leaves its name free, and a clock that repeats itself gives the name out again. `Core`
says of a name what it has on the way from temporary file to disk, and of a call how far
it has brought its own; it is inductive as long as a name without a file is nobody's
(`Free`). That is the only place where the hypotheses matter: `KeepInv` gives `Free` when
nothing is pruned (a name once claimed keeps a file), `ClockInv` when timestamps are
distinct (names at or beyond the clock are unused). A power loss maps a snapshot to a
snapshot (`SurvivorGood`) because `SyncFile` comes before `Rename`, and the image on the
disk and the one in the directory are the same run of `VACUUM INTO`. `UndoAvailable` needs
`Retain = 0` here: `snapshot_race` shows what two calls do to it otherwise.

With retention, for one call at a time (`Alone`: any number of calls after each other,
with any failures, crashes and power losses, and timestamps that are distinct):

- `UndoIsThereAlone`: `Spec => []UndoAvailable`;
- `SomeSnapshotStays`: `Spec => SomeSnapshotRemains`.

The invariant `AloneInv` says that the snapshot of the call that runs is the newest
file of the directory, so it is not among those it prunes, and that it is on the disk,
under its own name, before `List` reads anything: `SyncFile` and `SyncDir` come first.
So while files are removed one by one, and a power loss brings some of them back, one
whole snapshot is always both in the directory and on the disk. A clock that steps back
makes the new snapshot an old one by name, and it is pruned; another call's placeholder
may count as the newest. Both hypotheses are needed.

For calls that prune at the same time, when nothing fails and nobody dies (`Quiet`):

- `RetainedAreKept`: `Spec => []NewestKept`.

`RetainInv` says that of every file a call has listed for removal there are `Retain`
newer ones (`Newer`), and stays true while others prune what they have listed, older
files too, and take snapshots: a file that is removed has `Retain` newer ones itself.
`Accounted` carries this to the end: a timestamp the clock has passed is a file, or has
`Retain` newer ones; `Creating`, that it is the name a call is about to create, is the
only other case, and over when all calls are. Nothing of this counts files in all.

`JournalProofs` proves

- `JournalTypeCorrect == Spec => []TypeOK` of module `Journal`;
- `GeneratesAppend`: if no clock steps back and there is one generate at a time,
  `Spec => NewestLast`.

The inductive invariant `Appending` behind it has two parts. `NoGap`: every second
from the clock to the version of any file is taken by a file, so the first free
second is beyond all files. `NameIsNext`: it remains so until the file is written,
as only one process creates files. Both hypotheses are needed: with `ClockSteps`
a file is inserted by a generate whose clock is behind, and two processes may pick
one second.

It proves further, under the same two hypotheses, that `Spec` implies

- `JournalReproduces`: `[]GeneratedReproduces`;
- `DatabaseHasNoDrift`: `[]NoDrift`;
- `CheckedJournalApplies`: `[]CheckedApplies`;
- `CleanStatusHasNoDrift`: `[]CleanStatusVerifies`.

They are about what a replay computes, for journals of every length. `RunAll` folds a
finite set of files, the latest last; `FoldProofs` supplies the induction. The library's
induction theorems take an operator and cannot be used, but `WFMin` with
`NatLessThanWellFounded` can: `CountingUp` and `GrowingSets` are induction with a set of
numbers, or of sets, in the place of the predicate, and `FoldExists` shows that a
function defined by recursion over subsets exists. On these rest `RunAllInParts` (files
that sort behind others run after them) and `RunAllRenamed` (the order of the files and
their bodies is all that counts, not what they are called). `Generating` is the invariant
of a generate at work: until the file is filled its body still leads from what the
directory gives to what was read, and the file is the last one. `Deployed` is that of
the database: it is the replay of its own rows, which lie before everything pending; so
what is recorded and what is pending come to one replay of the directory (`Behind`),
however the batches were cut.

`RenamesProofs` proves, for schemas of any size, every edit, both flags and every input,

- `RenamesTypeCorrect == Spec => []TypeOK` of module `Renames`;
- `ProposalsStable == Spec => []ProposalsAreStable`;
- `NamesAreAskedOnce == Spec => []OneQuestionPerName`;
- `NothingIsLost == Spec => []NothingLostUnconsented`;
- `AnswersGoInOrder == Spec => []AnswersInOrder`.

`GreedyIsStable` shows of the fold `assignGreedy` that what it chooses is one-to-one, and
that every pair it leaves out clashes with a chosen one that is no worse; it is
induction over the sets of pairs. `Consented` follows the data: every column of the
journal's schema is somewhere in the present one, as a rename moves a name to one that
was free (`RenamedMoves`). `Asking` is the invariant of the questions: no two share a
name, and what the second pass asks about are columns of tables that exist by a rename
(`InFirstPass`), which the first cannot have asked about. `Reading` counts: the answers
among the lines that have left the reader are as many as the questions settled, until
the input is at its end, in both passes, which share one reader.

`BodyProofs` proves, for any finite number of tables, indexes, views, triggers and rows,
any columns, every edit and both values of the flag,

- `BodyTypeCorrect == Spec => []TypeOK` of module `Body`;
- `BodyReachesSchema == Spec => []SchemaReached`;
- `BodyKeepsObjects == Spec => []ObjectsFollow`;
- `BodyKeepsRows == Spec => []RowsSurvive`;
- `BodyKeepsMarks == Spec => []MarkSurvives`;
- `BodyLosesNothing == Spec => []NothingLostUnasked`;
- `BodyCopiesParentsFirst == Spec => []ParentsFirst`;
- `BodyRuns == Spec => []ScriptRuns`.

The properties speak of the end, the invariant `Inv` of every moment on the way: what a
table is, by which of its statements are still awaited (`AlteredNow`, `AddedNow`,
`RebuiltNow`, `NewNow`), and the same of each trigger and view (`ObjectFollows`). A
statement moves its own table from one of these forms to the next and touches no other.
That needs to be known of a script of any length: `InOrder`, the statements that have run
are those before all the others; and `Precedence`, which of two statements comes first.
`CREATE INDEX` needs a name that is free in all tables, so that no two tables have an
index of one name (`IndexesFollow`) is part of `Inv`.

Three arguments stand beside it. `OrderIs`: the depth-first search of
`orderByDependency` yields each rebuilt table once, and a table behind its parents but
for cycles (`Sorted`), by induction on the depth of visits, over what each visit has
left on the way (`Visiting`). `CopyFits` and `CopyKeeps`: the copy gives each row an id of
its own, however SQLite numbers them, and keeps what it held. And `BodyRuns`: where a
body stops, the statement that is due cannot run (`FailsThere`); but an index that is due
is new (`IndexIsNew`); whatever a view or trigger names is there when tables are renamed
(`RenameCompiles`), as each closure is the least one and the same in both schemas but for
the object that was edited (`AffectedAlike`); and the table or view of a trigger is there
when it comes back (`TriggerHasTable`). `AddSucceeds`: a table that is altered has,
when its columns are added, the rows it began with, so that `StoredOnRows` of the
beginning decides. The conditions are those of the property: `body_index`,
`body_stored` and `DropsAreClosed` (above) show what happens without them.

`SqldefProofs` proves, for texts of every size, parentheses of every depth, and whatever
names the masker mints as long as no text contains them (`PlaceholdersAreNew`, which is
what `newExprMasker` looks for),

- `SentAsRead == Spec => []SentAsTheGrammarReads`;
- `SentTheCommonPartAlike == Spec => []CommonPartAlike`;
- `DiffAddsAsWritten == Spec => []AddedAsWritten`;
- `TypeCorrect == Spec => []TypeOK` of module `Sqldef`.

The walkers have no grammar and the grammar knows no walkers; `WalkerProofs` relates the
two. `Masks(p, m)` says where the masker waits, and how deep it counts, at place `p` of
the grammar, and `Quotes(p, q)` the same of the quoter. `EveryArc` goes through the
grammar: along each arc outside of expressions both walkers move to where they wait at
the next place, and what they write is the word, quoted if it is a name. In an
expression the masker keeps the words, and the parenthesis at which its depth comes back
to zero is the one the grammar has behind it (`Shutting`), because the others pair up
(`DeepStays`). The quoter reads what the masker has written, so it meets an expression
either whole, when it copies it and is back where it was (`BodyCopied`, by `Balanced`), or
as a placeholder, which is no word of any text (`PlaceholderIsNoWord`). By induction over
texts (`ArcByArc`), `MaskFinds` and `QuoteFinds` give what is sent in closed form: `Saying`
of what each symbol says, sealed. `FlattenSeq` and the walks are recursive functions;
that they exist and go on word by word comes from `FoldProofs` (`WalkExists`,
`SayingMore`, `MaskWalks`).

The invariant is `SqldefInv`. Its first part, `SendInv`, is that of the way out: the text
follows the grammar; what it has cost bounds its columns and its expressions (`Paid`), so
that there are placeholders enough; the text for the database follows the grammar too
(`PartedOn`); both are sent sealed with the same bodies, which only grow between the two
walks and never take a placeholder from a body (`MaskedAlike`). Its second part, `DdlInv`,
follows the statements back: sqldef's are the definitions and then the keys (`Ordered`),
each in terms of `Saying`; putting back turns a sealed symbol into itself with its whole
expression (`BackSealed`), and over a column, whose expressions are all closed, this is
what was written, word for word (`PutBack`, by `Pending`: what has been read of an
expression that goes on); `Folds` puts each key behind its own column's definition.

Assumptions are those stated with the constants; TLC evaluates each. All invariants and
action properties of the passing runs are theorems. Only model-checked is liveness
(`CallsReturn`, `JournalGetsApplied`, `RunEnds`), which is outside TLAPS.

## Not modelled

- The character level: `sqlident`, the quoting of exotic identifiers, the tokens of
  `normalizeSQL`, the rewriting of a `CREATE TABLE` in `rebuild`, file name patterns,
  formatting, exit codes. What is left of these is string handling case by case.
- sqldef itself, and how its answers are parsed (`parseAddColumn`).
- A referenced table that gains a column in the same edit is sent to sqldef too
  (`generate.go:508-517`), and its `ADD COLUMN` then comes twice; `verifyCandidate`
  refuses. `Sqldef` asks about one table.
- The dry run and `main.go`: they read and print.
- Statements inside a body, thus a hand-written `COMMIT` in a migration.
- Several databases in one snapshot directory: name patterns keep them apart.
- Embedding with `embed.FS`: a directory that never changes.

## Plan

What could follow, each with its runs:

1. sqldef asked about several tables at once, one of them referenced by another;
2. `normalizeSQL` over the texts of `Grammar`: which texts compare equal;
3. what `verifyCandidate` does not compare (views, triggers) over several edits;
4. composition of `Snapshot` with `Runner`: what a restored snapshot holds after
   crashes;
5. branches: two checkouts merged, their files applied out of order. `ReplayOrder`
   excludes them (`AppendOnly`): a file older than rows already there runs last, and
   `generate`, `check` and `verify` replay it earlier (`runner.go:192`).
