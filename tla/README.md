# Money Watcher Alpha: a TLA+ model of the account tables

Money Watcher keeps a household's accounts in an SQLite file. An account is an
*entry*; every change of its balance is a *record*; a *policy* moves a share of
one entry's balance to another. This directory models the core of the program,
`src/src` and `src/include`: how rows get their keys, how the objects' cached
counters follow the file, and how `TableManager` keeps entries, records and
policies consistent over four tables, with crashes between the SQL statements of
a call, several objects on one file, the dates of entries and the console's
menus. TLC checks the models on small instances; the TLAPS proof system proves
the central invariants for every instance.

All paths below are relative to the repository root, which is mounted at `src/`,
so `src/src/idatabase.cc` is the repository's `src/idatabase.cc`.

## 1. The system

| Component | State | Operations | Used by |
|---|---|---|---|
| `iDatabase` (`src/src/idatabase.cc`) | connection `m_db_handler`, one prepared statement `m_db_statement`, cached `m_next_id` and `m_rows`, table name | open, close, prepare, finalize, count rows, read the last ID, increment and decrement rows, drop table | base class of the next four |
| `CycleTable` | rows of entries in the file | `addEntry`, `readEntry`, `listEntries`, two `updateEntry`, `rollbackEntry`, `deleteEntry`, `deleteEntries` | `TableManager` |
| `DailyTable` | rows of records | `addRecord`, `readRecord`, `listRecords`, `deleteRecord`, `deleteRecords` | `TableManager` |
| `PolicyTable` | rows of policies | `addPolicy`, `readPolicy`, `deletePolicy`, `deletePolicies` | `TableManager` |
| `TableManager` | the three tables above, each with a connection of its own; its own connection with `Entry_IDs_Table` and one table `Records_for_Entry_<id>` for each entry; `m_entry_ids` in memory | `add`, two `update`, `remove`, `undo`, `createPolicy`, `applyPolicy`, `deletePolicy`, `undoPolicy`, lists | the user interfaces (not connected yet) |
| `Entry`, `Record`, `Policy`, statuses | values | `updateBalance`, `rollbackBalance`, `calculateRatioOfBalance`, status conversions | the tables |
| `DateTime`, `WrappedString` | values | instants with their calendar text, strings for SQLite | the tables |
| console engine, Qt dialog | two menu loops, a window | key handling | the user |
| SQLite, googletest | vendored | | the tables, the tests |

Components interact by plain calls. Nothing runs concurrently inside the
program: there is one thread, no callback and no timer, and every C++ call
returns or throws before the next begins. What may come in between is the end of
the program, the clock, the user's keys, and calls of another object on the same
file. State is shared through the SQLite file. Four connections to
the same file exist at once, but no statement is in progress on one while
another writes (`TableManager` finalizes its SELECTs first, and a read that
throws leaves a statement that has already run to its end), so SQLite's locks
decide nothing.

What is hard about this code is therefore not concurrency but:

* *cached counters.* `m_next_id` and `m_rows` follow the file by arithmetic that
  does not look at what the SQL did: an INSERT's result is ignored, a DELETE
  lowers the count whether or not a row was there, and opening takes
  `MAX(ID) = 0` for "no rows".
* *reused keys.* The counter falls back after deletions, so record IDs are used
  again, while `undo` finds the latest record by its ID.
* *one fact in several places.* The entries there are is said by CycleTable, by
  Entry_IDs_Table, by the existence of records tables and by `m_entry_ids`; a
  balance is said by the entry and by the sum of its records.
* *partial failure and crashes.* No call uses a transaction: whatever throws in
  the middle, or ends the program there, leaves what came before it done, and
  nothing looks for it when the file is opened again.
* *the single statement slot.* It can leak statements, and a connection with a
  leaked statement cannot be closed.
* *objects that share.* Two objects on one file do not see each other's additions;
  moved objects and constructors that throw have to leave each connection with
  exactly one owner.
* *two readings of one value.* A `DateTime` keeps an instant and strings that may
  not agree; an entry and its record read the clock one after the other; a text is
  bound to an INSERT but pasted into an UPDATE.

What makes each component correct:

* a table: an added row is stored under a fresh key, an update or a deletion
  reaches the rows it names and no others, what a reopened object believes agrees
  with the file, resources are released;
* `TableManager`: the four lists of entries agree, records are partitioned among
  entries, balances are the sums of records, `undo` is the inverse of `update`
  and `undoPolicy` of `applyPolicy`, transfers conserve money, and together
  these implement accounts with ordered histories; a call cut short by a crash
  harms no entry but its own, and the caller can repair that one;
* value classes: what is added with wrap-around is taken back exactly, an entry is
  dated with its records;
* the console: every key is read, and `Q` ends the program.

The hazards are listed with their lines in `PROJECT.json`.

## 2. The modules

    TableOps         operators: one table in the file and its counters
      RowTable       a table object: operations, statements, close and open
        RowStore     what a table promises (abstract)
      TableObjects   several table objects on one file: connections, moves
      Ledger         TableManager: entries, records, policies   (uses Amounts)
        LedgerAccounts   refinement of Accounts (abstract)
        LedgerSteps      one step for each statement, crashes; refines Ledger
    Amounts          operators: integers of a fixed width
    Dates            DateTime, and the dates of an entry and its records
    Console          the two menu loops
    TableOpsProofs, RowTableProofs, TableObjectsProofs,
    LedgerProofs, LedgerAccountsProofs, LedgerStepsProofs,
    DatesProofs, ConsoleProofs                      the proofs
    MC...                                           instances for TLC

**TableOps** has no variables. `CycleTable`, `DailyTable` and `PolicyTable`
repeat the same code for keys and counters; it is written here once, as
operators on a record `[rows, nextId, count]`: the rows in the file by `ID`, and
`m_next_id` and `m_rows` (-1 before counting). `OpenTable` is `__init__`,
`CloseTable` the destructor, `AddRow` the add operations, `DeleteRow` and
`DeleteRows` the deletions of one and of many with their different corrections
of `m_next_id`, `AfterDelete` the reset to 0 when the count says "empty",
`RewriteRow` the UPDATE of an entry.
`InsertRow` is SQLite's answer to a used primary key when the result of
`sqlite3_step` is ignored: nothing is stored. The operators named as mutants are
plausible slips, kept beside the definition they alter; each passing property
must fail under one of them.

**RowTable** is one table object. Its state is the table, the statement slot
(`statement`), the statements nothing points to any more (`leaked`), the
connections `sqlite3_close` refused to release (`unclosed`), the last call with
the IDs it named, how it ended and the rows it returned (`reply`), and two
ghosts: `lost` counts INSERTs since the last opening which stored nothing,
`throws` the operations that threw before finalizing their statement. Actions:
`Add`, `ReadRow`, `ReadMissing` (also as the first step of an update), `Update`
(both `updateEntry` and `rollbackEntry`, which only CycleTable has: the entry is
read, changed in memory, written over and returned), `UpdateFails` (the UPDATE
cannot be prepared), `List`, `Delete`, `DeleteMany`, `DeleteTooMany` (the text of
the statement exceeds the limit set in `__open_database__`), `Close`, `Open`. Two
next-state relations describe two callers:

* `Next`: any caller, naming any ID and repeating IDs in a vector;
* `CarefulNext`: names only existing rows, each once.

**RowStore** is the promise of the header files: a keyed set of rows. Each step
is what one call may do, with the IDs in its answer and no others: an addition
stores the row it returns under an unused key, a read returns the row, an update
changes the named row to the one it returns, a deletion removes exactly the named
rows, a list returns all rows, a refused update or deletion and reopening change
nothing. It does not say how keys are chosen, and has no counters. The code keeps
this promise to a careful caller but for three things, each a step of its own in
`ImplementsStore` (section 5): `LostAddition`, the first addition after a file
with ID 0 alone was opened, stores nothing; `ListsNothing`, a list returns no
rows; `MisstoredUpdate`, an update stores its text with each two quotes made one
and returns it as it was given.

**TableObjects** is several objects of one class on one file. Each has its
connection (`handle`), its slot, its cached counters and two ghosts: whether it
was opened on the mistaken file, and how many rows others have added since.
Globally there are the open connections, those with leaked statements, and
`OPENED_..._TABLES_COUNT`. `Construct` opens and counts; `ConstructThrows` is a
failure before the object has anything to lose, `ConstructThrowsLate` one after
`iDatabase::__init__`, when only `~iDatabase` runs and forgets the handle
(`abandoned`); `Move` is a move constructor, `Destroy` the destructor; `Refused`
is any call on an object that has been moved from. The remaining actions are
those of RowTable for a careful caller, each on one object and noted as
`foreign` by the others.

**Amounts** is the arithmetic of `MoneyValue_t`: `Wrap` keeps a result in
`-Half .. Half - 1`, `Hundredth` divides as C++ does.

**Ledger** is `TableManager`. The books are one record (the two tables, the rows
of Entry_IDs_Table, the records tables that exist, `m_entry_ids`), and what a
call does to them is an operator: `Added`, `Updated`, `Removed`, `Undone`.
`applyPolicy` and `undoPolicy` make two calls of `update` and `undo`, so
`Applied` and `PolicyUndone` are compositions of two such operators. Each has a
companion (`UpdateReturns`, `UndoReturns`, ...) that says whether the call returns
or throws; the operators themselves say what is left behind when it throws. One
action per public operation, and `Reopen` for destroying the object and making
another on the same file. A failure is an alternative inside the operator, at
the place where the code throws.

The ghost field `damage` records which of four flaws has struck: `"cycle"` and
`"daily"` (an INSERT hit a used key), `"undo"` (the record is deleted, the entry
not written back), `"remove"` (the entry is deleted, its records are not).
A call in which a flaw outside the constant `Flaws` would strike is left out of
the behaviours, like a call beyond a bound: with all four in it `Spec` is the
code, with none it is the code as long as no flaw strikes. The properties that a
flaw breaks are checked with `Flaws = {}`, the others with all of them; section 5
says how each flaw strikes.

**Accounts** is what `table_manager.h` promises, without tables, keys of records
or counters: each account has a sequence of transactions; `update` appends,
`undo` takes the last away but never the opening, `remove` ends a history, a
policy appends to two accounts, and what an account shows is a function of its
history. Each step names its call, the ID the call was given and whether it
returned or threw (`request`), and may change the accounts of that call alone
(`OnlyOf`): a policy's accounts are looked up under the policy's ID, and what it
moves is computed from the source before it. Two steps are not promised but done:
`Debited` and `HalfUndone`, a policy call that throws over a destination that is
gone, after the source. The amount and text of an `add` or `update` are not in
`request`; that they are the arguments of the call is what Ledger's actions say.
`undo` of a single transaction is a step that changes nothing, which is the code
and not `table_manager.h:85` (section 5). **LedgerAccounts** maps the tables to
it: the history of an entry is its records in the order of their IDs, and
`Written`, what an account shows of a text given to an update, is `Pasted`.

**LedgerSteps** takes Ledger's calls apart. A running call is the sequence
`todo` of SQL statements that still have to write; each statement is an action
(`InsertEntry`, `InsertEntryId`, `CreateRecords`, `InsertRecord`, `NameRecord`,
`UpdateRow`, `DeleteEntry`, `DeleteRecords`, `DropRecords`, `DeleteEntryId`,
`DeleteRecord`, `UnnameRecord`, `RollBackRow`) together with the reads that lead
up to it. `Throw` drops the rest of the call. `Crash`, possible once wherever a
call is running, drops it too and reopens the file; the ghost `cut` remembers in
which call and before which statement of which entry. Until then the module
implements Ledger: `books` is mapped to what it was when the running call began
(`before`), so that a call takes effect with its last statement. The policy
calls are two calls of `update` or `undo` in a row, and a crash can fall between
them as well.

**Dates** has the clock, the strings in the rows of one entry and of its
records, and two `DateTime` variables of a caller. A `DateTime` is an instant
and the text shown for it; a text names an instant, with zeros before numbers of
one digit (`padded`) or without, as `__parse__` writes them. `DateTime(date,
time)` throws for a text that `__parse__` would not have written (`Readable`);
that boost's `time_from_string` reads the texts without zeros too is taken for
granted (`TimeFromString`), so no property says that they are read back. `AddEntry`
and `UpdateEntry` date the entry, `AddRecord` dates the record by a second reading
of the clock, `Undo` dates the entry by the record before the last. `Sum` is
`operator +`. The clock ticks between any two steps and may be set back once.

**Console** has the keys typed, how many have been read, whether the input was
closed, and the loop the program is in. The user is not fair, the program is.

### What is abstracted

* Names and periods, and in Ledger dates: no operation decides by them. What
  happens to dates is in Dates, where texts are reduced to the instant they name.
* Texts: an INSERT binds them, the UPDATE of an entry pastes them between single
  quotes (`__updateEntry__`), where SQLite takes two quotes in a row for one and a
  single one for the end of the text. So descriptions are a small set with the
  function `Pasted`, what an UPDATE with the text stores, and the subset
  `Unpastable`, the texts with which it is a syntax error; the instances have
  `rent`, `it's` (a syntax error) and `it''s` (stored as `it's`). The theorems hold
  for any such function and subset. Left out are texts whose quote is followed by
  something that makes the rest of the UPDATE a comment or SQL of its own, such as
  `x' --`: the entry named would then not be the one written, or not the only one.
  A text is bound to its INSERT with twice its length (`unistring.cc:38`) and read
  back up to its terminator, so it comes back as it went in.
* A value that cannot be bound to an INSERT, for want of memory: the code would
  then store the row without it, advance `m_next_id` but not `m_rows`, and throw.
* The statement limit, a million bytes, is `MaxListed`, the number of IDs that
  fit into one DELETE.
* A status is stored as an integer and converted back through `% 4`
  (`status.cc`). In C++ -1 % 4 is -1, which falls to the default case, so each of
  the five statuses comes back; the model stores the status itself.
* Amounts are integers of `2 * Half` values. Overflow of a signed integer is
  undefined in C++; every sum and product in the code is stored before it is used
  and nothing compares it with its operands, so the compiler emits the plain
  instruction, which wraps around. Division rounds toward zero.
* The build with `ENABLED_ADVANCED_DEBUG`, which deletes records one by one, is
  not the default and is not modelled.
* A crash falls between SQL statements. Each commits by itself, so SQLite makes
  one that was interrupted whole or undone; a full disk is not modelled.
* Two programs on one file at the same instant, and so SQLite's locks: nothing in
  the repository runs two.

## 3. What TLC checks

`TypeOK` is the one type invariant of a module.

*Fairness.* The tables have no scheduler, no loop and nothing that waits: a call
returns when the caller makes it, and nothing obliges a caller. Their
specifications are safety specifications. The console does loop, and its `Spec`
has weak fairness of `Run`, the program's own steps: the operating system goes
on running a process that is ready, and `getchar` returns once there is a key.
`Type` and `CloseInput` are the user's and have no fairness.

*Deadlock* is checked everywhere but in `console`, where the program stops when
`run()` returns or throws.

| Run | What it shows |
|---|---|
| `rowtable_careful` | A careful caller: `m_rows` never understates the file (`CountCoversRows`), every stored key is below `m_next_id` unless the object was just opened on a file with ID 0 only (`NextIdAhead`), that flaw costs at most one row for each opening (`OneLossPerOpening`), and call by call the object does what RowStore says of that call and its IDs, but for the three things named above (`ImplementsStore`). |
| `rowtable_any` | Any caller: the rows that later additions can collide with are bounded by how far `m_rows` has drifted (`RiskBoundedByDrift`), and the statements and connections left behind by how many operations threw over a missing row (`HandlesAccounted`). |
| `ledger_entries` | Without the flaws: records are partitioned among entries (`RecordsPartition`), a balance is the sum of the records (`BooksBalance`), an entry shows its latest record, the text as an UPDATE stores it (`EntryMirrorsLastRecord`), in every reachable state `undo` would take back any `update` (`UndoInvertsUpdate`). |
| `ledger_any` | Any caller, every flaw: types, and the four lists of entries agree, but that a removal refused halfway leaves an entry in the other three (`SameEntries`). |
| `ledger_accounts` | Without the flaws: every call does to the accounts it names, and to no other, what Accounts says of that call (`ImplementsAccounts`), a returned `applyPolicy` conserves the total (`TransferConserves`), and `undoPolicy` would take it back on every table (`UndoPolicyInvertsApply`), from an entry to itself too. |
| `ledger_steps` | Statement by statement: until a crash the statements add up to Ledger's calls, flaws and exceptions included (`ImplementsLedger`). A crash leaves all other entries sound, whatever is called afterwards, unless it fell where a name outlives its record (`OthersUnharmed`); one more `remove` cleans up after most crashes of `add` and `remove` (`RemoveHeals`); one `undo` after half an `applyPolicy` gives the money back, between two entries and on one (`UndoHeals`). |
| `table_objects` | Several objects on one file: each connection has one owner or a known reason to have none (`ConnectionsAccounted`), the count of opened tables misses exactly the moves (`CountMissesMoves`), and what the stale counters of one object can lose is bounded by what the others have added (`LossBoundedBySharing`). |
| `dates` | An entry is dated between its last two records, also in the middle of a call, as long as the clock is not set back (`EntryDatedWithRecords`), while a caller makes, adds to, stores and reads back dates of its own. |
| `console` | Which key decides where the program is (`FirstKeyDecides`); every key is read in the end (`KeysAreRead`), and a `Q` typed before any `C` ends the program (`QuitIsHeeded`). |
| three violation runs | Section 5. |

What `ledger_steps` leaves out is what the code gets wrong. A crash before
`UnnameRecord` or `DropRecords` leaves a name without a record, and the ID is
given to a record of another entry, which the next `undo` or `remove` of the
first takes with it. A crash before `CreateRecords`, `NameRecord` or
`DeleteEntryId` leaves a row in Entry_IDs_Table or a record that no later call
reaches. `RemoveHeals` compares the file only: the second `remove` lowers `m_rows`
of DailyTable for records that are already gone, which `rowtable_any` is about.
`UndoInvertsUpdate` and `UndoPolicyInvertsApply` ask for entries whose last text
can be written back as it is (`LastIsPlain`).

### Bounds

* `MaxId` = 4: a table holds up to four rows. Every branch of the counters shows
  with fewer: the mistaken opening needs one row, a drifted count two, and a
  collision with rows above and below `m_next_id` three. The row contents are a
  plain one, one an UPDATE refuses and one it changes into that. In `table_objects` it is 3,
  with one content, because there it is the counters that matter.
* `MaxOverlap` = 1: one repeated element in a vector already lowers the count
  below the truth; more only repeat it.
* `MaxThrows` = 2: two operations that throw over a missing row leak a statement,
  and closing then leaks the connection.
* `MaxListed`: 1 or 2 where the refused DELETE must happen, otherwise larger than
  any vector so that it never does.
* `MaxEntry` = 2, `MaxRecord` = 3 to 5, `MaxPolicy` = 0 or 1: two entries whose
  records interleave, record IDs that are freed by one and taken by the other, a
  history long enough for two undos, a policy between any two entry IDs, existing
  or not, or from an entry to itself. `MaxRecord` bounds IDs, not calls: deletions
  give IDs back, and behaviours go on for ever.
* An opening balance of 5 and a ratio of 50 make the rounding lose the odd unit;
  -9 turns balances negative, so a share is negative too.
  Where amounts play no part (`ledger_any`) all are 0.
* `Half`: 16 in `ledger_entries`, so that balances wrap around; 512 in the runs
  with policies, so that a balance times 50 does for some balances and not for
  others. In `ledger_steps` entries open with 2, of which half is 1, and -3 takes
  their balances below zero.
* Texts: all three kinds in `ledger_entries`, the two with quotes in `ledger_any`,
  one plain text where policies, histories or statements are the matter; what
  texts with quotes do there is proved for every text.
* `Flaws`: none in `ledger_entries` and `ledger_accounts`, all four elsewhere.
* `ledger_steps`: one crash, at most two calls after it (`MaxAfter`), which is
  one to repair and one to do harm; policies from entry 0 to entry 1 and from
  entry 0 to itself only (`Links`), as Ledger has run the others; no call begins
  once one of the four flaws has struck, because `ledger_any` goes on from there;
  after the crash no policy is touched, since all that one makes are updates and
  undos.
* `table_objects`: three places for objects and two connections, so that moved
  objects and owners coexist; `MaxMoves` = 1, `MaxForeign` = 2, `MaxCount` = 3:
  one move breaks the count, and with two rows of others losses add up.
  Objects and connections are symmetric.
* `dates`: four ticks, three records, an hour back and two hours on, the clock set
  back at most once.
* `console`: five keys, so that each of the four kinds can follow any other.

## 4. What is proved

For every value of the constants that satisfies the assumption its module names
(`RowAssumption`, `BoundsAssumption`, `ObjectsAssumption`, `HalfAssumption`, `LedgerAssumption`,
`StepsAssumption`, `DatesAssumption`, `ConsoleAssumption`: bounds are natural
numbers; objects are finitely many; `Half` is positive; amounts given by a caller
fit their width; `Pasted` maps rows or texts to such, `Unpastable` and the given
statuses are subsets of theirs; hours are integers):

| Theorem | Module | Says |
|---|---|---|
| `TypeCorrect` | RowTableProofs | `Spec => []TypeOK` |
| `RiskIsBounded` | RowTableProofs | `Spec => []RiskBoundedByDrift` |
| `CountCoversFile` | RowTableProofs | `CarefulSpec => []CountCoversRows` |
| `NextIdStaysAhead` | RowTableProofs | `CarefulSpec => []NextIdAhead` |
| `OpeningsLoseOneRow` | RowTableProofs | `CarefulSpec => []OneLossPerOpening` |
| `HandlesAreAccounted` | RowTableProofs | `Spec => []HandlesAccounted` |
| `TableImplementsStore` | RowTableProofs | `CarefulSpec => ImplementsStore` |
| `ObjectsAreTyped` | TableObjectsProofs | `Spec => []TypeOK` |
| `ConnectionsHaveOwners` | TableObjectsProofs | `Spec => []ConnectionsAccounted` |
| `CountIsShortByMoves` | TableObjectsProofs | `Spec => []CountMissesMoves` |
| `SharingLossIsBounded` | TableObjectsProofs | `Spec => []LossBoundedBySharing` |
| `LedgerIsTyped` | LedgerProofs | `Spec => []TypeOK` |
| `EntriesAlwaysAgree` | LedgerProofs | `Spec => []SameEntries` |
| `RecordsStayPartitioned` | LedgerProofs | `Spec => [](books.damage = {} => RecordsPartition)` |
| `BalancesAreSums` | LedgerProofs | `Spec => [](books.damage = {} => BooksBalance)` |
| `EntriesMirrorRecords` (1) | LedgerProofs | `Spec => [](books.damage = {} => EntryMirrorsLastRecord)` |
| `UndoIsInverse` (1) | LedgerProofs | `Spec => []UndoInvertsUpdate` |
| `UndoPolicyIsInverse` (1) | LedgerProofs | `Spec => []UndoPolicyInvertsApply` |
| `TransfersConserve` | LedgerProofs | `Spec => TransferConserves` |
| `BooksWithoutFlaws` (1) (2) | LedgerProofs | `Spec => [](RecordsPartition /\ BooksBalance /\ EntryMirrorsLastRecord)` |
| `TablesImplementAccounts` (1) (2) | LedgerAccountsProofs | `Spec => ImplementsAccounts` |
| `StepsImplementLedger` (3) | LedgerStepsProofs | `StepsSpec => ImplementsLedger` |
| `RemoveAlwaysHeals` | LedgerStepsProofs | `StepsSpec => []RemoveHeals` |
| `UndoAlwaysHeals` (1) | LedgerStepsProofs | `StepsSpec => []UndoHeals` |
| `OthersAreUnharmed` (1) | LedgerStepsProofs | `StepsSpec => []OthersUnharmed` |
| `DatesAreTyped` | DatesProofs | `Spec => []TypeOK` |
| `EntryStaysDated` | DatesProofs | `Spec => []EntryDatedWithRecords` |
| `ConsoleIsTyped` | ConsoleProofs | `Spec => []TypeOK` |
| `KeysDecide` | ConsoleProofs | `Spec => []FirstKeyDecides` |

Three hypotheses occur beside those assumptions:

1. `"NEW_ENTRY" \notin GivenStatus`: callers of `update` do not pass it the status
   of a first record. `update` does not refuse it, and the entry then shows the
   amount and status of that record, while `undo` and the mapping to Accounts
   take a record with that status for an opening, which shows none. Every run
   meets this.
2. `Flaws = {}`: the behaviours in which none of the four flaws strikes. The
   theorems with `books.damage = {}` instead say the same of any behaviour until
   a flaw strikes, which is stronger: they hold for `Flaws` of any value.
3. `Flaws` holds all four: the statements of LedgerSteps are not kept from
   striking a flaw, so the Ledger they implement must not be either.

The arguments:

* **TableOpsProofs** states, for each operator of TableOps, what it does to
  types, to `SoundTable` (the count covers the rows, and keys are below the next
  one or the table is the mistaken one) and to `DriftBounded`. Every other proof
  cites these lemmas and never looks at the arithmetic again.
* `RiskBoundedByDrift` is inductive together with `TypeOK`. The point is the
  deletion of many: its two corrections of `m_next_id` and the subtraction of the
  vector's length from `m_rows` never let the rows at or above `m_next_id` exceed
  the shortfall by more than one.
* A careful caller's properties are not inductive alone. `CarefulInv` adds that
  keys lie below `MaxId`, that the open table is `SoundTable`, and that while
  some key is not below the next one nothing has been lost yet: an opening resets
  the ghost `lost`, and the first addition moves `m_next_id` past the only row.
* `HandlesAccounted` is inductive: a statement left in the slot is counted once as
  it is written over, and closing turns all that is leaked into one connection.
* `StoreStep` shows that a careful caller's step from a state in `CarefulInv` is the
  step of RowStore for that call and its IDs, one of `LostAddition`,
  `ListsNothing` and `MisstoredUpdate`, or leaves its variables unchanged. Where no
  stored key is at or above `m_next_id` the ID an addition takes is new, which is
  what `StoreAdd` asks; the only other case `CarefulInv` leaves is the mistaken
  table, and there it is a `LostAddition`.
* TableObjects is proved by `ObjectsInv`: the four properties together, and that an
  object which holds a connection has counted its rows. They need each other: that
  a write leaks only an open connection is `ConnectionsAccounted`, and the lemmas
  about tables ask for a count. Every operation that writes goes through one
  lemma, `WriteStep`, which asks what the write does to the object's own bound
  (`AddRowLoss`, `DeleteRowLoss`, `DeleteRowsLoss`) and whether it stored a row.
  What it means for the others is `ForeignAddLoss` and `ForeignDeleteLoss`.
* For Ledger, "well formed" (types and agreement of the four lists) is shown to
  be kept by each operator on books (`Added`, `Updated`, `Removed`, `Undone`) as a
  lemma; policies are compositions, so their lemmas are two citations. Agreement
  has to be proved with the types, since whether `update` writes to a records
  table depends on the lists it is about. `TypeOK` says that amounts keep
  their width; the lemmas about `Wrap` and `Hundredth` give that for each sum and
  share.
* The books of Ledger have the invariant `InOrder`: `Kept`, balances that are
  sums, and entries that mirror their last record. `Kept` adds to the partition
  of the records that the counters of DailyTable are a `SoundTable`, because only
  that makes a new record's ID higher than all others, and so the last of its
  entry; and that no entry is without records. The counters of CycleTable need
  not be sound, and are not: a caller may remove entries that do not exist. A
  collision of entries is then a flaw, and the invariant speaks of books without
  damage. Damage never goes away (`DamageStays`), so from undamaged books after
  a call those before it were undamaged (`CallKeepsOrder`), and that is what makes
  `OrderUntilDamage` inductive for any `Flaws`. `StepIsCall` reduces every action
  to one of the operators, so that there is one lemma for each operator and part
  of the invariant.
* `UndoInvertsUpdate` is not an invariant of its own but follows from `InOrder`:
  an update adds the record with the highest ID (`Ahead`), `undo` finds just that
  one, and what it writes back from the record before it is what the entry showed
  before, since it mirrored that record. `UndoPolicyInvertsApply` is this twice, on
  books in between that are in order too.
* Sums over the records of an entry are folds, which are recursive functions. What
  is needed of them, that adding or taking out one element adds or takes away its
  value, is proved first: the recursive equation (`IsSums`) has exactly
  one solution, by induction on finite subsets (`SubsetInduction`), which takes
  the property as a set of subsets instead of a predicate.
* **LedgerAccountsProofs** reads histories off the books. A new record takes the
  last place in its entry's history, and taking the last one away disturbs none
  of the others (`NthOfGrown`, `NthOfShrunk`); the sum by places is the sum by IDs
  (`SumByPlace`). There is one lemma for each call (`AddOpens`, `UpdateTransacts`,
  `RemoveCloses`, `UndoUndoes`, `ApplyTransfers`, `UndoPolicyUndoes`,
  `CreateAgrees`, `DeleteCancels`), which shows the step of Accounts for that call
  with the ID in its reply, and one for those that throw (`FailedCallIsRefused`).
  That the entries of the call show their new histories is a fact about any books
  in order (`EntriesShowHistories`), which those after the call are.
* **LedgerStepsProofs** says, for each kind of call, which pairs of remaining
  statements and present books there can be, as a function of the books the call
  began with (`UpdateAt`, `UndoAt`, `AddAt`, `RemoveAt`, `ApplyAt`,
  `UndoPolicyAt`). Executing the head of `todo` leads from one such pair to the
  next, or the call is done and the books are what Ledger's operator makes of
  `before` (`UpdateGoesOn` and its companions, gathered in `WorkGoes`). Ledger's
  definitions under the mapping (`Whole!Updated`, ...) are first shown equal to
  its own. `StepsInv` holds until a crash; with it a step is a call of Ledger when
  the last statement is done and otherwise changes nothing Ledger sees.
* After a crash the books are those of such a pair, reopened (`CrashInv`).
  `RemoveAlwaysHeals` compares, for each pair of `add` and `remove` the property
  admits, what `remove` makes of it with what it makes of `before`; this takes no
  order of the books, so it holds of damaged ones too. `UndoAlwaysHeals` is
  `UndoInvertsGrowth` again, on the debited books.
* `OthersAreUnharmed` needs to know what any calls, on the entry that was cut
  short and on others, can meet and make. `Apart(b, X)` says it of books: every
  entry outside X either `Stands`, with all that `InOrder` promises of one entry,
  or is `Absent` from all lists; and every entry, also one of X, names only
  stored records that no other names. The last part is what protects the others:
  a half-made entry may miss a list, or show a balance that is not the sum of its
  records, but whatever is deleted or rewritten through it is its own. Books in
  order are apart for any X (`OrderIsApart`); each call keeps them apart for the
  same X, also a call on an entry of X (`AddKeepsApart`, `UpdateKeepsApart`,
  `RemoveKeepsApart`, `UndoKeepsApart`); and a crash inside a call leaves books
  that are apart but for the entry of the next statement (`CutCallApart`), except
  at `NamesMissing`, where a record is gone and its name is not. `OthersInv` says
  that after a crash, between calls, the books are apart but for `cut.id`, and
  within a call its statements run from such books (`AfterCrash`). The lemmas
  about statements are therefore stated for any books of the right types
  (`IsBooks`) with stored records, not only for those in order.
* `EntryDatedWithRecords` needs that until the clock is set back nothing is dated
  after it (`ClockAhead`). `FirstKeyDecides` is inductive with `TypeOK`.

Every invariant and every safety property of a step that a passing run checks is
proved. Only model-checked: `KeysAreRead` and `QuitIsHeeded` of Console, liveness
under fairness, which is out of the prover's reach. The three properties of
section 5 are false of the code.

## 5. Where code and documents disagree

Each of these runs checks what a header or a test says, and TLC shows a
behaviour of the code that breaks it.

* `rowtable_added` (`AddedIsStored`). Add one row, close, open: the object takes
  the table for empty (`daily_table.cc:351`), gives the next row ID 0 again, and
  the INSERT stores nothing, although `add` returns the row (the flaws `"cycle"` and
  `"daily"`).
* `ledger_undoquoted` (`UndoRollsBack`). `undo` deletes the last record, then
  pastes the earlier description into an UPDATE; a single quote makes it a syntax
  error, and the balance keeps the amount of a record that is gone (the flaw
  `"undo"`).
* `ledger_transfer` (`TransferIsWhole`). An entry is removed while a policy names
  it as destination: `applyPolicy` debits the source, then throws because the
  destination is not there, and the money is gone.

Met while modelling, and visible in the models without a run:

* reading a missing row with ID 0 passes the assertion (`daily_table.cc:167`),
  because the column of no row reads as 0, and then builds a string from a null
  pointer: `std::logic_error` instead of `TableException` (`ReadMissing`);
* `listEntries` and `listRecords` loop while `sqlite3_step` returns `SQLITE_OK`,
  which a query never returns, so they list nothing (`List`), although the headers
  promise all rows (`cycle_table.h:57`, `daily_table.h:58`);
* a text with two quotes in a row is stored as it is in a record and in the row of
  a new entry, but with one quote in the row of an entry that is updated, while
  `updateEntry` returns it with two (`Update` in RowTable, `UpdatedEntry`);
* two failed reads leak a statement, after which the destructor logs
  "successfully closed" over a connection SQLite refused to close (`Close`);
* `undo` of an entry with a single record changes nothing; the tests expect that,
  `table_manager.h:85` says the entry becomes empty (`CanUndo`);
* `undoPolicy` undoes the last records of both entries, whatever made them, also
  for a policy that was never applied (`PolicyUndone`);
* `createPolicy` links "two existing entries" (`table_manager.h:94`) but asks
  nothing of them (`CreatePolicy`);
* deleting an ID that does not exist is said to do nothing bad
  (`test_all.cc:845`), and does nothing bad there because the table is larger; with
  one row `m_rows` reaches 0 and `m_next_id` returns to 0 over the stored row
  (`DeleteRow`);
* `remove` promises to remove "all related records" (`table_manager.h:75`), but
  the entry goes first; when the DELETE of the records is longer than a statement
  may be it throws, and they stay (the flaw `"remove"`);
* `undo` after a single update dates the entry by its first record, not by its own
  first date; the test expects the latter (`test_all.cc:2957`), which differs when
  a midnight falls between the two readings of the clock (`Undo` in Dates);
* move constructors do not count and destructors do, so the counts of opened
  tables fall below the truth, and below zero (`CountMissesMoves`);
* a constructor that throws after `iDatabase::__init__` leaks its connection
  (`ConstructThrowsLate`);
* `operator +` promises a new DateTime "with value of current date-time plus time
  period" (`datetime.h:62-65`), but shows the date of its left operand (`Sum`), and
  storing the result loses the hours;
* the console cannot be left once the operations on the cycle table have begun,
  not even by closing the input, on which it then spins (`Operations`, `ReadEnd`).

## 6. What is not modelled, and why

* `WrappedString`: a byte string; see section 2 for what is kept of it. The
  calendar behind `DateTime` is boost's.
* Qt dialog: a window without logic, not connected to the tables.
* The move constructor of `TableManager`: it takes over the connection but opens
  the three tables anew on their default files. Nothing moves a `TableManager`.
* The advanced-debug build, which is not the default.
* `__vacuum__`, `__does_table_exist__`, `__increase_rows__`: only the tests call
  them.
* Logging, service and test-access headers: no state of their own.
* SQLite and googletest: third-party. What is used of SQLite is stated where it is
  used: primary keys, `MAX` of no rows, column values after the last row,
  `sqlite3_close` with open statements, the statement limit, a commit for each
  statement. The vendored `sqlite3.c` and `sqlite3.h` are 148,640 of the
  repository's 153,703 lines of implementation; of the other 5,063 the models
  cover what keeps state and decides.

## 7. Plan

Written so far, in this order: TableOps, RowTable, RowStore and their proofs;
Ledger, Accounts, LedgerAccounts and the first theorem about Ledger; Amounts,
LedgerSteps, TableObjects with its proofs, Dates and Console; then the proofs
about the books, the accounts, the statements, the dates and the console, and
last the one about crashes. The models cover what the repository's own code does,
and their safety properties are proved. What a change of the code would call for:

* statements grouped into transactions make each call of LedgerSteps one step; it
  should then implement Ledger across a crash too, without `~Crashed'` in
  `ImplementsLedger`, and `NamesMissing` should become empty;
* a policy call after a crash is left out of LedgerSteps (a bound). Modelled, it
  needs `ApplyAt` and `UndoPolicyAt` from books that are only apart; `AfterCrash`
  leaves room for them in `Alone`.
