# A TLA+ model of data-conf

data-conf is a catalogue of accounts, items, orders and the lines that put
items into orders. A single-threaded C++ server keeps them in Berkeley DB files
and answers JSON requests over HTTP; a jQuery page shows and edits the orders of
a user. This directory models the parts of it whose behaviour depends on the
order of steps, checks the models with TLC, and proves with TLAPS what holds
for every number of keys, records, index files, clients and crashes, and for
all configuration documents, text files and search texts.

## 1. The system

| Part | State it keeps | Operations | Talks to |
|---|---|---|---|
| Primary and secondary databases (`bdb-lib/bdb_databases`, `bdb_db`, `bdb_dao.hpp`, `bdb_cursor.hpp`) | one file per primary, one per secondary; per open handle a private 4 GB cache | open and associate, `save`, `save_key`, `delete_key`, `lookup`, `load`, `load_triplets`, reads through a secondary, close | Berkeley DB |
| Order requests (`dconf_request_handlers.cpp`, `order_dao`, `order_item_dao`) | `order`, `order_item` | `order_add_item`, `order_remove_item`, `order_remove`, `order_update`, four selects, loads, match | databases, items |
| Item requests (`item_dao`) | `item` | `item_update`, selects, load, match | databases, orders |
| Account requests (`account_dao`) | `account` | `account_update`, selects, load, match | databases |
| Triplet index (`load_triplets`, `match_text`, `bdb_triplets_dto`, `bdb_tokens`) | three duplicate-key databases: triplet to id and counts | written by the loads, read by `match_text` | databases |
| Server loop (`apps/dconf_app.cpp`, `bdb_inet_socket_server`, `dconf_request`, `bdb_errors`) | listening socket, one client, the request's `Bdb_errors` | accept, one `recv`, parse, dispatch, answer, close; STOP | handlers, client |
| Web client (`web/*.js`) | list of users, selected user, order and item, three tables, buttons | clicks; callbacks of asynchronous requests | server |
| Configuration and opening of databases (`bdb_databases_config`, `bdb_databases`, `dconf_bdb_keys`, `dconf_inet_app_init`) | the map of databases and indexes, read once at start; the files that exist and their flags | `from_json`, `select`, the constructors and destructors of `Primary_database` and `Secondary_database` | handlers, Berkeley DB |
| Serialization and JSON (`bdb_serialization`, `bdb_dbt.hpp`, `*_dto`, `bdb_file_io`) | none | records to buffers and back, keys, reading of text files | databases, handlers |
| Utilities (`util-lib`) | none | parsing of numbers, time formats | all |

How they interact: the server takes one connection at a time, reads it once,
and runs the handler of the request to its end. The handler opens the databases
it needs, works on their caches, and leaves its scope; the destructors then
close the handles in reverse order of declaration, and each close writes one
file. Only after that does `main` answer. There is no environment, transaction
or log, so a crash loses the caches and leaves the files as far as they were
written.

What is hard, and what makes each part correct:

- **Databases.** A primary and its secondaries are separate files, written one
  after another. Correct: outside the rows an interrupted request was writing,
  the index files and the primary file agree; a delete or save does what it
  reports.
- **Orders.** `order_remove` changes two primaries; nothing checks that an order
  or item exists when a line is added. Correct: an order is never taken away
  from under its lines, a select is exact for every order whose lines are
  undamaged, an acknowledged line is durable.
- **Triplet index.** Loads only add; updates do not touch it. Correct: every
  loaded record can be found, scores are percentages, one stale entry does not
  fail a whole match.
- **Server loop.** One thread, blocking calls, one `recv` per request. Correct:
  every request is answered, with its error if it failed; a silent client does
  not stop the others.
- **Opening.** Each of the 28 handlers selects configurations, opens databases
  and their indexes, and looks at errors in one of three ways. Correct: a DAO is
  called exactly when everything it needs is open; handles close in an order in
  which a death leaves no file ahead of one it depends on.
- **Web client.** Two selects are sent at once and answered in any order, while
  the user clicks on; an answer may never come. Correct: the tables show the
  selected order, except those a missing answer was to fill.

`PROJECT.json` lists every hazard at its line and the properties that watch it.

## 2. Modules

| Module | Role |
|---|---|
| `BdbTable` | values and operators, no variables: the contents of a primary file and its N secondary files; what `put`, `del` and a cursor do to them, with the failures the code can meet |
| `BdbTable_proof` | lemmas about those operators |
| `PrimaryDatabase` | one primary database through open, save, delete, close and crash |
| `PrimaryDatabase_proof` | its inductive invariant and theorems |
| `MCPrimaryDatabase` | its instance for TLC |
| `OrderCatalog` | abstract specification: the catalogue as atomic commits |
| `OrderStore` | the order, order_item and item databases under the requests that write them; instantiates `BdbTable` twice, implements `OrderCatalog` |
| `OrderStore_proof` | its inductive invariant, its theorems and the refinement |
| `MCOrderStore` | its instance for TLC |
| `DatabasesConfig` | operators: `bdb_databases.json` to configuration, and what a configuration says of the document |
| `RequestHandlers` | all 28 handlers around their DAO calls: arguments, selects, opens, errors, closes; start with a document, death |
| `RequestHandlers_proof` | its inductive invariant and theorems |
| `MCRequestHandlers` | its instance for TLC: seven documents |
| `RequestService` | abstract specification: first come, first served, at most once |
| `Server` | the main loop, its sockets and its clients; implements `RequestService` |
| `Server_proof` | its inductive invariant, its theorems and the refinement |
| `MCServer` | its instance for TLC |
| `WebClient` | the page: selection, tables, buttons, clicks, requests and callbacks |
| `WebClient_proof` | its inductive invariant and theorems |
| `MCWebClient` | its instance for TLC |
| `TextTriplets` | operators: how a text is cut into words and triplets |
| `TripletIndex` | a database of named records with its triplet database: loads, updates, removals, match, crash |
| `TripletIndex_proof` | its inductive invariant and theorems |
| `MCTripletIndex` | its instance for TLC |
| `RecordCodec` | records as bytes: text lines, buffers, keys, extractors, selects |
| `RecordCodec_proof` | its inductive invariant and theorems |
| `MCRecordCodec` | its instance for TLC |

### BdbTable

A table is a record: `rows` maps each key to its DTO or `NoData`, `idx[x]` is
the set of pairs (secondary key, primary key) in the x-th secondary file, in
the alphabetical order in which `Primary_database` opens them. `PutOutcomes`
and `DelOutcomes` give the tables a library call may leave. With consistent
indexes there is one outcome. When an index entry of the old row is missing,
Berkeley DB returns `DB_SECONDARY_BAD`, the row is not changed, and which of the
index files were already changed is left open. The library is not part of the
repository; these operators are modelled from the calls and the return codes
`Bdb_DAO` and `Bdb_cursor` test, and are marked external.

### PrimaryDatabase

`disk` is what the files hold, `mem` what the open handles hold. `Save` and
`DeleteKey` are `Bdb_DAO::save` and `delete_key` on the caches.
`CloseSecondary` and `ClosePrimary` are the destructors: the list of
secondaries is the last member of `Primary_database`, so its handles are closed
first, and the primary last. `Crash` may happen whenever the database is open;
the keys the request touched become *torn* if some but not all files were
written, and the model records whether their row was being inserted
(`tornNew`) or changed or deleted (`tornOld`).

### OrderStore and OrderCatalog

`OrderStore` has the whole handlers as actions: `AddItem`, `RemoveItem`,
`RemoveOrder`, `UpdateOrder`, `UpdateItem`, and `order_item_load` line by line
(`StartLoad`, `LoadLine`, `LoadBadLine`, `EndLoad`). A handler changes `mem`,
sets the answer and the list of files its destructors will write (`toClose`);
`CloseSecondary`, `ClosePrimary` and `CloseItems` write them one at a time;
`Reply` is `main` answering. Between any two of these the process may die. A
handler is one action because it runs on private caches in the only thread:
nothing can see it half-way, and a crash inside it leaves nothing behind.

The selects change nothing, so they are operators on a store (`SelectAllItems`,
`SelectOtherItems`, `SelectAllOrders`) computed through the index files as the
code computes them; the properties compare them with a scan of the rows.
`SelectOtherItems` is a list: `SelectAll` lists the item file in the order of its
keys (`ItemOrder`), and each line of the order is one turn of the loop
(`Erase`), which removes every element with the line's item from what the turns
before have left. The model leaves open which line comes first; the outcome does
not depend on it, as the proof shows.

`OrderCatalog` says what clients are promised about the rows alone: lines are
set or dropped one commit at a time, an order is cleared before it is dropped
and is dropped only when no line is left, and a crash only adds to the damaged
lines. `ImplementsCatalog` maps its variables to the rows of the files.

### DatabasesConfig and RequestHandlers

`OrderStore`, `PrimaryDatabase` and `TripletIndex` begin where every database is
open. `RequestHandlers` is about how a request gets there. A handler is a row of
a table: the arguments it checks for (`least`), reads (`reads`) and converts to
integers (`ints`), the configurations it selects and the handles it opens, in
order (`calls`), when it looks at errors (`check`: before each call, once before
the first open, or only before the DAO), and the databases its DAO call writes
(`writes`). The tables are the chain of `Dconf_request_handler::handle`: seven
account requests, eight item requests, twelve order requests and
`order_item_load`.

`match_text` alone has `ints`: `string_to_int` adds an error for a `min_score` or
`score_count` that `std::stoi` does not take, before anything is selected, and
only if there are three arguments (`Understands`). An argument is therefore an
"int", which `std::stoi` takes, or a "text".

`Receive`, `Call` (one select or one constructor), `Skip`, `CallDao`, `GiveUp`,
`Close` (one destructor) and `Return` are a request from its first to its last
line; `Die` may come between any two of them, and `Start` runs the program with
another document. `OpenPrimary` is the constructor of `Primary_database`: its
own file first, whatever the errors are, then the indexes, then `associate` up
to the first index whose key extractor is unknown. `OpenSecondary` is a handle
that handlers open besides, and that is not associated. A file that exists keeps
the flags it was created with: opening it with more fails, opening it with fewer
gives a handle that has all of them. A primary whose file was once made with
duplicates therefore has them still, whatever the document says by now, and no
index can be associated with it (`HasDuplicates`). What a write
means is left to the other modules; here it is a number, and each file holds the
numbers that have reached it.

`DatabasesConfig` reads the document: an object is a function from its keys, and
`Wrong` is a value of another type than the key calls for. `ConfigFromJson`
folds over the entries as the loops of `from_json` do; `Describes` says the same
of the document as a whole.

### Server and RequestService

`pc` names the call `main` is in: `accept`, `recv`, `parse`, `dispatch`, `send`
or `close`. Each call is one action with its failures as disjuncts: `Accept`
(`errors.clear` at the top of the loop, `accept`, `getpeername`), `Recv` (the
only `recv` of a request, and `http_body` on what it returned), `Parse`,
`Stop`, `Dispatch`, `Send` (`write_socket`) and `Close`, the destructor of the
client's socket, which every path through the loop comes to. `AcceptFails` is
an `accept` that returns -1.
Clients are the environment: `Connect`, `Deliver` (one of at most two segments
reaches the server's buffer), `Quit`, `ComeBack`. `Die` ends the process at any
point and `Start` runs it again. What a handler does is reduced to `done` or
`failed`; that a handler runs to its end is what makes one action of it here and
what lets `OrderStore` be read as the inside of `Dispatch`.

`RequestService` keeps the clients in line and the fate of each one's request:
asked, then executed at the head of the line, then answered; or lost. In
`ImplementsService` the line is the served client followed by the listen queue.

### WebClient

A click and an answer are one action each, because JavaScript runs an event
handler to its end. `ClickOrder`, `ClickDelete`, `ClickEdit`, `ClickItem`,
`ClickRemove`, `ClickPoolItem`, `ClickAdd` and `SelectUser` send requests into
`sent`; `Serve` executes one of them and puts its answer into `answers`;
`Answered` runs its callback. `order_add_item` and `order_remove` have callbacks
that send further selects, `order_remove_item` has no answer (finding 2). The
tables remember of which user or order their rows are; the page does not, which
is the hazard. The page begins empty and asks for its list of users.

A request may end without an answer: it does not come to its handler
(`LoseRequest`), or it is executed and the answer is lost or never sent. `Fail`
is what the page does then, which is nothing: `request.js` names an option
`$.ajax` does not know. `stale` is a history variable, the tables such an answer
was to fill and no later one has. A page without its list of users is loaded
again (`Reload`). A page on which no order was ever selected can still send
`order_add_item`; the line is then stored under the order "undefined", which
`lines` keeps as `NoOrder`.

`order_id`, `selected_row` and `editing` are kept and forgotten
exactly where the code does so. `InOrder` says whether requests and answers may
overtake each other.

### TripletIndex and TextTriplets

The same code serves accounts, items and orders; the module is about any of
them. A text is a sequence of character codes, cut as `bdb_tokens` cuts it:
characters that are neither alphanumeric nor blank are dropped, letters made
lower case, words split at each space, and every place of three characters (or
a whole shorter word) is a triplet. `StartLoad`, `LoadLine`, `LoadBadLine` (a
line that does not parse or a save that fails) and `EndLoad` are
`load_triplets`; `pending` is its map of triplets, which is written after the
last line. `Update` and `RemoveRow` change the record alone. `Close` and `Crash`
work as in `PrimaryDatabase`; a load closes the triplets before the records,
because `dto_triplets_db` is declared after the records' database. A row's
`indexed` is a history field: the load that wrote the row has also put its
triplets.

`match_text` changes nothing, so `Match` is an operator: the count of common
triplets, the score, the best score first, one id of those that tie (the last in
alphabetical order), the lookup of each. `Likeness` is the reference definition
of the score from the two texts alone.

### RecordCodec

Here data are bytes. A record of each of the four classes is built from a line
of a text file or from the arguments of an update, serialized into a buffer of
the size computed beforehand, stored under its key, read back, and found through
the secondary keys that the extractors take from the stored bytes. `Load` reads
a whole file: heading, lines, the first line with a wrong number of fields ends
it, a last line without a newline is not seen. The selects are operators.
`given` is a history variable: the record each key was last given.

## 3. Runs

| Run | Bounds | Checks | Shows |
|---|---|---|---|
| `primary_database` | 2 keys, 2 records that differ in one of 2 indexes, any number of crashes | `TypeOK`, `SecondaryReadsExact`, `RowsReachable`, `DeletedIsGone`, `SaveFailsOnlyIfTorn` | damage is confined to the keys of an interrupted request; an interrupted insertion leaves no unreachable row |
| `delete_errors` | same | `DeleteErrorsReported` fails | finding 1 |
| `order_store` | 2 orders, 2 items, 2 rows, lines about the first item, 1 crash (453,752 states) | `TypeOK`, `OtherItemsExact`, `SelectAllItemsExact`, `SelectAllOrdersExact`, `AckedDurable`, `OrderRemoved`, `NoNewOrphans`, `ImplementsCatalog` | selects are exact outside torn lines; the items that can be added to an order are those it has not, also when it has an item twice; acknowledged lines survive; no order leaves lines behind |
| `remove_item_answer` | 2 orders, 2 items, 2 rows, no crash | `RemoveItemAnswered` fails | finding 2 |
| `request_handlers` | 7 documents (as shipped, of an older program, one in which a database of records has duplicates, a misspelt extractor, edited by hand, two that are refused), every pair of the 28 requests and an unknown one, with their arguments or one less, the numbers of `match_text` numbers or not, any deaths and restarts (216,911 states) | `TypeOK`, `ConfigExact`, `DaoReachedExactly`, `FlushedInOrder` | the server runs on exactly what the document says; a DAO is reached if and only if the request can be served, whatever earlier requests left on the disk; no death leaves a row's file ahead of its indexes, or an order's ahead of its lines' |
| `server` | 2 clients, one may stay silent, backlog 1, requests in one or two segments, any number of failures, deaths and restarts (25,482 states) | `TypeOK`, `NoLeakedConnection`, `OnlyWholeExecuted`, `WholeRequestAnswered`, `ImplementsService`, `EveryClientReleased` | no path through the loop loses a connection, runs a request that was cut, or lets an old error silence an answer; every connection ends, unless a silent client holds the server for ever |
| `server_errors` | 2 clients | `ErrorAnswered` fails | finding 3 |
| `web_client` | 2 users, 2 orders of the first, 1 item, clicks while at most 1 request or answer is under way, in order, 1 answer missing at a time (830,576 states) | `TypeOK`, `TablesAgree`, `NothingMissing`, `PoolWhileEditing`, `HighlightedIsShown`, `SelectedOrderAppears` | once nothing is under way, the tables show the selection, except those a missing answer was to fill, and these only until the next answer; the order clicked last appears |
| `web_reordered` | same, any order, none missing | `HighlightedIsShown` fails | finding 4 |
| `triplet_index` | 2 ids, 3 texts, 3 queries, `min_score` -1, 10, 99, `score_count` -1, 1, 2, at most 3 duplicates of a triplet before a line is loaded (115,774 states) | `TypeOK`, `IndexComplete`, `ScoresExact`, `SpellingIgnored`, `MatchAnswersBest` | a loaded record stays findable through failed loads and crashes; a score is the likeness of the texts; case and punctuation do not matter; a match lists the best |
| `score_percent` | same | `ScoreIsPercent` fails | finding 5 |
| `record_codec` | 74 files of a heading and two lines (three and four fields, too short, empty fields, NULs, last newline missing), updates with fields "" and "a" (326 states) | `TypeOK`, `BuffersExact`, `RoundTrip`, `SelectsExact`, `FileStored` | no buffer is written or read past its end; what is stored is read back and found by its keys; a load changes lines of its file only |

Why the bounds are enough.

- **Databases.** A request writes rows of one database at a time, so one key it
  touches and one it does not show every relation between a damaged and an
  undamaged row; two records that agree in one index and differ in the other
  show both cases of `put` on an existing row, and two index files are what
  every indexed database of the program has.
- **Orders.** An order with two lines is the smallest in which one line can be
  forgotten, a second order the smallest bystander. The lines that are added and
  loaded (`GivenLines`) are about the first item: an order may have it in no line,
  in one or in both, and the second item is the one that a wrong removal would
  take out of the list of other items. Orders in `MCOrderStore`
  all carry the same data, because what a change of data does to an index is
  `PrimaryDatabase`'s subject. `MaxCrashes` bounds crashes in `OrderStore`
  only; a second crash differs from the first in starting from torn rows, which
  `PrimaryDatabase` covers without a bound. Identifiers of one kind are
  interchangeable and declared symmetric, except items in `OrderStore`, which have
  an order, and where liveness is checked.
  More orders, items, rows and crashes are not left to the bound: the seven
  invariants, `NoNewOrphans` among them, and the refinement are proved.
- **Opening.** Two requests are enough for one to leave files that the other
  finds, with a death and a start with another document in between; the files
  are all that lasts, and a third request would meet files that two requests
  could make. The documents have each error the code tests for at a different
  depth: none, a missing index, a missing database, an unknown extractor, a
  name given twice, a database with duplicates that has indexes in the other
  documents, a value of a wrong type, a class of another name. A handler looks at
  a number of arguments, so one less than it reads is the case to miss, and
  `match_text` at two numbers, each of which may be none.
  The four invariants are proved for any documents and any number of requests.
- **Server.** While one client is served the other waits. That a full listen
  queue and more clients change nothing is not left to the bound: the four
  invariants and the refinement are proved for every number of clients and every
  backlog. Two segments give every way in which one `recv` can miss a part:
  nothing, the beginning, everything. A client that is done may come back, so a
  run has any number of requests.
- **Page.** A user without orders shows what stays on the screen; two orders
  are needed to click one while the other loads. `MaxPending` guards clicks
  only: callbacks still add requests, and a click on an order sends two. Add is
  clicked only while the store has fewer than `MaxLines` lines; two clicks that
  are both under way still put an item into an order twice. `MaxLost` counts
  missing answers the page has not noticed and tables that are stale for one:
  the next answer goes missing only when the page has recovered, any number of
  times. The safety properties are proved for any numbers; the bounds matter for
  `SelectedOrderAppears` only.
- **Triplets.** The texts share triplets, repeat one, and hold a word shorter
  than a triplet; the queries differ from them by case, punctuation and length.
  `MaxEntries` is reached after a second load of the same record, which is when
  duplicates exist. `MinScores` has a value below every score, one between
  them, and one below that of an equal text alone; `ScoreCounts` has a negative
  count, a count of one and a count of all records. The five invariants are proved for any texts, queries and values.
- **Codec.** Each line is in a file before and after each other one, whole and
  cut; the fields differ in length, are empty, or have a NUL in them, which are
  the cases `strlen`, `strcpy` and `size()` tell apart. The five
  invariants are proved for any files and arguments.

Every property that passes has a mutant in `PROJECT.json`: a change of one
operation, as a plausible bug would make it, under which TLC finds the property
violated. The mutated operators stand next to the real ones, marked `Mutant`.

### Fairness

Two runs, `server` and `web_client`, are about liveness.

- `Server`: the thread does not stop by itself (weak fairness of `Main`);
  `accept` does not return -1 for ever while a connection waits (strong
  fairness of `Accept`, which is enabled again each time the loop comes round);
  and a client that is not in `Silent` sends what it announced (weak fairness
  of `Deliver`). Nothing forces a dead process to be started again: a death
  closes its connections. `recv` has no timeout, which is why
  `EveryClientReleased` makes an exception for `Stuck`, and why `Silent` is not
  empty in the run.
- `WebClient`: every request comes to its end, with an answer or without one
  (weak fairness of `Serve` and `Answered`); that the answer comes is not
  assumed. The user is never
  forced to click. `InOrder` is an assumption on the network and the browser,
  not something the code enforces; finding 4 is what happens without it.

## 4. Findings

1. **A failed delete is reported as done.** `delete_key` adds an error for
   `DB_NOTFOUND` only (`bdb_dao.hpp:44`), and its callers ask it to ignore that
   one. The handles are opened with `DB_CXX_NO_EXCEPTIONS`, so no exception
   carries another code. After a crash has lost an index entry of a row,
   deleting the row fails and is answered as a success. The comment of the
   function names write errors among those it reports.
2. **Removing an item answers with an error.** `delete_order_item` deletes the
   row and then looks it up (`order_item_dao.cpp:84-98`); a removal that worked
   therefore ends in "key not found". `history/HISTORY.md:50` and
   `web/instructions.html:20` describe the button as working.
3. **Errors are never sent.** `main` makes a response of the errors
   (`dconf_app.cpp:39`), but `write_socket` sends only while there are none
   (`bdb_inet_socket_server.cpp:218`): the connection is closed without a byte.
   `Bdb_errors::to_json` would also return `nullptr` instead of the messages its
   comment promises.
4. **Answers that overtake each other show the wrong order.** The callback of
   `order_select_all_items` does not look which order the answer is of
   (`item_table.js:161`). Two quick clicks whose requests change places leave
   the items of the first order under the highlight of the second, and a removal
   then acts on the second. `instructions.html:12` says the selected order's
   items appear.
5. **Scores above 100 percent.** A second load of a file puts every triplet a
   second time into a database with duplicates (`bdb_dao.hpp:164`), and
   `match_text` adds all of them up: an equal text scores 400.
   `dconf_request_handlers.hpp:161` calls the score a percentage.

Further observations that no run of its own shows:

- A grey button keeps working: `button.js:26` sets a property `disable`, which
  no browser has; `instructions.html:14` calls the buttons disabled. `WebClient`
  has the buttons as working.
- `order_id` survives a change of the user, so Delete order and Add item can act
  on an order that is not on the screen. `HighlightedIsShown` and
  `PoolWhileEditing` are stated about the highlighted order for that reason.
- `request.js:65` names an option `failure`, which `$.ajax` does not call, so
  nobody learns of a request that failed; `WebClient` has this. The remark of `request.js:16` that only one request is active is enforced nowhere.
- A list without members is left out of its answer, so `Order_table.create`
  fails on a user without orders after it has cleared the table; the model has
  this.
- A last line without a newline is not loaded (`bdb_file_io.cpp:148`), and the
  heading is counted among the records a load reports.
- Of records with the same score, a match lists only the last id; a record that
  was removed but is still in the triplet database among the best fails the
  whole match; an update leaves the triplets of the old name.
- The socket counts as opened before the result of `accept` is looked at
  (`bdb_inet_socket_server.cpp:165`); a later close of descriptor -1 is
  harmless.
- A failed request may create files: a primary's own file is opened, and
  created, whatever errors there are. `DaoReachedExactly` shows that this does
  no harm to later requests.
- `associate` is called without `DB_CREATE`, so an index that is added to the
  document of a populated database stays empty for the rows there are.
- `has_duplicates` counts only when a file is created. If it is taken out of the
  document and indexes are put in its place, the file keeps its duplicates and
  every request that opens the database fails, until the file is deleted.
- `Order_DTO::to_string` prints the order's id in the place of the account's.

## 5. Proofs

TLAPS checks every obligation of eight modules: `BdbTable_proof` (212),
`PrimaryDatabase_proof` (353), `OrderStore_proof` (2747), `Server_proof` (921),
`WebClient_proof` (2192), `RequestHandlers_proof` (2972), `TripletIndex_proof`
(2055) and `RecordCodec_proof` (2733). Each of the seven models has one inductive
invariant, `IInv`, from which its invariants, and the refinement where it has
one, follow. It was checked by TLC on the instance of the run before it was
proved. With it every invariant, every action property and every refinement the
passing runs check is a theorem; the two liveness properties are not.

What a definition computes from data of any length (a fold over a string or an
array, a sum over a set, the k-th number of a set) is proved by induction
without an operator as a parameter: the set of the cases that hold is closed, or
the least counterexample does not exist (`NatInd`, `SetInd`, from `WFMin` and
the well-founded orders of the library). A fold is a choice of a function that
computes it step by step, so its lemmas show that there is such a function and
that any two agree. `SelectSeq` and `SortSeq` have no definition the provers
can use; `TextTriplets` and `TripletIndex` pick and rank by `Nth`, the k-th
number of a set.

### PrimaryDatabase

`PrimaryDatabase_proof` proves the five invariants of the `primary_database` run
for every set of keys, records and secondary keys, every number of secondary
files and every extractor, from `BdbTableAssumption` alone (N is a natural
number, the extractors are functions into the secondary keys, `NoData` is not a
record).

None of the invariants is inductive: while files are being closed the disk is
a mixture, and what a crash leaves can only be judged from what the caches
held. `IInv` adds

1. `Sound(mem)`: the caches are consistent for untorn keys, and reachable
   except for keys torn while being changed or deleted;
2. `Sound(disk)` until the first file of a request is written;
3. disk and caches agree about every key the request did not touch;
4. secondary files already closed hold what the caches hold.

A crash half-way then leaves the untouched keys as sound as they were in the
caches (3 and 1), and every touched key becomes torn; a touched key whose row
is not on disk cannot be unreachable, which is why the order of closing matters.
The operator lemmas in `BdbTable_proof` say that a put or del leaves the other
keys alone (`PutOtherKeys`, `DelOtherKeys`), keeps a consistent key consistent
and a reachable key reachable, and succeeds on a reachable one. `Cached` joins
what `IInv` says of one database into a predicate of its caches, its files and
the set of files written so far, with lemmas for a change of the caches, the
writing of a file and a crash; `OrderStore_proof` uses it for each of its
databases.

### OrderStore

`OrderStore_proof` proves the six invariants of the `order_store` run,
`NoNewOrphans` and `ImplementsCatalog` for any orders, items, rows, given lines
and number of crashes, from `OrderStoreAssumption` (the extractors are functions,
`NoData` is not a record, the given lines are lines, `MaxCrashes` is a natural
number) and `KeysAssumption` (there are finitely many rows, and `ItemOrder` lists
the items, each once). `IInv` is `TypeOK` and

1. `PhaseInv`: what may be left of `toClose` for each request;
2. `LinesInv`, `OrdersInv`: `Cached` for the two indexed databases, and
   `ItemsInv`, the same for the items;
3. `AckedInv`: an acknowledged line is in the files unless the running request
   is about it; `ReportedInv`: what a request that succeeded has put is in the
   caches and reachable, so that it can be acknowledged once they are written;
4. `GoneInv`: of an order that is being removed the caches hold nothing but torn
   lines;
5. `CommitInv`: how the rows in the caches come from those in the files, request
   by request.

When a primary file is written, `CommitInv` says which step of `OrderCatalog`
that is: the rows become visible to the next process at that moment, and every
other step of `OrderStore` is a stutter or adds damaged lines. `GoneInv` is why
`DropOrder` leaves no line behind, and, with the lines' files closed before those
of the orders, why no crash makes an orphan (`NoNewOrphans`, which is an action
property).

`OtherItemsExact` is about a loop in a loop. `IInv` says which lines the index
gives, that is those of the order when none of them is torn
(`SelectAllItemsAre`); the rest is about lists. What `remove_if` keeps of a list
is found element by element, has the elements it should and keeps their order
(`KeptIs`, by `NatInd`); so a turn takes out one item and no other, whether it is
there or not (`EraseIs`). The turns are a function on the sets of lines, which
exists and is unique (`OthersExist`), and by induction on these sets (`SetInd`)
the list after any of them is all the items less theirs, rising by key
(`OthersAre`). That a set is taken away whole is thus the conclusion, not the
definition.

### Server

`Server_proof` proves the four invariants of the `server` run and
`ImplementsService` for every set of clients, silent or not, and every backlog,
from `ServerAssumption`. The invariants say what holds at one call; why it holds
was decided some calls before, so `IInv` says what the locals mean at every
call:

1. `SegmentsInv`: a client's sent and unsent segments are never more than its
   request has, and a closed connection holds none;
2. `QueueInv`: the queue holds no client twice, not the one being served, and
   only connected ones;
3. `ProgressInv`: what `errors`, `buffer` and `result` are at each `pc`: no
   errors at `recv` and `parse`, errors at `dispatch` exactly if the body is
   malformed, errors at `send` exactly if no handler ended well;
4. `AnswerInv`: only a client `main` is through with has an answer.

With these each step of the loop is a step of `RequestService` or a stutter;
`QueueInv` makes the line of the mapping move by its head only, and `AnswerInv`
keeps a client's fate from going backwards.

### WebClient

`WebClient_proof` proves `TypeOK` with messages in any order, and `TablesAgree`,
`NothingMissing`, `PoolWhileEditing` and `HighlightedIsShown` under the
hypothesis `InOrder`, for any users, orders, items, clicks and lost answers. The
hypothesis is needed: `web_reordered` refutes `HighlightedIsShown` without it.
The assumptions are `WebClientAssumption` and `NoTableAssumption` (the value for
an empty place on the page is not a table).

What a table will show is decided by what is under way. `Pending` is the answers
followed by the requests, the oldest first; when a request is executed it keeps
its place there, so that only sending and arrival change it. `IInv` says

1. `TypeInv`: the types, what each answer carries, and that a page without a
   user has asked for nothing but the users;
2. `AnswersInv`: an answer lists no less of an order than is in it now, and offers
   no more than can be added to it, unless a line was added since, which the
   page is still to be told;
3. `AskedInv`: the last thing asked for each table is what is selected;
4. `OrderTableInv`, `ItemTableInv`, `PoolTableInv`: a table agrees with the
   selection, or will be filled again, or waits for an answer that was lost;
5. `EditingInv`: while an order is edited, every request that clears the pool is
   followed by one that fills it; `HighlightedInv`: the highlighted order is the
   selected one and its items are there or asked for.

Once nothing is under way, the second alternatives are gone and the properties
remain.

### RequestHandlers

`RequestHandlers_proof` proves `TypeOK`, `ConfigExact`, `DaoReachedExactly` and
`FlushedInOrder` for any set of documents and any number of requests, deaths and
restarts, from `RequestHandlersAssumption` and `DocumentsAssumption`: an array of
a document is a sequence, each primary has a file that no other entry names, and
`IndexOrder`, the alphabetical order of index names, contains every index. The
code does not check the second, see section 6. `ConfigExact` needs of these only
the first. What is proved is proved about the 28 rows of
the table as they are: `HandlersWellMade` says that each handler reads the
arguments it looked for, selects and opens every database it names, and opens
last what it writes first. `IInv` is `TypeOK`, `FlushedInOrder` and

1. `ConfigInv`: the configuration is what `ConfigFromJson` made of the document;
   `FilesInv`, `ListsInv`: files, handles and calls are well formed;
2. `CallsInv`: while there are no errors, the calls that are left are the last
   ones of the handler; `MadeInv`: what each call that was made has seen to;
3. `FailedInv`: an error is one that no such request can avoid, and whoever is
   at his DAO call can be served. This is the hard direction, because a request
   adds files and a later one must not fail for them;
4. `HandlesInv`: an open primary handle has its indexes' handles in front of it,
   and a database that is written second has the one written first in front;
5. `ClosingInv`: what the last write has still to put into files is put there in
   that order, whenever the process dies.

`FailedInv` was not inductive when `CanBeServed` looked at the document's
`has_duplicates` alone: a file made with duplicates by an earlier document keeps
them. `HasDuplicates` and the seventh document of the run come from there.

That what `from_json` reads without an error is what the document says
(`ReadDescribes`) is about its two loops. Both are one fold, `Gathers`: an
ill-formed entry ends it, any other takes the place of the entries of its name.
`GatheredIs` says what it gives after any set of places: the entries up to the
first ill-formed one, of each name the last.

### TripletIndex

`TripletIndex_proof` proves the five invariants of the `triplet_index` run for
every set of ids, texts and queries, every threshold, every count and every
bound, from `TripletIndexAssumption`.

`IndexComplete` is about the files, and a file is written from caches, so `IInv`
needs completeness of the caches too; that the entries a load has gathered are
those of the rows it has saved (`PendingInv`), which makes the caches complete
when `EndLoad` writes them; and that the triplet file has no entry its cache has
lost, and is written before the file of the records (`ClosingInv`), so that it is
complete with the old records as well as with the new ones. This is where the
order of the destructors is used.

The other three hold in every state of which `IInv` holds, whatever failed loads
have left in the files; they compare what `match_text` computes with a
definition that knows the texts alone.

- `ScoresExact`: `match_text` goes through the hits of one triplet after
  another, the reference sums over the triplets two texts share. A sum of
  naturals is the size of a set of pairs (`TotalIs`), so sums can be split and
  compared by bijections (`TotalPartition`, `TotalBijection`). `CleanHits`: a
  record loaded once has one entry for each triplet of its name and none for
  another, so its hits and the shared triplets correspond.
- `SpellingIgnored`: a query that is spelled like the name of a record loaded
  once (`Clean`) scores 100. Texts that are spelled alike have the same normal form,
  so the same triplets with the same counts (`SpelledAlikeIs`, `TripletsAre`), and
  the counts of a text's triplets add up to its number of places
  (`LikeItself`), which makes the score 100.
- `MatchAnswersBest`: `Nth` counts through a set in its order (`NthIs`), so the
  answer's scores fall, and a score that is missing from it is at most
  `min_score`, or stands behind `score_count` higher ones (`MatchIs`). It is a
  claim about scores, not about records: of several records with one score the
  map of `match_text` keeps the last, and the others are missing from the answer.

### RecordCodec

`RecordCodec_proof` proves the five invariants of the `record_codec` run for all
files and arguments, of every length, and each of the four classes, from
`RecordCodecAssumption` (a file is a text, an argument one without a NUL).
`IInv` says that every row is the
buffer of the DTO that was last given for its id (`Matches`). A load is a fold of
saves, and the history is the same fold (`PutsChain`, `NotesChain`); `FoldsMatch`
takes both forward together.

The rest is about strings. No string of a DTO contains a NUL once it has been a
C string, so a buffer falls apart into the strings it was written from
(`Unpacked`), and its length is the size computed beforehand (`Summed`,
`Filled`): `BuffersExact` and `RoundTrip`. An extractor reads from the buffer
what the record has (`SelectsExact`). In the same way a line falls apart into its
fields at the separators (`Pieces`, `Tokens`), and joining them gives the line
again (`JoinedLine`); the last line of an id counts (`LastCounts`), and rows of
other ids stay as they were: `FileStored`.

### Model-checked only

`EveryClientReleased` and `SelectedOrderAppears`: liveness under fairness is out
of the prover's reach. The five properties that are expected to fail are shown to
do so by their runs' counterexamples.

## 6. What is left out

- Writes of a cache before its close: the cache is larger than the data.
- Errors of the operating system on opening a file: the outcome is that of a
  file with other flags, which `RequestHandlers` has.
- In `RequestHandlers`: two entries of a document that share a filename (the
  code does not look at this; `DocumentsAssumption` states it),
  rows that exist when an index is added, a document without databases, the
  numeric options, the `variables` array, which is read and dropped, and
  `to_json`, which nobody calls.
- A second server process on the same files; nothing in the code prevents it.
- Colliding ids: `generate_unique_id` is taken to return a fresh id. The code
  would overwrite the row (flags 0).
- The item files' indexes in `OrderStore`: `PrimaryDatabase` has them.
- The joins in `bdb_dao.hpp` (called by nobody), and the commented-out handlers.
- In `Server`: a restart whose `bind` fails is a step that changes nothing; a
  `send` that takes a part of the response; a request longer than the 64 KB
  buffer is cut and so malformed; headers and logs.
- In `WebClient`: labels and the grey of a button, the item description table
  and New order (no listener leads to them).
- In `TripletIndex`: the width of the score's `int`, the count a load answers.
- In `RecordCodec`: the JSON of an answer and `from_json`, which is not used.
- Utilities: time formatting, and numbers but for those of `match_text`.

## 7. Plan

Done: all modules of section 2 and the proofs of section 5.

Next: `Server` over `OrderStore`, `Dispatch` replaced by the requests' steps, so
that "acknowledged" is what `main` sends.
