--------------------------- MODULE RequestHandlers ---------------------------
(***************************************************************************)
(* What every request does before and after its DAO call: the handlers     *)
(* select configurations by name, open the databases and their indexes one *)
(* after another while errors add up, call the DAO only if there are none, *)
(* and close the handles in reverse order of declaration.  The process may *)
(* die at any point and be started again with another bdb_databases.json.  *)
(*                                                                         *)
(* What the DAOs do with the rows is in OrderStore, PrimaryDatabase and    *)
(* TripletIndex; here a write is a number, and each file holds the numbers *)
(* of the writes that have reached it.                                     *)
(***************************************************************************)
EXTENDS DatabasesConfig, FiniteSets

CONSTANTS
    Documents,     \* what bdb_databases.json may be when the program is started
    IndexOrder,    \* the names of the indexes in the order of a std::map
    NoRequest,
    MaxRequests    \* bound: requests in a behaviour

ASSUME RequestHandlersAssumption == MaxRequests \in Nat

-----------------------------------------------------------------------------
(* The handlers as tables: the arguments they ask for, the ones they read  *)
(* and the ones among them they convert to integers, what they select and  *)
(* open in which order, when they look at errors ("each": before every     *)
(* call, "once": before the first open, "none"), and the databases the DAO *)
(* call writes.  Where a write of two databases is cut off, what "writes"  *)
(* names first must be there first.                                        *)

Select(db) == [do |-> "select", db |-> db]
SelectIndex(db, index) == [do |-> "select index", db |-> db, index |-> index]
Open(db) == [do |-> "open", db |-> db]
OpenIndex(db, index) == [do |-> "open index", db |-> db, index |-> index]

\* Two tables as one.
Joined(f, g) ==
    [name \in DOMAIN f \cup DOMAIN g |-> IF name \in DOMAIN f THEN f[name] ELSE g[name]]

\* Dconf_request_handler's templates.
Load(db, triplets) ==
    [least |-> 1, reads |-> 1, ints |-> {}, check |-> "each", writes |-> <<triplets, db>>,
     calls |-> <<Select(db), Open(db), Select(triplets), Open(triplets)>>]

Lookup(db) ==
    [least |-> 1, reads |-> 1, ints |-> {}, check |-> "each", writes |-> <<>>,
     calls |-> <<Select(db), Open(db)>>]

MatchText(db, triplets) ==
    [least |-> 3, reads |-> 3, ints |-> {2, 3}, check |-> "each", writes |-> <<>>,
     calls |-> <<Select(db), Open(db), Select(triplets), Open(triplets)>>]

SelectAll(db) ==
    [least |-> 0, reads |-> 0, ints |-> {}, check |-> "each", writes |-> <<>>,
     calls |-> <<Select(db), Open(db)>>]

SelectAllFor(db, index) ==
    [least |-> 1, reads |-> 1, ints |-> {}, check |-> "each", writes |-> <<>>,
     calls |-> <<Select(db), SelectIndex(db, index), Open(db), OpenIndex(db, index)>>]

Update(db, fields) ==
    [least |-> fields, reads |-> fields, ints |-> {}, check |-> "each", writes |-> <<db>>,
     calls |-> <<Select(db), Open(db)>>]

ItemSelectAllOrders ==
    [least |-> 1, reads |-> 1, ints |-> {}, check |-> "once", writes |-> <<>>,
     calls |-> <<Select("order_item"),
                 SelectIndex("order_item", "order_item_item_id"), Select("order"),
                 Open("order"), Open("order_item"),
                 OpenIndex("order_item", "order_item_item_id")>>]

OrderAddItem ==
    [least |-> 2, reads |-> 2, ints |-> {}, check |-> "none", writes |-> <<"order_item">>,
     calls |-> <<Select("order_item"),
                 SelectIndex("order_item", "order_item_order_id"),
                 Open("order_item"),
                 OpenIndex("order_item", "order_item_order_id")>>]

OrderRemoveItem ==
    [least |-> 2, reads |-> 2, ints |-> {}, check |-> "none", writes |-> <<"order_item">>,
     calls |-> <<Select("order_item"),
                 SelectIndex("order_item", "order_item_order_id"),
                 SelectIndex("order_item", "order_item_item_id"),
                 Open("order_item"),
                 OpenIndex("order_item", "order_item_order_id"),
                 OpenIndex("order_item", "order_item_item_id")>>]

\* Mutant: order_item_db is declared before order_db, and closed after it.
OrderRemoveReversed ==
    [least |-> 1, reads |-> 1, ints |-> {}, check |-> "none",
     writes |-> <<"order_item", "order">>,
     calls |-> <<Select("order"), Select("order_item"),
                 SelectIndex("order_item", "order_item_order_id"),
                 SelectIndex("order_item", "order_item_item_id"),
                 Open("order_item"), Open("order"),
                 OpenIndex("order_item", "order_item_order_id"),
                 OpenIndex("order_item", "order_item_item_id")>>]

OrderRemove ==
    [least |-> 1, reads |-> 1, ints |-> {}, check |-> "none",
     writes |-> <<"order_item", "order">>,
     calls |-> <<Select("order"), Select("order_item"),
                 SelectIndex("order_item", "order_item_order_id"),
                 SelectIndex("order_item", "order_item_item_id"),
                 Open("order"), Open("order_item"),
                 OpenIndex("order_item", "order_item_order_id"),
                 OpenIndex("order_item", "order_item_item_id")>>]

OrderSelectAllItems ==
    [least |-> 1, reads |-> 1, ints |-> {}, check |-> "none", writes |-> <<>>,
     calls |-> <<Select("order_item"),
                 SelectIndex("order_item", "order_item_order_id"), Select("item"),
                 Open("item"), Open("order_item"),
                 OpenIndex("order_item", "order_item_order_id")>>]

OrderSelectOtherItems == [OrderSelectAllItems EXCEPT !.check = "once"]

OrderItemLoad ==
    [least |-> 1, reads |-> 1, ints |-> {}, check |-> "each", writes |-> <<"order_item">>,
     calls |-> <<Select("order_item"), Open("order_item")>>]

AccountSelects ==
    [account_select_all              |-> SelectAll("account"),
     account_select_all_for_email    |-> SelectAllFor("account", "account_email"),
     account_select_all_for_username |-> SelectAllFor("account", "account_username")]

AccountHandlers ==
    Joined(AccountSelects,
        [account_load           |-> Load("account", "account_username_triplets"),
         account_lookup         |-> Lookup("account"),
         account_match_username |-> MatchText("account", "account_username_triplets"),
         account_update         |-> Update("account", 4)])

ItemSelects ==
    [item_select_all_for_name |-> SelectAllFor("item", "item_name"),
     item_select_all_for_cost |-> SelectAllFor("item", "item_cost"),
     item_update              |-> Update("item", 3)]

ItemHandlers ==
    Joined(ItemSelects,
        [item_load              |-> Load("item", "item_name_triplets"),
         item_lookup            |-> Lookup("item"),
         item_match_name        |-> MatchText("item", "item_name_triplets"),
         item_select_all        |-> SelectAll("item"),
         item_select_all_orders |-> ItemSelectAllOrders])

OrderSelects ==
    [order_select_all_for_account_id |-> SelectAllFor("order", "order_account_id"),
     order_select_all_for_name       |-> SelectAllFor("order", "order_name"),
     order_select_other_items        |-> OrderSelectOtherItems,
     order_update                    |-> Update("order", 3)]

OrderHandlers ==
    Joined(OrderSelects,
        [order_add_item         |-> OrderAddItem,
         order_load             |-> Load("order", "order_name_triplets"),
         order_lookup           |-> Lookup("order"),
         order_match_name       |-> MatchText("order", "order_name_triplets"),
         order_remove_item      |-> OrderRemoveItem,
         order_remove           |-> OrderRemove,
         order_select_all       |-> SelectAll("order"),
         order_select_all_items |-> OrderSelectAllItems])

\* The chain of Dconf_request_handler::handle.
Handlers ==
    Joined(AccountHandlers,
           Joined(ItemHandlers, Joined(OrderHandlers, [order_item_load |-> OrderItemLoad])))

Requests == DOMAIN Handlers \cup {"any other request"}

Opens(call) == call.do \in {"open", "open index"}

-----------------------------------------------------------------------------

VARIABLES
    pc,         \* down, idle, handling, closing
    document,   \* the bdb_databases.json the program was started with
    config,     \* bdb_databases_config
    files,      \* the files there are: the flags of each, the writes it holds
    request,
    args,       \* of each argument: "int" if std::stoi takes it, else "text"
    calls,      \* what the handler has still to select and open
    errors,     \* errors.has()
    closes,     \* the open handles, in the order they will be closed
    dirty,      \* the files of which a cache holds the last write of the journal
    reached,    \* the DAO was called
    received,   \* requests so far
    journal     \* history: for each write, the pairs of files <<a, b>> where a
                \* must hold the write when b does

program == <<pc, document, config>>
handler == <<request, args, calls, errors, closes, dirty, reached>>
vars == <<program, files, handler, received, journal>>

Flags == SUBSET {"DUP", "DUPSORT"}

\* DB_DUPSORT implies DB_DUP.
PrimaryFlags(c) == IF c.has_duplicates THEN {"DUP"} ELSE {}
IndexFlags == {"DUP", "DUPSORT"}

TypeOK ==
    /\ pc \in {"down", "idle", "handling", "closing"}
    /\ \A f \in DOMAIN files :
          /\ files[f].flags \in Flags
          /\ files[f].writes \subseteq DOMAIN journal
    /\ NoName \notin DOMAIN files
    /\ request \in Requests \cup {NoRequest}
    /\ args \in Seq({"int", "text"}) /\ Len(args) <= 4
    /\ received \in 0 .. MaxRequests
    /\ errors \in BOOLEAN /\ reached \in BOOLEAN
    /\ dirty \subseteq DOMAIN files
    /\ \A n \in DOMAIN closes : closes[n].attached => closes[n].file \in DOMAIN files
    /\ pc \in {"down", "idle"} => calls = <<>> /\ closes = <<>> /\ dirty = {}
    /\ pc = "down" => config = <<>>

NoDocument == <<>>

Init ==
    /\ pc = "down" /\ document = NoDocument /\ config = <<>>
    /\ files = <<>>
    /\ request = NoRequest /\ args = <<>> /\ calls = <<>> /\ errors = FALSE
    /\ closes = <<>> /\ dirty = {} /\ reached = FALSE
    /\ received = 0 /\ journal = <<>>

-----------------------------------------------------------------------------
(* Berkeley DB: opening and associating. *)

\* Mutant: a database without a filename is one in memory.
OpenFailsOnFlags(filename, flags) ==
    filename \in DOMAIN files /\ ~(flags \subseteq files[filename].flags)

\* A directory, or a file that has not the flags the handle was given; a handle
\* takes over the flags the file has besides.
OpenFails(filename, flags) ==
    \/ filename = NoName
    \/ filename \in DOMAIN files /\ ~(flags \subseteq files[filename].flags)

\* DB_CREATE, for a function from filenames to flags.
Created(new) ==
    [f \in DOMAIN files \cup DOMAIN new |->
        IF f \in DOMAIN files THEN files[f] ELSE [flags |-> new[f], writes |-> {}]]

\* The indexes of a primary, in the order of its secondary_database_config_map.
IndexesOf(c) == SelectSeq(IndexOrder, LAMBDA index : index \in DOMAIN c.secondaries)

\* What the documents are taken to give: every primary its own file, and no
\* index that IndexOrder leaves out.
SingleFiles(databases) ==
    \A db, other \in DOMAIN databases :
        /\ databases[db].filename = databases[other].filename => db = other
        /\ \A i \in DOMAIN databases[other].secondaries :
              databases[db].filename # databases[other].secondaries[i].filename

Ordered(c) ==
    /\ IndexesOf(c) \in Seq(DOMAIN c.secondaries)
    /\ Range(IndexesOf(c)) = DOMAIN c.secondaries

ASSUME DocumentsAssumption ==
    \A json \in Documents :
        LET read == ConfigFromJson(json)
        IN  /\ WellTyped(json)
            /\ read.ok => /\ SingleFiles(read.map)
                          /\ \A db \in DOMAIN read.map : Ordered(read.map[db])

\* The loop over associate: up to the first index whose extractor is unknown;
\* none of a primary that has duplicates.
Attached(c, new) ==
    IF "DUP" \in new[c.filename].flags THEN {}
    ELSE {n \in DOMAIN IndexesOf(c) :
             \A m \in 1 .. n :
                c.secondaries[IndexesOf(c)[m]].key_extractor \in KeyExtractors}

\* The constructor of Primary_database.  Its own file is opened, and created,
\* whatever the errors are; the indexes only if there are none by then.
OpenPrimary(db) ==
    LET c       == Primary(config, db)
        indexes == IndexesOf(c)
        FileOf(n) == c.secondaries[indexes[n]].filename
        own     == ~OpenFails(c.filename, PrimaryFlags(c))
        goOn    == ~errors /\ own
        ownFile    == IF own THEN {c.filename} ELSE {}
        indexFiles == IF goOn THEN {FileOf(n) : n \in DOMAIN indexes} \ {NoName} ELSE {}
        created == Created([f \in ownFile \cup indexFiles |->
                               IF f \in ownFile THEN PrimaryFlags(c) ELSE IndexFlags])
        opened  == goOn /\ \A n \in DOMAIN indexes : ~OpenFails(FileOf(n), IndexFlags)
        attached == IF opened THEN Attached(c, created) ELSE {}
        Handle(file, at) == [db |-> db, file |-> file, attached |-> at]
    IN  /\ files' = created
        /\ errors' = ~(opened /\ attached = DOMAIN indexes)
        /\ closes' = (IF goOn THEN [n \in DOMAIN indexes |-> Handle(FileOf(n), n \in attached)]
                              ELSE <<>>)
                     \o <<Handle(c.filename, own)>> \o closes

\* Mutant: the outcome of the last open takes the place of the errors so far.
OpenSecondaryForgets(db, index) ==
    LET file == Secondary(config, db, index).filename
        ok   == ~OpenFails(file, IndexFlags)
    IN  /\ files' = Created([f \in IF ok THEN {file} ELSE {} |-> IndexFlags])
        /\ errors' = ~ok
        /\ closes' = <<[db |-> db, file |-> file, attached |-> FALSE]>> \o closes

\* The constructor of Secondary_database alone: a handle that is not associated.
OpenSecondary(db, index) ==
    LET file == Secondary(config, db, index).filename
        ok   == ~OpenFails(file, IndexFlags)
    IN  /\ files' = Created([f \in IF ok THEN {file} ELSE {} |-> IndexFlags])
        /\ errors' = (errors \/ ~ok)
        /\ closes' = <<[db |-> db, file |-> file, attached |-> FALSE]>> \o closes

-----------------------------------------------------------------------------
(* main *)

\* Dconf_inet_app_init: without the options -d and -h, and with a document that
\* from_json refuses, main ends.
Start(json, options) ==
    LET read == IF options = {"d", "h"} THEN ConfigFromJson(json) ELSE Error(Nothing) IN
    /\ pc = "down"
    /\ IF read.ok THEN pc' = "idle" /\ config' = read.map /\ document' = json
                  ELSE UNCHANGED program
    /\ UNCHANGED <<files, handler, received, journal>>

\* What a handler asks of its arguments before anything else: that there are
\* enough of them, and then that string_to_int converts min_score and
\* score_count of match_text.  One that is neither adds an error.
Understands(h, a) ==
    /\ Len(a) >= h.least
    /\ \A n \in h.ints : a[n] = "int"

\* The chain of handlers finds the one of this name, or adds an error.
Receive(r, a) ==
    /\ pc = "idle" /\ received < MaxRequests
    /\ pc' = "handling" /\ received' = received + 1
    /\ request' = r /\ args' = a
    /\ calls' = IF r \in DOMAIN Handlers THEN Handlers[r].calls ELSE <<>>
    /\ errors' = ~(r \in DOMAIN Handlers /\ Understands(Handlers[r], a))
    /\ UNCHANGED <<document, config, files, closes, dirty, reached, journal>>

\* if (!errors.has()), in front of a call or of all that is opened.
Skips ==
    /\ errors /\ calls # <<>>
    /\ \/ Handlers[request].check = "each"
       \/ Handlers[request].check = "once" /\ Opens(Head(calls)) /\ closes = <<>>

Skip ==
    /\ pc = "handling" /\ Skips
    /\ calls' = <<>>
    /\ UNCHANGED <<program, files, request, args, errors, closes, dirty, reached,
                   received, journal>>

Call ==
    LET call == Head(calls) IN
    /\ pc = "handling" /\ calls # <<>> /\ ~Skips
    /\ calls' = Tail(calls)
    /\ \/ /\ call.do = "select"
          /\ errors' = (errors \/ call.db \notin DOMAIN config)
          /\ UNCHANGED <<files, closes>>
       \/ /\ call.do = "select index"
          /\ errors' = (errors \/ ~HasIndex(config, call.db, call.index))
          /\ UNCHANGED <<files, closes>>
       \/ call.do = "open" /\ OpenPrimary(call.db)
       \/ call.do = "open index" /\ OpenSecondary(call.db, call.index)
    /\ UNCHANGED <<program, request, args, dirty, reached, received, journal>>

FilesOf(db) ==
    {closes[n].file : n \in {n \in DOMAIN closes : closes[n].db = db /\ closes[n].attached}}

\* What must be on the disk before what, of a write of this request: a row's
\* index entries before the row, and the databases in the order of "writes".
Before ==
    LET dbs == Handlers[request].writes
        File(db) == Primary(config, db).filename
        Indexes(db) == Primary(config, db).secondaries
    IN  (UNION {{<<Indexes(db)[i].filename, File(db)>> : i \in DOMAIN Indexes(db)} :
                   db \in Range(dbs)})
        \cup {<<File(dbs[n]), File(dbs[n + 1])>> : n \in 1 .. Len(dbs) - 1}

\* The DAO call, behind the last if (!errors.has()).  It reads, it fails, or it
\* writes through the handles of its primaries and what is associated to them.
CallDao ==
    /\ pc = "handling" /\ calls = <<>> /\ ~errors
    /\ pc' = "closing" /\ reached' = TRUE
    /\ \/ UNCHANGED <<dirty, journal>>
       \/ /\ Handlers[request].writes # <<>>
          /\ dirty' = UNION {FilesOf(db) : db \in Range(Handlers[request].writes)}
          /\ journal' = Append(journal, Before)
    /\ UNCHANGED <<document, config, files, request, args, calls, errors, closes, received>>

GiveUp ==
    /\ pc = "handling" /\ calls = <<>> /\ errors
    /\ pc' = "closing"
    /\ UNCHANGED <<document, config, files, request, args, calls, errors, closes, dirty,
                   reached, journal, received>>

\* The next destructor: the handle's cache goes to its file.
Close ==
    LET h == Head(closes) IN
    /\ pc = "closing" /\ closes # <<>>
    /\ closes' = Tail(closes)
    /\ IF h.attached /\ h.file \in dirty
       THEN /\ files' = [files EXCEPT ![h.file].writes = @ \cup {Len(journal)}]
            /\ dirty' = dirty \ {h.file}
       ELSE UNCHANGED <<files, dirty>>
    /\ UNCHANGED <<program, request, args, calls, errors, reached, journal, received>>

\* The locals are gone.
Forget ==
    /\ request' = NoRequest /\ args' = <<>> /\ calls' = <<>> /\ errors' = FALSE
    /\ closes' = <<>> /\ dirty' = {} /\ reached' = FALSE

\* The handler returns true, and main answers with the result or the errors.
Return ==
    /\ pc = "closing" /\ closes = <<>>
    /\ pc' = "idle" /\ Forget
    /\ UNCHANGED <<document, config, files, journal, received>>

\* The process is killed; what the caches held is lost.
Die ==
    /\ pc # "down"
    /\ pc' = "down" /\ document' = NoDocument /\ config' = <<>> /\ Forget
    /\ UNCHANGED <<files, journal, received>>

\* Bound: a request comes with the arguments it needs or with one less, and
\* each of those that should be an integer may be something else.
ArgumentsOf(r) ==
    IF r \in DOMAIN Handlers
    THEN LET h == Handlers[r] IN
         {[n \in 1 .. length |-> IF n \in ints THEN "int" ELSE "text"] :
             length \in {h.reads, h.reads - 1} \cap Nat, ints \in SUBSET h.ints}
    ELSE {<<>>}

Next ==
    \/ \E json \in Documents, options \in SUBSET {"d", "h"} : Start(json, options)
    \/ \E r \in Requests : \E a \in ArgumentsOf(r) : Receive(r, a)
    \/ Skip \/ Call \/ CallDao \/ GiveUp \/ Close \/ Return \/ Die

Spec == Init /\ [][Next]_vars

-----------------------------------------------------------------------------
(* Properties *)

\* The server never runs on a configuration that was read in part, or that is
\* not what the document says: from_json stops at the first error and main
\* does not go on, and the last of two entries of a name is the one that
\* counts, with its indexes (bdb_databases_config.cpp).
ConfigExact == pc # "down" => Describes(config, document)

\* A primary has duplicates if the configuration says so, or if its file has
\* them from a run of the program with another document.
HasDuplicates(c) ==
    \/ c.has_duplicates
    \/ c.filename \in DOMAIN files /\ "DUP" \in files[c.filename].flags

\* What a request needs: its databases and the indexes it names are
\* configured, every index of these databases can be opened and associated,
\* and it has all the arguments the handler reads, as integers where the DAO
\* takes integers.
CanBeServed(r, a) ==
    /\ r \in DOMAIN Handlers /\ Len(a) >= Handlers[r].reads
    /\ \A n \in Handlers[r].ints : a[n] = "int"
    /\ \A c \in Range(Handlers[r].calls) :
          /\ c.db \in DOMAIN config
          /\ c.do \in {"select index", "open index"} => HasIndex(config, c.db, c.index)
          /\ ~OpenFails(config[c.db].filename, PrimaryFlags(config[c.db]))
          /\ \A i \in DOMAIN config[c.db].secondaries :
                LET index == config[c.db].secondaries[i] IN
                /\ ~OpenFails(index.filename, IndexFlags)
                /\ index.key_extractor \in KeyExtractors
                /\ ~HasDuplicates(config[c.db])

\* A request reaches its DAO if and only if it can be served, whichever of the
\* three ways its handler checks errors in, and whatever earlier requests and
\* earlier runs of the program have left in the database directory: no DAO
\* works on a database that is not open or an argument that is not there or was
\* not converted, and no request fails for a file that an earlier failure has
\* made.
DaoReachedExactly ==
    pc = "closing" => (reached <=> CanBeServed(request, args))

\* Handles close in an order in which no crash leaves a file that is ahead of
\* the files it depends on: a row reaches its primary's file after all the
\* indexes the primary was configured with, a record after its triplets, and
\* the removal of an order after that of its lines.
FlushedInOrder ==
    \A w \in DOMAIN journal : \A p \in journal[w] :
        p[2] \in DOMAIN files /\ w \in files[p[2]].writes
            => p[1] \in DOMAIN files /\ w \in files[p[1]].writes

=============================================================================
