--------------------------- MODULE DatabasesConfig ---------------------------
(***************************************************************************)
(* bdb_databases.json as the program reads it: a JSON object is a function *)
(* from the keys it has to their values, an array a sequence.  Wrong       *)
(* stands for a value that has not the type the key calls for.             *)
(***************************************************************************)
EXTENDS Naturals, Sequences, SequencesExt

Wrong == "value of another type"

\* get_json_object of a key that must be there, and of an optional one.
HasKey(json, key) == key \in DOMAIN json /\ json[key] # Wrong
MayHaveKey(json, key) == key \in DOMAIN json => json[key] # Wrong

\* An array is a sequence, also in the documents.
HasArray(json, key) == HasKey(json, key) => json[key] \in Seq(Range(json[key]))

WellTyped(json) ==
    /\ HasArray(json, "primary_databases")
    /\ HasKey(json, "primary_databases") =>
          \A n \in DOMAIN json.primary_databases :
              HasArray(json.primary_databases[n], "secondary_databases")

ValueOr(json, key, default) == IF key \in DOMAIN json THEN json[key] ELSE default

OfClass(json, class) == HasKey(json, "class_name") /\ json.class_name = class

\* What has been read, and that there was no error yet.
Nothing == [ok |-> TRUE, map |-> <<>>]
Error(read) == [read EXCEPT !.ok = FALSE]

\* Mutant: the first entry of a name stays.
AddedFirst(read, name, value) == [read EXCEPT !.map = @ @@ (name :> value)]

\* map[name] = value, a copy: the last entry of a name stays.
Added(read, name, value) ==
    [read EXCEPT !.map = [key \in {name} \cup DOMAIN @ |-> IF key = name THEN value ELSE @[key]]]

SecondaryOk(json) ==
    /\ OfClass(json, "Secondary_database_config")
    /\ \A key \in {"name", "filename", "key_extractor"} : HasKey(json, key)

\* One turn of the loop over secondary_databases.
AddSecondary(read, json) ==
    IF read.ok /\ SecondaryOk(json)
    THEN Added(read, json.name,
               [filename |-> json.filename, key_extractor |-> json.key_extractor])
    ELSE Error(read)

PrimaryOk(json) ==
    /\ OfClass(json, "Primary_database_config")
    /\ \A key \in {"name", "filename"} : HasKey(json, key)
    /\ \A key \in {"has_duplicates", "variables", "secondary_databases"} :
          MayHaveKey(json, key)

SecondariesFromJson(json) ==
    FoldLeft(AddSecondary, Nothing, ValueOr(json, "secondary_databases", <<>>))

\* One turn of the loop over primary_databases.
AddPrimary(read, json) ==
    IF read.ok /\ PrimaryOk(json) /\ SecondariesFromJson(json).ok
    THEN Added(read, json.name,
               [filename       |-> json.filename,
                has_duplicates |-> ValueOr(json, "has_duplicates", "") = "true",
                secondaries    |-> SecondariesFromJson(json).map])
    ELSE Error(read)

\* Bdb_databases_config::from_json.
ConfigFromJson(json) ==
    IF OfClass(json, "Bdb_databases_config") /\ HasKey(json, "primary_databases")
    THEN FoldLeft(AddPrimary, Nothing, json.primary_databases)
    ELSE Error(Nothing)

\* What select finds, and the default-constructed configuration it leaves
\* alone where it finds nothing.
NoName == ""
NoPrimary == [filename |-> NoName, has_duplicates |-> FALSE, secondaries |-> <<>>]
NoSecondary == [filename |-> NoName, key_extractor |-> NoName]
Primary(config, db) == ValueOr(config, db, NoPrimary)
Secondary(config, db, index) ==
    ValueOr(Primary(config, db).secondaries, index, NoSecondary)

HasIndex(config, db, index) == index \in DOMAIN Primary(config, db).secondaries

\* Dconf_bdb_key_extractor::key_extractor_fct knows these.
KeyExtractors ==
    {"get_account_email", "get_account_username", "get_item_name", "get_item_cost",
     "get_order_account_id", "get_order_name",
     "get_order_item_order_id", "get_order_item_item_id"}

-----------------------------------------------------------------------------
(* The same, said of the document as a whole. *)

LastOf(entries, name) ==
    entries[CHOOSE n \in DOMAIN entries :
               /\ entries[n].name = name
               /\ \A m \in DOMAIN entries : entries[m].name = name => m <= n]

NamesIn(entries) == {entries[n].name : n \in DOMAIN entries}

\* config is the document: no entry of it is ill-formed, and each name has the
\* last entry of that name with all of its indexes.
Describes(config, json) ==
    LET entries == json.primary_databases IN
    /\ DOMAIN config = NamesIn(entries)
    /\ \A n \in DOMAIN entries :
          LET indexes == ValueOr(entries[n], "secondary_databases", <<>>)
          IN  PrimaryOk(entries[n]) /\ \A m \in DOMAIN indexes : SecondaryOk(indexes[m])
    /\ \A db \in DOMAIN config :
          LET entry   == LastOf(entries, db)
              indexes == ValueOr(entry, "secondary_databases", <<>>)
          IN  /\ config[db].filename = entry.filename
              /\ config[db].has_duplicates
                    <=> HasKey(entry, "has_duplicates") /\ entry.has_duplicates = "true"
              /\ DOMAIN config[db].secondaries = NamesIn(indexes)
              /\ \A index \in NamesIn(indexes) :
                    LET found == config[db].secondaries[index]
                    IN  /\ found.filename = LastOf(indexes, index).filename
                        /\ found.key_extractor = LastOf(indexes, index).key_extractor

=============================================================================
