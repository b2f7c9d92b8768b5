---------------------------- MODULE RecordCodec ----------------------------
(***************************************************************************)
(* How records become bytes and are found again.  The four DTO classes     *)
(* write their fields one after another as NUL-terminated strings into a   *)
(* malloc'd buffer, the key classes do the same with one field, and the    *)
(* extractors of the secondary databases read a stored buffer back to copy *)
(* one of its fields.  Berkeley DB compares nothing but these bytes.       *)
(*                                                                         *)
(* A string is a sequence of character codes.  A text file may hold any    *)
(* code, NUL too; an argument of a request comes from a C string, without  *)
(* NUL.  A load is one action: nothing sees its cache half-way.  The       *)
(* triplets it also writes are TripletIndex's, files and crashes are       *)
(* PrimaryDatabase's.                                                      *)
(***************************************************************************)
EXTENDS Integers, SequencesExt

CONSTANTS
    Files,   \* the contents of text files
    Args     \* the values of a request's arguments

NUL == 0
TAB == 9
NEWLINE == 10
Char == 0..255
Text == Seq(Char)

ASSUME RecordCodecAssumption ==
    /\ Files \subseteq Text
    /\ Args \subseteq Text
    /\ \A a \in Args : NUL \notin ToSet(a)

-----------------------------------------------------------------------------
(* The DTO classes: the fields in the order they are parsed and written,   *)
(* and the field each secondary database is keyed by.                      *)

Account_DTO ==
    [fields |-> <<"account_id", "username", "email", "created">>,
     keys   |-> [account_email |-> "email", account_username |-> "username"]]

Item_DTO ==
    [fields |-> <<"item_id", "name", "cost">>,
     keys   |-> [item_cost |-> "cost", item_name |-> "name"]]

Order_DTO ==
    [fields |-> <<"order_id", "account_id", "name">>,
     keys   |-> [order_account_id |-> "account_id", order_name |-> "name"]]

Order_item_DTO ==
    [fields |-> <<"order_item_id", "order_id", "item_id">>,
     keys   |-> [order_item_item_id |-> "item_id", order_item_order_id |-> "order_id"]]

Classes == {Account_DTO, Item_DTO, Order_DTO, Order_item_DTO}

VARIABLES
    class,   \* which database this is
    rows,    \* the stored rows: key bytes to data bytes
    given    \* history: the last DTO given for an id (up to its first NUL)

vars == <<class, rows, given>>

Fields == ToSet(class.fields)
Id == class.fields[1]
Place(f) == CHOOSE n \in DOMAIN class.fields : class.fields[n] = f
DTO == [Fields -> Text]

-----------------------------------------------------------------------------
(* Strings and buffers.                                                    *)

\* Bdb_tokens::tokenize: the pieces between delimiters, empty ones too.
Tokenize(s, d) ==
    LET stops == {0, Len(s) + 1} \cup {n \in DOMAIN s : s[n] = d}
        Stop(n) == CHOOSE p \in stops : Cardinality({q \in stops : q < p}) = n
    IN  [n \in 1..(Cardinality(stops) - 1) |-> SubSeq(s, Stop(n - 1) + 1, Stop(n) - 1)]

\* What strlen and strcpy see of a string.
C_str(s) == Tokenize(s, NUL)[1]

\* Bdb_serialization::buffer_len_string.
\* Mutant: the NUL that buffer_len_char_string has counted is counted again.
BufferLenTwice(s) == Len(C_str(s)) + 2
BufferLen(s) == Len(C_str(s)) + 1

BufferSize(strings) == FoldLeft(LAMBDA n, s : n + BufferLen(s), 0, strings)

Serialize(strings) ==
    FlattenSeq([n \in DOMAIN strings |-> C_str(strings[n]) \o <<NUL>>])

\* Bdb_dbt: a zeroed buffer of buffer_size bytes that serialize fills.
Bdb_dbt(strings) ==
    [n \in 1..BufferSize(strings) |->
        IF n <= Len(Serialize(strings)) THEN Serialize(strings)[n] ELSE NUL]

Key(s) == Bdb_dbt(<<s>>)
Data(dto) == Bdb_dbt([n \in DOMAIN class.fields |-> dto[class.fields[n]]])

\* Mutant: the second and the third field are read in the other order.
DeserializeSwapped(data) ==
    [f \in Fields |-> Tokenize(data, NUL)[IF Place(f) \in 2..3 THEN 5 - Place(f) ELSE Place(f)]]
Deserialize(data) == [f \in Fields |-> Tokenize(data, NUL)[Place(f)]]

\* The extractors copy a field with size() + 1 bytes.
\* Mutant: size() bytes.
ExtractUnterminated(x, data) == Deserialize(data)[class.keys[x]]
Extract(x, data) == Deserialize(data)[class.keys[x]] \o <<NUL>>

-----------------------------------------------------------------------------
(* The requests.                                                           *)

\* Bdb_DAO::save: put with flags 0 replaces the row of an equal key.
\* Mutant: the key is written without its NUL.
PutBareKey(r, dto) ==
    LET key == C_str(dto[Id])
    IN  [k \in DOMAIN r \cup {key} |-> IF k = key THEN Data(dto) ELSE r[k]]
Put(r, dto) ==
    LET key == Key(dto[Id])
    IN  [k \in DOMAIN r \cup {key} |-> IF k = key THEN Data(dto) ELSE r[k]]

Note(g, dto) ==
    LET id == C_str(dto[Id])
    IN  [k \in DOMAIN g \cup {id} |-> IF k = id THEN dto ELSE g[k]]

\* getline: the lines that end with a newline; the rest of the file is dropped.
Lines(file) == Front(Tokenize(file, NEWLINE))

\* The lines after the heading.
Records(file) == IF Lines(file) = <<>> THEN <<>> ELSE Tail(Lines(file))

Parse(line) == [f \in Fields |-> Tokenize(line, TAB)[Place(f)]]
BadLine(line) == Len(Tokenize(line, TAB)) # Len(class.fields)

\* A load stops at the first line with too many or too few fields.
\* Mutant: it leaves out that line and goes on.
AcceptedSkipsBad(file) == SelectSeq(Records(file), LAMBDA l : ~BadLine(l))
Accepted(file) ==
    LET bad == SelectInSeq(Records(file), BadLine)
    IN  IF bad = 0 THEN Records(file) ELSE SubSeq(Records(file), 1, bad - 1)

Loaded(file) == [n \in DOMAIN Accepted(file) |-> Parse(Accepted(file)[n])]
RowsAfter(file) == FoldLeft(Put, rows, Loaded(file))

\* account_load, item_load, order_load, order_item_load.
Load(file) ==
    /\ rows' = RowsAfter(file)
    /\ given' = FoldLeft(Note, given, Loaded(file))
    /\ UNCHANGED class

\* account_update, item_update, order_update; order items have no update.
Update(dto) ==
    /\ class # Order_item_DTO
    /\ rows' = Put(rows, dto)
    /\ given' = Note(given, dto)
    /\ UNCHANGED class

-----------------------------------------------------------------------------
(* The reads change nothing.                                               *)

Failed == [ok |-> FALSE, list |-> {}]
Answer(dtos) == [ok |-> TRUE, list |-> dtos]

\* A lookup of an id.
Lookup(id) ==
    IF Key(id) \in DOMAIN rows THEN Answer({Deserialize(rows[Key(id)])}) ELSE Failed

SelectAll == {Deserialize(rows[k]) : k \in DOMAIN rows}

\* A select by the key v of the secondary database x: dto_get_duplicate_list
\* finds the primary keys, select_by_key_list their rows.  A value nobody has
\* is an error, but not for the orders of an account and in order_item.
IgnoresNotFound == {"order_account_id", "order_item_item_id", "order_item_order_id"}
SelectAllFor(x, v) ==
    LET keys == {k \in DOMAIN rows : Extract(x, rows[k]) = Key(v)}
    IN  IF keys = {} /\ x \notin IgnoresNotFound
        THEN Failed ELSE Answer({Deserialize(rows[k]) : k \in keys})

-----------------------------------------------------------------------------
Init ==
    /\ class \in Classes
    /\ rows = <<>>
    /\ given = <<>>

Next ==
    \/ \E file \in Files : Load(file)
    \/ \E dto \in [Fields -> Args] : Update(dto)

Spec == Init /\ [][Next]_vars

-----------------------------------------------------------------------------
TypeOK ==
    /\ class \in Classes
    /\ \A k \in DOMAIN rows : k \in Text /\ Last(k) = NUL /\ rows[k] \in Text
    /\ \A id \in DOMAIN given : id \in Text /\ given[id] \in DTO

\* Every stored buffer holds one terminated string for each field and nothing
\* after them: serialize has not written beyond buffer_size, and no deserialize
\* or extractor reads beyond the stored bytes.
BuffersExact ==
    \A k \in DOMAIN rows :
        LET pieces == Tokenize(rows[k], NUL)
        IN  Len(pieces) = Len(class.fields) + 1 /\ Last(pieces) = <<>>

\* A record is read back as it was last given, each field up to its first NUL,
\* however often its id was saved, by a lookup as by a select of all.
AsStored(dto) == [f \in Fields |-> C_str(dto[f])]
RoundTrip ==
    /\ \A id \in DOMAIN given : Lookup(id) = Answer({AsStored(given[id])})
    /\ SelectAll = {AsStored(given[id]) : id \in DOMAIN given}

\* The bytes of a search key equal those an extractor has copied exactly for the
\* records that have the value: a select through a secondary database gives them
\* all and no other one, also for the empty value and one that a NUL cuts off.
Values == Args \cup UNION {{given[id][f] : f \in Fields} : id \in DOMAIN given}
SelectsExact ==
    \A x \in DOMAIN class.keys, v \in Values :
        LET f == class.keys[x]
            wanted == {AsStored(given[id]) : id \in
                         {i \in DOMAIN given : C_str(given[i][f]) = C_str(v)}}
        IN  SelectAllFor(x, v) =
              IF wanted = {} /\ x \notin IgnoresNotFound THEN Failed ELSE Answer(wanted)

\* After a load the database differs from before exactly by lines of the file:
\* an id keeps its row if no complete line ahead of the first malformed one
\* starts with it, and otherwise has the last such line, field by field.
StartsWith(line, id) == C_str(Tokenize(line, TAB)[1]) = id
Joined(dto) == FoldLeft(LAMBDA s, f : s \o <<TAB>> \o dto[f], dto[Id], Tail(class.fields))
PlainText(line) == NUL \notin ToSet(line)
RowOf(r, id) == IF Key(id) \in DOMAIN r THEN Joined(Deserialize(r[Key(id)])) ELSE <<>>
FileStored ==
    \A file \in Files :
        LET lines == Lines(file)
            Fit(n) == /\ n \in 2..Len(lines)
                      /\ \A m \in 2..n : Cardinality({p \in DOMAIN lines[m] : lines[m][p] = TAB})
                                           = Len(class.fields) - 1
            after == RowsAfter(file)
            ids == {C_str(Tokenize(lines[n], TAB)[1]) : n \in DOMAIN lines} \cup DOMAIN given
            Of(id) == {n \in DOMAIN lines : Fit(n) /\ StartsWith(lines[n], id)}
        IN  \A id \in ids :
              IF Of(id) = {} THEN RowOf(after, id) = RowOf(rows, id)
              ELSE LET last == CHOOSE n \in Of(id) : \A m \in Of(id) : m <= n
                   IN  PlainText(lines[last]) => RowOf(after, id) = lines[last]
=============================================================================
