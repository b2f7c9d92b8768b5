---------------------------- MODULE TripletIndex ----------------------------
(***************************************************************************)
(* A database of named records (account, item or order) and its triplet    *)
(* database, which item_match_name and its like search by text.  The loads *)
(* write both; every other request writes the records alone.               *)
(*                                                                         *)
(* The triplet database permits duplicates (DB_DUP): a key holds a list,   *)
(* to which put appends.  A handler works on private caches, mem, and its  *)
(* destructors write them to the files, disk, one after the other.         *)
(***************************************************************************)
EXTENDS TextTriplets, Integers, SequencesExt, FiniteSetsExt

CONSTANTS
    Ids,         \* the keys; numbers stand for strings in alphabetical order
    Texts,       \* the names records may have
    Queries,     \* the texts searched for
    MinScores,   \* the values of min_score
    ScoreCounts, \* the values of score_count
    NoRow,       \* the absence of a record
    MaxEntries   \* bound: duplicates of one triplet when a line is loaded

ASSUME TripletIndexAssumption ==
    /\ Ids \subseteq Nat
    /\ Texts \subseteq Seq(Nat) /\ Queries \subseteq Seq(Nat)
    /\ MinScores \subseteq Int /\ ScoreCounts \subseteq Int
    /\ NoRow \notin [text : Texts, indexed : BOOLEAN]
    /\ MaxEntries \in Nat

VARIABLES
    disk,      \* the two files
    mem,       \* the caches of the open handles
    loading,   \* a load is reading its text file
    pending,   \* bdb_triplets_dto_map: the entries it has gathered
    toClose    \* the files the destructors have still to write

vars == <<disk, mem, loading, pending, toClose>>

\* Bdb_text_id_occurence: what the triplet database stores of text x of record id.
\* Mutant: the length of the list of different triplets is stored as the total.
EntryOfDifferent(id, x, t) ==
    [id |-> id, total |-> Cardinality(TripletsOf(x)), count |-> OccurrenceCount(x, t)]
Entry(id, x, t) ==
    [id |-> id, total |-> TripletsCount(x), count |-> OccurrenceCount(x, t)]

\* A row also tells whether the load that wrote it has written its triplets
\* (indexed, a history field).
Triplets == UNION {TripletsOf(x) : x \in Texts}
Row == [text : Texts, indexed : BOOLEAN]
EntrySet == {Entry(id, x, t) : id \in Ids, x \in Texts, t \in Triplets}
Entries == [Triplets -> Seq(EntrySet)]
Store == [data : [Ids -> Row \cup {NoRow}], entries : Entries]

NoEntries == [t \in Triplets |-> <<>>]

\* The destructors run against the order of declaration.
\* Mutant: the triplet database is declared first, so that it is closed last.
LoadClosesSwapped == <<"data", "triplets">>
LoadCloses == <<"triplets", "data">>

TypeOK ==
    /\ disk \in Store /\ mem \in Store
    /\ loading \in BOOLEAN
    /\ pending \in Entries
    /\ toClose \in {<<>>, <<"data">>, LoadCloses, Tail(LoadCloses)}
    /\ loading => toClose = <<>>
    /\ ~loading => pending = NoEntries

Init ==
    /\ disk = [data |-> [id \in Ids |-> NoRow], entries |-> NoEntries]
    /\ mem = disk
    /\ loading = FALSE
    /\ pending = NoEntries
    /\ toClose = <<>>

Idle == ~loading /\ toClose = <<>>

-----------------------------------------------------------------------------
(* The requests.                                                           *)

\* Dconf_request_handler::load opens both databases, the triplets last, and
\* load_triplets skips the heading.
StartLoad ==
    /\ Idle
    /\ loading' = TRUE
    /\ UNCHANGED <<disk, mem, pending, toClose>>

\* A line is saved at once, its triplets are gathered.
LoadLine(id, x) ==
    /\ loading
    /\ \A t \in TripletsOf(x) : Len(mem.entries[t]) + Len(pending[t]) < MaxEntries
    /\ mem' = [mem EXCEPT !.data[id] = [text |-> x, indexed |-> FALSE]]
    /\ pending' = [t \in Triplets |->
                      IF t \in TripletsOf(x) THEN Append(pending[t], Entry(id, x, t))
                                             ELSE pending[t]]
    /\ UNCHANGED <<disk, loading, toClose>>

\* Mutant: what was gathered survives the failure.
LoadBadLineKeeps ==
    /\ loading
    /\ loading' = FALSE
    /\ toClose' = LoadCloses
    /\ UNCHANGED <<disk, mem, pending>>
\* A line of too few or too many fields, or a save that fails: the lines before
\* it stay saved, and no triplet of the file is.
LoadBadLine ==
    /\ loading
    /\ loading' = FALSE
    /\ pending' = NoEntries
    /\ toClose' = LoadCloses
    /\ UNCHANGED <<disk, mem>>

PendingIds == {id \in Ids : \E t \in Triplets : \E n \in DOMAIN pending[t] :
                                pending[t][n].id = id}

\* The file ends (a last line without its newline is not seen): the gathered
\* triplets are put.
EndLoad ==
    /\ loading
    /\ loading' = FALSE
    /\ mem' = [data |-> [id \in Ids |-> IF id \in PendingIds
                                        THEN [mem.data[id] EXCEPT !.indexed = TRUE]
                                        ELSE mem.data[id]],
               entries |-> [t \in Triplets |-> mem.entries[t] \o pending[t]]]
    /\ pending' = NoEntries
    /\ toClose' = LoadCloses
    /\ UNCHANGED disk

\* item_update, account_update, order_update: the triplets are left as they are.
Update(id, x) ==
    /\ Idle
    /\ mem' = [mem EXCEPT !.data[id] = [text |-> x, indexed |-> FALSE]]
    /\ toClose' = <<"data">>
    /\ UNCHANGED <<disk, loading, pending>>

\* order_remove; its triplets stay.
RemoveRow(id) ==
    /\ Idle
    /\ mem.data[id] # NoRow
    /\ mem' = [mem EXCEPT !.data[id] = NoRow]
    /\ toClose' = <<"data">>
    /\ UNCHANGED <<disk, loading, pending>>

\* A destructor writes a cache to its file.
Close ==
    /\ toClose # <<>>
    /\ disk' = IF Head(toClose) = "data" THEN [disk EXCEPT !.data = mem.data]
                                         ELSE [disk EXCEPT !.entries = mem.entries]
    /\ toClose' = Tail(toClose)
    /\ UNCHANGED <<mem, loading, pending>>

Crash ==
    /\ ~Idle
    /\ mem' = disk
    /\ loading' = FALSE
    /\ pending' = NoEntries
    /\ toClose' = <<>>
    /\ UNCHANGED disk

Next ==
    \/ StartLoad \/ LoadBadLine \/ EndLoad
    \/ Close \/ Crash
    \/ \E id \in Ids : \/ RemoveRow(id)
                       \/ \E x \in Texts : LoadLine(id, x) \/ Update(id, x)

Spec == Init /\ [][Next]_vars

-----------------------------------------------------------------------------
(* Dconf_request_handler::match_text.                                      *)

\* The duplicates of id that the triplets of q lead to.
Hits(s, q, id) ==
    UNION {{<<t, n>> : n \in {k \in DOMAIN s.entries[t] : s.entries[t][k].id = id}}
               : t \in TripletsOf(q) \cap Triplets}

Lesser(m, n) == IF m < n THEN m ELSE n

\* triplet_match_counts[id]
MatchCount(s, q, id) ==
    MapThenSumSet(LAMBDA h : Lesser(s.entries[h[1]][h[2]].count, OccurrenceCount(q, h[1])),
                  Hits(s, q, id))

\* triplet_counts[id] is overwritten by each hit: the last one stays.
LastHit(s, q, id) ==
    CHOOSE h \in Hits(s, q, id) : \A g \in Hits(s, q, id) :
        Less(g[1], h[1]) \/ (g[1] = h[1] /\ g[2] <= h[2])

\* id_scores[id]
Score(s, q, id) ==
    LET h == LastHit(s, q, id)
        m == MatchCount(s, q, id)
    IN (100 * m * m) \div (TripletsCount(q) * s.entries[h[1]][h[2]].total)

Scored(s, q) == {id \in Ids : Hits(s, q, id) # {}}
IdScores(s, q) == {<<id, Score(s, q, id)>> : id \in Scored(s, q)}

\* id_score_sort: a score keeps the last id that has it; the highest comes first.
Winner(idScores, score) == Max({id \in Ids : <<id, score>> \in idScores})
\* Mutant: the map is sorted as std::map sorts by default.
RankedUpwards(scores) == [k \in 1..Cardinality(scores) |-> Nth(scores, k)]
Ranked(scores) ==
    [k \in 1..Cardinality(scores) |-> Nth(scores, Cardinality(scores) + 1 - k)]

\* The answer, from the scores.  A record that is not there fails the whole request.
Match(s, idScores, minScore, scoreCount) ==
    LET ranked == Ranked({e[2] : e \in idScores})
        top == Pick(ranked, {k \in DOMAIN ranked : ranked[k] > minScore /\ k <= scoreCount})
        found == [n \in DOMAIN top |-> [id |-> Winner(idScores, top[n]), score |-> top[n]]]
    IN [ok |-> \A n \in DOMAIN found : s.data[found[n].id] # NoRow, list |-> found]

-----------------------------------------------------------------------------
(* Correctness.                                                            *)

\* Every record that a load has written and nothing has changed since can be
\* found under each triplet of its name, also when the process died between
\* the two files: the triplets are written first.
Complete(s) ==
    \A id \in Ids : s.data[id] # NoRow /\ s.data[id].indexed =>
        \A t \in TripletsOf(s.data[id].text) :
            \E n \in DOMAIN s.entries[t] : s.entries[t][n] = Entry(id, s.data[id].text, t)
IndexComplete == Complete(disk)

\* The triplets of id are those of one load of its present name.
Clean(s, id) ==
    /\ s.data[id] # NoRow /\ s.data[id].indexed
    /\ \A t \in Triplets :
          Cardinality({n \in DOMAIN s.entries[t] : s.entries[t][n].id = id})
              = IF t \in TripletsOf(s.data[id].text) THEN 1 ELSE 0

\* How alike two texts are, without the database.
Likeness(q, x) ==
    LET common == TripletsOf(q) \cap TripletsOf(x)
        m == MapThenSumSet(LAMBDA t : Lesser(OccurrenceCount(q, t), OccurrenceCount(x, t)),
                           common)
    IN (100 * m * m) \div (TripletsCount(q) * TripletsCount(x))

\* For a record loaded once, the score computed from the triplet database is
\* the likeness of the names, whatever failed loads, crashes and other records
\* have left there.
ScoresExact ==
    Idle => \A id \in Ids : Clean(disk, id) =>
        \A q \in Queries :
            LET x == disk.data[id].text IN
            /\ id \in Scored(disk, q) <=> TripletsOf(q) \cap TripletsOf(x) # {}
            /\ id \in Scored(disk, q) => Score(disk, q, id) = Likeness(q, x)

\* The same letters, digits and blanks, capital or small.
SpelledAlike(q, x) ==
    LET f == Filtered(q)
        g == Filtered(x)
        letters == {c \in Alnum : c >= 65}
    IN /\ Len(f) = Len(g)
       /\ \A n \in DOMAIN f :
             \/ f[n] = g[n]
             \/ {f[n], g[n]} \subseteq letters /\ f[n] - g[n] \in {-32, 32}

\* The name of a record loaded once is found, with 100 percent, however its
\* capitals and its punctuation are written in the query.
SpellingIgnored ==
    Idle => \A id \in Ids, q \in Queries :
        Clean(disk, id) /\ SpelledAlike(q, disk.data[id].text) =>
            id \in Scored(disk, q) /\ Score(disk, q, id) = 100

\* match_text answers the best: the scores fall, and a record loaded once whose
\* likeness is above min_score is answered, or another with the same score is,
\* or score_count others that are more alike.  It fails only if the triplets
\* name a record that is gone.
MatchAnswersBest ==
    Idle => \A q \in Queries :
        LET idScores == IdScores(disk, q) IN
        \A minScore \in MinScores, scoreCount \in ScoreCounts :
            LET answer == Match(disk, idScores, minScore, scoreCount)
                a == answer.list
                scores == {a[n].score : n \in DOMAIN a}
            IN IF ~answer.ok THEN \E id \in Scored(disk, q) : disk.data[id] = NoRow
               ELSE /\ Len(a) <= scoreCount \/ a = <<>>
                    /\ \A n \in 2..Len(a) : a[n].score < a[n - 1].score
                    /\ \A id \in Ids : Clean(disk, id) =>
                          LET score == Likeness(q, disk.data[id].text) IN
                          score > minScore /\ id \in Scored(disk, q) =>
                              \/ score \in scores
                              \/ Len(a) >= scoreCount /\ \A v \in scores : v > score

\* The comment on the score, dconf_request_handlers.hpp:161: "match in integer
\* percent".
ScoreIsPercent ==
    Idle => \A q \in Queries : \A id \in Scored(disk, q) : Score(disk, q, id) <= 100
=============================================================================
