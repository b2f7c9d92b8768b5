------------------------------ MODULE BdbTable ------------------------------
(***************************************************************************)
(* The contents of one primary database file and of the secondary files    *)
(* associated with it (Primary_database, src/src/bdb-lib), as values: what *)
(* Berkeley DB's put, del and cursor reads return and do to them.  The     *)
(* library is not in the repository; its operations are modelled from how  *)
(* Bdb_DAO and Bdb_cursor call them and from the return codes they test.   *)
(*                                                                         *)
(* A table keeps a row per primary key and, for every index x, the set of  *)
(* pairs <<secondary key, primary key>> stored in secondary file x (a      *)
(* secondary is opened DB_DUPSORT, so a secondary key may have many rows). *)
(* Index x is the x-th element of secondary_database_list, that is the     *)
(* x-th name of secondary_database_config_map in alphabetical order.       *)
(***************************************************************************)
EXTENDS Naturals

CONSTANTS
    Keys,     \* primary keys
    Data,     \* data DTOs
    SKeys,    \* secondary keys
    N,        \* number of associated secondary files
    Extract,  \* Extract[x][d]: the secondary key of d in index x
    NoData    \* the absence of a row

ASSUME BdbTableAssumption ==
    /\ N \in Nat
    /\ Extract \in [1..N -> [Data -> SKeys]]
    /\ NoData \notin Data

Indexes == 1..N

Table == [rows : [Keys -> Data \cup {NoData}],
          idx  : [Indexes -> SUBSET (SKeys \X Keys)]]

EmptyTable == [rows |-> [k \in Keys |-> NoData],
               idx  |-> [x \in Indexes |-> {}]]

Present(t, k) == t.rows[k] # NoData

\* Mutant: the extractor puts the keys the wrong way round.
EntrySwapped(x, d, k) == <<k, Extract[x][d]>>
Entry(x, d, k) == <<Extract[x][d], k>>

EntriesOf(t, x, k) == {e \in t.idx[x] : e[2] = k}

-----------------------------------------------------------------------------
(* How far index files and primary file agree about key k.                 *)

Indexed(t, k) ==
    Present(t, k) => \A x \in Indexes : Entry(x, t.rows[k], k) \in t.idx[x]

Consistent(t, k) ==
    \A x \in Indexes : EntriesOf(t, x, k) =
        IF Present(t, k) THEN {Entry(x, t.rows[k], k)} ELSE {}

-----------------------------------------------------------------------------
(* Db::put with flags 0: insert or overwrite.  The old row's entries are   *)
(* replaced by the new row's.  An old entry that is missing although its   *)
(* secondary key changes is DB_SECONDARY_BAD: the row is not written, and  *)
(* some of the index files may already have been changed.                  *)

Replaceable(t, k, d) ==
    Present(t, k) => \A x \in Indexes :
        \/ Extract[x][t.rows[k]] = Extract[x][d]
        \/ Entry(x, t.rows[k], k) \in t.idx[x]

PutIndex(t, x, k, d) ==
    {e \in t.idx[x] : ~(Present(t, k) /\ e = Entry(x, t.rows[k], k))}
        \cup {Entry(x, d, k)}

PutDone(t, k, d) ==
    [rows |-> [t.rows EXCEPT ![k] = d],
     idx  |-> [x \in Indexes |-> PutIndex(t, x, k, d)]]

PutBroken(t, k, d, changed) ==
    [rows |-> t.rows,
     idx  |-> [x \in Indexes |->
                 IF x \in changed THEN PutIndex(t, x, k, d) ELSE t.idx[x]]]

\* The tables a put of d under k may leave, with the success of the call.
PutOutcomes(t, k, d) ==
    IF Replaceable(t, k, d)
    THEN {[ok |-> TRUE, table |-> PutDone(t, k, d)]}
    ELSE {[ok |-> FALSE, table |-> PutBroken(t, k, d, changed)] :
            changed \in SUBSET Indexes}

-----------------------------------------------------------------------------
(* Db::del of every key of ks, one call per key.  Deleting an absent key   *)
(* is DB_NOTFOUND and changes nothing.  A row one of whose index entries   *)
(* is missing is DB_SECONDARY_BAD: it stays, and some of its entries may   *)
(* be gone (broken[k] is the set of index files that lost theirs).         *)

Stuck(t, ks) == {k \in ks : Present(t, k) /\ ~Indexed(t, k)}

Unindexes(t, ks, broken, x, e) ==
    /\ e[2] \in ks
    /\ Present(t, e[2])
    /\ e = Entry(x, t.rows[e[2]], e[2])
    /\ Indexed(t, e[2]) \/ x \in broken[e[2]]

DelDone(t, ks, broken) ==
    [rows |-> [k \in Keys |->
                 IF k \in ks /\ Indexed(t, k) THEN NoData ELSE t.rows[k]],
     idx  |-> [x \in Indexes |->
                 {e \in t.idx[x] : ~Unindexes(t, ks, broken, x, e)}]]

DelOutcomes(t, ks) ==
    {DelDone(t, ks, broken) : broken \in [Stuck(t, ks) -> SUBSET Indexes]}

-----------------------------------------------------------------------------
(* Reading through a secondary file opened on its own: a cursor placed on  *)
(* a secondary key (DB_SET, then DB_NEXT_DUP) yields the primary keys.     *)

DtoGetDuplicateList(t, x, s) == {k \in Keys : <<s, k>> \in t.idx[x]}

\* Bdb_DAO::select_by_key_list fails at the first key without a row.
SelectByKeyListOk(t, ks) == \A k \in ks : Present(t, k)

=============================================================================
