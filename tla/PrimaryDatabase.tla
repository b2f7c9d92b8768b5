-------------------------- MODULE PrimaryDatabase --------------------------
(***************************************************************************)
(* The life of one primary database and its secondaries as the request     *)
(* handlers use it: a Primary_database is opened for a request, written    *)
(* through Bdb_DAO, and closed by the destructors when the handler's scope *)
(* ends.  There is no DbEnv, no transaction and no log: each handle has a  *)
(* private cache (4 GB, so nothing is evicted early) and Db::close writes  *)
(* it to its file.  Secondary_database_list is declared last in            *)
(* Primary_database, so the secondaries are closed first, in list order,   *)
(* and the primary file last.  The process may die between any two steps.  *)
(*                                                                         *)
(* "disk" is what the files hold, "mem" what the open handles hold.        *)
(***************************************************************************)
EXTENDS BdbTable

VARIABLES
    disk,      \* Table: the files
    mem,       \* Table: the handles' caches; equal to disk while closed
    open,      \* a request has the database open
    nclosed,   \* how many secondary handles its destructor has closed
    errors,    \* Bdb_errors::has() of the running request
    touched,   \* history: keys the running request wrote or deleted
    before,    \* history: keys that had a row when the request began
    deleted,   \* history: keys delete_key removed without an error
    tornNew,   \* history: keys being inserted when a crash hit the closing
    tornOld    \* history: keys being changed or deleted when it did

vars == <<disk, mem, open, nclosed, errors, touched, deleted, before,
          tornNew, tornOld>>

history == <<before, tornNew, tornOld>>

TypeOK ==
    /\ disk \in Table
    /\ mem \in Table
    /\ open \in BOOLEAN
    /\ nclosed \in 0..N
    /\ errors \in BOOLEAN
    /\ touched \subseteq Keys
    /\ deleted \subseteq Keys
    /\ before \subseteq Keys
    /\ tornNew \subseteq Keys
    /\ tornOld \subseteq Keys

Init ==
    /\ disk = EmptyTable
    /\ mem = EmptyTable
    /\ open = FALSE
    /\ nclosed = 0
    /\ errors = FALSE
    /\ touched = {}
    /\ deleted = {}
    /\ before = {}
    /\ tornNew = {}
    /\ tornOld = {}

-----------------------------------------------------------------------------
(* Primary_database(config, extractor, db_home, errors): open and associate *)

OpenDatabase ==
    /\ ~open
    /\ open' = TRUE
    /\ before' = {k \in Keys : Present(disk, k)}
    /\ UNCHANGED <<disk, mem, nclosed, errors, touched, deleted, tornNew, tornOld>>

\* The handler's code runs: every handle is still open and no error occurred.
Running == open /\ nclosed = 0 /\ ~errors

(* Bdb_DAO::save.  A bug it could have: honouring "no_overwrite" for every *)
(* caller, so that saving an existing key is an error.                     *)
SaveNoOverwrite(k, d) ==
    /\ Running
    /\ \E out \in PutOutcomes(mem, k, d) :
          /\ mem' = IF Present(mem, k) THEN mem ELSE out.table
          /\ errors' = Present(mem, k)
    /\ touched' = touched \cup {k}
    /\ deleted' = deleted \ {k}
    /\ UNCHANGED <<disk, open, nclosed, history>>

\* put is called with flags 0, so DB_KEYEXIST never comes back and
\* no_overwrite has no effect: an existing row is overwritten.
Save(k, d) ==
    /\ Running
    /\ \E out \in PutOutcomes(mem, k, d) :
          /\ mem' = out.table
          /\ errors' = ~out.ok
    /\ touched' = touched \cup {k}
    /\ deleted' = deleted \ {k}
    /\ UNCHANGED <<disk, open, nclosed, history>>

(* A bug delete_key could have: the call fails and its code is not looked  *)
(* at, whatever the reason.                                                *)
DeleteKeyNotDone(k) ==
    /\ Running
    /\ deleted' = deleted \cup {k}
    /\ UNCHANGED <<disk, mem, open, nclosed, errors, touched, history>>

\* Bdb_DAO::delete_key as its callers use it (ignore_not_found = true): only
\* DB_NOTFOUND is ever reported, so with that flag no return code is.
DeleteKey(k) ==
    /\ Running
    /\ mem' \in DelOutcomes(mem, {k})
    /\ touched' = IF Present(mem, k) THEN touched \cup {k} ELSE touched
    /\ deleted' = deleted \cup {k}
    /\ UNCHANGED <<disk, open, nclosed, errors, history>>

-----------------------------------------------------------------------------
(* The destructors.  Closing a handle writes its cache to its file.        *)

\* Mutant: the primary handle's member comes after the list, so that it is
\* destroyed, and flushed, before the secondaries.
ClosePrimaryFirst ==
    /\ open
    /\ nclosed < N
    /\ disk' = [rows |-> mem.rows,
                idx |-> [disk.idx EXCEPT ![nclosed + 1] = mem.idx[nclosed + 1]]]
    /\ nclosed' = nclosed + 1
    /\ UNCHANGED <<mem, open, errors, touched, deleted, history>>

\* Mutant: the close of a secondary drops its cache (DB_NOSYNC).
CloseWithoutSync ==
    /\ open
    /\ nclosed < N
    /\ nclosed' = nclosed + 1
    /\ UNCHANGED <<disk, mem, open, errors, touched, deleted, history>>

\* ~Secondary_database_list: the next secondary of the list.
CloseSecondary ==
    /\ open
    /\ nclosed < N
    /\ disk' = [disk EXCEPT !.idx[nclosed + 1] = mem.idx[nclosed + 1]]
    /\ nclosed' = nclosed + 1
    /\ UNCHANGED <<mem, open, errors, touched, deleted, history>>

\* No handle is open any more; the next request starts with errors.clear().
RequestOver ==
    /\ open' = FALSE
    /\ nclosed' = 0
    /\ errors' = FALSE
    /\ touched' = {}
    /\ deleted' = {}
    /\ before' = {}

\* ~Bdb_db_config of the primary, then the scope is left.
ClosePrimary ==
    /\ open
    /\ nclosed = N
    /\ disk' = [disk EXCEPT !.rows = mem.rows]
    /\ mem' = disk'
    /\ RequestOver
    /\ UNCHANGED <<tornNew, tornOld>>

\* The process dies and is started again: caches are gone.  If some but not
\* all files had been written, the keys of the request are torn.
Crash ==
    /\ open
    /\ mem' = disk
    /\ RequestOver
    /\ LET torn == IF nclosed = 0 THEN {} ELSE touched IN
          /\ tornNew' = tornNew \cup (torn \ before)
          /\ tornOld' = tornOld \cup (torn \cap before)
    /\ UNCHANGED disk

Next ==
    \/ OpenDatabase
    \/ \E k \in Keys, d \in Data : Save(k, d)
    \/ \E k \in Keys : DeleteKey(k)
    \/ CloseSecondary
    \/ ClosePrimary
    \/ Crash

Spec == Init /\ [][Next]_vars

-----------------------------------------------------------------------------
(* Properties                                                              *)

Torn == tornNew \cup tornOld

\* Reading through a secondary file (select_all_for_..., select_by_order_sdb)
\* finds exactly the rows a scan of the primary file finds with that
\* secondary key, except for rows whose request was cut off by a crash while
\* its files were being closed; a crash never damages any other row.
SecondaryReadsExact ==
    ~open => \A x \in Indexes, s \in SKeys :
        DtoGetDuplicateList(disk, x, s) \ Torn =
            {k \in Keys \ Torn : /\ Present(disk, k)
                                /\ Extract[x][disk.rows[k]] = s}

\* Because the primary file is written last, a row that a crash interrupted
\* in being inserted is never stored without its index entries: a stored row
\* that a secondary cannot reach was being changed or deleted.
RowsReachable == ~open => \A k \in Keys \ tornOld : Indexed(disk, k)

\* A key delete_key reported no error for is gone from the open database,
\* unless an earlier crash tore its row.
DeletedIsGone == \A k \in deleted : Present(mem, k) => k \in tornOld

\* Bdb_DAO::save fails only for a row an earlier crash tore: a load stops
\* half-way (load_triplets l.145) for no other reason in this layer.
SaveFailsOnlyIfTorn == errors => touched \cap tornOld # {}

\* What the comment of delete_key promises ("@param errors invalid key, write
\* error, or bdb exception"): without an error the key is gone.  False: the
\* code of a failed del other than DB_NOTFOUND is dropped (bdb_dao.hpp:44).
DeleteErrorsReported == \A k \in deleted : ~Present(mem, k)

=============================================================================
