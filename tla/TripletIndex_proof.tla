------------------------- MODULE TripletIndex_proof -------------------------
(***************************************************************************)
(* For every set of records and texts, and every number of loads, failed   *)
(* loads and crashes: what a load has written can be found by its text,    *)
(* the scores computed from the triplet database are those of the texts,   *)
(* and match_text answers the best.  The first of these is kept by every   *)
(* step, and the others follow from it in every state.                     *)
(***************************************************************************)
EXTENDS TripletIndex, SequenceTheorems, FiniteSetTheorems, TLAPS

\* The triplets gathered for a record are those of its row in the cache.
PendingInv ==
    \A id \in PendingIds :
        /\ mem.data[id] # NoRow
        /\ \A t \in TripletsOf(mem.data[id].text) :
              \E n \in DOMAIN pending[t] : pending[t][n] = Entry(id, mem.data[id].text, t)

\* The triplet file never has an entry the cache has not, and is written
\* before the file of the records.
ClosingInv ==
    /\ \A t \in Triplets : \A n \in DOMAIN disk.entries[t] :
          \E m \in DOMAIN mem.entries[t] : mem.entries[t][m] = disk.entries[t][n]
    /\ toClose # LoadCloses => mem.entries = disk.entries
    /\ Idle => mem = disk

\* The inductive invariant.
IInv ==
    /\ TypeOK
    /\ Complete(disk)
    /\ Complete(mem)
    /\ PendingInv
    /\ ClosingInv

-----------------------------------------------------------------------------

LEMMA TextTripletsIn == ASSUME NEW x \in Texts PROVE TripletsOf(x) \subseteq Triplets
BY DEF Triplets

LEMMA NoEntriesType == NoEntries \in Entries
BY EmptySeq DEF NoEntries, Entries

LEMMA AppendKeeps ==
    ASSUME NEW S, NEW s \in Seq(S), NEW e \in S
    PROVE  /\ Append(s, e) \in Seq(S)
           /\ \A n \in DOMAIN s : n \in DOMAIN Append(s, e) /\ Append(s, e)[n] = s[n]
           /\ Len(s) + 1 \in DOMAIN Append(s, e) /\ Append(s, e)[Len(s) + 1] = e
           /\ \A n \in DOMAIN Append(s, e) : n \in DOMAIN s \/ Append(s, e)[n] = e
OBVIOUS

LEMMA ConcatKeeps ==
    ASSUME NEW S, NEW s \in Seq(S), NEW u \in Seq(S)
    PROVE  /\ s \o u \in Seq(S)
           /\ \A n \in DOMAIN s : n \in DOMAIN (s \o u) /\ (s \o u)[n] = s[n]
           /\ \A n \in DOMAIN u : Len(s) + n \in DOMAIN (s \o u) /\ (s \o u)[Len(s) + n] = u[n]
OBVIOUS

\* Completeness speaks of the rows and of the presence of entries only.
LEMMA CompleteMonotonic ==
    ASSUME NEW r \in Store, NEW s \in Store, Complete(r), s.data = r.data,
           \A t \in Triplets : \A n \in DOMAIN r.entries[t] :
               \E m \in DOMAIN s.entries[t] : s.entries[t][m] = r.entries[t][n]
    PROVE  Complete(s)
<1> SUFFICES ASSUME NEW id \in Ids, s.data[id] # NoRow, s.data[id].indexed,
                    NEW t \in TripletsOf(s.data[id].text)
             PROVE  \E m \in DOMAIN s.entries[t] :
                        s.entries[t][m] = Entry(id, s.data[id].text, t)
  BY DEF Complete
<1>1. s.data[id] \in Row
  BY DEF Store
<1>2. t \in Triplets
  BY <1>1, TextTripletsIn DEF Row
<1>3. PICK n \in DOMAIN r.entries[t] : r.entries[t][n] = Entry(id, s.data[id].text, t)
  BY DEF Complete
<1>4. QED BY <1>2, <1>3

\* A row that is not indexed, or is gone, asks for nothing.
LEMMA CompleteExcept ==
    ASSUME NEW s \in Store, NEW i \in Ids, NEW row \in Row \cup {NoRow}, Complete(s),
           row # NoRow => ~row.indexed
    PROVE  /\ [s EXCEPT !.data[i] = row] \in Store
           /\ Complete([s EXCEPT !.data[i] = row])
           /\ [s EXCEPT !.data[i] = row].entries = s.entries
<1> DEFINE r == [s EXCEPT !.data[i] = row]
<1>1. r \in Store
  BY DEF Store
<1>2. r.entries = s.entries /\ \A id \in Ids : r.data[id] = IF id = i THEN row ELSE s.data[id]
  BY DEF Store
<1>3. Complete(r)
  <2> SUFFICES ASSUME NEW id \in Ids, r.data[id] # NoRow, r.data[id].indexed
               PROVE  \A t \in TripletsOf(r.data[id].text) :
                          \E n \in DOMAIN r.entries[t] :
                              r.entries[t][n] = Entry(id, r.data[id].text, t)
    BY DEF Complete
  <2>1. id # i /\ r.data[id] = s.data[id]
    BY <1>2
  <2>2. QED BY <1>2, <2>1 DEF Complete
<1>4. QED BY <1>1, <1>2, <1>3

-----------------------------------------------------------------------------

LEMMA InitIInv == Init => IInv
<1> SUFFICES ASSUME Init PROVE IInv
  OBVIOUS
<1>1. TypeOK
  BY NoEntriesType DEF Init, TypeOK, Store
<1>2. Complete(disk) /\ Complete(mem)
  BY DEF Init, Complete
<1>3. PendingInv
  BY DEF Init, PendingInv, PendingIds, NoEntries
<1>4. ClosingInv
  BY DEF Init, ClosingInv
<1>5. QED BY <1>1, <1>2, <1>3, <1>4 DEF IInv

\* Nothing is gathered when no load is reading.
LEMMA NothingPending == pending = NoEntries => PendingIds = {}
BY DEF PendingIds, NoEntries

\* A line changes one row, which is not indexed yet, and adds its entries.
LEMMA LoadLineKeeps ==
    ASSUME IInv, NEW i \in Ids, NEW x \in Texts, LoadLine(i, x)
    PROVE  IInv'
<1> DEFINE row == [text |-> x, indexed |-> FALSE]
<1> USE DEF LoadLine, IInv
<1>1. row \in Row \cup {NoRow} /\ (row # NoRow => ~row.indexed)
  BY DEF Row
<1>2. mem \in Store /\ disk \in Store /\ pending \in Entries /\ loading
  BY DEF TypeOK
<1>3. mem' \in Store /\ Complete(mem') /\ mem'.entries = mem.entries
  BY <1>1, <1>2, CompleteExcept
<1>4. \A id \in Ids : mem'.data[id] = IF id = i THEN row ELSE mem.data[id]
  BY <1>2 DEF Store
<1>5. \A t \in Triplets :
        /\ pending[t] \in Seq(EntrySet)
        /\ pending'[t] \in Seq(EntrySet)
        /\ \A n \in DOMAIN pending[t] :
              n \in DOMAIN pending'[t] /\ pending'[t][n] = pending[t][n]
        /\ t \in TripletsOf(x) =>
              \E n \in DOMAIN pending'[t] : pending'[t][n] = Entry(i, x, t)
        /\ \A n \in DOMAIN pending'[t] :
              \/ n \in DOMAIN pending[t] /\ pending'[t][n] = pending[t][n]
              \/ pending'[t][n] = Entry(i, x, t)
  <2> TAKE t \in Triplets
  <2>1. pending[t] \in Seq(EntrySet) /\ Entry(i, x, t) \in EntrySet
    BY <1>2 DEF Entries, EntrySet
  <2>2. CASE t \in TripletsOf(x)
    <3>1. pending'[t] = Append(pending[t], Entry(i, x, t))
      BY <2>2
    <3>2. /\ pending'[t] \in Seq(EntrySet)
          /\ \A n \in DOMAIN pending[t] :
                n \in DOMAIN pending'[t] /\ pending'[t][n] = pending[t][n]
          /\ Len(pending[t]) + 1 \in DOMAIN pending'[t]
          /\ pending'[t][Len(pending[t]) + 1] = Entry(i, x, t)
          /\ \A n \in DOMAIN pending'[t] :
                n \in DOMAIN pending[t] \/ pending'[t][n] = Entry(i, x, t)
      BY <2>1, <3>1, AppendKeeps
    <3>3. QED BY <2>1, <3>2
  <2>3. CASE t \notin TripletsOf(x)
    <3>1. pending'[t] = pending[t]
      BY <2>3
    <3>2. QED BY <2>1, <2>3, <3>1
  <2>4. QED BY <2>2, <2>3
<1>6. pending' \in Entries
  BY <1>5 DEF Entries
<1>7. TypeOK'
  BY <1>2, <1>3, <1>6 DEF TypeOK
<1>8. PendingInv'
  <2> SUFFICES ASSUME NEW id \in Ids, (id \in PendingIds)'
               PROVE  /\ mem'.data[id] # NoRow
                      /\ \A t \in TripletsOf(mem'.data[id].text) :
                            \E n \in DOMAIN pending'[t] :
                                pending'[t][n] = Entry(id, mem'.data[id].text, t)
    BY DEF PendingInv, PendingIds
  <2>1. CASE id = i
    <3>1. mem'.data[id] = row /\ row.text = x
      BY <1>4, <2>1
    <3>2. row \in Row
      BY DEF Row
    <3>3. row # NoRow
      BY <3>2, TripletIndexAssumption DEF Row
    <3>4. mem'.data[id] # NoRow /\ mem'.data[id].text = x
      BY <3>1, <3>3
    <3>5. ASSUME NEW t \in TripletsOf(x)
          PROVE  \E n \in DOMAIN pending'[t] : pending'[t][n] = Entry(id, x, t)
      <4>1. t \in Triplets
        BY TextTripletsIn
      <4>2. QED BY <1>5, <2>1, <4>1
    <3> HIDE DEF row, LoadLine
    <3>6. QED BY <3>4, <3>5
  <2>2. CASE id # i
    <3>1. PICK t \in Triplets : \E n \in DOMAIN pending'[t] : pending'[t][n].id = id
      BY DEF PendingIds
    <3>2. PICK n \in DOMAIN pending'[t] : pending'[t][n].id = id
      BY <3>1
    <3>3. Entry(i, x, t).id = i
      BY DEF Entry
    <3>4. n \in DOMAIN pending[t] /\ pending[t][n].id = id
      BY <1>5, <2>2, <3>2, <3>3
    <3>5. id \in PendingIds
      BY <3>4 DEF PendingIds
    <3>6. mem'.data[id] = mem.data[id] /\ mem.data[id] # NoRow
      BY <1>4, <2>2, <3>5 DEF PendingInv
    <3>7. mem.data[id].text \in Texts
      BY <1>2, <3>6 DEF Store, Row
    <3>8. ASSUME NEW u \in TripletsOf(mem.data[id].text)
          PROVE  \E k \in DOMAIN pending'[u] : pending'[u][k] = Entry(id, mem.data[id].text, u)
      <4>1. u \in Triplets
        BY <3>7, TextTripletsIn
      <4>2. PICK k \in DOMAIN pending[u] : pending[u][k] = Entry(id, mem.data[id].text, u)
        BY <3>5 DEF PendingInv
      <4>3. QED BY <1>5, <4>1, <4>2
    <3>9. QED BY <3>6, <3>8
  <2>3. QED BY <2>1, <2>2
<1>9. ClosingInv'
  BY <1>2, <1>3 DEF ClosingInv, Idle
<1>10. Complete(disk)'
  BY DEF Complete
<1>11. QED BY <1>3, <1>7, <1>8, <1>9, <1>10

\* The gathered entries are put, and the rows they are of are indexed.
LEMMA EndLoadKeeps == ASSUME IInv, EndLoad PROVE IInv'
<1> USE DEF IInv
<1>1. mem \in Store /\ disk \in Store /\ pending \in Entries /\ loading
  BY DEF TypeOK, EndLoad
<1>2. mem'.entries = [t \in Triplets |-> mem.entries[t] \o pending[t]]
  BY DEF EndLoad
<1>3. \A t \in Triplets : mem.entries[t] \in Seq(EntrySet) /\ pending[t] \in Seq(EntrySet)
  BY <1>1 DEF Store, Entries
<1>4. \A t \in Triplets :
        /\ mem'.entries[t] \in Seq(EntrySet)
        /\ \A n \in DOMAIN mem.entries[t] :
              \E k \in DOMAIN mem'.entries[t] : mem'.entries[t][k] = mem.entries[t][n]
        /\ \A n \in DOMAIN pending[t] :
              \E k \in DOMAIN mem'.entries[t] : mem'.entries[t][k] = pending[t][n]
  <2> TAKE t \in Triplets
  <2>1. /\ mem'.entries[t] \in Seq(EntrySet)
        /\ \A n \in DOMAIN mem.entries[t] :
              n \in DOMAIN mem'.entries[t] /\ mem'.entries[t][n] = mem.entries[t][n]
        /\ \A n \in DOMAIN pending[t] :
              /\ Len(mem.entries[t]) + n \in DOMAIN mem'.entries[t]
              /\ mem'.entries[t][Len(mem.entries[t]) + n] = pending[t][n]
    <3>1. mem'.entries[t] = mem.entries[t] \o pending[t]
      BY <1>2
    <3>2. mem.entries[t] \in Seq(EntrySet) /\ pending[t] \in Seq(EntrySet)
      BY <1>3
    <3> DEFINE s == mem.entries[t]
               u == pending[t]
    <3>3. s \in Seq(EntrySet) /\ u \in Seq(EntrySet)
      BY <3>2
    <3> HIDE DEF s, u
    <3>4. /\ s \o u \in Seq(EntrySet)
          /\ \A n \in DOMAIN s : n \in DOMAIN (s \o u) /\ (s \o u)[n] = s[n]
          /\ \A n \in DOMAIN u :
                Len(s) + n \in DOMAIN (s \o u) /\ (s \o u)[Len(s) + n] = u[n]
      BY <3>3, ConcatKeeps
    <3>5. QED BY <3>1, <3>4 DEF s, u
  <2>2. QED BY <2>1
<1>5. \A id \in Ids :
        mem'.data[id] = IF id \in PendingIds THEN [mem.data[id] EXCEPT !.indexed = TRUE]
                                             ELSE mem.data[id]
  BY DEF EndLoad
<1>6. \A id \in Ids : id \in PendingIds => mem.data[id] \in Row /\ mem'.data[id] \in Row
                                         /\ mem'.data[id].text = mem.data[id].text
  BY <1>1, <1>5 DEF PendingInv, Store, Row
<1>7. mem' \in Store
  <2>1. mem'.entries \in Entries
    BY <1>2, <1>4 DEF Entries
  <2>2. mem' = [data |-> mem'.data, entries |-> mem'.entries]
        /\ mem'.data = [id \in Ids |-> mem'.data[id]]
    BY DEF EndLoad
  <2>3. \A id \in Ids : mem'.data[id] \in Row \cup {NoRow}
    BY <1>1, <1>5, <1>6 DEF Store
  <2>4. QED BY <2>1, <2>2, <2>3 DEF Store
<1>8. TypeOK'
  BY <1>1, <1>7, NoEntriesType DEF TypeOK, EndLoad
<1>9. Complete(mem')
  <2> SUFFICES ASSUME NEW id \in Ids, mem'.data[id] # NoRow, mem'.data[id].indexed,
                      NEW t \in TripletsOf(mem'.data[id].text)
               PROVE  \E k \in DOMAIN mem'.entries[t] :
                          mem'.entries[t][k] = Entry(id, mem'.data[id].text, t)
    BY DEF Complete
  <2>1. t \in Triplets
    BY <1>7, TextTripletsIn DEF Store, Row
  <2>2. CASE id \in PendingIds
    <3>1. mem'.data[id].text = mem.data[id].text
      BY <1>6, <2>2
    <3>2. PICK n \in DOMAIN pending[t] : pending[t][n] = Entry(id, mem.data[id].text, t)
      BY <2>2, <3>1 DEF PendingInv
    <3>3. QED BY <1>4, <2>1, <3>1, <3>2
  <2>3. CASE id \notin PendingIds
    <3>1. mem'.data[id] = mem.data[id]
      BY <1>5, <2>3
    <3>2. PICK n \in DOMAIN mem.entries[t] : mem.entries[t][n] = Entry(id, mem'.data[id].text, t)
      BY <3>1 DEF Complete
    <3>3. QED BY <1>4, <2>1, <3>2
  <2>4. QED BY <2>2, <2>3
<1>10. PendingInv'
  BY DEF EndLoad, PendingInv, PendingIds, NoEntries
<1>11. ClosingInv'
  <2>1. ASSUME NEW t \in Triplets, NEW n \in DOMAIN disk.entries[t]
        PROVE  \E k \in DOMAIN mem'.entries[t] : mem'.entries[t][k] = disk.entries[t][n]
    <3>1. PICK m \in DOMAIN mem.entries[t] : mem.entries[t][m] = disk.entries[t][n]
      BY DEF ClosingInv
    <3>2. QED BY <1>4, <3>1
  <2>2. toClose' = LoadCloses /\ toClose' # <<>>
    BY DEF LoadCloses, EndLoad
  <2>3. disk' = disk
    BY DEF EndLoad
  <2>4. QED BY <2>1, <2>2, <2>3 DEF ClosingInv, Idle
<1>12. Complete(disk)'
  BY DEF Complete, EndLoad
<1>13. QED BY <1>8, <1>9, <1>10, <1>11, <1>12

\* A file is written; the triplets come first.
LEMMA CloseKeeps == ASSUME IInv, Close PROVE IInv'
<1> USE DEF IInv
<1>1. mem \in Store /\ disk \in Store /\ ~loading /\ pending = NoEntries
  BY DEF TypeOK, Close
<1>2. mem' = mem /\ loading' = loading /\ pending' = pending
  BY DEF Close
<1>3. PendingInv'
  BY <1>1, <1>2, NothingPending DEF PendingInv, PendingIds, NoEntries
<1>4. Complete(mem)'
  BY <1>2 DEF Complete
<1>5. CASE toClose = LoadCloses
  <2>1. disk' = [disk EXCEPT !.entries = mem.entries] /\ toClose' = <<"data">>
    BY <1>5 DEF LoadCloses, Close
  <2>2. disk' \in Store /\ disk'.data = disk.data /\ disk'.entries = mem.entries
    BY <1>1, <2>1 DEF Store
  <2>3. Complete(disk')
    <3>1. \A t \in Triplets : \A n \in DOMAIN disk.entries[t] :
            \E m \in DOMAIN disk'.entries[t] : disk'.entries[t][m] = disk.entries[t][n]
      BY <2>2 DEF ClosingInv
    <3>2. QED BY <1>1, <2>2, <3>1, CompleteMonotonic
  <2>4. TypeOK'
    BY <1>1, <1>2, <2>1, <2>2 DEF TypeOK, LoadCloses
  <2>5. ClosingInv'
    <3>1. toClose' # <<>>
      BY <2>1
    <3>2. QED BY <1>2, <2>2, <3>1 DEF ClosingInv, Idle
  <2>6. QED BY <1>3, <1>4, <2>3, <2>4, <2>5
<1>6. CASE toClose # LoadCloses
  <2>1. toClose = <<"data">>
    BY <1>6 DEF TypeOK, LoadCloses, Close
  <2>2. disk' = [disk EXCEPT !.data = mem.data] /\ toClose' = <<>>
    BY <2>1 DEF Close
  <2>3. mem.entries = disk.entries
    BY <1>6 DEF ClosingInv
  <2>4. disk' = mem
    BY <1>1, <2>2, <2>3 DEF Store
  <2>5. TypeOK'
    BY <1>1, <1>2, <2>2, <2>4 DEF TypeOK
  <2>6. Complete(disk') /\ ClosingInv'
    BY <1>2, <2>4 DEF ClosingInv
  <2>7. QED BY <1>3, <1>4, <2>5, <2>6
<1>7. QED BY <1>5, <1>6

\* Update and order_remove change one row of the cache and close its file.
LEMMA ChangeRowKeeps ==
    ASSUME IInv, NEW i \in Ids, NEW row \in Row \cup {NoRow}, row # NoRow => ~row.indexed,
           Idle, mem' = [mem EXCEPT !.data[i] = row], toClose' = <<"data">>,
           UNCHANGED <<disk, loading, pending>>
    PROVE  IInv'
<1> USE DEF IInv
<1>1. mem \in Store /\ disk \in Store /\ ~loading /\ pending = NoEntries
  BY DEF TypeOK, Idle
<1>2. mem' \in Store /\ Complete(mem') /\ mem'.entries = mem.entries
  BY <1>1, CompleteExcept
<1>3. TypeOK'
  BY <1>1, <1>2 DEF TypeOK
<1>4. PendingInv'
  BY <1>1, NothingPending DEF PendingInv, PendingIds, NoEntries
<1>5. ClosingInv'
  BY <1>1, <1>2 DEF ClosingInv, Idle, LoadCloses
<1>6. Complete(disk)'
  BY DEF Complete
<1>7. QED BY <1>2, <1>3, <1>4, <1>5, <1>6

\* The inductive invariant.
THEOREM SpecIInv == Spec => []IInv
<1>1. IInv /\ [Next]_vars => IInv'
  <2> SUFFICES ASSUME IInv, [Next]_vars PROVE IInv'
    OBVIOUS
  <2> USE DEF IInv
  <2>1. CASE StartLoad
    <3>1. TypeOK'
      BY <2>1 DEF TypeOK, StartLoad, Idle
    <3>2. PendingInv'
      BY <2>1, NothingPending DEF StartLoad, Idle, TypeOK, PendingInv, PendingIds, NoEntries
    <3>3. ClosingInv' /\ Complete(disk)' /\ Complete(mem)'
      BY <2>1 DEF StartLoad, ClosingInv, Idle, Complete
    <3>4. QED BY <3>1, <3>2, <3>3
  <2>2. CASE LoadBadLine
    <3>1. TypeOK'
      BY <2>2, NoEntriesType DEF TypeOK, LoadBadLine
    <3>2. PendingInv'
      BY <2>2 DEF LoadBadLine, PendingInv, PendingIds, NoEntries
    <3>3. ClosingInv' /\ Complete(disk)' /\ Complete(mem)'
      BY <2>2 DEF LoadBadLine, ClosingInv, Idle, Complete, LoadCloses
    <3>4. QED BY <3>1, <3>2, <3>3
  <2>3. CASE EndLoad
    BY <2>3, EndLoadKeeps
  <2>4. CASE Close
    BY <2>4, CloseKeeps
  <2>5. CASE Crash
    <3>1. TypeOK'
      BY <2>5, NoEntriesType DEF TypeOK, Crash
    <3>2. PendingInv'
      BY <2>5 DEF Crash, PendingInv, PendingIds, NoEntries
    <3>3. ClosingInv' /\ Complete(disk)' /\ Complete(mem)'
      BY <2>5 DEF Crash, ClosingInv, Complete
    <3>4. QED BY <3>1, <3>2, <3>3
  <2>6. ASSUME NEW id \in Ids, RemoveRow(id) PROVE IInv'
    BY <2>6, ChangeRowKeeps DEF RemoveRow
  <2>7. ASSUME NEW id \in Ids, NEW x \in Texts, LoadLine(id, x) PROVE IInv'
    BY <2>7, LoadLineKeeps
  <2>8. ASSUME NEW id \in Ids, NEW x \in Texts, Update(id, x) PROVE IInv'
    <3>1. [text |-> x, indexed |-> FALSE] \in Row \cup {NoRow}
      BY DEF Row
    <3>2. QED BY <2>8, <3>1, ChangeRowKeeps DEF Update
  <2>9. CASE UNCHANGED vars
    BY <2>9 DEF vars, TypeOK, PendingInv, PendingIds, ClosingInv, Idle, Complete
  <2>10. QED BY <2>1, <2>2, <2>3, <2>4, <2>5, <2>6, <2>7, <2>8, <2>9 DEF Next
<1>2. QED BY InitIInv, <1>1, PTL DEF Spec

\* The variables keep their types; files are closed in the order the
\* destructors run in, and nothing is gathered when no load is reading.
THEOREM SpecTypeOK == Spec => []TypeOK
BY SpecIInv, PTL DEF IInv

\* Whatever loads, failed loads, updates, removals and crashes happen, a record
\* that a load has written is in the file under each triplet of its name.
THEOREM SpecIndexComplete == Spec => []IndexComplete
BY SpecIInv, PTL DEF IInv, IndexComplete

-----------------------------------------------------------------------------
(* Finite sets.                                                            *)

\* Induction over the subsets of a finite set: what holds for the least
\* counterexample needs no operator as a parameter.
LEMMA SetInd ==
    ASSUME NEW S, IsFiniteSet(S), NEW F,
           \A T \in SUBSET S : (\A U \in SUBSET T : U # T => U \in F) => T \in F
    PROVE  S \in F
<1> DEFINE R == StrictSubsetOrdering(S)
          B == (SUBSET S) \ F
<1> SUFFICES ASSUME S \notin F PROVE FALSE
  OBVIOUS
<1>1. IsWellFoundedOn(R, FiniteSubsetsOf(S)) /\ FiniteSubsetsOf(S) = SUBSET S
  BY FS_StrictSubsetOrderingWellFounded, FS_FiniteSubsetsOfFinite
<1>2. PICK x \in B : \A y \in B : ~(<<y, x>> \in R)
  <2>1. B # {} /\ B \subseteq SUBSET S
    OBVIOUS
  <2> HIDE DEF R, B
  <2> QED BY <1>1, <2>1, WFMin
<1>3. \A U \in SUBSET x : U # x => U \in F
  BY <1>2 DEF StrictSubsetOrdering
<1>4. QED BY <1>2, <1>3

\* A set of naturals that is not empty has a least number.
LEMMA Least ==
    ASSUME NEW S \in SUBSET Nat, S # {}
    PROVE  \E x \in S : \A y \in S : x <= y
<1> DEFINE R == OpToRel(<, Nat)
<1>1. PICK x \in S : \A y \in S : ~(<<y, x>> \in R)
  <2>1. IsWellFoundedOn(R, Nat)
    BY NatLessThanWellFounded
  <2> HIDE DEF R
  <2>2. QED BY <2>1, WFMin
<1>2. ASSUME NEW y \in S PROVE x <= y
  <2>1. x \in Nat /\ y \in Nat /\ ~(<<y, x>> \in R)
    BY <1>1
  <2>2. y < x => <<y, x>> \in R
    BY <2>1 DEF OpToRel
  <2> HIDE DEF R
  <2>3. ~(y < x)
    BY <2>1, <2>2
  <2>4. QED BY <2>1, <2>3
<1>3. QED BY <1>2

\* A finite set that is not empty has a last element in every total order.
LEMMA LastExists ==
    ASSUME NEW S, IsFiniteSet(S), S # {}, NEW R,
           \A x, y \in S : <<x, y>> \in R \/ <<y, x>> \in R,
           \A x, y, z \in S : <<x, y>> \in R /\ <<y, z>> \in R => <<x, z>> \in R
    PROVE  \E x \in S : \A y \in S : <<y, x>> \in R
<1> DEFINE Has(T) == T # {} => \E x \in T : \A y \in T : <<y, x>> \in R
           F == {T \in SUBSET S : Has(T)}
<1>1. ASSUME NEW T \in SUBSET S, \A U \in SUBSET T : U # T => U \in F
      PROVE  T \in F
  <2> SUFFICES ASSUME T # {} PROVE \E x \in T : \A y \in T : <<y, x>> \in R
    OBVIOUS
  <2>1. PICK e \in T : TRUE
    OBVIOUS
  <2>2. Has(T \ {e})
    <3>1. T \ {e} \in SUBSET T /\ T \ {e} # T
      BY <2>1
    <3>2. T \ {e} \in F
      BY <1>1, <3>1
    <3> HIDE DEF Has
    <3>3. QED BY <3>2
  <2>3. CASE T \ {e} = {}
    BY <2>3
  <2>4. CASE T \ {e} # {}
    <3>1. PICK x \in T \ {e} : \A y \in T \ {e} : <<y, x>> \in R
      BY <2>2, <2>4
    <3>2. CASE <<e, x>> \in R
      BY <3>1, <3>2
    <3>3. CASE <<e, x>> \notin R
      <4>1. <<x, e>> \in R /\ <<e, e>> \in R
        BY <3>3
      <4>2. \A y \in T : <<y, e>> \in R
        BY <3>1, <4>1
      <4>3. QED BY <4>2
    <3>4. QED BY <3>2, <3>3
  <2>5. QED BY <2>3, <2>4
<1>2. S \in F
  <2> HIDE DEF F
  <2> QED BY <1>1, SetInd
<1>3. QED BY <1>2

\* The maximum of FiniteSetsExt is one.
LEMMA MaxIs ==
    ASSUME NEW S \in SUBSET Int, IsFiniteSet(S), S # {}
    PROVE  Max(S) \in S /\ \A x \in S : Max(S) >= x
<1> DEFINE R == {p \in S \X S : p[1] <= p[2]}
<1>1. \A x, y \in S : <<x, y>> \in R <=> x <= y
  OBVIOUS
<1>2. /\ \A x, y \in S : <<x, y>> \in R \/ <<y, x>> \in R
      /\ \A x, y, z \in S : <<x, y>> \in R /\ <<y, z>> \in R => <<x, z>> \in R
  BY <1>1
<1>3. \E x \in S : \A y \in S : <<y, x>> \in R
  <2> HIDE DEF R
  <2> QED BY <1>2, LastExists
<1>4. \E x \in S : \A y \in S : x >= y
  BY <1>1, <1>3
<1>5. QED BY <1>4 DEF Max

\* The image of a finite set is finite.
Image(f, S) == {f[x] : x \in S}

LEMMA ImageIs ==
    ASSUME NEW S, IsFiniteSet(S), NEW f
    PROVE  /\ IsFiniteSet(Image(f, S)) /\ Cardinality(Image(f, S)) <= Cardinality(S)
           /\ (\A x, y \in S : f[x] = f[y] => x = y)
                 => Cardinality(Image(f, S)) = Cardinality(S)
<1> DEFINE g == [x \in S |-> f[x]]
           T == Image(f, S)
<1>1. g \in Surjection(S, T)
  BY DEF Surjection, Image
<1>2. (\A x, y \in S : f[x] = f[y] => x = y) => g \in Injection(S, T)
  BY DEF Injection, IsInjective, Image
<1> HIDE DEF g, T
<1>3. /\ IsFiniteSet(T) /\ Cardinality(T) <= Cardinality(S)
      /\ (\A x, y \in S : f[x] = f[y] => x = y) => Cardinality(T) = Cardinality(S)
  BY <1>1, <1>2, FS_Surjection
<1>4. QED BY <1>3 DEF T

-----------------------------------------------------------------------------
(* The k-th number of a set.                                               *)

\* How many numbers of S are less than n.
Below(S, n) == Cardinality({m \in S : m < n})

\* A greater number has no fewer below it, and one of S has more.
LEMMA BelowIs ==
    ASSUME NEW S \in SUBSET Int, IsFiniteSet(S)
    PROVE  /\ Cardinality(S) \in Nat
           /\ \A n \in Int : Below(S, n) \in Nat /\ Below(S, n) <= Cardinality(S)
           /\ \A n \in S : Below(S, n) < Cardinality(S)
           /\ \A m, n \in Int : m <= n => Below(S, m) <= Below(S, n)
           /\ \A m \in S, n \in Int : m < n => Below(S, m) < Below(S, n)
<1> DEFINE B(n) == {m \in S : m < n}
<1>1. Cardinality(S) \in Nat
  BY FS_CardinalityType
<1>2. ASSUME NEW n \in Int PROVE IsFiniteSet(B(n)) /\ Cardinality(B(n)) \in Nat
                                 /\ Cardinality(B(n)) <= Cardinality(S)
  <2>1. B(n) \in SUBSET S
    OBVIOUS
  <2>2. QED BY <2>1, FS_Subset, FS_CardinalityType
<1>3. ASSUME NEW m \in Int, NEW n \in Int, m <= n
      PROVE  Cardinality(B(m)) <= Cardinality(B(n))
  <2>1. B(m) \in SUBSET B(n)
    <3>1. \A x \in S : x \in Int /\ (x < m => x < n)
      BY <1>3
    <3>2. QED BY <3>1
  <2> HIDE DEF B
  <2>2. QED BY <1>2, <2>1, FS_Subset
<1>4. ASSUME NEW m \in S, NEW n \in Int, m < n
      PROVE  Cardinality(B(m)) < Cardinality(B(n))
  <2>1. B(m) \in SUBSET B(n) /\ m \in B(n) /\ m \notin B(m) /\ m \in Int
    <3>1. m \in Int /\ \A x \in S : x \in Int /\ (x < m => x < n)
      BY <1>4
    <3>2. m < n /\ ~(m < m)
      BY <1>4, <3>1
    <3>3. QED BY <3>1, <3>2
  <2>2. B(m) # B(n) /\ IsFiniteSet(B(n)) /\ Cardinality(B(m)) \in Nat /\ Cardinality(B(n)) \in Nat
    BY <1>2, <2>1
  <2> HIDE DEF B
  <2>3. Cardinality(B(m)) <= Cardinality(B(n)) /\ Cardinality(B(m)) # Cardinality(B(n))
    BY <2>1, <2>2, FS_Subset
  <2>4. QED BY <2>2, <2>3
<1>5. ASSUME NEW n \in S PROVE Cardinality(B(n)) < Cardinality(S)
  <2>1. B(n) \in SUBSET S /\ n \notin B(n) /\ n \in Int
    OBVIOUS
  <2>2. B(n) # S /\ Cardinality(B(n)) \in Nat
    BY <1>2, <2>1
  <2> HIDE DEF B
  <2>3. QED BY <1>1, <2>1, <2>2, FS_Subset
<1>6. QED BY <1>1, <1>2, <1>3, <1>4, <1>5 DEF Below

\* The numbers of a finite set are its first, second and so on to its last.
LEMMA NthIs ==
    ASSUME NEW S \in SUBSET Int, IsFiniteSet(S)
    PROVE  /\ Cardinality(S) \in Nat
           /\ \A k \in 1..Cardinality(S) : Nth(S, k) \in S /\ Below(S, Nth(S, k)) = k - 1
           /\ \A n \in S : Below(S, n) + 1 \in 1..Cardinality(S)
                           /\ Nth(S, Below(S, n) + 1) = n
           /\ \A j, k \in 1..Cardinality(S) : j < k => Nth(S, j) < Nth(S, k)
<1> DEFINE c == Cardinality(S)
           b == [n \in S |-> Below(S, n)]
           T == Image(b, S)
<1>0. /\ c \in Nat
      /\ \A n \in S : n \in Int /\ Below(S, n) \in Nat /\ Below(S, n) < c
      /\ \A m, n \in S : m < n => Below(S, m) < Below(S, n)
  BY BelowIs
<1>1. \A m, n \in S : Below(S, m) = Below(S, n) => m = n
  BY <1>0
<1>2. T = 0..(c - 1)
  <2>1. IsFiniteSet(T) /\ Cardinality(T) = c
    <3>1. \A m, n \in S : b[m] = b[n] => m = n
      BY <1>1
    <3> HIDE DEF b
    <3>2. QED BY <3>1, ImageIs
  <2>2. T \subseteq 0..(c - 1)
    BY <1>0 DEF Image
  <2>3. IsFiniteSet(0..(c - 1)) /\ Cardinality(0..(c - 1)) = c
    <3> HIDE DEF c
    <3>1. 0 \in Int /\ c - 1 \in Int /\ (IF 0 > c - 1 THEN 0 ELSE c - 1 - 0 + 1) = c
      BY <1>0
    <3>2. /\ IsFiniteSet(0..(c - 1))
          /\ Cardinality(0..(c - 1)) = IF 0 > c - 1 THEN 0 ELSE c - 1 - 0 + 1
      BY <3>1, FS_Interval
    <3>3. QED BY <3>1, <3>2
  <2> HIDE DEF T
  <2>4. QED BY <2>1, <2>2, <2>3, FS_Subset
<1> HIDE DEF c
<1>3. ASSUME NEW k \in 1..c PROVE Nth(S, k) \in S /\ Below(S, Nth(S, k)) = k - 1
  <2>1. k - 1 \in 0..(c - 1)
    BY <1>0
  <2>2. \E n \in S : Below(S, n) = k - 1
    BY <1>2, <2>1 DEF Image
  <2>3. QED BY <2>2 DEF Nth, Below
<1>4. ASSUME NEW n \in S PROVE Below(S, n) + 1 \in 1..c /\ Nth(S, Below(S, n) + 1) = n
  <2>1. Below(S, n) + 1 \in 1..c /\ (Below(S, n) + 1) - 1 = Below(S, n)
    BY <1>0
  <2> DEFINE k == Below(S, n) + 1
  <2>2. Nth(S, k) \in S /\ Below(S, Nth(S, k)) = k - 1
    BY <1>3, <2>1
  <2>3. QED BY <1>1, <2>1, <2>2
<1>5. ASSUME NEW j \in 1..c, NEW k \in 1..c, j < k PROVE Nth(S, j) < Nth(S, k)
  <2>1. /\ Nth(S, j) \in S /\ Below(S, Nth(S, j)) = j - 1
        /\ Nth(S, k) \in S /\ Below(S, Nth(S, k)) = k - 1
    BY <1>3
  <2>2. ~(Nth(S, k) <= Nth(S, j))
    <3>1. Nth(S, k) <= Nth(S, j) => Below(S, Nth(S, k)) <= Below(S, Nth(S, j))
      BY <2>1, BelowIs
    <3>2. ~(k - 1 <= j - 1)
      BY <1>0, <1>5
    <3>3. QED BY <2>1, <3>1, <3>2
  <2>3. Nth(S, j) \in Int /\ Nth(S, k) \in Int
    BY <1>0, <2>1
  <2>4. QED BY <2>2, <2>3
<1>6. QED BY <1>0, <1>3, <1>4, <1>5 DEF c

-----------------------------------------------------------------------------
(* Sums.  A sum of naturals is the size of a set of pairs.                 *)

\* A pair for each unit of the sum of f over S, and that sum.
Graph(f, S) == {p \in S \X Nat : p[2] \in 1..f[p[1]]}
Total(f, S) == Cardinality(Graph(f, S))

\* One element adds its number of pairs.
LEMMA GraphStep ==
    ASSUME NEW S, NEW f, NEW x \in S, f[x] \in Nat, IsFiniteSet(Graph(f, S \ {x}))
    PROVE  IsFiniteSet(Graph(f, S)) /\ Total(f, S) = f[x] + Total(f, S \ {x})
<1> DEFINE A == Graph(f, S \ {x})
           B == {x} \X (1..f[x])
<1>1. Graph(f, S) = A \cup B
  <2>1. ASSUME NEW p \in Graph(f, S) PROVE p \in A \cup B
    <3>1. p \in S \X Nat /\ p[1] \in S /\ p = <<p[1], p[2]>> /\ p[2] \in Nat
          /\ p[2] \in 1..f[p[1]]
      BY DEF Graph
    <3>2. CASE p[1] = x
      BY <3>1, <3>2
    <3>3. CASE p[1] # x
      BY <3>1, <3>3 DEF Graph
    <3>4. QED BY <3>2, <3>3
  <2>2. A \subseteq Graph(f, S)
    BY DEF Graph
  <2>3. ASSUME NEW k \in 1..f[x] PROVE <<x, k>> \in Graph(f, S)
    BY DEF Graph
  <2> HIDE DEF A
  <2>4. QED BY <2>1, <2>2, <2>3
<1>2. A \cap B = {}
  BY DEF Graph
<1>3. IsFiniteSet(B) /\ Cardinality(B) = f[x]
  <2>1. IsFiniteSet({x}) /\ Cardinality({x}) = 1
    BY FS_Singleton
  <2>2. IsFiniteSet(1..f[x]) /\ Cardinality(1..f[x]) = f[x]
    <3> DEFINE y == f[x]
    <3>1. y \in Nat
      OBVIOUS
    <3> HIDE DEF y
    <3>2. 1 \in Int /\ y \in Int /\ (IF 1 > y THEN 0 ELSE y - 1 + 1) = y
      BY <3>1
    <3>3. IsFiniteSet(1..y) /\ Cardinality(1..y) = IF 1 > y THEN 0 ELSE y - 1 + 1
      BY <3>2, FS_Interval
    <3>4. IsFiniteSet(1..y) /\ Cardinality(1..y) = y
      BY <3>2, <3>3
    <3>5. QED BY <3>4 DEF y
  <2> DEFINE I == 1..f[x]
             X == {x}
  <2>3. IsFiniteSet(X) /\ IsFiniteSet(I) /\ Cardinality(I) = f[x] /\ Cardinality(X) = 1
    BY <2>1, <2>2
  <2> HIDE DEF X, I
  <2>4. IsFiniteSet(X \X I) /\ Cardinality(X \X I) = Cardinality(X) * Cardinality(I)
    BY <2>3, FS_Product
  <2>5. IsFiniteSet(X \X I) /\ Cardinality(X \X I) = f[x]
    BY <2>3, <2>4
  <2>6. QED BY <2>5 DEF X, I
<1> HIDE DEF A, B
<1>4. IsFiniteSet(A)
  BY DEF A
<1>5. /\ IsFiniteSet(A \cup B)
      /\ Cardinality(A \cup B) = Cardinality(A) + Cardinality(B) - Cardinality(A \cap B)
  BY <1>3, <1>4, FS_Union
<1>6. Cardinality(A) \in Nat /\ Cardinality(A \cap B) = 0
  BY <1>2, <1>4, FS_CardinalityType, FS_EmptySet
<1>7. Cardinality(A \cup B) = f[x] + Cardinality(A)
  BY <1>3, <1>5, <1>6
<1>8. QED BY <1>1, <1>5, <1>7 DEF Total, A

\* The sum of naturals is one, over every finite set.
LEMMA TotalIs ==
    ASSUME NEW S, IsFiniteSet(S), NEW f, \A x \in S : f[x] \in Nat
    PROVE  /\ Total(f, S) \in Nat
           /\ Total(f, {}) = 0
           /\ \A U \in SUBSET S : \A x \in U : Total(f, U) = f[x] + Total(f, U \ {x})
<1> DEFINE F == {U \in SUBSET S : IsFiniteSet(Graph(f, U))}
<1>1. Graph(f, {}) = {}
  BY DEF Graph
<1>2. ASSUME NEW T \in SUBSET S, \A U \in SUBSET T : U # T => U \in F
      PROVE  T \in F
  <2>1. CASE T = {}
    BY <1>1, <2>1, FS_EmptySet
  <2>2. CASE T # {}
    <3>1. PICK x \in T : TRUE
      BY <2>2
    <3>2. IsFiniteSet(Graph(f, T \ {x}))
      <4>1. T \ {x} \in SUBSET T /\ T \ {x} # T
        BY <3>1
      <4>2. QED BY <1>2, <4>1
    <3>3. QED BY <3>1, <3>2, GraphStep
  <2>3. QED BY <2>1, <2>2
<1>3. \A U \in SUBSET S : IsFiniteSet(Graph(f, U))
  <2>1. ASSUME NEW U \in SUBSET S PROVE U \in F
    <3>1. IsFiniteSet(U)
      BY FS_Subset
    <3>2. \A T \in SUBSET U : (\A V \in SUBSET T : V # T => V \in F) => T \in F
      BY <1>2
    <3> HIDE DEF F
    <3>3. QED BY <3>1, <3>2, SetInd
  <2>2. QED BY <2>1
<1>4. Total(f, {}) = 0
  BY <1>1, FS_EmptySet DEF Total
<1>5. Total(f, S) \in Nat
  BY <1>3, FS_CardinalityType DEF Total
<1>6. ASSUME NEW U \in SUBSET S, NEW x \in U
      PROVE  Total(f, U) = f[x] + Total(f, U \ {x})
  BY <1>3, GraphStep
<1>7. QED BY <1>4, <1>5, <1>6

\* Any element can be taken out of a sum first.
LEMMA TotalStep ==
    ASSUME NEW S, IsFiniteSet(S), NEW f, \A x \in S : f[x] \in Nat,
           NEW U \in SUBSET S, NEW x \in U
    PROVE  Total(f, U) = f[x] + Total(f, U \ {x})
BY TotalIs

\* What MapThenSumSet computes.
One(s) == CHOOSE x \in s : TRUE
Sums(h, f, S) == h = [s \in SUBSET S |-> IF s = {} THEN 0 ELSE f[One(s)] + h[s \ {One(s)}]]

\* The sum is computed in the order that CHOOSE gives.
LEMMA SumsExist ==
    ASSUME NEW S, IsFiniteSet(S), NEW f, \A x \in S : f[x] \in Nat
    PROVE  Sums([s \in SUBSET S |-> Total(f, s)], f, S)
<1> DEFINE h == [s \in SUBSET S |-> Total(f, s)]
<1>1. ASSUME NEW s \in SUBSET S
      PROVE  h[s] = IF s = {} THEN 0 ELSE f[One(s)] + h[s \ {One(s)}]
  <2>1. CASE s = {}
    BY <2>1, TotalIs
  <2>2. CASE s # {}
    <3>1. One(s) \in s
      BY <2>2 DEF One
    <3>2. Total(f, s) = f[One(s)] + Total(f, s \ {One(s)})
      BY <3>1, TotalIs
    <3>3. s \ {One(s)} \in SUBSET S
      OBVIOUS
    <3>4. h[s] = Total(f, s) /\ h[s \ {One(s)}] = Total(f, s \ {One(s)})
      BY <3>3
    <3> HIDE DEF h
    <3>5. QED BY <2>2, <3>2, <3>4
  <2>3. QED BY <2>1, <2>2
<1>2. QED BY <1>1 DEF Sums

\* Nothing else is.
LEMMA SumsUnique ==
    ASSUME NEW S, IsFiniteSet(S), NEW f, \A x \in S : f[x] \in Nat, NEW h, Sums(h, f, S)
    PROVE  h[S] = Total(f, S)
<1> DEFINE F == {s \in SUBSET S : h[s] = Total(f, s)}
<1>1. \A s \in SUBSET S : h[s] = IF s = {} THEN 0 ELSE f[One(s)] + h[s \ {One(s)}]
  BY DEF Sums
<1>2. ASSUME NEW T \in SUBSET S, \A U \in SUBSET T : U # T => U \in F
      PROVE  T \in F
  <2>1. CASE T = {}
    BY <1>1, <2>1, TotalIs
  <2>2. CASE T # {}
    <3>1. One(T) \in T
      BY <2>2 DEF One
    <3>2. T \ {One(T)} \in SUBSET T /\ T \ {One(T)} # T
      BY <3>1
    <3>3. h[T \ {One(T)}] = Total(f, T \ {One(T)})
      BY <1>2, <3>2
    <3>4. Total(f, T) = f[One(T)] + Total(f, T \ {One(T)})
      BY <3>1, TotalIs
    <3>5. QED BY <1>1, <2>2, <3>3, <3>4
  <2>3. QED BY <2>1, <2>2
<1>3. S \in F
  <2> HIDE DEF F
  <2> QED BY <1>2, SetInd
<1>4. QED BY <1>3

\* Sums over two sets with the same numbers.
LEMMA TotalBijection ==
    ASSUME NEW S, IsFiniteSet(S), NEW T, NEW f, NEW g, NEW b,
           \A x \in S : f[x] \in Nat /\ b[x] \in T /\ g[b[x]] = f[x],
           \A x, y \in S : b[x] = b[y] => x = y,
           \A y \in T : \E x \in S : b[x] = y
    PROVE  Total(f, S) = Total(g, T)
<1> DEFINE F == {U \in SUBSET S : Total(f, U) = Total(g, Image(b, U))}
<1>1. Image(b, S) = T
  BY DEF Image
<1>2. IsFiniteSet(T) /\ \A y \in T : g[y] \in Nat
  BY <1>1, ImageIs
<1>3. ASSUME NEW U \in SUBSET S, \A V \in SUBSET U : V # U => V \in F
      PROVE  U \in F
  <2> DEFINE I(V) == Image(b, V)
  <2>1. CASE U = {}
    <3>1. I(U) = {}
      BY <2>1 DEF Image
    <3>2. Total(f, {}) = 0 /\ Total(g, {}) = 0
      BY <1>2, TotalIs
    <3>3. QED BY <2>1, <3>1, <3>2
  <2>2. CASE U # {}
    <3>1. PICK e \in U : TRUE
      BY <2>2
    <3>2. Total(f, U \ {e}) = Total(g, I(U \ {e}))
      <4>1. U \ {e} \in SUBSET U /\ U \ {e} # U
        BY <3>1
      <4>2. QED BY <1>3, <4>1
    <3>3. I(U) \in SUBSET T /\ b[e] \in I(U) /\ I(U) \ {b[e]} = I(U \ {e})
      BY DEF Image
    <3>4. Total(f, U) = f[e] + Total(f, U \ {e})
      BY TotalIs
    <3> HIDE DEF I
    <3>5. Total(g, I(U)) = g[b[e]] + Total(g, I(U \ {e}))
      <4> DEFINE V == I(U)
                 y == b[e]
      <4>1. V \in SUBSET T /\ y \in V
        BY <3>3
      <4> HIDE DEF V, y
      <4>2. Total(g, V) = g[y] + Total(g, V \ {y})
        BY <1>2, <4>1, TotalStep
      <4>3. QED BY <3>3, <4>2 DEF V, y
    <3>6. QED BY <3>2, <3>4, <3>5 DEF I
  <2>3. QED BY <2>1, <2>2
<1>4. S \in F
  <2> HIDE DEF F
  <2> QED BY <1>3, SetInd
<1>5. QED BY <1>1, <1>4

\* A finite set is counted class by class.
LEMMA TotalPartition ==
    ASSUME NEW P, IsFiniteSet(P), NEW b, NEW f,
           \A t \in Image(b, P) : f[t] = Cardinality({p \in P : b[p] = t})
    PROVE  Total(f, Image(b, P)) = Cardinality(P)
<1> DEFINE T == Image(b, P)
           Of(U) == {p \in P : b[p] \in U}
           F == {U \in SUBSET T : Total(f, U) = Cardinality(Of(U))}
<1>1. IsFiniteSet(T)
  BY ImageIs
<1>2. \A U : IsFiniteSet(Of(U)) /\ Cardinality(Of(U)) \in Nat
  <2> TAKE U
  <2>1. Of(U) \in SUBSET P
    OBVIOUS
  <2>2. QED BY <2>1, FS_Subset, FS_CardinalityType
<1>3. \A t \in T : f[t] = Cardinality(Of({t})) /\ f[t] \in Nat
  <2> TAKE t \in T
  <2>1. {p \in P : b[p] = t} = Of({t})
    OBVIOUS
  <2>2. f[t] = Cardinality(Of({t}))
    BY <2>1
  <2>3. QED BY <1>2, <2>2
<1>4. ASSUME NEW U \in SUBSET T, \A V \in SUBSET U : V # U => V \in F
      PROVE  U \in F
  <2>1. CASE U = {}
    <3>1. Of(U) = {}
      BY <2>1
    <3> HIDE DEF Of, T
    <3>2. Total(f, U) = 0
      BY <1>1, <1>3, <2>1, TotalIs
    <3>3. QED BY <3>1, <3>2, FS_EmptySet
  <2>2. CASE U # {}
    <3>1. PICK t \in U : TRUE
      BY <2>2
    <3>2. Total(f, U \ {t}) = Cardinality(Of(U \ {t}))
      <4>1. U \ {t} \in SUBSET U /\ U \ {t} # U
        BY <3>1
      <4>2. QED BY <1>4, <4>1
    <3>3. Of(U) = Of({t}) \cup Of(U \ {t}) /\ Of({t}) \cap Of(U \ {t}) = {}
      OBVIOUS
    <3> HIDE DEF Of, T
    <3>4. Total(f, U) = f[t] + Total(f, U \ {t})
      <4>1. \A x \in T : f[x] \in Nat
        BY <1>3
      <4>2. QED BY <1>1, <4>1, TotalStep
    <3>5. Cardinality(Of(U)) = Cardinality(Of({t})) + Cardinality(Of(U \ {t}))
      <4> DEFINE A == Of({t})
                 B == Of(U \ {t})
      <4>1. /\ IsFiniteSet(A) /\ IsFiniteSet(B) /\ A \cap B = {}
            /\ Cardinality(A) \in Nat /\ Cardinality(B) \in Nat
        BY <1>2, <3>3
      <4> HIDE DEF A, B
      <4>2. Cardinality(A \cup B) = Cardinality(A) + Cardinality(B) - Cardinality(A \cap B)
        BY <4>1, FS_Union
      <4>3. Cardinality(A \cap B) = 0
        BY <4>1, FS_EmptySet
      <4>4. Cardinality(A \cup B) = Cardinality(A) + Cardinality(B)
        BY <4>1, <4>2, <4>3
      <4>5. QED BY <3>3, <4>4 DEF A, B
    <3>6. f[t] = Cardinality(Of({t})) /\ U \in SUBSET T
      BY <1>3
    <3>7. QED BY <3>2, <3>4, <3>5, <3>6
  <2>3. QED BY <2>1, <2>2
<1>5. T \in F
  <2> HIDE DEF F, T
  <2> QED BY <1>1, <1>4, SetInd
<1>6. Of(T) = P
  BY DEF Image
<1>7. QED BY <1>5, <1>6

-----------------------------------------------------------------------------
(* Texts.                                                                  *)

\* Less orders the strings.
LEMMA LessTotal ==
    ASSUME NEW s \in Seq(Nat), NEW t \in Seq(Nat), s # t
    PROVE  Less(s, t) \/ Less(t, s)
<1> DEFINE Same(n) == n <= Len(s) /\ n <= Len(t) /\ s[n] = t[n]
           D == {n \in Nat : n >= 1 /\ (n <= Len(s) \/ n <= Len(t)) /\ ~Same(n)}
<1>1. /\ Len(s) \in Nat /\ \A n \in 1..Len(s) : s[n] \in Nat
      /\ Len(t) \in Nat /\ \A n \in 1..Len(t) : t[n] \in Nat
  BY LenProperties, ElementOfSeq
<1>2. D # {}
  <2> SUFFICES ASSUME D = {} PROVE FALSE
    OBVIOUS
  <2>1. \A n \in Nat : n >= 1 /\ (n <= Len(s) \/ n <= Len(t)) => Same(n)
    OBVIOUS
  <2>2. Len(s) = Len(t)
    <3>1. Len(s) >= 1 => Len(s) <= Len(t)
      BY <1>1, <2>1
    <3>2. Len(t) >= 1 => Len(t) <= Len(s)
      BY <1>1, <2>1
    <3>3. QED BY <1>1, <3>1, <3>2
  <2>3. \A n \in 1..Len(s) : s[n] = t[n]
    BY <1>1, <2>1
  <2>4. QED BY <2>2, <2>3, SeqEqual
<1>3. PICK n \in D : \A k \in D : n <= k
  <2>1. D \in SUBSET Nat
    OBVIOUS
  <2> HIDE DEF D
  <2>2. QED BY <1>2, <2>1, Least
<1>4. n \in Nat /\ n >= 1 /\ (n <= Len(s) \/ n <= Len(t)) /\ ~Same(n)
  OBVIOUS
<1>5. ASSUME NEW k \in 1..(n - 1) PROVE Same(k)
  <2>1. k \in Nat /\ k >= 1 /\ k < n /\ (k <= Len(s) \/ k <= Len(t))
    BY <1>1, <1>4
  <2>2. k \notin D
    <3>1. k \in D => n <= k
      BY <1>3
    <3> HIDE DEF D
    <3>2. QED BY <1>4, <2>1, <3>1
  <2> HIDE DEF Same
  <2>3. QED BY <2>1, <2>2
<1>6. CASE n > Len(s)
  <2>1. n \in 1..Len(t)
    BY <1>1, <1>4, <1>6
  <2>2. QED BY <1>5, <1>6, <2>1 DEF Less
<1>7. CASE n > Len(t)
  <2>1. n \in 1..Len(s)
    BY <1>1, <1>4, <1>7
  <2>2. \A k \in 1..(n - 1) : k <= Len(t) /\ t[k] = s[k]
    BY <1>5
  <2>3. QED BY <1>7, <2>1, <2>2 DEF Less
<1>8. CASE n <= Len(s) /\ n <= Len(t)
  <2>1. n \in 1..Len(s) /\ n \in 1..Len(t)
    BY <1>1, <1>4, <1>8
  <2>2. s[n] < t[n] \/ t[n] < s[n]
    BY <1>1, <1>4, <1>8, <2>1
  <2>3. \A k \in 1..(n - 1) : k <= Len(t) /\ t[k] = s[k] /\ k <= Len(s)
    BY <1>5
  <2>4. QED BY <1>8, <2>1, <2>2, <2>3 DEF Less
<1>9. QED BY <1>1, <1>4, <1>6, <1>7, <1>8

\* And transitively.
LEMMA LessTransitive ==
    ASSUME NEW s \in Seq(Nat), NEW t \in Seq(Nat), NEW u \in Seq(Nat), Less(s, t), Less(t, u)
    PROVE  Less(s, u)
<1>1. /\ Len(s) \in Nat /\ \A n \in 1..Len(s) : s[n] \in Nat
      /\ Len(t) \in Nat /\ \A n \in 1..Len(t) : t[n] \in Nat
      /\ Len(u) \in Nat /\ \A n \in 1..Len(u) : u[n] \in Nat
  BY LenProperties, ElementOfSeq
<1>2. PICK n \in 1..Len(t) : /\ n > Len(s) \/ (n <= Len(s) /\ s[n] < t[n])
                             /\ \A k \in 1..(n - 1) : k <= Len(s) /\ s[k] = t[k]
  BY DEF Less
<1>3. PICK m \in 1..Len(u) : /\ m > Len(t) \/ (m <= Len(t) /\ t[m] < u[m])
                             /\ \A k \in 1..(m - 1) : k <= Len(t) /\ t[k] = u[k]
  BY DEF Less
<1>4. CASE n < m
  <2>1. n \in 1..Len(u) /\ n \in 1..(m - 1)
    BY <1>1, <1>4
  <2>2. t[n] = u[n]
    BY <1>3, <2>1
  <2>3. \A k \in 1..(n - 1) : k <= Len(s) /\ s[k] = u[k]
    <3>1. \A k \in 1..(n - 1) : k \in 1..(m - 1)
      BY <1>1, <1>4
    <3>2. QED BY <1>2, <1>3, <3>1
  <2>4. QED BY <1>2, <2>1, <2>2, <2>3 DEF Less
<1>5. CASE m < n
  <2>1. m \in 1..Len(t) /\ m \in 1..(n - 1)
    BY <1>1, <1>5
  <2>2. m <= Len(s) /\ s[m] = t[m]
    BY <1>2, <2>1
  <2>3. t[m] < u[m]
    BY <1>1, <1>3, <2>1
  <2>4. \A k \in 1..(m - 1) : k <= Len(s) /\ s[k] = u[k]
    <3>1. \A k \in 1..(m - 1) : k \in 1..(n - 1)
      BY <1>1, <1>5
    <3>2. QED BY <1>2, <1>3, <3>1
  <2>5. QED BY <2>2, <2>3, <2>4 DEF Less
<1>6. CASE n = m
  <2>1. t[n] < u[n] /\ n \in 1..Len(u)
    BY <1>1, <1>3, <1>6
  <2>2. n > Len(s) \/ (n <= Len(s) /\ s[n] < u[n])
    <3>1. n <= Len(s) => n \in 1..Len(s)
      BY <1>1
    <3>2. t[n] \in Nat /\ u[n] \in Nat /\ (n <= Len(s) => s[n] \in Nat)
      BY <1>1, <2>1, <3>1
    <3>3. CASE n <= Len(s) /\ s[n] < t[n]
      <4> DEFINE a == s[n]
                 b == t[n]
                 c == u[n]
      <4>1. a \in Nat /\ b \in Nat /\ c \in Nat /\ a < b /\ b < c
        BY <2>1, <3>2, <3>3
      <4> HIDE DEF a, b, c
      <4>2. a < c
        BY <4>1
      <4>3. QED BY <3>3, <4>2 DEF a, c
    <3>4. QED BY <1>2, <3>3
  <2>3. \A k \in 1..(n - 1) : k <= Len(s) /\ s[k] = u[k]
    BY <1>2, <1>3, <1>6
  <2>4. QED BY <2>1, <2>2, <2>3 DEF Less
<1>7. QED BY <1>1, <1>4, <1>5, <1>6

\* What is picked, place by place.
LEMMA PickIs ==
    ASSUME NEW S \in SUBSET Int, IsFiniteSet(S), NEW s
    PROVE  /\ Cardinality(S) \in Nat
           /\ Pick(s, S) = [k \in 1..Cardinality(S) |-> s[Nth(S, k)]]
           /\ DOMAIN Pick(s, S) = 1..Cardinality(S)
           /\ \A k \in 1..Cardinality(S) : Nth(S, k) \in S /\ Pick(s, S)[k] = s[Nth(S, k)]
           /\ \A n \in S : \E k \in 1..Cardinality(S) : Nth(S, k) = n
BY NthIs DEF Pick

\* What is left of a text is a text.
LEMMA FilteredIs ==
    ASSUME NEW x \in Seq(Nat)
    PROVE  /\ Filtered(x) \in Seq(Alnum \cup Blank)
           /\ Filtered(x) \in Seq(Nat)
<1> DEFINE S == {n \in 1..Len(x) : x[n] \in Alnum \cup Blank}
<1>1. S \in SUBSET Int /\ IsFiniteSet(S)
  <2>1. Len(x) \in Nat /\ IsFiniteSet(1..Len(x)) /\ S \in SUBSET (1..Len(x))
    BY LenProperties, FS_Interval
  <2>2. QED BY <2>1, FS_Subset
<1>2. \A n \in S : x[n] \in Alnum \cup Blank
  OBVIOUS
<1>3. Filtered(x) = Pick(x, S)
  BY DEF Filtered
<1> HIDE DEF S
<1> DEFINE c == Cardinality(S)
<1>4. c \in Nat /\ Filtered(x) \in [1..c -> Alnum \cup Blank]
  <2>1. /\ c \in Nat /\ Filtered(x) = [k \in 1..c |-> x[Nth(S, k)]]
        /\ \A k \in 1..c : Nth(S, k) \in S
    BY <1>1, <1>3, PickIs
  <2> HIDE DEF c
  <2>2. \A k \in 1..c : x[Nth(S, k)] \in Alnum \cup Blank
    BY <1>2, <2>1
  <2>3. QED BY <2>1, <2>2
<1>5. Filtered(x) \in Seq(Alnum \cup Blank)
  <2> HIDE DEF c
  <2> QED BY <1>4, SeqDef
<1>6. Alnum \cup Blank \subseteq Nat
  BY DEF Alnum, Blank, Upper
<1>7. QED BY <1>5, <1>6, SeqMonotonic

\* And so is its normal form.
LEMMA NormalIs ==
    ASSUME NEW x \in Seq(Nat)
    PROVE  Normal(x) \in Seq(Nat)
<1> DEFINE f == Filtered(x)
<1>1. f \in Seq(Nat) /\ Len(f) \in Nat /\ DOMAIN f = 1..Len(f) /\ \A n \in 1..Len(f) : f[n] \in Nat
  BY FilteredIs, LenProperties
<1>2. \A n \in 1..Len(f) : LowerChar(f[n]) \in Nat
  BY <1>1 DEF LowerChar
<1>3. Normal(x) = [n \in 1..Len(f) |-> LowerChar(f[n])]
  BY <1>1 DEF Normal
<1> DEFINE c == Len(f)
<1>4. c \in Nat /\ Normal(x) \in [1..c -> Nat]
  BY <1>1, <1>2, <1>3
<1> HIDE DEF c
<1>5. QED BY <1>4, SeqDef

\* There are finitely many places, at least one, and they lie in the text.
LEMMA PlacesAre ==
    ASSUME NEW s \in Seq(Nat)
    PROVE  /\ IsFiniteSet(Places(s)) /\ Places(s) # {}
           /\ \A p \in Places(s) : At(s, p) \in Seq(Nat)
<1>1. Len(s) \in Nat /\ s \in [1..Len(s) -> Nat]
  BY LenProperties
<1> DEFINE stops == Stops(s)
           Box == (1..(Len(s) + 1)) \X (0..Len(s))
<1>2. stops \in SUBSET (0..(Len(s) + 1)) /\ 0 \in stops /\ Len(s) + 1 \in stops
  BY <1>1 DEF Stops
<1>3. Words(s) = {w \in stops \X stops : w[1] < w[2] /\ \A n \in stops : n <= w[1] \/ n >= w[2]}
  BY DEF Words
<1> HIDE DEF stops
<1>4. ASSUME NEW w \in Words(s), NEW p \in PlacesIn(w) PROVE p \in Box
  <2>1. w[1] \in 0..(Len(s) + 1) /\ w[2] \in 0..(Len(s) + 1) /\ w[1] < w[2]
    BY <1>2, <1>3
  <2>2. CASE w[2] - w[1] > 3
    <3>1. PICK n \in (w[1] + 1)..(w[2] - 3) : p = <<n, n + 2>>
      BY <2>2 DEF PlacesIn
    <3> DEFINE a == w[1]
               b == w[2]
               len == Len(s)
    <3>2. /\ len \in Nat /\ a \in Nat /\ b \in Nat /\ b <= len + 1
          /\ n \in Int /\ a + 1 <= n /\ n <= b - 3
      BY <1>1, <2>1
    <3> HIDE DEF a, b, len
    <3>3. n \in 1..(len + 1) /\ n + 2 \in 0..len
      BY <3>2
    <3>4. QED BY <3>1, <3>3 DEF len
  <2>3. CASE ~(w[2] - w[1] > 3)
    <3>1. p = <<w[1] + 1, w[2] - 1>>
      BY <2>3 DEF PlacesIn
    <3>2. w[1] + 1 \in 1..(Len(s) + 1) /\ w[2] - 1 \in 0..Len(s)
      BY <1>1, <2>1
    <3>3. QED BY <3>1, <3>2
  <2>4. QED BY <2>2, <2>3
<1>5. Places(s) \subseteq Box
  <2> DEFINE X == {PlacesIn(w) : w \in Words(s)}
  <2>1. ASSUME NEW p \in UNION X PROVE p \in Box
    <3>1. PICK P \in X : p \in P
      <4> HIDE DEF X
      <4> QED OBVIOUS
    <3>2. QED BY <1>4, <3>1
  <2> HIDE DEF Box
  <2>2. Places(s) = UNION X
    BY DEF Places
  <2> HIDE DEF X
  <2>3. QED BY <2>1, <2>2
<1>6. IsFiniteSet(Places(s))
  <2> DEFINE A == 1..(Len(s) + 1)
             B == 0..Len(s)
  <2>1. IsFiniteSet(A) /\ IsFiniteSet(B)
    BY <1>1, FS_Interval
  <2> HIDE DEF A, B
  <2>2. IsFiniteSet(A \X B)
    BY <2>1, FS_Product
  <2>3. Places(s) \in SUBSET (A \X B)
    BY <1>5 DEF A, B
  <2>4. QED BY <2>2, <2>3, FS_Subset
<1>7. Places(s) # {}
  <2> DEFINE later == {n \in stops : n > 0}
  <2>1. \A n \in stops : n \in Nat
    BY <1>1, <1>2
  <2>2. later \in SUBSET Nat /\ Len(s) + 1 \in later
    <3>1. Len(s) + 1 > 0
      BY <1>1
    <3>2. QED BY <1>2, <2>1, <3>1
  <2>3. PICK z \in later : \A n \in later : z <= n
    <3> HIDE DEF later
    <3> QED BY <2>2, Least
  <2>4. z \in stops /\ z > 0 /\ z \in Nat /\ \A n \in stops : n <= 0 \/ n >= z
    BY <2>1, <2>3
  <2> DEFINE w == <<0, z>>
  <2>5. w \in Words(s)
    BY <1>2, <1>3, <2>4
  <2>6. PlacesIn(w) # {}
    <3>1. CASE z > 3
      <4>1. 1 \in (0 + 1)..(z - 3) /\ z - 0 > 3
        BY <2>4, <3>1
      <4>2. <<1, 1 + 2>> \in PlacesIn(w)
        BY <4>1 DEF PlacesIn
      <4>3. QED BY <4>2
    <3>2. CASE ~(z > 3)
      <4>1. ~(w[2] - w[1] > 3)
        BY <2>4, <3>2
      <4>2. PlacesIn(w) = {<<w[1] + 1, w[2] - 1>>}
        BY <4>1 DEF PlacesIn
      <4>3. QED BY <4>2
    <3>3. QED BY <3>1, <3>2
  <2> HIDE DEF w
  <2>7. PICK p \in PlacesIn(w) : TRUE
    BY <2>6
  <2>8. p \in Places(s)
    <3> DEFINE X == {PlacesIn(v) : v \in Words(s)}
    <3>1. PlacesIn(w) \in X
      BY <2>5
    <3>2. Places(s) = UNION X
      BY DEF Places
    <3> HIDE DEF X
    <3>3. QED BY <3>1, <3>2
  <2>9. QED BY <2>8
<1>8. ASSUME NEW p \in Places(s) PROVE At(s, p) \in Seq(Nat)
  <2>1. p[1] \in 1..(Len(s) + 1) /\ p[2] \in 0..Len(s)
    BY <1>5
  <2>2. p[1] \in Int /\ p[2] \in Int /\ \A i \in p[1]..p[2] : i \in 1..Len(s)
    BY <1>1, <2>1
  <2> DEFINE a == p[1]
             b == p[2]
  <2>3. a \in Int /\ b \in Int /\ \A i \in a..b : s[i] \in Nat
    BY <1>1, <2>2
  <2> HIDE DEF a, b
  <2>4. SubSeq(s, a, b) \in Seq(Nat)
    BY <2>3, SubSeqProperties
  <2>5. QED BY <2>4 DEF At, a, b
<1>9. QED BY <1>6, <1>7, <1>8

\* The triplets of a text and how often each occurs.
LEMMA TripletsAre ==
    ASSUME NEW x \in Seq(Nat)
    PROVE  /\ IsFiniteSet(TripletsOf(x)) /\ TripletsOf(x) # {}
           /\ TripletsOf(x) \subseteq Seq(Nat)
           /\ TripletsCount(x) \in Nat \ {0}
           /\ \A t : OccurrenceCount(x, t) \in Nat
           /\ \A f : (\A t \in TripletsOf(x) : f[t] = OccurrenceCount(x, t))
                        => Total(f, TripletsOf(x)) = TripletsCount(x)
<1> DEFINE s == Normal(x)
           P == Places(s)
           b == [p \in P |-> At(s, p)]
<1>1. IsFiniteSet(P) /\ P # {} /\ \A p \in P : At(s, p) \in Seq(Nat)
  BY NormalIs, PlacesAre
<1>2. TripletsOf(x) = Image(b, P)
  BY DEF TripletsOf, Image
<1>3. ASSUME NEW t
      PROVE  /\ OccurrenceCount(x, t) = Cardinality({p \in P : b[p] = t})
             /\ OccurrenceCount(x, t) \in Nat
  <2> DEFINE Q == {p \in P : b[p] = t}
  <2>1. Q = {p \in P : At(s, p) = t}
    OBVIOUS
  <2>2. OccurrenceCount(x, t) = Cardinality(Q)
    BY <2>1 DEF OccurrenceCount
  <2>3. Q \in SUBSET P
    OBVIOUS
  <2> HIDE DEF Q, P
  <2>4. Cardinality(Q) \in Nat
    BY <1>1, <2>3, FS_Subset, FS_CardinalityType
  <2>5. QED BY <2>2, <2>4 DEF Q
<1>4. TripletsOf(x) # {} /\ TripletsOf(x) \subseteq Seq(Nat)
  BY <1>1, <1>2 DEF Image
<1>5. TripletsCount(x) = Cardinality(P)
  BY DEF TripletsCount
<1> HIDE DEF b, P, s
<1>6. IsFiniteSet(TripletsOf(x))
  BY <1>1, <1>2, ImageIs
<1>7. TripletsCount(x) \in Nat \ {0}
  BY <1>1, <1>5, FS_CardinalityType, FS_EmptySet
<1>8. ASSUME NEW f, \A t \in TripletsOf(x) : f[t] = OccurrenceCount(x, t)
      PROVE  Total(f, TripletsOf(x)) = TripletsCount(x)
  <2>1. \A t \in Image(b, P) : f[t] = Cardinality({p \in P : b[p] = t})
    BY <1>2, <1>3, <1>8
  <2>2. Total(f, Image(b, P)) = Cardinality(P)
    BY <1>1, <2>1, TotalPartition
  <2>3. QED BY <1>2, <1>5, <2>2
<1>9. QED BY <1>3, <1>4, <1>6, <1>7, <1>8

-----------------------------------------------------------------------------
(* The score of a record.                                                  *)

\* What an entry holds.
LEMMA EntrySetIs ==
    ASSUME NEW e \in EntrySet
    PROVE  e.id \in Ids /\ e.total \in Nat \ {0} /\ e.count \in Nat
<1>1. PICK id \in Ids, x \in Texts, t \in Triplets : e = Entry(id, x, t)
  BY DEF EntrySet
<1>2. x \in Seq(Nat)
  BY TripletIndexAssumption
<1>3. TripletsCount(x) \in Nat \ {0} /\ OccurrenceCount(x, t) \in Nat
  BY <1>2, TripletsAre
<1>4. QED BY <1>1, <1>3 DEF Entry

\* The duplicates that the triplets of q lead to.
AllHits(s, q) ==
    UNION {{<<t, n>> : n \in DOMAIN s.entries[t]} : t \in TripletsOf(q) \cap Triplets}

\* They are finitely many.
LEMMA AllHitsAre ==
    ASSUME NEW s \in Store, NEW q \in Seq(Nat)
    PROVE  /\ IsFiniteSet(AllHits(s, q))
           /\ \A t \in TripletsOf(q) \cap Triplets : \A n \in DOMAIN s.entries[t] :
                 <<t, n>> \in AllHits(s, q)
<1> DEFINE ts == TripletsOf(q) \cap Triplets
           of(t) == {<<t, n>> : n \in DOMAIN s.entries[t]}
           b == [t \in ts |-> of(t)]
           X == {of(t) : t \in ts}
<1>1. X = Image(b, ts) /\ AllHits(s, q) = UNION X
  BY DEF Image, AllHits
<1>2. IsFiniteSet(ts)
  BY TripletsAre, FS_Intersection
<1>3. ASSUME NEW t \in ts PROVE IsFiniteSet(of(t))
  <2> DEFINE d == DOMAIN s.entries[t]
             g == [n \in d |-> <<t, n>>]
  <2>1. s.entries[t] \in Seq(EntrySet)
    BY DEF Store, Entries
  <2>2. Len(s.entries[t]) \in Nat /\ d = 1..Len(s.entries[t])
    BY <2>1, LenProperties
  <2>3. IsFiniteSet(d)
    BY <2>2, FS_Interval
  <2>4. of(t) = Image(g, d)
    BY DEF Image
  <2> HIDE DEF g, d, of
  <2>5. QED BY <2>3, <2>4, ImageIs
<1>4. \A t \in ts : \A n \in DOMAIN s.entries[t] : <<t, n>> \in UNION X
  <2> TAKE t \in ts
  <2> TAKE n \in DOMAIN s.entries[t]
  <2>1. of(t) \in X /\ <<t, n>> \in of(t)
    OBVIOUS
  <2> HIDE DEF X, of
  <2>2. QED BY <2>1
<1>5. IsFiniteSet(X) /\ \A S \in X : IsFiniteSet(S)
  <2>1. \A S \in X : IsFiniteSet(S)
    <3> HIDE DEF of
    <3> QED BY <1>3
  <2> HIDE DEF b, ts, X
  <2>2. QED BY <1>1, <1>2, <2>1, ImageIs
<1>6. IsFiniteSet(UNION X)
  <2> HIDE DEF X
  <2> QED BY <1>5, FS_UNION
<1> HIDE DEF X
<1>7. QED BY <1>1, <1>4, <1>6

\* The duplicates of one record are among them.
LEMMA HitsAre ==
    ASSUME NEW s \in Store, NEW q \in Seq(Nat), NEW id
    PROVE  /\ IsFiniteSet(Hits(s, q, id))
           /\ \A t, n : <<t, n>> \in Hits(s, q, id) <=>
                 /\ t \in TripletsOf(q) /\ t \in Triplets
                 /\ n \in DOMAIN s.entries[t] /\ s.entries[t][n].id = id
           /\ \A h \in Hits(s, q, id) :
                 /\ h = <<h[1], h[2]>>
                 /\ h[1] \in Seq(Nat) /\ h[2] \in Nat
                 /\ s.entries[h[1]][h[2]] \in EntrySet
<1> DEFINE ts == TripletsOf(q) \cap Triplets
           at(t) == {k \in DOMAIN s.entries[t] : s.entries[t][k].id = id}
           of(t) == {<<t, n>> : n \in at(t)}
           X == {of(t) : t \in ts}
<1>1. Hits(s, q, id) = UNION X
  BY DEF Hits
<1>2. \A t \in Triplets : /\ s.entries[t] \in Seq(EntrySet) /\ Len(s.entries[t]) \in Nat
                          /\ DOMAIN s.entries[t] = 1..Len(s.entries[t])
                          /\ \A n \in DOMAIN s.entries[t] : s.entries[t][n] \in EntrySet
  <2> TAKE t \in Triplets
  <2>1. s.entries[t] \in Seq(EntrySet)
    BY DEF Store, Entries
  <2>2. QED BY <2>1, LenProperties
<1>3. IsFiniteSet(ts) /\ ts \subseteq Seq(Nat)
  BY TripletsAre, FS_Intersection
<1>4. \A t, n : <<t, n>> \in UNION X <=> t \in ts /\ n \in at(t)
  <2> TAKE t, n
  <2>1. ASSUME <<t, n>> \in UNION X PROVE t \in ts /\ n \in at(t)
    <3>1. PICK S \in X : <<t, n>> \in S
      <4> HIDE DEF X
      <4> QED BY <2>1
    <3>2. PICK u \in ts : <<t, n>> \in of(u)
      BY <3>1
    <3>3. QED BY <3>2
  <2>2. ASSUME t \in ts, n \in at(t) PROVE <<t, n>> \in UNION X
    <3>1. of(t) \in X /\ <<t, n>> \in of(t)
      BY <2>2
    <3> HIDE DEF X, of
    <3>2. QED BY <3>1
  <2>3. QED BY <2>1, <2>2
<1>5. ASSUME NEW h \in UNION X PROVE \E t, n : h = <<t, n>>
  <2>1. PICK S \in X : h \in S
    <3> HIDE DEF X
    <3> QED OBVIOUS
  <2>2. PICK t \in ts : h \in of(t)
    BY <2>1
  <2>3. QED BY <2>2
<1>6. IsFiniteSet(UNION X)
  <2>1. ASSUME NEW h \in UNION X PROVE h \in AllHits(s, q)
    <3>1. PICK t, n : h = <<t, n>>
      BY <1>5
    <3> HIDE DEF X, ts, at
    <3>2. t \in ts /\ n \in at(t)
      BY <1>4, <3>1
    <3>3. QED BY <3>1, <3>2, AllHitsAre DEF ts, at
  <2> HIDE DEF X
  <2>2. QED BY <2>1, AllHitsAre, FS_Subset
<1>7. ASSUME NEW h \in UNION X
      PROVE  /\ h = <<h[1], h[2]>> /\ h[1] \in Seq(Nat) /\ h[2] \in Nat
             /\ s.entries[h[1]][h[2]] \in EntrySet
  <2>1. PICK t, n : h = <<t, n>>
    BY <1>5
  <2> HIDE DEF X, ts, at
  <2>2. t \in ts /\ n \in at(t)
    BY <1>4, <2>1
  <2>3. h[1] = t /\ h[2] = n
    BY <2>1
  <2>4. t \in Triplets /\ n \in DOMAIN s.entries[t]
    BY <2>2 DEF ts, at
  <2>5. n \in Nat /\ s.entries[t][n] \in EntrySet
    BY <1>2, <2>4
  <2>6. QED BY <1>3, <2>1, <2>2, <2>3, <2>5
<1> HIDE DEF X
<1>8. QED BY <1>1, <1>4, <1>6, <1>7

\* The lesser of two naturals.
LEMMA LesserIs ==
    ASSUME NEW m \in Nat, NEW n \in Nat
    PROVE  Lesser(m, n) \in Nat /\ Lesser(m, n) = Lesser(n, m) /\ Lesser(m, m) = m
BY DEF Lesser

\* What a hit adds to the count of its record.
Shares(s, q, id) ==
    [h \in Hits(s, q, id) |-> Lesser(s.entries[h[1]][h[2]].count, OccurrenceCount(q, h[1]))]

\* The count of matches is the sum over the hits, in whatever order it is done.
LEMMA MatchCountIs ==
    ASSUME NEW s \in Store, NEW q \in Seq(Nat), NEW id
    PROVE  /\ \A h \in Hits(s, q, id) : Shares(s, q, id)[h] \in Nat
           /\ MatchCount(s, q, id) = Total(Shares(s, q, id), Hits(s, q, id))
           /\ MatchCount(s, q, id) \in Nat
<1> DEFINE H == Hits(s, q, id)
           f == Shares(s, q, id)
           Sum(g) == g = [S \in SUBSET H |->
                            IF S = {} THEN 0
                            ELSE Lesser(s.entries[One(S)[1]][One(S)[2]].count,
                                        OccurrenceCount(q, One(S)[1])) + g[S \ {One(S)}]]
<1>1. IsFiniteSet(H) /\ \A h \in H : f[h] \in Nat
  <2>1. ASSUME NEW h \in H PROVE f[h] \in Nat
    <3>1. s.entries[h[1]][h[2]].count \in Nat
      BY HitsAre, EntrySetIs
    <3>2. OccurrenceCount(q, h[1]) \in Nat
      BY TripletsAre
    <3>3. QED BY <3>1, <3>2, LesserIs DEF Shares
  <2>2. QED BY <2>1, HitsAre
<1>2. ASSUME NEW g PROVE Sum(g) <=> Sums(g, f, H)
  <2>1. ASSUME NEW S \in SUBSET H
        PROVE  (IF S = {} THEN 0
                ELSE Lesser(s.entries[One(S)[1]][One(S)[2]].count,
                            OccurrenceCount(q, One(S)[1])) + g[S \ {One(S)}])
               = IF S = {} THEN 0 ELSE f[One(S)] + g[S \ {One(S)}]
    <3>1. S # {} => One(S) \in H
      BY DEF One
    <3>2. S # {} => f[One(S)] = Lesser(s.entries[One(S)[1]][One(S)[2]].count,
                                       OccurrenceCount(q, One(S)[1]))
      BY <3>1 DEF Shares
    <3>3. QED BY <3>2
  <2>2. QED BY <2>1 DEF Sums
<1>3. MatchCount(s, q, id) = (CHOOSE g : Sum(g))[H]
  BY Zenon DEF MatchCount, MapThenSumSet, MapThenFoldSet, One
<1>4. \E g : Sum(g)
  <2> HIDE DEF Sum, H, f
  <2>1. Sums([S \in SUBSET H |-> Total(f, S)], f, H)
    BY <1>1, SumsExist
  <2>2. QED BY <1>2, <2>1
<1>5. PICK g : Sum(g) /\ MatchCount(s, q, id) = g[H]
  <2> HIDE DEF Sum
  <2> QED BY <1>3, <1>4
<1> HIDE DEF Sum, H, f
<1>6. g[H] = Total(f, H)
  BY <1>1, <1>2, <1>5, SumsUnique
<1>7. Total(f, H) \in Nat
  BY <1>1, TotalIs
<1>8. QED BY <1>1, <1>5, <1>6, <1>7 DEF H, f

\* There is a last hit.
LEMMA LastHitIs ==
    ASSUME NEW s \in Store, NEW q \in Seq(Nat), NEW id, Hits(s, q, id) # {}
    PROVE  LastHit(s, q, id) \in Hits(s, q, id)
<1> DEFINE H == Hits(s, q, id)
           Before(g, h) == Less(g[1], h[1]) \/ (g[1] = h[1] /\ g[2] <= h[2])
           R == {p \in H \X H : Before(p[1], p[2])}
<1>1. /\ IsFiniteSet(H)
      /\ \A h \in H : h[1] \in Seq(Nat) /\ h[2] \in Nat
  BY HitsAre
<1>2. \A g, h \in H : <<g, h>> \in R <=> Before(g, h)
  OBVIOUS
<1> HIDE DEF H
<1>3. \A g, h \in H : Before(g, h) \/ Before(h, g)
  <2> TAKE g, h \in H
  <2>1. CASE g[1] = h[1]
    BY <1>1, <2>1
  <2>2. CASE g[1] # h[1]
    BY <1>1, <2>2, LessTotal
  <2>3. QED BY <2>1, <2>2
<1>4. \A f, g, h \in H : Before(f, g) /\ Before(g, h) => Before(f, h)
  <2> TAKE f, g, h \in H
  <2>1. /\ f[1] \in Seq(Nat) /\ g[1] \in Seq(Nat) /\ h[1] \in Seq(Nat)
        /\ f[2] \in Nat /\ g[2] \in Nat /\ h[2] \in Nat
    BY <1>1
  <2>2. ASSUME Less(f[1], g[1]), Less(g[1], h[1]) PROVE Before(f, h)
    BY <2>1, <2>2, LessTransitive
  <2>3. QED BY <2>1, <2>2
<1>5. \E h \in H : \A g \in H : <<g, h>> \in R
  <2> HIDE DEF R, Before
  <2>1. /\ \A g, h \in H : <<g, h>> \in R \/ <<h, g>> \in R
        /\ \A f, g, h \in H : <<f, g>> \in R /\ <<g, h>> \in R => <<f, h>> \in R
    BY <1>2, <1>3, <1>4
  <2>2. H # {}
    BY DEF H
  <2>3. QED BY <1>1, <2>1, <2>2, LastExists
<1>6. \E h \in H : \A g \in H : Before(g, h)
  <2> HIDE DEF R, Before
  <2> QED BY <1>2, <1>5
<1>7. LastHit(s, q, id) = CHOOSE h \in H : \A g \in H : Before(g, h)
  BY DEF LastHit, H
<1> HIDE DEF Before
<1>8. QED BY <1>6, <1>7 DEF H

\* A score is a number.
LEMMA ScoreIs ==
    ASSUME NEW s \in Store, NEW q \in Seq(Nat), NEW id, Hits(s, q, id) # {}
    PROVE  Score(s, q, id) \in Int
<1> DEFINE h == LastHit(s, q, id)
           m == MatchCount(s, q, id)
           c == TripletsCount(q)
           d == s.entries[h[1]][h[2]].total
<1>1. h \in Hits(s, q, id)
  BY LastHitIs
<1>2. d \in Nat \ {0}
  BY <1>1, HitsAre, EntrySetIs
<1>3. m \in Nat /\ c \in Nat \ {0}
  BY MatchCountIs, TripletsAre
<1>4. Score(s, q, id) = (100 * m * m) \div (c * d)
  BY DEF Score
<1> HIDE DEF h, m, c, d
<1> DEFINE u == m * m
           v == c * d
<1>5. 100 * m * m = 100 * u /\ u \in Nat
  BY <1>3
<1>6. v \in Nat /\ v > 0
  BY <1>2, <1>3
<1> HIDE DEF u, v
<1>7. (100 * u) \div v \in Int
  BY <1>5, <1>6
<1>8. QED BY <1>4, <1>5, <1>7 DEF v

\* A record whose triplets are those of one load leads to one duplicate under
\* each triplet it has in common with a text.
LEMMA CleanHits ==
    ASSUME NEW s \in Store, Complete(s), NEW id \in Ids, Clean(s, id), NEW q \in Seq(Nat)
    PROVE  LET x == s.data[id].text
               common == TripletsOf(q) \cap TripletsOf(x)
           IN  /\ x \in Texts /\ x \in Seq(Nat)
               /\ \A h \in Hits(s, q, id) : /\ h[1] \in common
                                            /\ s.entries[h[1]][h[2]] = Entry(id, x, h[1])
               /\ \A g, h \in Hits(s, q, id) : g[1] = h[1] => g = h
               /\ \A t \in common : \E h \in Hits(s, q, id) : h[1] = t
<1> DEFINE x == s.data[id].text
           common == TripletsOf(q) \cap TripletsOf(x)
           at(t) == {n \in DOMAIN s.entries[t] : s.entries[t][n].id = id}
<1>1. /\ s.data[id] # NoRow /\ s.data[id].indexed
      /\ \A t \in Triplets : Cardinality(at(t)) = IF t \in TripletsOf(x) THEN 1 ELSE 0
  BY DEF Clean
<1>2. x \in Texts /\ x \in Seq(Nat) /\ TripletsOf(x) \subseteq Triplets
  <2>1. s.data[id] \in Row
    BY <1>1 DEF Store
  <2>2. x \in Texts
    BY <2>1 DEF Row
  <2>3. QED BY <2>2, TripletIndexAssumption, TextTripletsIn
<1>3. \A t \in TripletsOf(x) : \E n \in DOMAIN s.entries[t] : s.entries[t][n] = Entry(id, x, t)
  BY <1>1 DEF Complete
<1>4. ASSUME NEW t \in Triplets PROVE IsFiniteSet(at(t))
  <2> DEFINE d == DOMAIN s.entries[t]
  <2>1. s.entries[t] \in Seq(EntrySet)
    BY DEF Store, Entries
  <2>2. Len(s.entries[t]) \in Nat /\ d = 1..Len(s.entries[t])
    BY <2>1, LenProperties
  <2>3. IsFiniteSet(d)
    BY <2>2, FS_Interval
  <2>4. at(t) \in SUBSET d
    OBVIOUS
  <2> HIDE DEF d, at
  <2>5. QED BY <2>3, <2>4, FS_Subset
<1> HIDE DEF x
<1>5. ASSUME NEW t \in Triplets, NEW n \in at(t)
      PROVE  /\ t \in TripletsOf(x) /\ s.entries[t][n] = Entry(id, x, t)
             /\ \A k \in at(t) : k = n
  <2>1. t \in TripletsOf(x)
    <3> HIDE DEF at
    <3>1. at(t) # {} => Cardinality(at(t)) # 0
      BY <1>4, FS_EmptySet
    <3>2. QED BY <1>1, <3>1
  <2>2. PICK k \in DOMAIN s.entries[t] : s.entries[t][k] = Entry(id, x, t)
    BY <1>3, <2>1
  <2>3. k \in at(t)
    BY <2>2 DEF Entry
  <2>4. \E z : at(t) = {z}
    <3> HIDE DEF at
    <3>1. IsFiniteSet(at(t)) /\ Cardinality(at(t)) = 1
      BY <1>1, <1>4, <2>1
    <3>2. QED BY <3>1, FS_Singleton
  <2> HIDE DEF at
  <2>5. k = n /\ \A j \in at(t) : j = n
    BY <2>3, <2>4
  <2>6. QED BY <2>1, <2>2, <2>5
<1>6. ASSUME NEW h \in Hits(s, q, id)
      PROVE  h = <<h[1], h[2]>> /\ h[1] \in TripletsOf(q) /\ h[1] \in Triplets /\ h[2] \in at(h[1])
  <2>1. h = <<h[1], h[2]>>
    BY HitsAre
  <2> DEFINE t == h[1]
             n == h[2]
  <2>2. <<t, n>> \in Hits(s, q, id)
    BY <2>1
  <2> HIDE DEF t, n
  <2>3. t \in TripletsOf(q) /\ t \in Triplets /\ n \in at(t)
    BY <2>2, HitsAre
  <2>4. QED BY <2>1, <2>3 DEF t, n
<1>7. \A h \in Hits(s, q, id) : h[1] \in common /\ s.entries[h[1]][h[2]] = Entry(id, x, h[1])
  <2> HIDE DEF at
  <2> QED BY <1>5, <1>6
<1>8. \A g, h \in Hits(s, q, id) : g[1] = h[1] => g = h
  <2> TAKE g, h \in Hits(s, q, id)
  <2> HAVE g[1] = h[1]
  <2> HIDE DEF at
  <2>1. g = <<g[1], g[2]>> /\ h = <<h[1], h[2]>> /\ h[1] \in Triplets
        /\ g[2] \in at(h[1]) /\ h[2] \in at(h[1])
    BY <1>6
  <2>2. g[2] = h[2]
    BY <1>5, <2>1
  <2>3. QED BY <2>1, <2>2
<1>9. ASSUME NEW t \in common PROVE \E h \in Hits(s, q, id) : h[1] = t
  <2>1. t \in TripletsOf(x) /\ t \in TripletsOf(q) /\ t \in Triplets
    BY <1>2
  <2>2. PICK n \in DOMAIN s.entries[t] : s.entries[t][n] = Entry(id, x, t)
    BY <1>3, <2>1
  <2>3. s.entries[t][n].id = id
    BY <2>2 DEF Entry
  <2>4. <<t, n>> \in Hits(s, q, id)
    BY <2>1, <2>2, <2>3, HitsAre
  <2>5. QED BY <2>4
<1> HIDE DEF at, common
<1>10. QED BY <1>2, <1>7, <1>8, <1>9 DEF x, common

\* The numbers that Likeness adds up.
Alike(q, x) == [t \in TripletsOf(q) \cap TripletsOf(x) |->
                   Lesser(OccurrenceCount(q, t), OccurrenceCount(x, t))]

\* The likeness of two texts is computed from their sum.
LEMMA LikenessIs ==
    ASSUME NEW q \in Seq(Nat), NEW x \in Seq(Nat)
    PROVE  LET common == TripletsOf(q) \cap TripletsOf(x)
               m == Total(Alike(q, x), common)
           IN  /\ IsFiniteSet(common) /\ \A t \in common : Alike(q, x)[t] \in Nat
               /\ m \in Nat
               /\ Likeness(q, x) = (100 * m * m) \div (TripletsCount(q) * TripletsCount(x))
<1> DEFINE H == TripletsOf(q) \cap TripletsOf(x)
           f == Alike(q, x)
           Sum(g) == g = [S \in SUBSET H |->
                            IF S = {} THEN 0
                            ELSE Lesser(OccurrenceCount(q, One(S)), OccurrenceCount(x, One(S)))
                                 + g[S \ {One(S)}]]
           sum == MapThenSumSet(LAMBDA t : Lesser(OccurrenceCount(q, t), OccurrenceCount(x, t)), H)
<1>1. IsFiniteSet(H) /\ \A t \in H : f[t] \in Nat
  <2>1. ASSUME NEW t \in H PROVE f[t] \in Nat
    <3>1. OccurrenceCount(q, t) \in Nat /\ OccurrenceCount(x, t) \in Nat
      BY TripletsAre
    <3>2. QED BY <3>1, LesserIs DEF Alike
  <2>2. IsFiniteSet(H)
    BY TripletsAre, FS_Intersection
  <2>3. QED BY <2>1, <2>2
<1>2. ASSUME NEW g PROVE Sum(g) <=> Sums(g, f, H)
  <2>1. ASSUME NEW S \in SUBSET H
        PROVE  (IF S = {} THEN 0
                ELSE Lesser(OccurrenceCount(q, One(S)), OccurrenceCount(x, One(S)))
                     + g[S \ {One(S)}])
               = IF S = {} THEN 0 ELSE f[One(S)] + g[S \ {One(S)}]
    <3>1. S # {} => One(S) \in H
      BY DEF One
    <3>2. S # {} => f[One(S)] = Lesser(OccurrenceCount(q, One(S)), OccurrenceCount(x, One(S)))
      BY <3>1 DEF Alike
    <3>3. QED BY <3>2
  <2>2. QED BY <2>1 DEF Sums
<1>3. sum = (CHOOSE g : Sum(g))[H]
  BY Zenon DEF MapThenSumSet, MapThenFoldSet, One
<1>4. \E g : Sum(g)
  <2> HIDE DEF Sum, H, f
  <2>1. Sums([S \in SUBSET H |-> Total(f, S)], f, H)
    BY <1>1, SumsExist
  <2>2. QED BY <1>2, <2>1
<1>5. PICK g : Sum(g) /\ sum = g[H]
  <2> HIDE DEF Sum
  <2> QED BY <1>3, <1>4
<1>6. Likeness(q, x) = (100 * sum * sum) \div (TripletsCount(q) * TripletsCount(x))
  BY DEF Likeness
<1> HIDE DEF Sum, H, f, sum
<1>7. g[H] = Total(f, H)
  BY <1>1, <1>2, <1>5, SumsUnique
<1>8. Total(f, H) \in Nat
  BY <1>1, TotalIs
<1>9. QED BY <1>1, <1>5, <1>6, <1>7, <1>8 DEF H, f

\* The two numbers of an entry.
LEMMA EntryIs ==
    ASSUME NEW id, NEW x, NEW t
    PROVE  /\ Entry(id, x, t).total = TripletsCount(x)
           /\ Entry(id, x, t).count = OccurrenceCount(x, t)
BY DEF Entry

\* The score of such a record is the likeness of its name: hits and common
\* triplets are the same in number and count.
LEMMA CleanScore ==
    ASSUME NEW s \in Store, Complete(s), NEW id \in Ids, Clean(s, id), NEW q \in Seq(Nat)
    PROVE  LET x == s.data[id].text
           IN  /\ id \in Scored(s, q) <=> TripletsOf(q) \cap TripletsOf(x) # {}
               /\ id \in Scored(s, q) => Score(s, q, id) = Likeness(q, x)
<1> DEFINE x == s.data[id].text
           common == TripletsOf(q) \cap TripletsOf(x)
           H == Hits(s, q, id)
<1>1. /\ x \in Texts /\ x \in Seq(Nat)
      /\ \A h \in H : h[1] \in common /\ s.entries[h[1]][h[2]] = Entry(id, x, h[1])
      /\ \A g, h \in H : g[1] = h[1] => g = h
      /\ \A t \in common : \E h \in H : h[1] = t
  BY CleanHits
<1> HIDE DEF x, H, common
<1>2. id \in Scored(s, q) <=> H # {}
  BY DEF Scored, H
<1>3. H # {} <=> common # {}
  BY <1>1
<1>4. ASSUME H # {} PROVE Score(s, q, id) = Likeness(q, x)
  <2> DEFINE f == Shares(s, q, id)
             g == Alike(q, x)
             b == [h \in H |-> h[1]]
  <2>1. MatchCount(s, q, id) = Total(f, H) /\ IsFiniteSet(H) /\ \A h \in H : f[h] \in Nat
    BY MatchCountIs, HitsAre DEF H
  <2>2. ASSUME NEW h \in H PROVE b[h] \in common /\ g[b[h]] = f[h]
    <3>1. h[1] \in common /\ s.entries[h[1]][h[2]].count = OccurrenceCount(x, h[1])
      BY <1>1, EntryIs
    <3>2. f[h] = Lesser(OccurrenceCount(x, h[1]), OccurrenceCount(q, h[1]))
      BY <3>1 DEF Shares, H
    <3>3. g[h[1]] = Lesser(OccurrenceCount(q, h[1]), OccurrenceCount(x, h[1]))
      BY <3>1 DEF Alike, common
    <3>4. OccurrenceCount(x, h[1]) \in Nat /\ OccurrenceCount(q, h[1]) \in Nat
      BY <1>1, TripletsAre
    <3>5. QED BY <3>1, <3>2, <3>3, <3>4, LesserIs
  <2>3. \A u, v \in H : b[u] = b[v] => u = v
    BY <1>1
  <2>4. \A t \in common : \E h \in H : b[h] = t
    BY <1>1
  <2> HIDE DEF b, f, g
  <2>5. Total(f, H) = Total(g, common)
    BY <2>1, <2>2, <2>3, <2>4, TotalBijection
  <2> DEFINE h == LastHit(s, q, id)
             m == Total(g, common)
  <2>6. h \in H
    BY <1>4, LastHitIs DEF H
  <2>7. s.entries[h[1]][h[2]].total = TripletsCount(x)
    BY <1>1, <2>6, EntryIs
  <2>8. Score(s, q, id) = (100 * MatchCount(s, q, id) * MatchCount(s, q, id))
                             \div (TripletsCount(q) * s.entries[h[1]][h[2]].total)
    BY DEF Score
  <2>9. Likeness(q, x) = (100 * m * m) \div (TripletsCount(q) * TripletsCount(x))
    BY <1>1, LikenessIs DEF g, common
  <2> HIDE DEF h, m
  <2>10. MatchCount(s, q, id) = m
    BY <2>1, <2>5 DEF m
  <2>11. QED BY <2>7, <2>8, <2>9, <2>10
<1>5. QED BY <1>2, <1>3, <1>4 DEF x, common

-----------------------------------------------------------------------------
(* The answers.                                                            *)

\* What CleanScore says of the files.
LEMMA IInvScoresExact == IInv => ScoresExact
<1> SUFFICES ASSUME IInv, NEW id \in Ids, Clean(disk, id), NEW q \in Queries
             PROVE  LET x == disk.data[id].text IN
                    /\ id \in Scored(disk, q) <=> TripletsOf(q) \cap TripletsOf(x) # {}
                    /\ id \in Scored(disk, q) => Score(disk, q, id) = Likeness(q, x)
  BY DEF ScoresExact
<1>1. disk \in Store /\ Complete(disk) /\ q \in Seq(Nat)
  BY TripletIndexAssumption DEF IInv, TypeOK
<1>2. QED BY <1>1, CleanScore

\* Texts that are spelled alike have the same normal form.
LEMMA SpelledAlikeIs ==
    ASSUME NEW q \in Seq(Nat), NEW x \in Seq(Nat), SpelledAlike(q, x)
    PROVE  Normal(q) = Normal(x)
<1> DEFINE f == Filtered(q)
           g == Filtered(x)
           letters == {c \in Alnum : c >= 65}
<1>1. /\ f \in Seq(Nat) /\ Len(f) \in Nat
      /\ DOMAIN f = 1..Len(f) /\ \A n \in 1..Len(f) : f[n] \in Nat
      /\ g \in Seq(Nat) /\ Len(g) \in Nat
      /\ DOMAIN g = 1..Len(g) /\ \A n \in 1..Len(g) : g[n] \in Nat
  BY FilteredIs, LenProperties
<1>2. /\ Len(f) = Len(g)
      /\ \A n \in DOMAIN f : \/ f[n] = g[n]
                             \/ f[n] \in letters /\ g[n] \in letters
                                /\ f[n] - g[n] \in {-32, 32}
  BY DEF SpelledAlike
<1>3. ASSUME NEW a \in letters, NEW b \in letters, a - b \in {-32, 32}
      PROVE  LowerChar(a) = LowerChar(b)
  <2>1. /\ a \in Nat /\ b \in Nat /\ (a = b + 32 \/ b = a + 32)
        /\ a \in 65..90 \/ a \in 97..122
        /\ b \in 65..90 \/ b \in 97..122
    BY <1>3 DEF Alnum, Upper
  <2>2. QED BY <2>1 DEF LowerChar, Upper
<1> HIDE DEF letters
<1>4. \A n \in DOMAIN f : LowerChar(f[n]) = LowerChar(g[n])
  BY <1>2, <1>3
<1>5. DOMAIN f = DOMAIN g
  BY <1>1, <1>2
<1>6. /\ Normal(q) = [n \in DOMAIN f |-> LowerChar(f[n])]
      /\ Normal(x) = [n \in DOMAIN g |-> LowerChar(g[n])]
  BY DEF Normal
<1> HIDE DEF f, g
<1>7. QED BY <1>4, <1>5, <1>6

\* Every text is like itself with 100 percent.
LEMMA LikeItself ==
    ASSUME NEW q \in Seq(Nat), NEW x \in Seq(Nat), Normal(q) = Normal(x)
    PROVE  TripletsOf(q) \cap TripletsOf(x) # {} /\ Likeness(q, x) = 100
<1>1. /\ TripletsOf(q) = TripletsOf(x) /\ TripletsCount(q) = TripletsCount(x)
      /\ \A t : OccurrenceCount(q, t) = OccurrenceCount(x, t)
  BY DEF TripletsOf, TripletsCount, OccurrenceCount
<1> DEFINE f == Alike(q, x)
           T == TripletsOf(x)
           c == TripletsCount(x)
<1>2. \A t \in T : f[t] = OccurrenceCount(x, t)
  BY <1>1, TripletsAre, LesserIs DEF Alike
<1>3. /\ c \in Nat \ {0} /\ T # {}
      /\ \A h : (\A t \in T : h[t] = OccurrenceCount(x, t)) => Total(h, T) = c
  BY TripletsAre
<1>4. Total(f, T) = c
  <2> HIDE DEF f, T, c
  <2> QED BY <1>2, <1>3
<1>5. TripletsOf(q) \cap TripletsOf(x) = T
  BY <1>1
<1>6. Likeness(q, x) = (100 * c * c) \div (c * c)
  BY <1>1, <1>4, <1>5, LikenessIs
<1> HIDE DEF f, T, c
<1> DEFINE d == c * c
<1>7. d \in Nat /\ d > 0 /\ 100 * c * c = 100 * d
  BY <1>3
<1> HIDE DEF d
<1>8. (100 * d) \div d = 100
  BY <1>7
<1>9. QED BY <1>3, <1>5, <1>6, <1>7, <1>8 DEF d

\* A record has its name in common with a query spelled alike.
LEMMA IInvSpellingIgnored == IInv => SpellingIgnored
<1> SUFFICES ASSUME IInv, NEW id \in Ids, NEW q \in Queries, Clean(disk, id),
                    SpelledAlike(q, disk.data[id].text)
             PROVE  id \in Scored(disk, q) /\ Score(disk, q, id) = 100
  BY DEF SpellingIgnored
<1> DEFINE x == disk.data[id].text
<1>1. disk \in Store /\ Complete(disk) /\ q \in Seq(Nat)
  BY TripletIndexAssumption DEF IInv, TypeOK
<1>2. x \in Seq(Nat)
  BY <1>1, CleanHits
<1>3. Normal(q) = Normal(x)
  BY <1>1, <1>2, SpelledAlikeIs
<1> HIDE DEF x
<1>4. TripletsOf(q) \cap TripletsOf(x) # {} /\ Likeness(q, x) = 100
  BY <1>1, <1>2, <1>3, LikeItself
<1>5. QED BY <1>1, <1>4, CleanScore DEF x

\* The scores of the records that a text leads to.
ScoreSet(s, q) == {e[2] : e \in IdScores(s, q)}

\* They are finitely many, and each has a record.
LEMMA ScoresAre ==
    ASSUME NEW s \in Store, NEW q \in Seq(Nat)
    PROVE  /\ ScoreSet(s, q) \in SUBSET Int /\ IsFiniteSet(ScoreSet(s, q))
           /\ \A id \in Scored(s, q) : Score(s, q, id) \in ScoreSet(s, q)
           /\ \A v \in ScoreSet(s, q) : Winner(IdScores(s, q), v) \in Scored(s, q)
<1> DEFINE A == AllHits(s, q)
           g == [h \in A |-> s.entries[h[1]][h[2]].id]
           D == Scored(s, q)
           E == IdScores(s, q)
<1>1. IsFiniteSet(D)
  <2>1. ASSUME NEW id \in D PROVE id \in Image(g, A)
    <3>1. PICK h \in Hits(s, q, id) : TRUE
      BY DEF Scored
    <3> DEFINE t == h[1]
               n == h[2]
    <3>2. <<t, n>> \in Hits(s, q, id)
      BY HitsAre
    <3> HIDE DEF t, n
    <3>3. /\ t \in TripletsOf(q) /\ t \in Triplets
          /\ n \in DOMAIN s.entries[t] /\ s.entries[t][n].id = id
      BY <3>2, HitsAre
    <3>4. <<t, n>> \in A
      BY <3>3, AllHitsAre
    <3>5. g[<<t, n>>] = id
      BY <3>3, <3>4
    <3> HIDE DEF g, A
    <3>6. QED BY <3>4, <3>5 DEF Image
  <2>2. IsFiniteSet(Image(g, A))
    <3>1. IsFiniteSet(A)
      BY AllHitsAre
    <3> HIDE DEF g, A
    <3>2. QED BY <3>1, ImageIs
  <2> HIDE DEF D, g, A
  <2>3. QED BY <2>1, <2>2, FS_Subset
<1>2. \A id \in D : Score(s, q, id) \in Int
  BY ScoreIs DEF Scored
<1>3. \A e : e \in E <=> \E id \in D : e = <<id, Score(s, q, id)>>
  BY DEF IdScores
<1>4. \A v : v \in ScoreSet(s, q) <=> \E id \in D : v = Score(s, q, id)
  <2>1. \A v : v \in ScoreSet(s, q) <=> \E e \in E : v = e[2]
    BY DEF ScoreSet
  <2> HIDE DEF D, E
  <2>2. ASSUME NEW e \in E PROVE \E id \in D : e[2] = Score(s, q, id)
    <3>1. PICK id \in D : e = <<id, Score(s, q, id)>>
      BY <1>3
    <3>2. QED BY <3>1
  <2>3. ASSUME NEW id \in D PROVE \E e \in E : e[2] = Score(s, q, id)
    <3>1. <<id, Score(s, q, id)>> \in E
      BY <1>3
    <3>2. QED BY <3>1
  <2>4. QED BY <2>1, <2>2, <2>3
<1>5. IsFiniteSet(ScoreSet(s, q))
  <2> DEFINE f == [id \in D |-> Score(s, q, id)]
  <2>1. ScoreSet(s, q) = Image(f, D)
    BY <1>4 DEF Image
  <2> HIDE DEF f, D
  <2>2. QED BY <1>1, <2>1, ImageIs
<1>6. ASSUME NEW v \in ScoreSet(s, q) PROVE Winner(E, v) \in D
  <2> DEFINE W == {id \in Ids : <<id, v>> \in E}
  <2>1. W \in SUBSET D
    <3>1. ASSUME NEW id \in W PROVE id \in D
      <4>1. PICK i \in D : <<id, v>> = <<i, Score(s, q, i)>>
        BY <1>3
      <4> HIDE DEF D
      <4>2. QED BY <4>1
    <3>2. QED BY <3>1
  <2>2. W # {}
    <3>1. PICK id \in D : v = Score(s, q, id)
      BY <1>4
    <3>2. <<id, v>> \in E /\ id \in Ids
      BY <1>3, <3>1 DEF Scored
    <3> HIDE DEF E
    <3>3. QED BY <3>2
  <2>3. Winner(E, v) = Max(W)
    BY DEF Winner
  <2>4. W \in SUBSET Int
    <3>1. Ids \subseteq Int
      BY TripletIndexAssumption
    <3> HIDE DEF E
    <3>2. QED BY <3>1
  <2> HIDE DEF W, D, E
  <2>5. IsFiniteSet(W)
    BY <1>1, <2>1, FS_Subset
  <2>6. QED BY <2>1, <2>2, <2>3, <2>4, <2>5, MaxIs
<1> HIDE DEF D, E
<1>7. QED BY <1>2, <1>4, <1>5, <1>6 DEF D, E

\* The ranks go down from the highest score.
LEMMA RankedIs ==
    ASSUME NEW V \in SUBSET Int, IsFiniteSet(V)
    PROVE  /\ Cardinality(V) \in Nat /\ DOMAIN Ranked(V) = 1..Cardinality(V)
           /\ \A k \in 1..Cardinality(V) : Ranked(V)[k] \in V
           /\ \A j, k \in 1..Cardinality(V) : j < k => Ranked(V)[j] > Ranked(V)[k]
           /\ \A v \in V : \E k \in 1..Cardinality(V) : Ranked(V)[k] = v
<1> DEFINE c == Cardinality(V)
           r == Ranked(V)
<1>1. /\ c \in Nat
      /\ \A k \in 1..c : Nth(V, k) \in V
      /\ \A v \in V : Below(V, v) + 1 \in 1..c /\ Nth(V, Below(V, v) + 1) = v
      /\ \A j, k \in 1..c : j < k => Nth(V, j) < Nth(V, k)
  BY NthIs
<1>2. r = [k \in 1..c |-> Nth(V, (c + 1) - k)]
  <2>1. \A k \in 1..c : c + 1 - k = (c + 1) - k
    BY <1>1
  <2>2. r = [k \in 1..c |-> Nth(V, c + 1 - k)]
    BY DEF Ranked
  <2> HIDE DEF r, c
  <2>3. QED BY <2>1, <2>2
<1> HIDE DEF c, r
<1>3. \A k \in 1..c : (c + 1) - k \in 1..c /\ (c + 1) - ((c + 1) - k) = k
  BY <1>1
<1>4. \A k \in 1..c : r[k] = Nth(V, (c + 1) - k) /\ r[k] \in V
  BY <1>1, <1>2, <1>3
<1>5. ASSUME NEW j \in 1..c, NEW k \in 1..c, j < k PROVE r[j] > r[k]
  <2> DEFINE x == (c + 1) - k
             y == (c + 1) - j
  <2>1. x \in 1..c /\ y \in 1..c /\ x < y
    BY <1>1, <1>5
  <2>2. r[k] = Nth(V, x) /\ r[j] = Nth(V, y) /\ r[k] \in V /\ r[j] \in V
    BY <1>4
  <2> HIDE DEF x, y
  <2>3. Nth(V, x) < Nth(V, y)
    BY <1>1, <2>1
  <2>4. QED BY <2>2, <2>3
<1>6. ASSUME NEW v \in V PROVE \E k \in 1..c : r[k] = v
  <2> DEFINE n == Below(V, v) + 1
             k == (c + 1) - n
  <2>1. n \in 1..c /\ Nth(V, n) = v
    BY <1>1
  <2> HIDE DEF n
  <2>2. k \in 1..c /\ (c + 1) - k = n
    BY <1>3, <2>1
  <2>3. r[k] = v
    BY <1>4, <2>1, <2>2
  <2> HIDE DEF k
  <2>4. QED BY <2>2, <2>3
<1>7. QED BY <1>1, <1>2, <1>4, <1>5, <1>6 DEF c, r

\* What match_text answers, in terms of the ranks.
LEMMA MatchIs ==
    ASSUME NEW s \in Store, NEW q \in Seq(Nat), NEW minScore \in Int, NEW scoreCount \in Int
    PROVE  LET V == ScoreSet(s, q)
               r == Ranked(V)
               T == {k \in 1..Cardinality(V) : r[k] > minScore /\ k <= scoreCount}
               answer == Match(s, IdScores(s, q), minScore, scoreCount)
               a == answer.list
           IN  /\ T \in SUBSET Int /\ IsFiniteSet(T)
               /\ a = [n \in 1..Cardinality(T) |->
                          [id |-> Winner(IdScores(s, q), r[Nth(T, n)]), score |-> r[Nth(T, n)]]]
               /\ answer.ok \/ \E id \in Scored(s, q) : s.data[id] = NoRow
<1> DEFINE V == ScoreSet(s, q)
           r == Ranked(V)
           c == Cardinality(V)
           T == {k \in 1..c : r[k] > minScore /\ k <= scoreCount}
           top == Pick(r, T)
           a == [n \in DOMAIN top |-> [id |-> Winner(IdScores(s, q), top[n]), score |-> top[n]]]
<1>1. /\ V \in SUBSET Int /\ IsFiniteSet(V)
      /\ \A v \in V : Winner(IdScores(s, q), v) \in Scored(s, q)
  BY ScoresAre
<1>2. c \in Nat /\ DOMAIN r = 1..c /\ \A k \in 1..c : r[k] \in V
  <2> HIDE DEF V
  <2> QED BY <1>1, RankedIs
<1>3. T \in SUBSET Int /\ IsFiniteSet(T) /\ T \subseteq 1..c
  <2>1. T \in SUBSET (1..c) /\ IsFiniteSet(1..c) /\ 1..c \subseteq Int
    BY <1>2, FS_Interval
  <2> HIDE DEF T
  <2>2. QED BY <2>1, FS_Subset
<1>4. Match(s, IdScores(s, q), minScore, scoreCount) =
         [ok |-> \A n \in DOMAIN a : s.data[a[n].id] # NoRow, list |-> a]
  BY <1>2 DEF Match, ScoreSet
<1> HIDE DEF V, r, c, T
<1>5. /\ DOMAIN top = 1..Cardinality(T)
      /\ \A n \in 1..Cardinality(T) : Nth(T, n) \in T /\ top[n] = r[Nth(T, n)]
  BY <1>3, PickIs
<1>6. a = [n \in 1..Cardinality(T) |->
              [id |-> Winner(IdScores(s, q), r[Nth(T, n)]), score |-> r[Nth(T, n)]]]
  BY <1>5
<1>7. ASSUME NEW n \in 1..Cardinality(T), s.data[a[n].id] = NoRow
      PROVE  \E id \in Scored(s, q) : s.data[id] = NoRow
  <2>1. r[Nth(T, n)] \in V
    BY <1>2, <1>3, <1>5
  <2>2. a[n].id = Winner(IdScores(s, q), r[Nth(T, n)])
    BY <1>6
  <2> HIDE DEF a
  <2>3. QED BY <1>1, <1>7, <2>1, <2>2
<1>8. DOMAIN a = 1..Cardinality(T)
  BY <1>5
<1> HIDE DEF a
<1>9. QED BY <1>3, <1>4, <1>6, <1>7, <1>8 DEF V, r, c, T

\* A score that is not answered has a rank beyond score_count.
LEMMA IInvMatchAnswersBest == IInv => MatchAnswersBest
<1> SUFFICES ASSUME IInv, NEW q \in Queries, NEW minScore \in MinScores,
                    NEW scoreCount \in ScoreCounts
             PROVE  LET answer == Match(disk, IdScores(disk, q), minScore, scoreCount)
                        a == answer.list
                        scores == {a[n].score : n \in DOMAIN a}
                    IN IF ~answer.ok THEN \E id \in Scored(disk, q) : disk.data[id] = NoRow
                       ELSE /\ Len(a) <= scoreCount \/ a = <<>>
                            /\ \A n \in 2..Len(a) : a[n].score < a[n - 1].score
                            /\ \A id \in Ids : Clean(disk, id) =>
                                  LET score == Likeness(q, disk.data[id].text) IN
                                  score > minScore /\ id \in Scored(disk, q) =>
                                      \/ score \in scores
                                      \/ Len(a) >= scoreCount /\ \A v \in scores : v > score
  BY DEF MatchAnswersBest
<1> DEFINE answer == Match(disk, IdScores(disk, q), minScore, scoreCount)
           a == answer.list
           scores == {a[n].score : n \in DOMAIN a}
           V == ScoreSet(disk, q)
           c == Cardinality(V)
           r == Ranked(V)
           T == {k \in 1..c : r[k] > minScore /\ k <= scoreCount}
           z == Cardinality(T)
<1>1. disk \in Store /\ Complete(disk) /\ q \in Seq(Nat) /\ minScore \in Int /\ scoreCount \in Int
  BY TripletIndexAssumption DEF IInv, TypeOK
<1>2. /\ T \in SUBSET Int /\ IsFiniteSet(T)
      /\ a = [n \in 1..z |-> [id |-> Winner(IdScores(disk, q), r[Nth(T, n)]),
                              score |-> r[Nth(T, n)]]]
      /\ answer.ok \/ \E id \in Scored(disk, q) : disk.data[id] = NoRow
  BY <1>1, MatchIs
<1>3. V \in SUBSET Int /\ IsFiniteSet(V) /\ \A id \in Scored(disk, q) : Score(disk, q, id) \in V
  BY <1>1, ScoresAre
<1> HIDE DEF V
<1>4. /\ c \in Nat
      /\ \A k \in 1..c : r[k] \in Int
      /\ \A j, k \in 1..c : j < k => r[j] > r[k]
      /\ \A v \in V : \E k \in 1..c : r[k] = v
  <2>1. /\ c \in Nat
        /\ \A k \in 1..c : r[k] \in V
        /\ \A j, k \in 1..c : j < k => r[j] > r[k]
        /\ \A v \in V : \E k \in 1..c : r[k] = v
    BY <1>3, RankedIs
  <2>2. QED BY <1>3, <2>1
<1> HIDE DEF answer, c, r
<1>5. /\ z \in Nat
      /\ \A n \in 1..z : Nth(T, n) \in T
      /\ \A n \in T : \E k \in 1..z : Nth(T, k) = n
      /\ \A j, k \in 1..z : j < k => Nth(T, j) < Nth(T, k)
  <2> HIDE DEF T
  <2>1. /\ z \in Nat
        /\ \A n \in 1..z : Nth(T, n) \in T
        /\ \A n \in T : Below(T, n) + 1 \in 1..z /\ Nth(T, Below(T, n) + 1) = n
        /\ \A j, k \in 1..z : j < k => Nth(T, j) < Nth(T, k)
    BY <1>2, NthIs
  <2>2. QED BY <2>1
<1>6. \A k : k \in T <=> k \in 1..c /\ r[k] > minScore /\ k <= scoreCount
  OBVIOUS
<1> HIDE DEF T, a
<1>7. /\ DOMAIN a = 1..z /\ Len(a) = z
      /\ \A n \in 1..z : a[n].score = r[Nth(T, n)]
  <2>1. DOMAIN a = 1..z /\ \A n \in 1..z : a[n].score = r[Nth(T, n)]
    BY <1>2
  <2> DEFINE B == {a[n] : n \in 1..z}
  <2>2. a \in [1..z -> B]
    BY <1>2
  <2> HIDE DEF z, B
  <2>3. a \in Seq(B)
    BY <1>5, <2>2, SeqDef
  <2>4. Len(a) \in Nat /\ DOMAIN a = 1..Len(a)
    BY <2>3, LenProperties
  <2>5. QED BY <1>5, <2>1, <2>4
<1>8. \A v : v \in scores <=> \E k \in T : v = r[k]
  <2>1. \A v : v \in scores <=> \E n \in 1..z : v = r[Nth(T, n)]
    BY <1>7
  <2>2. QED BY <1>5, <2>1
<1> HIDE DEF scores
<1>9. Len(a) <= scoreCount \/ a = <<>>
  <2>1. CASE scoreCount >= 0
    <3>1. T \in SUBSET (1..scoreCount)
      BY <1>1, <1>4, <1>6
    <3>2. IsFiniteSet(1..scoreCount) /\ Cardinality(1..scoreCount) = scoreCount
      BY <1>1, <2>1, FS_Interval
    <3>3. z <= scoreCount
      BY <3>1, <3>2, FS_Subset
    <3>4. QED BY <1>7, <3>3
  <2>2. CASE ~(scoreCount >= 0)
    <3>1. T = {}
      BY <1>1, <1>4, <1>6, <2>2
    <3>2. z = 0
      BY <3>1, FS_EmptySet
    <3>3. a = <<>>
      BY <1>2, <3>2
    <3>4. QED BY <3>3
  <2>3. QED BY <2>1, <2>2
<1>10. ASSUME NEW n \in 2..Len(a) PROVE a[n].score < a[n - 1].score
  <2> HIDE DEF z
  <2>1. n \in 1..z /\ n - 1 \in 1..z /\ n - 1 < n
    BY <1>5, <1>7
  <2> DEFINE j == Nth(T, n - 1)
             k == Nth(T, n)
  <2>2. j \in T /\ k \in T /\ j < k
    BY <1>5, <2>1
  <2>3. a[n].score = r[k] /\ a[n - 1].score = r[j]
    BY <1>7, <2>1
  <2> HIDE DEF j, k
  <2>4. j \in 1..c /\ k \in 1..c
    BY <1>6, <2>2
  <2>5. r[j] > r[k] /\ r[j] \in Int /\ r[k] \in Int
    BY <1>4, <2>2, <2>4
  <2> DEFINE x == r[j]
             y == r[k]
  <2>6. x > y /\ x \in Int /\ y \in Int
    BY <2>5
  <2> HIDE DEF x, y
  <2>7. y < x
    BY <2>6
  <2>8. QED BY <2>3, <2>7 DEF x, y
<1>11. ASSUME NEW id \in Ids, Clean(disk, id), NEW score,
              score = Likeness(q, disk.data[id].text), score > minScore, id \in Scored(disk, q)
       PROVE  score \in scores \/ (Len(a) >= scoreCount /\ \A v \in scores : v > score)
  <2>1. score \in V
    <3>1. Score(disk, q, id) = score
      BY <1>1, <1>11, CleanScore
    <3>2. QED BY <1>3, <1>11, <3>1
  <2>2. PICK k \in 1..c : r[k] = score
    BY <1>4, <2>1
  <2>3. CASE k <= scoreCount
    <3>1. k \in T
      BY <1>6, <1>11, <2>2, <2>3
    <3>2. QED BY <1>8, <2>2, <3>1
  <2>4. CASE ~(k <= scoreCount)
    <3>1. ASSUME NEW j \in 1..c, j <= scoreCount PROVE r[j] > score
      <4>1. j < k
        BY <1>1, <1>4, <2>4, <3>1
      <4>2. QED BY <1>4, <2>2, <4>1
    <3>2. \A v \in scores : v > score
      BY <1>6, <1>8, <3>1
    <3>3. \A j \in 1..scoreCount : j \in T
      <4> TAKE j \in 1..scoreCount
      <4>1. j \in 1..c /\ j <= scoreCount
        BY <1>1, <1>4, <2>4
      <4>2. r[j] > score /\ r[j] \in Int /\ score \in Int
        BY <1>4, <2>2, <3>1, <4>1
      <4> DEFINE x == r[j]
      <4>3. x > score /\ x \in Int
        BY <4>2
      <4> HIDE DEF x
      <4>4. x > minScore
        BY <1>1, <1>11, <4>2, <4>3
      <4>5. QED BY <1>6, <4>1, <4>4 DEF x
    <3>4. z >= scoreCount
      <4>1. CASE scoreCount >= 0
        <5>1. Cardinality(1..scoreCount) = scoreCount
          BY <1>1, <4>1, FS_Interval
        <5>2. 1..scoreCount \in SUBSET T
          BY <3>3
        <5>3. scoreCount <= z
          BY <1>2, <5>1, <5>2, FS_Subset
        <5> HIDE DEF z
        <5>4. QED BY <1>1, <1>5, <5>3
      <4>2. CASE ~(scoreCount >= 0)
        <5> HIDE DEF z
        <5> QED BY <1>1, <1>5, <4>2
      <4>3. QED BY <4>1, <4>2
    <3>5. QED BY <1>7, <3>2, <3>4
  <2>5. QED BY <2>3, <2>4
<1>12. QED
  <2>1. \A id \in Ids : Clean(disk, id) =>
          (Likeness(q, disk.data[id].text) > minScore /\ id \in Scored(disk, q) =>
             \/ Likeness(q, disk.data[id].text) \in scores
             \/ Len(a) >= scoreCount /\ \A v \in scores : v > Likeness(q, disk.data[id].text))
    BY <1>11
  <2>2. /\ Len(a) <= scoreCount \/ a = <<>>
        /\ \A n \in 2..Len(a) : a[n].score < a[n - 1].score
    BY <1>9, <1>10
  <2>3. answer.ok \/ \E id \in Scored(disk, q) : disk.data[id] = NoRow
    BY <1>2
  <2>4. QED BY <2>1, <2>2, <2>3, Zenon DEF a, answer, scores

\* Whatever failed loads, crashes and other records have left in the triplet
\* database, the score of a record loaded once is the likeness of the names.
THEOREM SpecScoresExact == Spec => []ScoresExact
BY SpecIInv, IInvScoresExact, PTL

\* A record loaded once is found with 100 percent, however the capitals and
\* the punctuation of its name are written in the query.
THEOREM SpecSpellingIgnored == Spec => []SpellingIgnored
BY SpecIInv, IInvSpellingIgnored, PTL

\* For every min_score and score_count match_text answers the best, in falling
\* order, and fails only if the triplets name a record that is gone.
THEOREM SpecMatchAnswersBest == Spec => []MatchAnswersBest
BY SpecIInv, IInvMatchAnswersBest, PTL
=============================================================================
