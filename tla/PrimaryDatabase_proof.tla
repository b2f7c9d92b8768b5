----------------------- MODULE PrimaryDatabase_proof -----------------------
(***************************************************************************)
(* For every set of keys, DTOs and secondary files: what a crash can and   *)
(* cannot do to a primary database and its indexes.                        *)
(***************************************************************************)
EXTENDS PrimaryDatabase, BdbTable_proof

\* A table is sound if only torn keys have wrong index entries, and only keys
\* torn while being changed or deleted are unreachable.
Sound(t) ==
    /\ \A k \in Keys \ Torn : Consistent(t, k)
    /\ \A k \in Keys \ tornOld : Indexed(t, k)

\* While handles are open the caches are sound.  The files are sound until
\* the first of them is written; from then on they agree with the (sound)
\* caches about every key the request did not touch, and for the others
\* only the primary file is still the one the request found.
IInv ==
    /\ TypeOK
    /\ Sound(mem)
    /\ nclosed = 0 => Sound(disk)
    /\ open => before = {k \in Keys : Present(disk, k)}
    /\ ~open => /\ mem = disk
                /\ nclosed = 0
                /\ touched = {}
                /\ deleted = {}
                /\ ~errors
    /\ \A k \in Keys \ touched : SameKey(mem, disk, k)
    /\ \A x \in Indexes : x <= nclosed => disk.idx[x] = mem.idx[x]
    /\ DeletedIsGone
    /\ SaveFailsOnlyIfTorn

LEMMA NIsNat == N \in Nat /\ 0 \in 0..N
<1>1. N \in Nat
  BY BdbTableAssumption
<1>2. QED BY <1>1

LEMMA InitIInv == Init => IInv
<1> SUFFICES ASSUME Init PROVE IInv
  OBVIOUS
<1>1. EmptyTable \in Table
  BY DEF EmptyTable, Table
<1>2. \A k \in Keys : ~Present(EmptyTable, k)
  BY DEF EmptyTable, Present
<1>3. \A k \in Keys, x \in Indexes : EntriesOf(EmptyTable, x, k) = {}
  BY DEF EmptyTable, EntriesOf
<1>4. \A k \in Keys : Consistent(EmptyTable, k) /\ Indexed(EmptyTable, k)
  BY <1>2, <1>3 DEF Consistent, Indexed
<1>5. TypeOK
  BY <1>1, NIsNat DEF Init, TypeOK
<1>6. QED
  BY <1>4, <1>5 DEF Init, IInv, Sound, SameKey, DeletedIsGone,
                    SaveFailsOnlyIfTorn

-----------------------------------------------------------------------------
(* The handler's writes.                                                   *)

LEMMA SaveIInv ==
    ASSUME IInv, NEW k \in Keys, NEW d \in Data, Save(k, d)
    PROVE  IInv'
<1> USE DEF history
<1>1. PICK out \in PutOutcomes(mem, k, d) : mem' = out.table /\ errors' = ~out.ok
  BY DEF Save
<1>2. mem \in Table /\ disk \in Table
  BY DEF IInv, TypeOK
<1>3. out.ok \in BOOLEAN /\ mem' \in Table
  BY <1>1, <1>2, PutType
<1>4. TypeOK'
  BY <1>1, <1>3 DEF IInv, TypeOK, Save, Running
<1>5. \A j \in Keys : j # k => SameKey(mem', mem, j)
  BY <1>1, <1>2, PutOtherKeys
<1>6. Sound(mem)'
  <2>1. ASSUME NEW j \in Keys \ Torn PROVE Consistent(mem', j)
    <3>1. Consistent(mem, j)
      BY DEF IInv, Sound
    <3>2. CASE j = k
      BY <1>1, <1>2, <3>1, <3>2, PutOnConsistent
    <3>3. CASE j # k
      BY <1>2, <1>3, <1>5, <3>1, <3>3, SameKeyTransfers
    <3>4. QED BY <3>2, <3>3
  <2>2. ASSUME NEW j \in Keys \ tornOld PROVE Indexed(mem', j)
    <3>1. Indexed(mem, j)
      BY DEF IInv, Sound
    <3>2. CASE j = k
      BY <1>1, <1>2, <3>1, <3>2, PutOnIndexed
    <3>3. CASE j # k
      BY <1>2, <1>3, <1>5, <3>1, <3>3, SameKeyTransfers
    <3>4. QED BY <3>2, <3>3
  <2>3. QED BY <2>1, <2>2 DEF Sound, Torn, Save
<1>7. (nclosed = 0 => Sound(disk))'
  BY DEF IInv, Sound, Torn, Save, Running
<1>8. (\A j \in Keys \ touched : SameKey(mem, disk, j))'
  BY <1>5 DEF IInv, SameKey, Save
<1>9. (\A x \in Indexes : x <= nclosed => disk.idx[x] = mem.idx[x])'
  BY DEF Save, Running, Indexes
<1>10. DeletedIsGone'
  BY <1>5 DEF IInv, DeletedIsGone, SameKey, Present, Save, TypeOK
<1>11. SaveFailsOnlyIfTorn'
  <2>1. CASE Indexed(mem, k)
    BY <1>1, <1>2, <2>1, PutOnIndexed DEF SaveFailsOnlyIfTorn
  <2>2. CASE ~Indexed(mem, k)
    BY <2>2 DEF IInv, Sound, SaveFailsOnlyIfTorn, Save
  <2>3. QED BY <2>1, <2>2
<1>12. open'
  BY DEF Save, Running
<1>13. (open => before = {j \in Keys : Present(disk, j)})'
  BY DEF IInv, Save, Running, Present
<1>14. QED
  BY <1>4, <1>6, <1>7, <1>8, <1>9, <1>10, <1>11, <1>12, <1>13 DEF IInv

LEMMA DeleteKeyIInv ==
    ASSUME IInv, NEW k \in Keys, DeleteKey(k)
    PROVE  IInv'
<1> USE DEF history
<1>1. mem' \in DelOutcomes(mem, {k})
  BY DEF DeleteKey
<1>2. mem \in Table /\ disk \in Table
  BY DEF IInv, TypeOK
<1>3. mem' \in Table
  BY <1>1, <1>2, DelType
<1>4. TypeOK'
  BY <1>3 DEF IInv, TypeOK, DeleteKey, Running
<1>5. \A j \in Keys : j # k \/ ~Present(mem, j) => SameKey(mem', mem, j)
  BY <1>1, <1>2, DelOtherKeys
<1>6. Sound(mem)'
  <2>1. ASSUME NEW j \in Keys \ Torn PROVE Consistent(mem', j)
    <3>1. Consistent(mem, j)
      BY DEF IInv, Sound
    <3>2. CASE j = k
      BY <1>1, <1>2, <3>1, <3>2, DelOnConsistent
    <3>3. CASE j # k
      BY <1>2, <1>3, <1>5, <3>1, <3>3, SameKeyTransfers
    <3>4. QED BY <3>2, <3>3
  <2>2. ASSUME NEW j \in Keys \ tornOld PROVE Indexed(mem', j)
    <3>1. Indexed(mem, j)
      BY DEF IInv, Sound
    <3>2. CASE j = k
      BY <1>1, <1>2, <3>1, <3>2, DelOnIndexed
    <3>3. CASE j # k
      BY <1>2, <1>3, <1>5, <3>1, <3>3, SameKeyTransfers
    <3>4. QED BY <3>2, <3>3
  <2>3. QED BY <2>1, <2>2 DEF Sound, Torn, DeleteKey
<1>7. (nclosed = 0 => Sound(disk))'
  BY DEF IInv, Sound, Torn, DeleteKey, Running
<1>8. (\A j \in Keys \ touched : SameKey(mem, disk, j))'
  BY <1>5 DEF IInv, SameKey, DeleteKey
<1>9. (\A x \in Indexes : x <= nclosed => disk.idx[x] = mem.idx[x])'
  BY DEF DeleteKey, Running, Indexes
<1>10. DeletedIsGone'
  <2>1. ASSUME NEW j \in Keys, j \in deleted', Present(mem', j)
        PROVE  j \in tornOld
    <3>1. CASE j = k
      BY <1>1, <1>2, <2>1, <3>1, DelOnIndexed DEF IInv, Sound
    <3>2. CASE j # k
      BY <1>5, <2>1, <3>2 DEF IInv, DeletedIsGone, SameKey, Present, DeleteKey
    <3>3. QED BY <3>1, <3>2
  <2>2. QED BY <2>1, <1>4 DEF DeletedIsGone, DeleteKey, TypeOK
<1>11. SaveFailsOnlyIfTorn'
  BY DEF IInv, SaveFailsOnlyIfTorn, DeleteKey
<1>12. open'
  BY DEF DeleteKey, Running
<1>13. (open => before = {j \in Keys : Present(disk, j)})'
  BY DEF IInv, DeleteKey, Running, Present
<1>14. QED
  BY <1>4, <1>6, <1>7, <1>8, <1>9, <1>10, <1>11, <1>12, <1>13 DEF IInv

-----------------------------------------------------------------------------
(* Closing, and dying in the middle of it.                                 *)

LEMMA CloseSecondaryIInv ==
    ASSUME IInv, CloseSecondary
    PROVE  IInv'
<1> USE DEF history
<1>1. mem \in Table /\ disk \in Table /\ nclosed + 1 \in Indexes
  BY BdbTableAssumption DEF IInv, TypeOK, CloseSecondary, Indexes
<1>2. disk' \in Table
  BY <1>1 DEF CloseSecondary, Table
<1>3. disk'.rows = disk.rows
      /\ \A x \in Indexes : disk'.idx[x] =
            IF x = nclosed + 1 THEN mem.idx[x] ELSE disk.idx[x]
  BY <1>1 DEF CloseSecondary, Table
<1>4. TypeOK'
  BY <1>2, BdbTableAssumption DEF IInv, TypeOK, CloseSecondary
<1>5. nclosed' # 0
  BY DEF IInv, TypeOK, CloseSecondary
<1>6. (\A j \in Keys \ touched : SameKey(mem, disk, j))'
  BY <1>3 DEF IInv, SameKey, EntriesOf, CloseSecondary
<1>7. (\A x \in Indexes : x <= nclosed => disk.idx[x] = mem.idx[x])'
  BY <1>3 DEF IInv, TypeOK, CloseSecondary, Indexes
<1>8. Sound(mem)' /\ DeletedIsGone' /\ SaveFailsOnlyIfTorn' /\ open'
  BY DEF IInv, Sound, Torn, DeletedIsGone, SaveFailsOnlyIfTorn, CloseSecondary
<1>9. (open => before = {j \in Keys : Present(disk, j)})'
  BY <1>3 DEF IInv, CloseSecondary, Present
<1>10. QED
  BY <1>4, <1>5, <1>6, <1>7, <1>8, <1>9 DEF IInv

LEMMA ClosePrimaryIInv ==
    ASSUME IInv, ClosePrimary
    PROVE  IInv'
<1> USE DEF history
<1>1. mem \in Table /\ disk \in Table
  BY DEF IInv, TypeOK
<1>2. disk.idx = mem.idx
  <2>1. disk.idx \in [Indexes -> SUBSET (SKeys \X Keys)]
        /\ mem.idx \in [Indexes -> SUBSET (SKeys \X Keys)]
    BY <1>1 DEF Table
  <2>2. \A x \in Indexes : x <= nclosed
    BY NIsNat DEF ClosePrimary, Indexes
  <2>3. \A x \in Indexes : disk.idx[x] = mem.idx[x]
    BY <2>2 DEF IInv
  <2>4. QED BY <2>1, <2>3
<1>3. disk' = mem
  BY <1>1, <1>2 DEF ClosePrimary, Table
<1>4. mem' = mem /\ UNCHANGED <<tornNew, tornOld>>
      /\ open' = FALSE /\ nclosed' = 0 /\ errors' = FALSE
      /\ touched' = {} /\ deleted' = {} /\ before' = {}
  BY <1>3 DEF ClosePrimary, RequestOver
<1>5. TypeOK'
  BY <1>1, <1>3, <1>4, NIsNat DEF IInv, TypeOK
<1>6. Sound(mem)' /\ Sound(disk)'
  BY <1>3, <1>4 DEF IInv, Sound, Torn
<1>7. QED
  BY <1>3, <1>4, <1>5, <1>6
  DEF IInv, SameKey, Indexes, DeletedIsGone, SaveFailsOnlyIfTorn

LEMMA CrashIInv ==
    ASSUME IInv, Crash
    PROVE  IInv'
<1>1. mem \in Table /\ disk \in Table
  BY DEF IInv, TypeOK
<1>2. mem' = disk /\ disk' = disk /\ open' = FALSE /\ nclosed' = 0
      /\ errors' = FALSE /\ touched' = {} /\ deleted' = {} /\ before' = {}
  BY DEF Crash, RequestOver
<1> DEFINE torn == IF nclosed = 0 THEN {} ELSE touched
<1>3. /\ tornNew' = tornNew \cup (torn \ before)
      /\ tornOld' = tornOld \cup (torn \cap before)
      /\ torn \subseteq Keys
  BY DEF Crash, IInv, TypeOK
<1> HIDE DEF torn
<1>4. TypeOK'
  BY <1>1, <1>2, <1>3, NIsNat DEF IInv, TypeOK
<1>5. Sound(disk)'
  <2>1. CASE nclosed = 0
    <3>1. Sound(disk)
      BY <2>1 DEF IInv
    <3>2. QED BY <1>2, <1>3, <3>1 DEF Sound, Torn
  <2>2. CASE nclosed # 0
    <3> USE <2>2 DEF torn
    <3>1. ASSUME NEW k \in Keys \ Torn' PROVE Consistent(disk, k)
      <4>1. k \notin touched /\ k \notin Torn
        BY <1>3, <3>1 DEF Torn
      <4>2. Consistent(mem, k) /\ SameKey(mem, disk, k)
        BY <4>1 DEF IInv, Sound
      <4>3. QED BY <1>1, <4>2, SameKeyTransfers
    <3>2. ASSUME NEW k \in Keys \ tornOld' PROVE Indexed(disk, k)
      <4>1. CASE Present(disk, k) /\ k \in touched
        BY <1>3, <3>2, <4>1 DEF IInv, Crash
      <4>2. CASE ~Present(disk, k)
        BY <4>2 DEF Indexed
      <4>3. CASE k \notin touched
        <5>1. Indexed(mem, k) /\ SameKey(mem, disk, k)
          BY <1>3, <3>2, <4>3 DEF IInv, Sound
        <5>2. QED BY <1>1, <5>1, SameKeyTransfers
      <4>4. QED BY <4>1, <4>2, <4>3
    <3>3. QED BY <1>2, <3>1, <3>2 DEF Sound
  <2>3. QED BY <2>1, <2>2
<1>6. Sound(mem)'
  BY <1>2, <1>5 DEF Sound
<1>7. QED
  BY <1>1, <1>2, <1>4, <1>5, <1>6
  DEF IInv, SameKey, Indexes, DeletedIsGone, SaveFailsOnlyIfTorn

-----------------------------------------------------------------------------
(* The inductive invariant, and what follows from it.                      *)

LEMMA NextIInv == IInv /\ [Next]_vars => IInv'
<1> SUFFICES ASSUME IInv, [Next]_vars PROVE IInv'
  OBVIOUS
<1>1. CASE OpenDatabase
  BY <1>1 DEF OpenDatabase, IInv, TypeOK, Sound, Torn, history, DeletedIsGone,
              SaveFailsOnlyIfTorn
<1>2. CASE \E k \in Keys, d \in Data : Save(k, d)
  BY <1>2, SaveIInv
<1>3. CASE \E k \in Keys : DeleteKey(k)
  BY <1>3, DeleteKeyIInv
<1>4. CASE CloseSecondary
  BY <1>4, CloseSecondaryIInv
<1>5. CASE ClosePrimary
  BY <1>5, ClosePrimaryIInv
<1>6. CASE Crash
  BY <1>6, CrashIInv
<1>7. CASE UNCHANGED vars
  BY <1>7 DEF vars, history, IInv, TypeOK, Sound, Torn, DeletedIsGone,
              SaveFailsOnlyIfTorn
<1>8. QED
  BY <1>1, <1>2, <1>3, <1>4, <1>5, <1>6, <1>7 DEF Next

\* The inductive invariant holds in every reachable state.
THEOREM SpecIInv == Spec => []IInv
BY InitIInv, NextIInv, PTL DEF Spec

\* Type correctness of the files, the caches and the request's variables.
THEOREM SpecTypeOK == Spec => []TypeOK
<1>1. IInv => TypeOK
  BY DEF IInv
<1>2. QED BY <1>1, SpecIInv, PTL

\* A consistent key is found under its own secondary key and no other.
LEMMA ConsistentReads ==
    ASSUME NEW t \in Table, NEW k \in Keys, Consistent(t, k),
           NEW x \in Indexes, NEW s \in SKeys
    PROVE  <<s, k>> \in t.idx[x] <=>
              Present(t, k) /\ Extract[x][t.rows[k]] = s
<1>1. <<s, k>> \in t.idx[x] <=> <<s, k>> \in EntriesOf(t, x, k)
  BY DEF EntriesOf
<1>2. QED BY <1>1 DEF Consistent, Entry

\* After any sequence of saves, deletes, closes and crashes a read through a
\* secondary file is exact for every row no crash has torn.
THEOREM SpecSecondaryReadsExact == Spec => []SecondaryReadsExact
<1>1. IInv => SecondaryReadsExact
  <2> SUFFICES ASSUME IInv, ~open, NEW x \in Indexes, NEW s \in SKeys
               PROVE  DtoGetDuplicateList(disk, x, s) \ Torn =
                        {k \in Keys \ Torn : /\ Present(disk, k)
                                             /\ Extract[x][disk.rows[k]] = s}
    BY DEF SecondaryReadsExact
  <2>1. disk \in Table /\ \A k \in Keys \ Torn : Consistent(disk, k)
    BY DEF IInv, TypeOK, Sound
  <2>2. \A k \in Keys \ Torn : <<s, k>> \in disk.idx[x] <=>
              Present(disk, k) /\ Extract[x][disk.rows[k]] = s
    BY <2>1, ConsistentReads
  <2>3. QED BY <2>2 DEF DtoGetDuplicateList
<1>2. QED BY <1>1, SpecIInv, PTL

\* A row that a secondary file cannot reach was torn while it was being
\* changed or deleted: an interrupted insertion never leaves one.
THEOREM SpecRowsReachable == Spec => []RowsReachable
<1>1. IInv => RowsReachable
  BY DEF IInv, Sound, RowsReachable
<1>2. QED BY <1>1, SpecIInv, PTL

\* Without a torn row delete_key does what it reports.
THEOREM SpecDeletedIsGone == Spec => []DeletedIsGone
<1>1. IInv => DeletedIsGone
  BY DEF IInv
<1>2. QED BY <1>1, SpecIInv, PTL

\* Without a torn row save does not fail.
THEOREM SpecSaveFailsOnlyIfTorn == Spec => []SaveFailsOnlyIfTorn
<1>1. IInv => SaveFailsOnlyIfTorn
  BY DEF IInv
<1>2. QED BY <1>1, SpecIInv, PTL

=============================================================================
