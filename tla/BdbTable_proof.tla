--------------------------- MODULE BdbTable_proof ---------------------------
(***************************************************************************)
(* What a put or a del may do to one table, for any number of secondary    *)
(* files and any extractor functions: the lemmas the proofs about the      *)
(* databases rest on.                                                      *)
(***************************************************************************)
EXTENDS BdbTable, TLAPS

\* Entries of one key only depend on the index files' pairs for that key.
SameKey(t, u, k) ==
    /\ t.rows[k] = u.rows[k]
    /\ \A x \in Indexes : EntriesOf(t, x, k) = EntriesOf(u, x, k)

\* Consistency and reachability of a key are properties of its row and of its
\* entries alone.
LEMMA SameKeyTransfers ==
    ASSUME NEW t \in Table, NEW u \in Table, NEW k \in Keys, SameKey(t, u, k)
    PROVE  /\ Present(t, k) <=> Present(u, k)
           /\ Consistent(t, k) <=> Consistent(u, k)
           /\ Indexed(t, k) <=> Indexed(u, k)
<1>1. ASSUME NEW x \in Indexes, NEW d
      PROVE  Entry(x, d, k) \in t.idx[x] <=> Entry(x, d, k) \in u.idx[x]
  BY <1>1 DEF SameKey, EntriesOf, Entry
<1>2. QED BY <1>1 DEF SameKey, Present, Consistent, Indexed

\* Exactly one entry per index: a consistent key is reachable.
LEMMA ConsistentIsIndexed ==
    ASSUME NEW t \in Table, NEW k \in Keys, Consistent(t, k)
    PROVE  Indexed(t, k)
BY DEF Consistent, Indexed, EntriesOf

LEMMA EntryType ==
    ASSUME NEW x \in Indexes, NEW d \in Data, NEW k \in Keys
    PROVE  Entry(x, d, k) \in SKeys \X Keys
BY BdbTableAssumption DEF Entry, Indexes

\* A table is its rows and its entries, key by key.
LEMMA SameKeysSameTable ==
    ASSUME NEW t \in Table, NEW u \in Table, \A k \in Keys : SameKey(t, u, k)
    PROVE  t = u
<1>1. t.rows = u.rows
  BY DEF SameKey, Table
<1>2. ASSUME NEW x \in Indexes PROVE t.idx[x] = u.idx[x]
  <2>1. t.idx[x] \in SUBSET (SKeys \X Keys) /\ u.idx[x] \in SUBSET (SKeys \X Keys)
    BY DEF Table
  <2>2. \A e \in SKeys \X Keys : e \in t.idx[x] <=> e \in u.idx[x]
    BY DEF SameKey, EntriesOf
  <2>3. QED BY <2>1, <2>2
<1>3. t.idx = u.idx
  BY <1>2 DEF Table
<1>4. QED BY <1>1, <1>3 DEF Table

\* A consistent key is listed under the secondary keys of its row only.
LEMMA ConsistentIsListed ==
    ASSUME NEW t \in Table, NEW k \in Keys, Consistent(t, k),
           NEW x \in Indexes, NEW s
    PROVE  k \in DtoGetDuplicateList(t, x, s)
              <=> Present(t, k) /\ Extract[x][t.rows[k]] = s
<1>1. <<s, k>> \in t.idx[x] <=> <<s, k>> \in EntriesOf(t, x, k)
  BY DEF EntriesOf
<1>2. QED BY <1>1 DEF Consistent, DtoGetDuplicateList, Entry

-----------------------------------------------------------------------------
(* put                                                                     *)

LEMMA PutIndexType ==
    ASSUME NEW t \in Table, NEW x \in Indexes, NEW k \in Keys, NEW d \in Data
    PROVE  PutIndex(t, x, k, d) \in SUBSET (SKeys \X Keys)
<1>1. t.idx[x] \in SUBSET (SKeys \X Keys)
  BY DEF Table
<1>2. QED BY <1>1, EntryType DEF PutIndex

LEMMA PutType ==
    ASSUME NEW t \in Table, NEW k \in Keys, NEW d \in Data,
           NEW out \in PutOutcomes(t, k, d)
    PROVE  out.ok \in BOOLEAN /\ out.table \in Table
<1>1. PutDone(t, k, d) \in Table
  BY PutIndexType DEF PutDone, Table
<1>2. ASSUME NEW changed \in SUBSET Indexes
      PROVE  PutBroken(t, k, d, changed) \in Table
  BY PutIndexType DEF PutBroken, Table
<1>3. CASE Replaceable(t, k, d)
  <2>1. out = [ok |-> TRUE, table |-> PutDone(t, k, d)]
    BY <1>3 DEF PutOutcomes
  <2>2. QED BY <2>1, <1>1
<1>4. CASE ~Replaceable(t, k, d)
  <2>1. PICK changed \in SUBSET Indexes :
            out = [ok |-> FALSE, table |-> PutBroken(t, k, d, changed)]
    BY <1>4 DEF PutOutcomes
  <2>2. QED BY <2>1, <1>2
<1>5. QED BY <1>3, <1>4

\* A put under one key leaves every other key's row and entries alone.
LEMMA PutOtherKeys ==
    ASSUME NEW t \in Table, NEW k \in Keys, NEW d \in Data,
           NEW out \in PutOutcomes(t, k, d), NEW j \in Keys, j # k
    PROVE  SameKey(out.table, t, j)
<1>1. ASSUME NEW x \in Indexes
      PROVE  {e \in PutIndex(t, x, k, d) : e[2] = j} = EntriesOf(t, x, j)
  BY DEF PutIndex, EntriesOf, Entry
<1>2. SameKey(PutDone(t, k, d), t, j)
  BY <1>1 DEF SameKey, PutDone, EntriesOf, Table
<1>3. ASSUME NEW changed \in SUBSET Indexes
      PROVE  SameKey(PutBroken(t, k, d, changed), t, j)
  BY <1>1 DEF SameKey, PutBroken, EntriesOf, Table
<1>4. QED BY <1>2, <1>3 DEF PutOutcomes

\* A put on a reachable key succeeds and leaves it reachable.
LEMMA PutOnIndexed ==
    ASSUME NEW t \in Table, NEW k \in Keys, NEW d \in Data,
           NEW out \in PutOutcomes(t, k, d), Indexed(t, k)
    PROVE  out.ok /\ Indexed(out.table, k)
<1>1. Replaceable(t, k, d)
  BY DEF Replaceable, Indexed
<1>2. out = [ok |-> TRUE, table |-> PutDone(t, k, d)]
  BY <1>1 DEF PutOutcomes
<1>3. Indexed(PutDone(t, k, d), k)
  BY DEF Indexed, PutDone, PutIndex, Table
<1>4. QED BY <1>2, <1>3

\* A put on a consistent key leaves it consistent: the old entries are gone.
LEMMA PutOnConsistent ==
    ASSUME NEW t \in Table, NEW k \in Keys, NEW d \in Data,
           NEW out \in PutOutcomes(t, k, d), Consistent(t, k)
    PROVE  Consistent(out.table, k)
<1>1. Replaceable(t, k, d)
  BY ConsistentIsIndexed DEF Replaceable, Indexed
<1>2. out.table = PutDone(t, k, d)
  BY <1>1 DEF PutOutcomes
<1>3. PutDone(t, k, d).rows[k] = d
  BY DEF PutDone, Table
<1>4. Present(PutDone(t, k, d), k)
  BY <1>3, BdbTableAssumption DEF Present
<1>5. ASSUME NEW x \in Indexes
      PROVE  EntriesOf(PutDone(t, k, d), x, k) = {Entry(x, d, k)}
  <2>1. EntriesOf(PutDone(t, k, d), x, k) = {e \in PutIndex(t, x, k, d) : e[2] = k}
    BY DEF EntriesOf, PutDone
  <2>2. \A e \in t.idx[x] : e[2] = k =>
            Present(t, k) /\ e = Entry(x, t.rows[k], k)
    BY DEF Consistent, EntriesOf
  <2>3. QED BY <2>1, <2>2 DEF PutIndex, Entry
<1>6. QED BY <1>2, <1>3, <1>4, <1>5 DEF Consistent

\* A put changes the row of its key, or no row.
LEMMA PutRows ==
    ASSUME NEW t \in Table, NEW k \in Keys, NEW d \in Data,
           NEW out \in PutOutcomes(t, k, d)
    PROVE  \/ out.ok /\ out.table.rows = [t.rows EXCEPT ![k] = d]
           \/ ~out.ok /\ out.table.rows = t.rows
BY DEF PutOutcomes, PutDone, PutBroken

\* A put that succeeds leaves its key reachable, even where the key was not.
LEMMA PutOkIsIndexed ==
    ASSUME NEW t \in Table, NEW k \in Keys, NEW d \in Data,
           NEW out \in PutOutcomes(t, k, d), out.ok
    PROVE  Indexed(out.table, k)
<1>1. out = [ok |-> TRUE, table |-> PutDone(t, k, d)]
  BY DEF PutOutcomes
<1>2. Indexed(PutDone(t, k, d), k)
  BY DEF Indexed, PutDone, PutIndex, Table
<1>3. QED BY <1>1, <1>2

-----------------------------------------------------------------------------
(* del                                                                     *)

LEMMA DelType ==
    ASSUME NEW t \in Table, NEW ks \in SUBSET Keys, NEW u \in DelOutcomes(t, ks)
    PROVE  u \in Table
BY DEF DelOutcomes, DelDone, Table

\* A del leaves every other key's row and entries alone.
LEMMA DelOtherKeys ==
    ASSUME NEW t \in Table, NEW ks \in SUBSET Keys, NEW u \in DelOutcomes(t, ks),
           NEW j \in Keys, j \notin ks \/ ~Present(t, j)
    PROVE  SameKey(u, t, j)
<1>1. PICK broken : u = DelDone(t, ks, broken)
  BY DEF DelOutcomes
<1>2. u.rows[j] = t.rows[j]
  BY <1>1 DEF DelDone, Present, Table
<1>3. ASSUME NEW x \in Indexes
      PROVE  EntriesOf(u, x, j) = EntriesOf(t, x, j)
  BY <1>1 DEF DelDone, EntriesOf, Unindexes
<1>4. QED BY <1>2, <1>3 DEF SameKey

\* A reachable row is really deleted.
LEMMA DelOnIndexed ==
    ASSUME NEW t \in Table, NEW ks \in SUBSET Keys, NEW u \in DelOutcomes(t, ks),
           NEW k \in ks, Indexed(t, k)
    PROVE  ~Present(u, k) /\ Indexed(u, k)
<1>1. PICK broken : u = DelDone(t, ks, broken)
  BY DEF DelOutcomes
<1>2. ~Present(u, k)
  BY <1>1 DEF DelDone, Present, Table
<1>3. QED BY <1>2 DEF Indexed

\* A consistent row is deleted together with all of its entries.
LEMMA DelOnConsistent ==
    ASSUME NEW t \in Table, NEW ks \in SUBSET Keys, NEW u \in DelOutcomes(t, ks),
           NEW k \in ks, Consistent(t, k)
    PROVE  Consistent(u, k)
<1>1. PICK broken : u = DelDone(t, ks, broken)
  BY DEF DelOutcomes
<1>2. Indexed(t, k)
  BY ConsistentIsIndexed
<1>3. ~Present(u, k)
  BY <1>2, DelOnIndexed
<1>4. ASSUME NEW x \in Indexes
      PROVE  EntriesOf(u, x, k) = {}
  <2>1. \A e \in t.idx[x] : e[2] = k =>
            Present(t, k) /\ e = Entry(x, t.rows[k], k)
    BY DEF Consistent, EntriesOf
  <2>2. QED BY <1>1, <1>2, <2>1 DEF DelDone, EntriesOf, Unindexes
<1>5. QED BY <1>3, <1>4 DEF Consistent

\* A del takes the reachable rows of its keys, and no other row.
LEMMA DelRows ==
    ASSUME NEW t \in Table, NEW ks \in SUBSET Keys, NEW u \in DelOutcomes(t, ks)
    PROVE  u.rows = [k \in Keys |-> IF k \in ks /\ Indexed(t, k) THEN NoData ELSE t.rows[k]]
BY DEF DelOutcomes, DelDone

-----------------------------------------------------------------------------
(* The caches m and the files f of one table during a request: which files *)
(* are written, which keys the request touched, which keys are torn.       *)

Parts == Indexes \cup {0}

\* Untorn keys are consistent in the caches, and in the files as long as none
\* of these is written; untouched keys are the same in both, and written
\* files are the same as their caches.
Cached(m, f, written, tch, trn) ==
    /\ \A k \in Keys \ trn : Consistent(m, k)
    /\ \A k \in Keys \ tch : SameKey(m, f, k)
    /\ \A x \in Indexes : x \in written => f.idx[x] = m.idx[x]
    /\ 0 \in written => f.rows = m.rows
    /\ written = {} => \A k \in Keys \ trn : Consistent(f, k)

\* A put, before any file is written.
LEMMA CachedPut ==
    ASSUME NEW m \in Table, NEW f \in Table, NEW tch \in SUBSET Keys, NEW trn,
           Cached(m, f, {}, tch, trn),
           NEW k \in Keys, NEW d \in Data, NEW out \in PutOutcomes(m, k, d)
    PROVE  Cached(out.table, f, {}, tch \cup {k}, trn)
<1>1. out.table \in Table
  BY PutType
<1>2. \A j \in Keys : j # k => SameKey(out.table, m, j)
  BY PutOtherKeys
<1>3. ASSUME NEW j \in Keys \ trn PROVE Consistent(out.table, j)
  <2>1. Consistent(m, j)
    BY DEF Cached
  <2>2. CASE j = k
    BY <2>1, <2>2, PutOnConsistent
  <2>3. CASE j # k
    BY <1>1, <1>2, <2>1, <2>3, SameKeyTransfers
  <2>4. QED BY <2>2, <2>3
<1>4. ASSUME NEW j \in Keys \ (tch \cup {k}) PROVE SameKey(out.table, f, j)
  BY <1>2 DEF Cached, SameKey
<1>5. QED BY <1>3, <1>4 DEF Cached

\* A del, before any file is written.
LEMMA CachedDel ==
    ASSUME NEW m \in Table, NEW f \in Table, NEW tch \in SUBSET Keys, NEW trn,
           Cached(m, f, {}, tch, trn),
           NEW ks \in SUBSET Keys, NEW u \in DelOutcomes(m, ks)
    PROVE  Cached(u, f, {}, tch \cup ks, trn)
<1>1. u \in Table
  BY DelType
<1>2. \A j \in Keys : j \notin ks => SameKey(u, m, j)
  BY DelOtherKeys
<1>3. ASSUME NEW j \in Keys \ trn PROVE Consistent(u, j)
  <2>1. Consistent(m, j)
    BY DEF Cached
  <2>2. CASE j \in ks
    BY <2>1, <2>2, DelOnConsistent
  <2>3. CASE j \notin ks
    BY <1>1, <1>2, <2>1, <2>3, SameKeyTransfers
  <2>4. QED BY <2>2, <2>3
<1>4. ASSUME NEW j \in Keys \ (tch \cup ks) PROVE SameKey(u, f, j)
  BY <1>2 DEF Cached, SameKey
<1>5. QED BY <1>3, <1>4 DEF Cached

\* The cache of an index goes to its file.
LEMMA CachedCloseIndex ==
    ASSUME NEW m \in Table, NEW f \in Table, NEW written, NEW tch, NEW trn,
           Cached(m, f, written, tch, trn),
           NEW x \in Indexes, NEW g \in Table,
           g.rows = f.rows, g.idx = [f.idx EXCEPT ![x] = m.idx[x]]
    PROVE  Cached(m, g, written \cup {x}, tch, trn)
<1>1. \A y \in Indexes : g.idx[y] = IF y = x THEN m.idx[x] ELSE f.idx[y]
  BY DEF Table
<1>2. ASSUME NEW k \in Keys \ tch PROVE SameKey(m, g, k)
  <2>1. SameKey(m, f, k)
    BY DEF Cached
  <2>2. ASSUME NEW y \in Indexes PROVE EntriesOf(m, y, k) = EntriesOf(g, y, k)
    <3>1. EntriesOf(m, y, k) = EntriesOf(f, y, k)
      BY <2>1 DEF SameKey
    <3>2. CASE y = x
      BY <1>1, <3>2 DEF EntriesOf
    <3>3. CASE y # x
      BY <1>1, <3>1, <3>3 DEF EntriesOf
    <3>4. QED BY <3>2, <3>3
  <2>3. QED BY <2>1, <2>2 DEF SameKey
<1>3. 0 \in written \cup {x} => g.rows = m.rows
  BY BdbTableAssumption DEF Cached, Indexes
<1>4. QED BY <1>1, <1>2, <1>3 DEF Cached

\* The cache of the rows goes to the primary's file.
LEMMA CachedClosePrimary ==
    ASSUME NEW m \in Table, NEW f \in Table, NEW written, NEW tch, NEW trn,
           Cached(m, f, written, tch, trn),
           NEW g \in Table, g.rows = m.rows, g.idx = f.idx
    PROVE  Cached(m, g, written \cup {0}, tch, trn)
<1>1. \A k \in Keys \ tch : SameKey(m, g, k)
  BY ZenonT(40) DEF Cached, SameKey, EntriesOf
<1>2. \A x \in Indexes : x # 0
  BY BdbTableAssumption DEF Indexes
<1>3. QED BY <1>1, <1>2 DEF Cached

\* All files are written.
LEMMA CachedWhole ==
    ASSUME NEW m \in Table, NEW f \in Table, NEW tch, NEW trn,
           Cached(m, f, Parts, tch, trn)
    PROVE  m = f
<1>1. m.rows = f.rows /\ \A x \in Indexes : m.idx[x] = f.idx[x]
  BY DEF Cached, Parts
<1>2. m.idx = f.idx
  BY <1>1 DEF Table
<1>3. QED BY <1>1, <1>2 DEF Table

\* Caches that are what the files are: after a request, or a restart.
LEMMA CachedFresh ==
    ASSUME NEW f \in Table, NEW trn, \A k \in Keys \ trn : Consistent(f, k)
    PROVE  Cached(f, f, {}, {}, trn)
BY DEF Cached, SameKey

\* The caches are lost: the files are consistent but for the torn keys, if the
\* touched ones are torn where some but not all files were written.
LEMMA CachedLost ==
    ASSUME NEW m \in Table, NEW f \in Table, NEW written \in SUBSET Parts,
           NEW tch, NEW trn, NEW trn2,
           Cached(m, f, written, tch, trn), trn \subseteq trn2,
           written \notin {{}, Parts} => tch \subseteq trn2
    PROVE  Cached(f, f, {}, {}, trn2)
<1>1. ASSUME NEW k \in Keys \ trn2 PROVE Consistent(f, k)
  <2>1. CASE written = {}
    BY <2>1 DEF Cached
  <2>2. CASE written = Parts
    <3>1. m = f
      BY <2>2, CachedWhole
    <3>2. QED BY <3>1 DEF Cached
  <2>3. CASE written \notin {{}, Parts}
    <3>1. SameKey(m, f, k) /\ Consistent(m, k)
      BY <2>3 DEF Cached
    <3>2. QED BY <3>1, SameKeyTransfers
  <2>4. QED BY <2>1, <2>2, <2>3
<1>2. QED BY <1>1, CachedFresh

=============================================================================
