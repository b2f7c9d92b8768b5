---------------------------- MODULE TextTriplets ----------------------------
(***************************************************************************)
(* How a text becomes triplets: Bdb_tokens::tokenize_triplets and          *)
(* Bdb_text_triplets.  A text is a sequence of character codes.  The list  *)
(* of triplets is kept as the set of the places they stand at, because     *)
(* only their number and how often each occurs is used.                    *)
(***************************************************************************)
EXTENDS Naturals, Sequences, FiniteSets

\* The k-th number of a set, and what a sequence has at the places of a set.
Nth(S, k) == CHOOSE n \in S : Cardinality({m \in S : m < n}) = k - 1
Pick(s, S) == [k \in 1..Cardinality(S) |-> s[Nth(S, k)]]

Upper == 65..90
Alnum == (48..57) \cup Upper \cup (97..122)
Blank == {9, 32}
Space == 32

\* Everything but letters, digits and blanks is dropped, letters are made small.
Filtered(s) == Pick(s, {n \in 1..Len(s) : s[n] \in Alnum \cup Blank})
LowerChar(c) == IF c \in Upper THEN c + 32 ELSE c
\* Mutant: the case is kept.
NormalKeepsCase(s) == Filtered(s)
Normal(s) == LET f == Filtered(s) IN [n \in DOMAIN f |-> LowerChar(f[n])]

\* Bdb_tokens::tokenize: the words between two neighbouring spaces, empty ones too.
Stops(s) == {0, Len(s) + 1} \cup {n \in 1..Len(s) : s[n] = Space}
Words(s) ==
    LET stops == Stops(s)
    IN  {w \in stops \X stops : w[1] < w[2] /\ \A n \in stops : n <= w[1] \/ n >= w[2]}

\* A word of more than two letters gives its windows of three, a shorter one itself.
PlacesIn(w) ==
    IF w[2] - w[1] > 3 THEN {<<n, n + 2>> : n \in (w[1] + 1)..(w[2] - 3)}
                       ELSE {<<w[1] + 1, w[2] - 1>>}
Places(s) == UNION {PlacesIn(w) : w \in Words(s)}
At(s, p) == SubSeq(s, p[1], p[2])

TripletsOf(text) == LET s == Normal(text) IN {At(s, p) : p \in Places(s)}

\* Bdb_text_triplets::triplets_count and the occurrence_count of a triplet.
TripletsCount(text) == Cardinality(Places(Normal(text)))
OccurrenceCount(text, t) ==
    LET s == Normal(text) IN Cardinality({p \in Places(s) : At(s, p) = t})

\* std::string's order, by which a std::map keeps its keys.
Less(s, t) ==
    \E n \in 1..Len(t) : /\ n > Len(s) \/ (n <= Len(s) /\ s[n] < t[n])
                         /\ \A k \in 1..(n - 1) : k <= Len(s) /\ s[k] = t[k]
=============================================================================
