------------------------ MODULE LedgerAccountsProofs ------------------------
(***************************************************************************)
(* That the tables implement accounts with histories as long as no flaw    *)
(* strikes.  Both how an account's history follows from its record IDs and *)
(* what it shows are facts about any books in order; what is left is what  *)
(* each call makes of the histories.                                       *)
(***************************************************************************)
EXTENDS LedgerAccounts, LedgerProofs, SequenceTheorems

-----------------------------------------------------------------------------
\* IDs in their order.
Rank(ids, r) == Cardinality({k \in ids : k < r})

LEMMA OnePlace ==
  ASSUME NEW S, NEW n \in Nat, NEW r \in S, \A k \in S : Rank(S, k) = n <=> k = r
  PROVE  Nth(S, n + 1) = r
<1> DEFINE place == n + 1
<1>1. place - 1 = n
  OBVIOUS
<1> HIDE DEF place
<1>2. Nth(S, place) = r
  BY <1>1 DEF Nth, Rank
<1> QED
  BY <1>2 DEF place

\* Every ID of a set has a place of its own, and a new highest ID comes last.
LEMMA NthOfGrown ==
  ASSUME NEW S, S \subseteq Nat, IsFiniteSet(S), NEW r \in Nat,
         \A k \in S : k < r
  PROVE  /\ Cardinality(S \cup {r}) = Cardinality(S) + 1
         /\ Nth(S \cup {r}, Cardinality(S) + 1) = r
         /\ \A n \in 1 .. Cardinality(S) : Nth(S \cup {r}, n) = Nth(S, n)
<1> DEFINE T == S \cup {r}
<1>1. /\ Cardinality(S) \in Nat /\ r \notin S
      /\ Cardinality(T) = Cardinality(S) + 1
  BY FS_CardinalityType, FS_AddElement
<1>2. Rank(T, r) = Cardinality(S)
  <2>1. {k \in T : k < r} = S
    <3>1. ~(r < r)
      OBVIOUS
    <3> QED
      BY <3>1
  <2> QED
    BY <2>1 DEF Rank
<1>3. ASSUME NEW k \in S
      PROVE  Rank(T, k) = Rank(S, k) /\ Rank(T, k) < Cardinality(S)
  <2>1. {j \in T : j < k} = {j \in S : j < k}
    <3>1. ~(r < k)
      BY <1>3
    <3> QED
      BY <3>1
  <2>2. {j \in S : j < k} \subseteq S /\ k \notin {j \in S : j < k}
    OBVIOUS
  <2>3. /\ Cardinality({j \in S : j < k}) \in Nat
        /\ Cardinality({j \in S : j < k}) < Cardinality(S)
    BY <2>2, FS_Subset, FS_CardinalityType
  <2> QED
    BY <2>1, <2>3 DEF Rank
<1> HIDE DEF T
<1>4. Nth(T, Cardinality(S) + 1) = r
  <2>1. r \in T /\ \A k \in T : Rank(T, k) = Cardinality(S) <=> k = r
    BY <1>1, <1>2, <1>3 DEF T
  <2> QED
    BY <1>1, <2>1, OnePlace, ZenonT(30)
<1>5. ASSUME NEW n \in 1 .. Cardinality(S) PROVE Nth(T, n) = Nth(S, n)
  <2>1. \A k : k \in T /\ Rank(T, k) = n - 1 <=> k \in S /\ Rank(S, k) = n - 1
    <3>1. Cardinality(S) # n - 1
      BY <1>1
    <3>2. T = S \cup {r}
      BY DEF T
    <3> QED
      BY <1>2, <1>3, <3>1, <3>2
  <2> QED
    BY <2>1, Zenon DEF Nth, Rank
<1> QED
  BY <1>1, <1>4, <1>5 DEF T

\* The last place is that of the highest ID; without it the others stay.
LEMMA NthOfShrunk ==
  ASSUME NEW S, S \subseteq Nat, IsFiniteSet(S), S # {}
  PROVE  /\ Cardinality(S \ {Max(S)}) = Cardinality(S) - 1
         /\ Cardinality(S) \in Nat /\ Cardinality(S) > 0
         /\ Nth(S, Cardinality(S)) = Max(S)
         /\ \A n \in 1 .. Cardinality(S) - 1 : Nth(S \ {Max(S)}, n) = Nth(S, n)
<1> DEFINE r == Max(S)
<1> DEFINE T == S \ {r}
<1>1. r \in S /\ \A k \in S : k <= r
  BY MaxOfNaturals
<1> HIDE DEF r
<1>2. T \subseteq Nat /\ IsFiniteSet(T) /\ r \in Nat /\ \A k \in T : k < r
  <2>1. IsFiniteSet(T)
    BY FS_Subset
  <2> QED
    BY <1>1, <2>1
<1>3. T \cup {r} = S
  BY <1>1
<1> HIDE DEF T
<1>4. /\ Cardinality(S) = Cardinality(T) + 1 /\ Cardinality(T) \in Nat
      /\ Nth(S, Cardinality(T) + 1) = r
      /\ \A n \in 1 .. Cardinality(T) : Nth(S, n) = Nth(T, n)
  BY <1>2, <1>3, NthOfGrown, FS_CardinalityType
<1> QED
  BY <1>4 DEF T, r

\* At each place there is one of the IDs.
LEMMA NthIsIn ==
  ASSUME NEW S, S \subseteq Nat, IsFiniteSet(S), NEW n \in 1 .. Cardinality(S)
  PROVE  Nth(S, n) \in S
<1> DEFINE Good == {U \in SUBSET S : \A i \in 1 .. Cardinality(U) : Nth(U, i) \in U}
<1>1. ASSUME NEW U \in SUBSET S, \A V \in SUBSET U : V # U => V \in Good
      PROVE  U \in Good
  <2>1. CASE U = {}
    BY <2>1, FS_EmptySet
  <2>2. CASE U # {}
    <3> DEFINE V == U \ {Max(U)}
    <3>1. U \subseteq Nat /\ IsFiniteSet(U) /\ Max(U) \in U
      BY <2>2, FS_Subset, MaxOfNaturals
    <3>2. /\ Cardinality(V) = Cardinality(U) - 1
          /\ Cardinality(U) \in Nat
          /\ Nth(U, Cardinality(U)) = Max(U)
          /\ \A i \in 1 .. Cardinality(U) - 1 : Nth(V, i) = Nth(U, i)
      BY <2>2, <3>1, NthOfShrunk
    <3>3. \A i \in 1 .. Cardinality(V) : Nth(V, i) \in V
      BY <1>1, <3>1
    <3> SUFFICES ASSUME NEW i \in 1 .. Cardinality(U) PROVE Nth(U, i) \in U
      OBVIOUS
    <3>4. CASE i = Cardinality(U)
      BY <3>1, <3>2, <3>4
    <3>5. CASE i \in 1 .. Cardinality(U) - 1
      BY <3>2, <3>3, <3>5
    <3> QED
      BY <3>2, <3>4, <3>5
  <2> QED
    BY <2>1, <2>2
<1>2. S \in Good
  <2> HIDE DEF Good
  <2> QED
    BY <1>1, SubsetInduction
<1> QED
  BY <1>2

LEMMA IntervalGrows ==
  ASSUME NEW n \in Nat
  PROVE  /\ IsFiniteSet(1 .. n) /\ n + 1 \notin 1 .. n
         /\ 1 .. n + 1 = (1 .. n) \cup {n + 1}
BY FS_Interval

\* Summing by place is summing by ID.
LEMMA SumByPlace ==
  ASSUME NEW f, NEW S, S \subseteq Nat, IsFiniteSet(S), \A x \in S : f[x] \in Int,
         NEW g, \A n \in 1 .. Cardinality(S) : g[n] = f[Nth(S, n)]
  PROVE  SumFunctionOnSet(g, 1 .. Cardinality(S)) = SumFunctionOnSet(f, S)
<1> DEFINE place(U) == 1 .. Cardinality(U)
<1> DEFINE Good == {U \in SUBSET S :
                      (\A n \in place(U) : g[n] = f[Nth(U, n)])
                      => SumFunctionOnSet(g, place(U)) = SumFunctionOnSet(f, U)}
<1>1. ASSUME NEW U \in SUBSET S, \A V \in SUBSET U : V # U => V \in Good
      PROVE  U \in Good
  <2> SUFFICES ASSUME \A n \in place(U) : g[n] = f[Nth(U, n)]
               PROVE  SumFunctionOnSet(g, place(U)) = SumFunctionOnSet(f, U)
    OBVIOUS
  <2>1. CASE U = {}
    <3>1. Cardinality(U) = 0 /\ place(U) = {}
      BY <2>1, FS_EmptySet
    <3> QED
      BY <2>1, <3>1, SumOfNone
  <2>2. CASE U # {}
    <3> DEFINE m == Max(U)
    <3> DEFINE V == U \ {m}
    <3> DEFINE c == Cardinality(V)
    <3>1. U \subseteq Nat /\ IsFiniteSet(U) /\ m \in U /\ IsFiniteSet(V)
      BY <2>2, FS_Subset, MaxOfNaturals
    <3>2. /\ c = Cardinality(U) - 1 /\ Cardinality(U) \in Nat /\ c \in Nat
          /\ Nth(U, Cardinality(U)) = m
          /\ \A i \in 1 .. Cardinality(U) - 1 : Nth(V, i) = Nth(U, i)
      BY <2>2, <3>1, NthOfShrunk, FS_CardinalityType
    <3>3. \A n \in place(V) : g[n] = f[Nth(V, n)]
      BY <3>2
    <3>4. V \in Good
      BY <1>1, <3>1
    <3>5. SumFunctionOnSet(g, place(V)) = SumFunctionOnSet(f, V)
      BY <3>3, <3>4
    <3>6. SumFunctionOnSet(f, U) = f[m] + SumFunctionOnSet(f, V)
      <4>1. IsFiniteSet(U) /\ m \in U
        BY <3>1
      <4>2. \A x \in U : f[x] \in Int
        OBVIOUS
      <4> HIDE DEF m, place, Good
      <4>3. \A k \in U : SumFunctionOnSet(f, U) = f[k] + SumFunctionOnSet(f, U \ {k})
        BY <4>1, <4>2, SumWithout, ZenonT(30)
      <4> QED
        BY <4>1, <4>3
    <3>7. g[c + 1] = f[m]
      BY <3>2
    <3>8. /\ IsFiniteSet(place(V)) /\ c + 1 \notin place(V)
          /\ place(U) = place(V) \cup {c + 1}
      <4>1. Cardinality(U) = c + 1
        BY <3>2
      <4>2. c \in Nat
        BY <3>2
      <4>3. place(V) = 1 .. c /\ place(U) = 1 .. c + 1
        BY <4>1
      <4> HIDE DEF c, place
      <4> QED
        BY <4>2, <4>3, IntervalGrows, ZenonT(30)
    <3>9. \A n \in place(V) \cup {c + 1} : g[n] \in Int
      <4>1. \A n \in place(V) : Nth(V, n) \in V
        BY <3>1, NthIsIn
      <4> QED
        BY <3>1, <3>3, <3>7, <4>1
    <3> HIDE DEF place, c, V, m
    <3>10. SumFunctionOnSet(g, place(U)) = g[c + 1] + SumFunctionOnSet(g, place(V))
      BY <3>8, <3>9, SumWith
    <3> QED
      BY <3>5, <3>6, <3>7, <3>10
  <2> QED
    BY <2>1, <2>2
<1>2. S \in Good
  <2> HIDE DEF Good
  <2> QED
    BY <1>1, SubsetInduction
<1> QED
  BY <1>2

-----------------------------------------------------------------------------
\* The histories the tables hold, as books in order determine them.
Histories(b) == [id \in DOMAIN b.recs |-> History(b, id)]

LEMMA HistoryFacts ==
  ASSUME NEW b, Kept(b), NEW id \in DOMAIN b.recs
  PROVE  LET h == History(b, id)
             ids == b.recs[id]
         IN  /\ Histories(b)[id] = h
             /\ Cardinality(ids) \in Nat /\ Cardinality(ids) > 0
             /\ h \in Seq(Record) /\ Len(h) = Cardinality(ids)
             /\ DOMAIN h = 1 .. Cardinality(ids)
             /\ \A n \in 1 .. Cardinality(ids) :
                  Nth(ids, n) \in ids /\ h[n] = b.daily.rows[Nth(ids, n)]
             /\ h[Len(h)] = b.daily.rows[LastRecord(b, id)]
<1> DEFINE h == History(b, id)
<1> DEFINE ids == b.recs[id]
<1>1. /\ IsFiniteSet(ids) /\ ids # {} /\ ids \subseteq DOMAIN b.daily.rows
      /\ ids \subseteq Nat
  BY KeptFacts DEF Kept
<1>2. /\ Cardinality(ids) \in Nat /\ Cardinality(ids) > 0
      /\ Nth(ids, Cardinality(ids)) = LastRecord(b, id)
  BY <1>1, NthOfShrunk DEF LastRecord
<1>3. \A n \in 1 .. Cardinality(ids) : Nth(ids, n) \in ids
  BY <1>1, NthIsIn
<1>4. \A r \in ids : b.daily.rows[r] \in Record
  BY <1>1, KeptFacts
<1>5. h = [n \in 1 .. Cardinality(ids) |-> b.daily.rows[Nth(ids, n)]]
  BY DEF History
<1>6. Histories(b)[id] = h
  BY DEF Histories
<1> HIDE DEF h, ids
<1>7. h \in Seq(Record) /\ Len(h) = Cardinality(ids)
  BY <1>2, <1>3, <1>4, <1>5
<1> QED
  BY <1>2, <1>3, <1>5, <1>6, <1>7 DEF h, ids

\* Two books that agree on an entry's records agree on its history.
LEMMA SameHistory ==
  ASSUME NEW b, Kept(b), NEW c, NEW id \in DOMAIN b.recs, id \in DOMAIN c.recs,
         c.recs[id] = b.recs[id],
         \A r \in b.recs[id] : c.daily.rows[r] = b.daily.rows[r]
  PROVE  History(c, id) = History(b, id)
<1>1. \A n \in 1 .. Cardinality(b.recs[id]) : Nth(b.recs[id], n) \in b.recs[id]
  BY HistoryFacts
<1> QED
  BY <1>1 DEF History

\* A record more under the highest ID is the end of the history.
LEMMA HistoryGrown ==
  ASSUME NEW b, Kept(b), NEW c, NEW id \in DOMAIN b.recs,
         NEW record \in Record, Grown(b, c, id, record)
  PROVE  Histories(c) = Book!Extended(Histories(b), id, record)
<1> DEFINE r == b.daily.nextId
<1> DEFINE ids == b.recs[id]
<1> DEFINE m == Cardinality(ids)
<1> DEFINE h == History(b, id)
<1>1. /\ IsFiniteSet(ids) /\ ids \subseteq DOMAIN b.daily.rows
      /\ ids \subseteq Nat /\ r \in Nat
  BY KeptFacts
<1>2. /\ c.recs[id] = ids \cup {r} /\ \A k \in ids : k < r
      /\ DOMAIN c.recs = DOMAIN b.recs /\ id \in DOMAIN c.recs
      /\ c.daily.rows[r] = record
      /\ \A k \in DOMAIN b.daily.rows : c.daily.rows[k] = b.daily.rows[k]
      /\ \A k \in DOMAIN b.recs \ {id} : c.recs[k] = b.recs[k]
  BY <1>1 DEF Grown
<1>3. /\ m \in Nat /\ h \in Seq(Record) /\ Len(h) = m
      /\ \A n \in 1 .. m : Nth(ids, n) \in ids /\ h[n] = b.daily.rows[Nth(ids, n)]
  BY HistoryFacts
<1> HIDE DEF r, ids, m, h
<1>4. /\ Cardinality(ids \cup {r}) = m + 1 /\ Nth(ids \cup {r}, m + 1) = r
      /\ \A n \in 1 .. m : Nth(ids \cup {r}, n) = Nth(ids, n)
  BY <1>1, <1>2, NthOfGrown DEF m
<1>5. History(c, id) = Append(h, record)
  <2>1. History(c, id) =
          [n \in 1 .. m + 1 |-> c.daily.rows[Nth(ids \cup {r}, n)]]
    BY <1>2, <1>4 DEF History
  <2> DEFINE longer == Append(h, record)
  <2>2. longer = [n \in 1 .. m + 1 |-> IF n = m + 1 THEN record ELSE h[n]]
    <3>1. /\ longer \in Seq(Record) /\ Len(longer) = m + 1
          /\ \A n \in 1 .. m : longer[n] = h[n]
          /\ longer[m + 1] = record
      BY <1>3, AppendProperties
    <3> HIDE DEF longer
    <3>2. DOMAIN longer = 1 .. m + 1
      BY <3>1
    <3>3. longer = [n \in 1 .. m + 1 |-> longer[n]]
      BY <3>1, <3>2
    <3>4. ASSUME NEW n \in 1 .. m + 1
          PROVE  longer[n] = IF n = m + 1 THEN record ELSE h[n]
      BY <1>3, <3>1
    <3> QED
      BY <3>3, <3>4
  <2>3. ASSUME NEW n \in 1 .. m + 1
        PROVE  c.daily.rows[Nth(ids \cup {r}, n)] = IF n = m + 1 THEN record ELSE h[n]
    <3>1. CASE n = m + 1
      BY <1>2, <1>4, <3>1
    <3>2. CASE n \in 1 .. m
      BY <1>1, <1>2, <1>3, <1>4, <3>2
    <3> QED
      BY <1>3, <3>1, <3>2
  <2> QED
    BY <2>1, <2>2, <2>3
<1>6. ASSUME NEW k \in DOMAIN b.recs, k # id PROVE History(c, k) = History(b, k)
  <2>1. b.recs[k] \subseteq DOMAIN b.daily.rows
    BY KeptFacts
  <2> QED
    BY <1>2, <1>6, <2>1, SameHistory
<1> QED
  BY <1>2, <1>5, <1>6 DEF Histories, Book!Extended, h

\* Without its highest record it lacks its end.
LEMMA HistoryShrunk ==
  ASSUME NEW b, Kept(b), NEW c, NEW id \in DOMAIN b.recs,
         Cardinality(b.recs[id]) >= 2, Shrunk(b, c, id)
  PROVE  Histories(c) = Book!Shortened(Histories(b), id)
<1> DEFINE r == LastRecord(b, id)
<1> DEFINE ids == b.recs[id]
<1> DEFINE m == Cardinality(ids)
<1> DEFINE h == History(b, id)
<1>1. /\ IsFiniteSet(ids) /\ ids \subseteq DOMAIN b.daily.rows
      /\ ids \subseteq Nat /\ ids # {}
  BY KeptFacts DEF Kept
<1>2. /\ c.recs[id] = ids \ {r} /\ DOMAIN c.recs = DOMAIN b.recs
      /\ DOMAIN c.daily.rows = DOMAIN b.daily.rows \ {r}
      /\ \A k \in DOMAIN c.daily.rows : c.daily.rows[k] = b.daily.rows[k]
      /\ \A k \in DOMAIN b.recs \ {id} : c.recs[k] = b.recs[k]
  BY DEF Shrunk
<1>3. /\ m \in Nat /\ m >= 2 /\ h \in Seq(Record) /\ Len(h) = m
      /\ \A n \in 1 .. m : Nth(ids, n) \in ids /\ h[n] = b.daily.rows[Nth(ids, n)]
      /\ Histories(b)[id] = h
  BY HistoryFacts
<1>4. /\ Cardinality(ids \ {r}) = m - 1 /\ IsFiniteSet(ids \ {r})
      /\ \A n \in 1 .. m - 1 : Nth(ids \ {r}, n) = Nth(ids, n)
  BY <1>1, NthOfShrunk, FS_Subset DEF LastRecord
<1>5. \A n \in 1 .. m - 1 : Nth(ids \ {r}, n) \in ids \ {r}
  <2> HIDE DEF r, ids, m
  <2> QED
    BY <1>1, <1>4, NthIsIn
<1> HIDE DEF r, ids, m, h
<1>6. History(c, id) = SubSeq(h, 1, Len(h) - 1)
  <2>1. History(c, id) = [n \in 1 .. m - 1 |-> c.daily.rows[Nth(ids \ {r}, n)]]
    BY <1>2, <1>4 DEF History
  <2>2. SubSeq(h, 1, Len(h) - 1) = [n \in 1 .. m - 1 |-> h[n]]
    BY <1>3
  <2>3. ASSUME NEW n \in 1 .. m - 1
        PROVE  c.daily.rows[Nth(ids \ {r}, n)] = h[n]
    <3> DEFINE x == Nth(ids \ {r}, n)
    <3>1. x \in ids \ {r} /\ x = Nth(ids, n)
      BY <1>4, <1>5
    <3>2. h[n] = b.daily.rows[Nth(ids, n)]
      BY <1>3
    <3> HIDE DEF x
    <3>3. c.daily.rows[x] = b.daily.rows[x]
      BY <1>1, <1>2, <3>1
    <3> QED
      BY <3>1, <3>2, <3>3 DEF x
  <2> QED
    BY <2>1, <2>2, <2>3
<1>7. ASSUME NEW k \in DOMAIN b.recs, k # id PROVE History(c, k) = History(b, k)
  <2>1. b.recs[k] \subseteq DOMAIN b.daily.rows \ {r}
    <3>1. b.recs[k] \cap ids = {} /\ r \in ids
      BY <1>7, KeptFacts DEF Kept, Partitioned, ids, r
    <3>2. b.recs[k] \subseteq DOMAIN b.daily.rows
      BY KeptFacts
    <3> QED
      BY <3>1, <3>2
  <2> QED
    BY <1>2, <1>7, <2>1, SameHistory
<1> QED
  BY <1>2, <1>3, <1>6, <1>7, SMTT(20) DEF Histories, Book!Shortened

-----------------------------------------------------------------------------
\* What each call makes of the histories.
OpenedIn(b, c, desc, balance) ==
  LET id == b.cycle.nextId
      t == FirstRecord(desc, balance)
  IN  /\ id \in Nat \ DOMAIN Histories(b)
      /\ t \in Record /\ t.status = "NEW_ENTRY"
      /\ Histories(c) = [k \in DOMAIN Histories(b) \cup {id} |->
                           IF k = id THEN <<t>> ELSE Histories(b)[k]]

LEMMA AddedHistory ==
  ASSUME NEW b, Kept(b), NEW desc \in Descriptions, NEW balance \in Money,
         Added(b, desc, balance).damage = {}
  PROVE  OpenedIn(b, Added(b, desc, balance), desc, balance)
<1> DEFINE c == Added(b, desc, balance)
<1> DEFINE id == b.cycle.nextId
<1> DEFINE r == b.daily.nextId
<1> DEFINE t == FirstRecord(desc, balance)
<1>1. /\ Kept(c)
      /\ id \in Nat /\ id \notin DOMAIN b.recs
      /\ DOMAIN c.recs = DOMAIN b.recs \cup {id} /\ c.recs[id] = {r}
      /\ \A k \in DOMAIN b.recs : c.recs[k] = b.recs[k]
      /\ c.daily.rows[r] = t
      /\ \A k \in DOMAIN b.daily.rows : c.daily.rows[k] = b.daily.rows[k]
  BY AddedKeeps
<1>2. t \in Record /\ t.status = "NEW_ENTRY"
  BY DEF FirstRecord, NewRecord, Record, Statuses
<1>3. DOMAIN Histories(b) = DOMAIN b.recs
  BY DEF Histories
<1> HIDE DEF c, id, r, t
<1>4. History(c, id) = <<t>>
  <2> DEFINE h == History(c, id)
  <2>1. id \in DOMAIN c.recs /\ Cardinality(c.recs[id]) = 1
    BY <1>1, FS_Singleton
  <2>2. LastRecord(c, id) = r
    BY <1>1, <2>1, KeptFacts
  <2>3. h \in Seq(Record) /\ Len(h) = 1 /\ h[Len(h)] = t
    <3>1. /\ h \in Seq(Record) /\ Len(h) = Cardinality(c.recs[id])
          /\ h[Len(h)] = c.daily.rows[LastRecord(c, id)]
      <4> HIDE DEF h
      <4> QED
        BY <1>1, <2>1, HistoryFacts DEF h
    <3> QED
      BY <1>1, <2>1, <2>2, <3>1
  <2> HIDE DEF h
  <2>4. h = <<t>>
    BY <2>3
  <2> QED
    BY <2>4 DEF h
<1>5. ASSUME NEW k \in DOMAIN b.recs PROVE History(c, k) = History(b, k)
  <2>1. b.recs[k] \subseteq DOMAIN b.daily.rows
    BY KeptFacts
  <2> QED
    BY <1>1, <2>1, SameHistory
<1>6. Histories(c) = [k \in DOMAIN Histories(b) \cup {id} |->
                       IF k = id THEN <<t>> ELSE Histories(b)[k]]
  BY <1>1, <1>3, <1>4, <1>5 DEF Histories
<1>7. id \in Nat \ DOMAIN Histories(b)
  BY <1>1, <1>3
<1> QED
  BY <1>2, <1>6, <1>7 DEF id, t, c, OpenedIn

LEMMA UpdatedHistory ==
  ASSUME NEW b, Kept(b), NEW id, NEW record \in Record,
         Updated(b, id, record).damage = {}
  PROVE  LET c == Updated(b, id, record)
         IN  /\ Kept(c) /\ DOMAIN Histories(c) = DOMAIN Histories(b)
             /\ \/ /\ UpdateReturns(b, id, record.desc)
                   /\ id \in DOMAIN Histories(b)
                   /\ Histories(c) = Book!Extended(Histories(b), id, record)
                \/ /\ ~UpdateReturns(b, id, record.desc)
                   /\ c = b
<1> DEFINE c == Updated(b, id, record)
<1>1. Kept(c) /\ IF CanUpdate(b, id, record.desc) THEN Grown(b, c, id, record) ELSE c = b
  BY UpdatedKeeps
<1>2. UpdateReturns(b, id, record.desc) <=> CanUpdate(b, id, record.desc)
  BY KeptFacts DEF UpdateReturns, CanUpdate
<1>3. DOMAIN Histories(b) = DOMAIN b.recs /\ DOMAIN Histories(c) = DOMAIN c.recs
  BY DEF Histories
<1> HIDE DEF c
<1>4. CASE CanUpdate(b, id, record.desc)
  <2>1. id \in DOMAIN b.recs
    BY <1>4, KeptFacts DEF CanUpdate
  <2>2. Histories(c) = Book!Extended(Histories(b), id, record)
    <3>1. Grown(b, c, id, record)
      BY <1>1, <1>4
    <3> QED
      BY <2>1, <3>1, HistoryGrown
  <2> QED
    BY <1>1, <1>2, <1>3, <1>4, <2>1, <2>2 DEF c, Grown
<1>5. CASE ~CanUpdate(b, id, record.desc)
  BY <1>1, <1>2, <1>5 DEF c
<1> QED
  BY <1>4, <1>5

LEMMA RemovedHistory ==
  ASSUME NEW b, Kept(b), NEW id \in Nat, Removed(b, id).damage = {}
  PROVE  Histories(Removed(b, id)) = [k \in DOMAIN Histories(b) \ {id} |-> Histories(b)[k]]
<1> DEFINE c == Removed(b, id)
<1>1. /\ Kept(c) /\ DOMAIN c.recs = DOMAIN b.recs \ {id}
      /\ \A k \in DOMAIN c.recs : c.recs[k] = b.recs[k]
      /\ \A r \in DOMAIN c.daily.rows : c.daily.rows[r] = b.daily.rows[r]
  BY RemovedKeeps
<1> HIDE DEF c
<1>2. ASSUME NEW k \in DOMAIN c.recs PROVE History(c, k) = History(b, k)
  <2>1. c.recs[k] \subseteq DOMAIN c.daily.rows /\ k \in DOMAIN b.recs
    BY <1>1, KeptFacts
  <2> QED
    BY <1>1, <2>1, SameHistory
<1> QED
  BY <1>1, <1>2 DEF Histories, c

LEMMA ReopenedHistory ==
  ASSUME NEW b, Kept(b)
  PROVE  Histories(Reopened(b)) = Histories(b)
<1> DEFINE c == Reopened(b)
<1>1. c.recs = b.recs /\ c.daily.rows = b.daily.rows
  BY ReopenedKeeps
<1> HIDE DEF c
<1> QED
  BY <1>1 DEF Histories, History, c

-----------------------------------------------------------------------------
\* What a call leaves alone, from books b to books c: only the entries named
\* have new histories, and those show the text that an UPDATE has written.
Told(c, k) == c.cycle.rows[k].desc = Pasted[Book!Latest(Histories(c)[k]).desc]

Only(b, c, ids) ==
  /\ DOMAIN c.recs \subseteq DOMAIN b.recs
  /\ \A k \in DOMAIN c.recs :
       \/ /\ Histories(c)[k] = Histories(b)[k]
          /\ c.cycle.rows[k] = b.cycle.rows[k]
       \/ k \in ids /\ Told(c, k)

LEMMA OnlyThenOnly ==
  ASSUME NEW a, NEW b, NEW c, NEW S, NEW T, Only(a, b, S), Only(b, c, T)
  PROVE  Only(a, c, S \cup T)
BY DEF Only, Told

\* Histories hold transactions, and what is added last comes last.
LEMMA ExtendedLatest ==
  ASSUME NEW g, NEW id \in DOMAIN g, g[id] \in Seq(Record), NEW t \in Record
  PROVE  /\ DOMAIN Book!Extended(g, id, t) = DOMAIN g
         /\ Book!Extended(g, id, t)[id] \in Seq(Record)
         /\ Book!Latest(Book!Extended(g, id, t)[id]) = t
         /\ \A k \in DOMAIN g \ {id} : Book!Extended(g, id, t)[k] = g[k]
<1> DEFINE h == Book!Extended(g, id, t)
<1>1. DOMAIN h = DOMAIN g /\ h[id] = Append(g[id], t)
      /\ \A k \in DOMAIN g \ {id} : h[k] = g[k]
  BY DEF Book!Extended
<1>2. /\ Append(g[id], t) \in Seq(Record)
      /\ Append(g[id], t)[Len(Append(g[id], t))] = t
  BY AppendProperties
<1> HIDE DEF h
<1> QED
  BY <1>1, <1>2 DEF h, Book!Latest

\* An update that returns extends the history of its entry alone.
ExtendedIn(b, c, id, record) ==
  /\ Kept(c) /\ DOMAIN c.recs = DOMAIN b.recs
  /\ DOMAIN c.cycle.rows = DOMAIN b.cycle.rows
  /\ id \in DOMAIN b.recs
  /\ Histories(c) = Book!Extended(Histories(b), id, record)
  /\ Book!Latest(Histories(c)[id]) = record
  /\ Only(b, c, {id})

LEMMA UpdatedOnly ==
  ASSUME NEW b, Kept(b), NEW id, NEW record \in Record,
         Updated(b, id, record).damage = {}, UpdateReturns(b, id, record.desc)
  PROVE  ExtendedIn(b, Updated(b, id, record), id, record)
<1> DEFINE c == Updated(b, id, record)
<1> DEFINE entry == UpdatedEntry(b.cycle.rows[id], record)
<1>1. CanUpdate(b, id, record.desc) /\ id \in DOMAIN b.recs /\ id \in DOMAIN b.cycle.rows
  BY DEF UpdateReturns, CanUpdate
<1>2. /\ Kept(c) /\ Grown(b, c, id, record)
      /\ c.cycle.rows = [b.cycle.rows EXCEPT ![id] = entry]
  BY <1>1, UpdatedKeeps
<1> HIDE DEF c
<1>3. entry.desc = Pasted[record.desc]
  BY DEF UpdatedEntry
<1> HIDE DEF entry
<1>4. Histories(c) = Book!Extended(Histories(b), id, record)
  <2>1. id \in DOMAIN b.recs
    BY <1>1
  <2>2. Grown(b, c, id, record)
    BY <1>2
  <2> QED
    BY <2>1, <2>2, HistoryGrown
<1>5. DOMAIN Histories(b) = DOMAIN b.recs /\ DOMAIN c.recs = DOMAIN b.recs
  BY <1>2 DEF Histories, Grown
<1>6. Histories(b)[id] \in Seq(Record)
  BY <1>1, HistoryFacts
<1>7. /\ Book!Latest(Histories(c)[id]) = record
      /\ \A k \in DOMAIN b.recs \ {id} : Histories(c)[k] = Histories(b)[k]
  BY <1>1, <1>4, <1>5, <1>6, ExtendedLatest
<1>8. /\ c.cycle.rows[id].desc = Pasted[record.desc]
      /\ DOMAIN c.cycle.rows = DOMAIN b.cycle.rows
      /\ \A k \in DOMAIN b.recs \ {id} : c.cycle.rows[k] = b.cycle.rows[k]
  BY <1>1, <1>2, <1>3, KeptFacts
<1>9. Only(b, c, {id})
  BY <1>5, <1>7, <1>8 DEF Only, Told
<1> QED
  BY <1>1, <1>2, <1>4, <1>5, <1>7, <1>8, <1>9 DEF c, ExtendedIn

\* An undo shortens the history of its entry alone.
LEMMA UndoneOnly ==
  ASSUME NEW b, Kept(b), NEW id \in DOMAIN b.recs, Undone(b, id).damage = {}
  PROVE  LET c == Undone(b, id)
         IN  /\ Kept(c) /\ DOMAIN c.recs = DOMAIN b.recs
             /\ UndoReturns(b, id)
             /\ Histories(c) = Book!Shortened(Histories(b), id)
             /\ Only(b, c, {id})
<1> DEFINE c == Undone(b, id)
<1> DEFINE last == LastRecord(b, id)
<1> DEFINE previous == PreviousRecord(b, id)
<1> DEFINE entry == RolledBack(b.cycle.rows[id], b.daily.rows[last].value,
                               b.daily.rows[previous])
<1>1. /\ id \in DOMAIN b.cycle.rows /\ last \in b.recs[id]
      /\ b.recs[id] \subseteq DOMAIN b.daily.rows /\ IsFiniteSet(b.recs[id])
  BY KeptFacts
<1>2. Cardinality(b.recs[id]) >= 2 <=> CanUndo(b, id)
  BY <1>1 DEF CanUndo
<1>3. /\ Kept(c)
      /\ CanUndo(b, id) => /\ Restorable(b, id) /\ Shrunk(b, c, id)
                           /\ c.cycle.rows = [b.cycle.rows EXCEPT ![id] = entry]
      /\ ~CanUndo(b, id) => c = b
  BY UndoneKeeps
<1> HIDE DEF c
<1>4. UndoReturns(b, id)
  BY <1>1, <1>2, <1>3 DEF UndoReturns
<1>5. CASE ~CanUndo(b, id)
  <2>1. Histories(b)[id] = History(b, id) /\ Len(History(b, id)) = Cardinality(b.recs[id])
        /\ Cardinality(b.recs[id]) \in Nat
    BY HistoryFacts
  <2>2. ~(Len(Histories(b)[id]) > 1)
    BY <1>2, <1>5, <2>1
  <2>3. Histories(b) = Book!Shortened(Histories(b), id)
    BY <2>2 DEF Book!Shortened
  <2>4. Only(b, b, {id})
    BY DEF Only
  <2> QED
    BY <1>3, <1>4, <1>5, <2>3, <2>4 DEF c
<1>6. CASE CanUndo(b, id)
  <2>1. Histories(c) = Book!Shortened(Histories(b), id)
    BY <1>2, <1>3, <1>6, HistoryShrunk
  <2>2. /\ DOMAIN c.recs = DOMAIN b.recs /\ c.recs[id] = b.recs[id] \ {last}
        /\ DOMAIN c.daily.rows = DOMAIN b.daily.rows \ {last}
        /\ \A k \in DOMAIN c.daily.rows : c.daily.rows[k] = b.daily.rows[k]
        /\ \A k \in DOMAIN b.recs \ {id} : c.recs[k] = b.recs[k]
    BY <1>3, <1>6 DEF Shrunk
  <2>3. LastRecord(c, id) = previous
    BY <2>2 DEF LastRecord, PreviousRecord
  <2> HIDE DEF previous
  <2>4. previous \in DOMAIN c.daily.rows
    BY <1>3, <2>2, <2>3, KeptFacts
  <2>5. Book!Latest(Histories(c)[id]) = b.daily.rows[previous]
    <3>1. /\ Histories(c)[id] = History(c, id)
          /\ History(c, id)[Len(History(c, id))] = c.daily.rows[LastRecord(c, id)]
      BY <1>3, <2>2, HistoryFacts
    <3> QED
      BY <2>2, <2>3, <2>4, <3>1 DEF Book!Latest
  <2>6. entry.desc = Pasted[b.daily.rows[previous].desc]
    BY DEF RolledBack
  <2> HIDE DEF entry, last
  <2>7. Told(c, id)
    BY <1>1, <1>3, <1>6, <2>5, <2>6 DEF Told
  <2>8. ASSUME NEW k \in DOMAIN b.recs \ {id}
        PROVE  Histories(c)[k] = Histories(b)[k] /\ c.cycle.rows[k] = b.cycle.rows[k]
    <3>1. DOMAIN Histories(b) = DOMAIN b.recs
      BY DEF Histories
    <3>2. Histories(c)[k] = Histories(b)[k]
      BY <2>1, <2>8, <3>1 DEF Book!Shortened
    <3>3. k \in DOMAIN b.cycle.rows /\ k # id
      BY <2>8, KeptFacts
    <3> QED
      BY <1>3, <1>6, <3>2, <3>3
  <2>9. Only(b, c, {id})
    BY <2>2, <2>7, <2>8 DEF Only
  <2> QED
    BY <1>3, <1>4, <2>1, <2>2, <2>9 DEF c
<1> QED
  BY <1>5, <1>6

-----------------------------------------------------------------------------
\* The operators Accounts shares with Ledger are the same in both.
LEMMA SameAmounts ==
  \A n : Book!Wrap(n) = Wrap(n) /\ Book!Hundredth(n) = Hundredth(n)
BY DEF Book!Wrap, Wrap, Book!Hundredth, Hundredth

LEMMA SameSums ==
  \A f, S : Book!SumFunctionOnSet(f, S) = SumFunctionOnSet(f, S)
BY DEF Book!SumFunctionOnSet, SumFunctionOnSet, Book!FoldFunctionOnSet,
       FoldFunctionOnSet, Book!MapThenFoldSet, MapThenFoldSet

LEMMA SumOfHistory ==
  ASSUME NEW b, Kept(b), NEW id \in DOMAIN b.recs
  PROVE  Book!SumOf(History(b, id)) = SumFunctionOnSet(Amount(b), b.recs[id])
<1> DEFINE h == History(b, id)
<1> DEFINE ids == b.recs[id]
<1> DEFINE f == Amount(b)
<1> DEFINE g == [n \in DOMAIN h |-> h[n].value]
<1>1. IsFiniteSet(ids) /\ ids \subseteq DOMAIN b.daily.rows /\ ids \subseteq Nat
  BY KeptFacts
<1>2. /\ DOMAIN h = 1 .. Cardinality(ids)
      /\ \A n \in 1 .. Cardinality(ids) :
           Nth(ids, n) \in ids /\ h[n] = b.daily.rows[Nth(ids, n)]
  BY HistoryFacts
<1>3. \A r \in ids : f[r] = b.daily.rows[r].value /\ f[r] \in Int
  BY <1>1, AmountType
<1> HIDE DEF h, ids, f
<1>4. DOMAIN g = 1 .. Cardinality(ids) /\ \A n \in 1 .. Cardinality(ids) : g[n] = f[Nth(ids, n)]
  BY <1>2, <1>3
<1>5. Book!SumOf(h) = SumFunctionOnSet(g, DOMAIN g)
  BY SameSums DEF Book!SumOf, Book!SumFunction
<1> HIDE DEF g
<1>6. SumFunctionOnSet(g, 1 .. Cardinality(ids)) = SumFunctionOnSet(f, ids)
  BY <1>1, <1>3, <1>4, SumByPlace
<1> QED
  BY <1>4, <1>5, <1>6 DEF h, ids, f

\* In books in order an entry shows what its history says, under some text.
LEMMA EntriesShowHistories ==
  ASSUME NEW b, InOrder(b), "NEW_ENTRY" \notin GivenStatus, NEW id \in DOMAIN b.recs
  PROVE  b.cycle.rows[id] = Book!Shown(Histories(b)[id], b.cycle.rows[id].desc)
<1> DEFINE entry == b.cycle.rows[id]
<1> DEFINE h == History(b, id)
<1> DEFINE t == b.daily.rows[LastRecord(b, id)]
<1>1. Kept(b) /\ Balanced(b) /\ Mirrored(b)
  BY DEF InOrder
<1>2. DOMAIN b.cycle.rows = DOMAIN b.recs
  BY <1>1, KeptFacts
<1>3. entry \in Entry /\ Follows(entry, t)
  BY <1>1, KeptFacts, MirroredFacts
<1>4. entry.balance = Wrap(Book!SumOf(h))
  BY <1>1, <1>2, SumOfHistory DEF Balanced
<1>5. Histories(b)[id] = h /\ Book!Latest(h) = t
  BY <1>1, HistoryFacts DEF Book!Latest
<1>6. Book!Wrap(Book!SumOf(h)) = Wrap(Book!SumOf(h))
  BY SameAmounts
<1> HIDE DEF entry, h, t
<1>7. entry = [balance |-> entry.balance, last |-> entry.last, desc |-> entry.desc,
               status |-> entry.status]
  BY <1>3 DEF Entry
<1>8. Book!Shown(h, entry.desc) =
        [balance |-> Wrap(Book!SumOf(h)),
         last |-> IF t.status = "NEW_ENTRY" THEN 0 ELSE t.value,
         desc |-> entry.desc,
         status |-> IF t.status = "NEW_ENTRY" THEN "UNKNOWN" ELSE t.status]
  BY <1>5, <1>6 DEF Book!Shown
<1>9. entry = Book!Shown(h, entry.desc)
  BY <1>3, <1>4, <1>7, <1>8 DEF Follows
<1> QED
  BY <1>5, <1>9 DEF entry

-----------------------------------------------------------------------------
\* Each call is the step of Accounts that is meant by it.

LEMMA OnlyNamedChange ==
  ASSUME Kept(books), InOrder(books'), "NEW_ENTRY" \notin GivenStatus,
         NEW ids, Only(books, books', ids)
  PROVE  Book!OnlyOf(ids)
<1>1. /\ DOMAIN books'.cycle.rows = DOMAIN books'.recs
      /\ DOMAIN Histories(books') = DOMAIN books'.recs
  BY KeptFacts DEF InOrder, Histories
<1>2. ASSUME NEW k \in DOMAIN Histories(books')
      PROVE  \/ /\ Histories(books')[k] = Histories(books)[k]
                /\ books'.cycle.rows[k] = books.cycle.rows[k]
             \/ /\ k \in ids
                /\ books'.cycle.rows[k] =
                     Book!Shown(Histories(books')[k],
                                Pasted[Book!Latest(Histories(books')[k]).desc])
  <2>1. books'.cycle.rows[k] =
          Book!Shown(Histories(books')[k], books'.cycle.rows[k].desc)
    BY <1>1, EntriesShowHistories
  <2> QED
    BY <1>1, <2>1 DEF Only, Told
<1> QED
  BY <1>1, <1>2 DEF Book!OnlyOf, Histories

\* A call that changes no row changes no account.
LEMMA NothingChanges ==
  ASSUME Histories(books') = Histories(books), books'.cycle.rows = books.cycle.rows,
         \/ Book!Threw("update") \/ Book!Threw("applyPolicy") \/ Book!Returned("open")
         \/ /\ Book!Threw("undo") \/ Book!Threw("remove")
            /\ reply'.id \notin DOMAIN books.recs
         \/ /\ Book!Threw("undoPolicy")
            /\ reply'.id \in DOMAIN policy.rows
               => policy.rows[reply'.id].source \notin DOMAIN books.recs
  PROVE  Book!Refused
BY DEF Book!Refused, Book!Known, Book!Policy, Histories

LEMMA AddOpens ==
  ASSUME Kept(books), InOrder(books'), "NEW_ENTRY" \notin GivenStatus,
         NEW desc \in Descriptions, NEW balance \in Openings, Add(desc, balance)
  PROVE  Book!Opened
<1> DEFINE id == books.cycle.nextId
<1> DEFINE t == FirstRecord(desc, balance)
<1> DEFINE g == Histories(books)
<1> DEFINE h == Histories(books')
<1> DEFINE state == books.cycle.rows
<1> DEFINE after == books'.cycle.rows
<1>1. /\ books' = Added(books, desc, balance) /\ balance \in Money
      /\ books'.damage = {} /\ id < MaxEntry
      /\ reply' = Reply("add", id, TRUE)
  BY LedgerAssumption DEF Add, InOrder, Kept
<1>2. /\ id \in Nat \ DOMAIN g /\ t \in Record /\ t.status = "NEW_ENTRY"
      /\ h = [k \in DOMAIN g \cup {id} |-> IF k = id THEN <<t>> ELSE g[k]]
  <2>1. Added(books, desc, balance).damage = {}
    BY <1>1
  <2>2. OpenedIn(books, Added(books, desc, balance), desc, balance)
    BY <1>1, <2>1, AddedHistory
  <2>3. OpenedIn(books, books', desc, balance)
    BY <1>1, <2>2
  <2> QED
    BY <2>3 DEF OpenedIn
<1>3. t.desc = desc
  BY DEF FirstRecord, NewRecord
<1>4. /\ DOMAIN after = DOMAIN state \cup {id}
      /\ after[id] = FirstEntry(desc, balance)
      /\ \A k \in DOMAIN state : after[k] = state[k]
  BY <1>1, AddedKeeps
<1>5. DOMAIN state = DOMAIN g /\ id \in DOMAIN books'.recs
  BY <1>1, AddedKeeps, KeptFacts DEF Histories
<1>6. after = [k \in DOMAIN after |-> after[k]]
  BY DEF InOrder, Kept, WellFormed, IsBooks, IsTable, IsRows
<1>7. after[id] = Book!Shown(h[id], after[id].desc)
  BY <1>5, EntriesShowHistories
<1>8. FirstEntry(desc, balance).desc = desc
  BY DEF FirstEntry
<1>9. id \in EntryId
  BY <1>1, <1>2, LedgerAssumption DEF EntryId
<1>10. Book!Returned("add") /\ reply'.id = id
  BY <1>1 DEF Reply, Book!Returned
<1> HIDE DEF id, t, g, h, state, after
<1>11. h[id] = <<t>> /\ Book!Latest(h[id]) = t /\ id \in DOMAIN h
  BY <1>2 DEF Book!Latest
<1>12. after[id] = Book!Shown(<<t>>, t.desc)
  BY <1>3, <1>4, <1>7, <1>8, <1>11
<1>13. id \notin DOMAIN state
  BY <1>2, <1>5
<1>14. after = [k \in DOMAIN g \cup {id} |->
                  IF k = id THEN Book!Shown(<<t>>, t.desc) ELSE state[k]]
  BY <1>4, <1>5, <1>6, <1>12, <1>13
<1>15. /\ reply'.id \in EntryId \ DOMAIN g /\ reply'.id \in DOMAIN h
       /\ Book!Latest(h[reply'.id]) \in Record
       /\ Book!Latest(h[reply'.id]).status = "NEW_ENTRY"
       /\ h = [k \in DOMAIN g \cup {reply'.id} |->
                 IF k = reply'.id THEN <<Book!Latest(h[reply'.id])>> ELSE g[k]]
       /\ after = [k \in DOMAIN g \cup {reply'.id} |->
                     IF k = reply'.id
                       THEN Book!Shown(<<Book!Latest(h[reply'.id])>>,
                                       Book!Latest(h[reply'.id]).desc)
                       ELSE state[k]]
  BY <1>2, <1>9, <1>10, <1>11, <1>14
<1> QED
  BY <1>10, <1>15 DEF Book!Opened, g, h, state, after, Histories

LEMMA UpdateTransacts ==
  ASSUME Kept(books), InOrder(books'), "NEW_ENTRY" \notin GivenStatus,
         NEW id, NEW record \in Record, books' = Updated(books, id, record),
         reply' = Reply("update", id, UpdateReturns(books, id, record.desc))
  PROVE  Book!Transacted \/ Book!Refused
<1>1. books'.damage = {} /\ reply'.id = id
  BY DEF InOrder, Kept, Reply
<1>2. CASE UpdateReturns(books, id, record.desc)
  <2>1. /\ id \in DOMAIN books.recs
        /\ Histories(books') = Book!Extended(Histories(books), id, record)
        /\ Book!Latest(Histories(books')[id]) = record
        /\ Only(books, books', {id})
    <3>1. Updated(books, id, record).damage = {}
      BY <1>1
    <3>2. ExtendedIn(books, Updated(books, id, record), id, record)
      BY <1>2, <3>1, UpdatedOnly
    <3> QED
      BY <3>2 DEF ExtendedIn
  <2>2. Book!Returned("update") /\ Book!OnlyOf({id})
    BY <1>2, <2>1, OnlyNamedChange DEF Reply, Book!Returned
  <2>3. DOMAIN Histories(books) = DOMAIN books.recs
    BY DEF Histories
  <2> QED
    BY <1>1, <2>1, <2>2, <2>3 DEF Book!Transacted, Histories
<1>3. CASE ~UpdateReturns(books, id, record.desc)
  <2>1. books' = books
    BY <1>1, <1>3, UpdatedHistory
  <2>2. Book!Threw("update")
    BY <1>3 DEF Reply, Book!Threw
  <2> QED
    BY <2>1, <2>2, NothingChanges
<1> QED
  BY <1>2, <1>3

LEMMA RemoveCloses ==
  ASSUME Kept(books), InOrder(books'), "NEW_ENTRY" \notin GivenStatus,
         NEW id \in EntryId, Remove(id)
  PROVE  Book!Closed \/ Book!Refused
<1>1. /\ books' = Removed(books, id) /\ books'.damage = {} /\ id \in Nat
      /\ reply' = Reply("remove", id, RemoveReturns(books, id)) /\ reply'.id = id
  BY LedgerAssumption DEF Remove, InOrder, Kept, Reply, EntryId
<1>2. Histories(books') = [k \in DOMAIN Histories(books) \ {id} |-> Histories(books)[k]]
  BY <1>1, RemovedHistory
<1>3. /\ DOMAIN books'.cycle.rows = DOMAIN books.cycle.rows \ {id}
      /\ \A k \in DOMAIN books'.cycle.rows : books'.cycle.rows[k] = books.cycle.rows[k]
      /\ DOMAIN books'.recs = DOMAIN books.recs \ {id}
  BY <1>1, RemovedKeeps
<1>4. /\ DOMAIN books.cycle.rows = DOMAIN books.recs
      /\ DOMAIN Histories(books) = DOMAIN books.recs
  BY KeptFacts DEF Histories
<1>5. CASE id \in DOMAIN books.recs
  <2>1. CanDelete(books, id)
    <3>1. CASE ~CanDelete(books, id)
      <4>1. "remove" \in books'.damage
        BY <1>1, <1>5, <3>1 DEF Removed
      <4> QED
        BY <1>1, <4>1
    <3> QED
      BY <3>1
  <2>2. Book!Returned("remove")
    BY <1>1, <1>5, <2>1 DEF Reply, RemoveReturns, Book!Returned
  <2>3. \A k \in DOMAIN books'.recs : Histories(books')[k] = Histories(books)[k]
    BY <1>2, <1>3, <1>4
  <2>4. Only(books, books', {})
    BY <1>3, <1>4, <2>3 DEF Only
  <2>5. Book!OnlyOf({})
    BY <2>4, OnlyNamedChange
  <2> QED
    BY <1>1, <1>2, <1>4, <1>5, <2>2, <2>5 DEF Book!Closed, Histories
<1>6. CASE id \notin DOMAIN books.recs
  <2>1. Histories(books) = [k \in DOMAIN Histories(books) |-> Histories(books)[k]]
    BY DEF Histories
  <2>2. DOMAIN Histories(books) \ {id} = DOMAIN Histories(books)
    BY <1>4, <1>6
  <2>3. Histories(books') = Histories(books)
    BY <1>2, <2>1, <2>2
  <2>4. /\ books'.cycle.rows = [k \in DOMAIN books'.cycle.rows |-> books'.cycle.rows[k]]
        /\ books.cycle.rows = [k \in DOMAIN books.cycle.rows |-> books.cycle.rows[k]]
    BY DEF InOrder, Kept, WellFormed, IsBooks, IsTable, IsRows
  <2>5. books'.cycle.rows = books.cycle.rows
    BY <1>3, <1>4, <1>6, <2>4
  <2>6. Book!Threw("remove")
    BY <1>1, <1>6 DEF Reply, RemoveReturns, Book!Threw
  <2> QED
    BY <1>1, <1>6, <2>3, <2>5, <2>6, NothingChanges
<1> QED
  BY <1>5, <1>6

\* undo of an entry that does not exist.
LEMMA NothingToUndo ==
  ASSUME NEW b, NEW id, id \notin DOMAIN b.recs
  PROVE  Undone(b, id) = b /\ ~UndoReturns(b, id)
BY DEF Undone, CanUndo, UndoReturns

LEMMA UndoUndoes ==
  ASSUME Kept(books), InOrder(books'), "NEW_ENTRY" \notin GivenStatus,
         NEW id \in EntryId, Undo(id)
  PROVE  Book!Undone \/ Book!Refused
<1>1. /\ books' = Undone(books, id) /\ books'.damage = {}
      /\ reply' = Reply("undo", id, UndoReturns(books, id)) /\ reply'.id = id
  BY DEF Undo, InOrder, Kept, Reply
<1>2. DOMAIN Histories(books) = DOMAIN books.recs
  BY DEF Histories
<1>3. CASE id \in DOMAIN books.recs
  <2>1. /\ UndoReturns(books, id)
        /\ Histories(books') = Book!Shortened(Histories(books), id)
        /\ Only(books, books', {id})
    BY <1>1, <1>3, UndoneOnly
  <2>2. Book!Returned("undo") /\ Book!OnlyOf({id})
    BY <1>1, <2>1, OnlyNamedChange DEF Reply, Book!Returned
  <2> QED
    BY <1>1, <1>2, <1>3, <2>1, <2>2 DEF Book!Undone, Histories
<1>4. CASE id \notin DOMAIN books.recs
  <2>1. books' = books /\ ~UndoReturns(books, id)
    BY <1>1, <1>4, NothingToUndo
  <2>2. Book!Threw("undo")
    BY <1>1, <2>1 DEF Reply, Book!Threw
  <2> QED
    BY <1>1, <1>4, <2>1, <2>2, NothingChanges
<1> QED
  BY <1>3, <1>4

-----------------------------------------------------------------------------
\* The policies, as Accounts sees them.

\* applyPolicy extends two histories, or one if the destination is gone, or none.
LEMMA ApplyTransfers ==
  ASSUME TypeOK, Kept(books), InOrder(books'), "NEW_ENTRY" \notin GivenStatus,
         NEW pid \in PolicyId, ApplyPolicy(pid)
  PROVE  Book!Transferred \/ Book!Debited \/ Book!Refused
<1> DEFINE p == policy.rows[pid]
<1> DEFINE source == p.source
<1> DEFINE destination == p.destination
<1> DEFINE share == PolicyRecord(p, Portion(books, p))
<1> DEFINE debit == PolicyRecord(p, -Portion(books, p))
<1> DEFINE a == Updated(books, source, debit)
<1> DEFINE g == Histories(books)
<1>1. /\ pid \in DOMAIN policy.rows /\ p \in Policy /\ source \in DOMAIN books.cycle.rows
      /\ books' = Applied(books, p) /\ books'.damage = {}
      /\ reply' = Reply("applyPolicy", pid, ApplyReturns(books, p)) /\ reply'.id = pid
  BY DEF ApplyPolicy, TypeOK, IsTable, IsRows, InOrder, Kept, Reply
<1>2. /\ share \in Record /\ debit \in Record
      /\ share.desc = p.desc /\ debit.desc = p.desc
      /\ debit = [share EXCEPT !.value = -@]
  BY <1>1, PolicyRecordType DEF Kept, PolicyRecord, NewRecord
<1>3. a.damage = {}
  BY <1>1, AppliedParts DEF Kept
<1>4. books' = IF UpdateReturns(books, source, p.desc)
                 THEN Updated(a, destination, share) ELSE a
  BY <1>1 DEF Applied
<1>5. /\ Book!Known /\ Book!Policy = p
      /\ Book!Share = share /\ Book!Debit = debit
      /\ Book!Parties = {source, destination}
  <2>1. Book!Known /\ Book!Policy = p
    BY <1>1 DEF Book!Known, Book!Policy
  <2>2. Book!Share = share
    BY <2>1, SameAmounts DEF Book!Share, PolicyRecord, NewRecord, Portion
  <2>3. Book!Debit = debit
    BY <1>2, <2>2 DEF Book!Debit
  <2> QED
    BY <2>1, <2>2, <2>3 DEF Book!Parties
<1>6. DOMAIN g = DOMAIN books.recs /\ DOMAIN books.cycle.rows = DOMAIN books.recs
      /\ books.entryIds = DOMAIN books.recs
  BY KeptFacts DEF Histories
<1> HIDE DEF p, share, debit, a, g
<1>7. CASE ~UpdateReturns(books, source, p.desc)
  <2>1. books' = books
    BY <1>2, <1>3, <1>4, <1>7, UpdatedHistory DEF a
  <2>2. Book!Threw("applyPolicy")
    BY <1>1, <1>7 DEF ApplyReturns, Reply, Book!Threw
  <2> QED
    BY <2>1, <2>2, NothingChanges
<1>8. CASE UpdateReturns(books, source, p.desc)
  <2>1. /\ Kept(a) /\ DOMAIN a.recs = DOMAIN books.recs
        /\ DOMAIN a.cycle.rows = DOMAIN books.cycle.rows
        /\ Histories(a) = Book!Extended(g, source, debit)
        /\ Only(books, a, {source})
    <3>1. UpdateReturns(books, source, debit.desc)
      BY <1>2, <1>8
    <3>2. Updated(books, source, debit).damage = {}
      BY <1>3 DEF a
    <3>3. ExtendedIn(books, Updated(books, source, debit), source, debit)
      BY <1>2, <3>1, <3>2, UpdatedOnly
    <3> QED
      BY <3>3 DEF a, g, ExtendedIn
  <2>2. p.desc \notin Unpastable
    BY <1>8 DEF UpdateReturns, CanUpdate
  <2>3. UpdateReturns(a, destination, p.desc) <=> destination \in DOMAIN books.recs
    BY <1>6, <2>1, <2>2, KeptFacts DEF UpdateReturns, CanUpdate
  <2>4. UpdateReturns(books, destination, p.desc) <=> destination \in DOMAIN books.recs
    BY <1>6, <2>2 DEF UpdateReturns, CanUpdate
  <2>5. books' = Updated(a, destination, share)
    BY <1>4, <1>8
  <2>6. CASE destination \in DOMAIN books.recs
    <3>1. /\ Histories(books') = Book!Extended(Histories(a), destination, share)
          /\ Only(a, books', {destination})
      <4>1. UpdateReturns(a, destination, share.desc)
        BY <1>2, <2>3, <2>6
      <4>2. Updated(a, destination, share).damage = {}
        BY <1>1, <2>5
      <4>3. ExtendedIn(a, Updated(a, destination, share), destination, share)
        BY <1>2, <2>1, <4>1, <4>2, UpdatedOnly
      <4> QED
        BY <2>5, <4>3 DEF ExtendedIn
    <3>2. Only(books, books', {source, destination})
      <4>1. {source} \cup {destination} = {source, destination}
        OBVIOUS
      <4> QED
        BY <2>1, <3>1, <4>1, OnlyThenOnly
    <3>3. Book!OnlyOf({source, destination})
      BY <3>2, OnlyNamedChange
    <3>4. Book!Returned("applyPolicy")
      BY <1>1, <1>8, <2>4, <2>6 DEF ApplyReturns, Reply, Book!Returned
    <3>5. Book!HasParties
      BY <1>1, <1>5, <1>6, <2>6 DEF Book!HasParties, g, Histories
    <3>6. Histories(books') = Book!Extended(Book!Extended(g, source, debit),
                                            destination, share)
      BY <2>1, <3>1
    <3>7. Histories(books') = Book!Extended(Book!Extended(g, Book!Policy.source, Book!Debit),
                                            Book!Policy.destination, Book!Share)
      BY <1>5, <3>6
    <3> QED
      BY <1>5, <3>3, <3>4, <3>5, <3>7 DEF Book!Transferred, g, Histories
  <2>7. CASE destination \notin DOMAIN books.recs
    <3>1. books' = a
      BY <1>1, <1>2, <2>1, <2>3, <2>5, <2>7, UpdatedHistory
    <3>2. Book!OnlyOf({source})
      BY <2>1, <3>1, OnlyNamedChange
    <3>3. Book!Threw("applyPolicy")
      BY <1>1, <2>4, <2>7 DEF ApplyReturns, Reply, Book!Threw
    <3>4. Book!HasSourceOnly
      BY <1>1, <1>5, <1>6, <2>7 DEF Book!HasSourceOnly, g, Histories
    <3>5. Histories(books') = Book!Extended(g, Book!Policy.source, Book!Debit)
      BY <1>5, <2>1, <3>1
    <3> QED
      BY <1>5, <3>2, <3>3, <3>4, <3>5 DEF Book!Debited, g, Histories
  <2> QED
    BY <2>6, <2>7
<1> QED
  BY <1>7, <1>8

\* undoPolicy shortens two histories, one, or none.
LEMMA UndoPolicyUndoes ==
  ASSUME Kept(books), InOrder(books'), "NEW_ENTRY" \notin GivenStatus,
         NEW pid \in PolicyId, UndoPolicy(pid)
  PROVE  Book!TransferUndone \/ Book!HalfUndone \/ Book!Refused
<1> DEFINE p == policy.rows[pid]
<1> DEFINE source == p.source
<1> DEFINE destination == p.destination
<1> DEFINE a == Undone(books, source)
<1> DEFINE g == Histories(books)
<1>1. /\ pid \in DOMAIN policy.rows
      /\ books' = PolicyUndone(books, p) /\ books'.damage = {}
      /\ reply' = Reply("undoPolicy", pid, PolicyUndoReturns(books, p)) /\ reply'.id = pid
  BY DEF UndoPolicy, InOrder, Kept, Reply
<1>2. a.damage = {}
  BY <1>1, PolicyUndoneParts DEF Kept
<1>3. /\ Book!Known /\ Book!Policy = p /\ Book!Parties = {source, destination}
  BY <1>1 DEF Book!Known, Book!Policy, Book!Parties
<1>4. books' = IF UndoReturns(books, source) THEN Undone(a, destination) ELSE a
  BY <1>1 DEF PolicyUndone
<1>5. PolicyUndoReturns(books, p) <=> UndoReturns(books, source) /\ UndoReturns(a, destination)
  BY DEF PolicyUndoReturns
<1>6. DOMAIN g = DOMAIN books.recs
  BY DEF Histories
<1> HIDE DEF p, a, g
<1>7. CASE source \notin DOMAIN books.recs
  <2>1. books' = books /\ ~UndoReturns(books, source)
    BY <1>4, <1>7, NothingToUndo DEF a
  <2>2. Book!Threw("undoPolicy")
    BY <1>1, <1>5, <2>1 DEF Reply, Book!Threw
  <2> QED
    BY <1>1, <1>7, <2>1, <2>2, NothingChanges DEF p
<1>8. CASE source \in DOMAIN books.recs
  <2>1. /\ Kept(a) /\ DOMAIN a.recs = DOMAIN books.recs
        /\ UndoReturns(books, source)
        /\ Histories(a) = Book!Shortened(g, source)
        /\ Only(books, a, {source})
    BY <1>2, <1>8, UndoneOnly DEF a, g
  <2>2. books' = Undone(a, destination)
    BY <1>4, <2>1
  <2>3. CASE destination \in DOMAIN books.recs
    <3>1. /\ UndoReturns(a, destination)
          /\ Histories(books') = Book!Shortened(Histories(a), destination)
          /\ Only(a, books', {destination})
      BY <1>1, <2>1, <2>2, <2>3, UndoneOnly
    <3>2. Only(books, books', {source, destination})
      <4>1. {source} \cup {destination} = {source, destination}
        OBVIOUS
      <4> QED
        BY <2>1, <3>1, <4>1, OnlyThenOnly
    <3>3. Book!OnlyOf({source, destination})
      BY <3>2, OnlyNamedChange
    <3>4. Book!Returned("undoPolicy")
      BY <1>1, <1>5, <2>1, <3>1 DEF Reply, Book!Returned
    <3>5. Book!HasParties
      BY <1>3, <1>6, <1>8, <2>3 DEF Book!HasParties, g, Histories
    <3>6. Histories(books') =
            Book!Shortened(Book!Shortened(g, Book!Policy.source), Book!Policy.destination)
      BY <1>3, <2>1, <3>1
    <3> QED
      BY <1>3, <3>3, <3>4, <3>5, <3>6 DEF Book!TransferUndone, g, Histories
  <2>4. CASE destination \notin DOMAIN books.recs
    <3>1. books' = a /\ ~UndoReturns(a, destination)
      BY <2>1, <2>2, <2>4, NothingToUndo
    <3>2. Book!OnlyOf({source})
      BY <2>1, <3>1, OnlyNamedChange
    <3>3. Book!Threw("undoPolicy")
      BY <1>1, <1>5, <3>1 DEF Reply, Book!Threw
    <3>4. Book!HasSourceOnly
      BY <1>3, <1>6, <1>8, <2>4 DEF Book!HasSourceOnly, g, Histories
    <3>5. Histories(books') = Book!Shortened(g, Book!Policy.source)
      BY <1>3, <2>1, <3>1
    <3> QED
      BY <1>3, <3>2, <3>3, <3>4, <3>5 DEF Book!HalfUndone, g, Histories
  <2> QED
    BY <2>3, <2>4
<1> QED
  BY <1>7, <1>8

\* The calls that concern no account.
LEMMA CreateAgrees ==
  ASSUME NEW p \in Policy, CreatePolicy(p)
  PROVE  Book!Agreed
<1>1. /\ books' = books /\ policy' = AddRow(policy, p)
      /\ reply' = Reply("createPolicy", policy.nextId, TRUE)
  BY DEF CreatePolicy
<1>2. /\ Book!Returned("createPolicy") /\ reply'.id = policy.nextId
      /\ DOMAIN policy'.rows = DOMAIN policy.rows \cup {policy.nextId}
      /\ \A k \in DOMAIN policy.rows : policy'.rows[k] = policy.rows[k]
  BY <1>1 DEF Reply, Book!Returned, AddRow, InsertRow
<1> QED
  BY <1>1, <1>2 DEF Book!Agreed

LEMMA DeleteCancels ==
  ASSUME TypeOK, NEW pid \in PolicyId, DeletePolicy(pid)
  PROVE  Book!Cancelled
<1>1. /\ books' = books /\ policy' = DeleteRow(policy, pid) /\ pid \in Nat
      /\ reply' = Reply("deletePolicy", pid, TRUE)
  BY LedgerAssumption DEF DeletePolicy, PolicyId
<1>2. policy'.rows = [k \in DOMAIN policy.rows \ {pid} |-> policy.rows[k]]
  BY <1>1, DeleteRowFacts DEF TypeOK, WithoutRows, Restrict
<1>3. Book!Returned("deletePolicy") /\ reply'.id = pid
  BY <1>1 DEF Reply, Book!Returned
<1> QED
  BY <1>1, <1>2, <1>3 DEF Book!Cancelled

LEMMA FailedCallIsRefused ==
  ASSUME NEW pid, PolicyCallFails(pid)
  PROVE  Book!Refused
<1>1. books' = books
  BY DEF PolicyCallFails
<1>2. \/ Book!Threw("applyPolicy")
      \/ /\ Book!Threw("undoPolicy") /\ reply'.id \notin DOMAIN policy.rows
  BY DEF PolicyCallFails, Reply, Book!Threw
<1> QED
  BY <1>1, <1>2, NothingChanges

LEMMA ReopenChangesNothing ==
  ASSUME TypeOK, Kept(books), Reopen
  PROVE  Book!Refused /\ policy'.rows = policy.rows
<1>1. /\ books' = Reopened(books) /\ policy' = OpenTable(policy.rows)
      /\ Book!Returned("open")
  BY DEF Reopen, Reply, Book!Returned
<1>2. Histories(books') = Histories(books) /\ books'.cycle.rows = books.cycle.rows
  BY <1>1, ReopenedHistory, ReopenedKeeps
<1>3. policy'.rows = policy.rows
  BY <1>1 DEF OpenTable
<1> QED
  BY <1>1, <1>2, <1>3, NothingChanges

\* So every step of the ledger is the step of Accounts that its call names.
LEMMA StepIsAccountsStep ==
  ASSUME TypeOK, Kept(books), InOrder(books'), "NEW_ENTRY" \notin GivenStatus,
         [Next]_vars
  PROVE  [Book!AccountsNext]_Book!accountVars
<1>1. ASSUME NEW desc \in Descriptions, NEW balance \in Openings, Add(desc, balance)
      PROVE  Book!Opened /\ policy'.rows = policy.rows
  BY <1>1, AddOpens DEF Add
<1>2. ASSUME NEW id \in EntryId, NEW value \in Values, NEW desc \in Descriptions,
             NEW status \in Statuses, UpdateAs(id, value, desc, status)
      PROVE  (Book!Transacted \/ Book!Refused) /\ policy'.rows = policy.rows
  <2> DEFINE record == NewRecord(value, desc, status)
  <2>1. record \in Record /\ record.desc = desc
    BY LedgerAssumption DEF NewRecord, Record
  <2>2. /\ books' = Updated(books, id, record) /\ policy' = policy
        /\ reply' = Reply("update", id, UpdateReturns(books, id, record.desc))
    BY <1>2, <2>1 DEF UpdateAs
  <2> HIDE DEF record
  <2> QED
    BY <2>1, <2>2, UpdateTransacts
<1>3. ASSUME NEW id \in EntryId, Remove(id)
      PROVE  (Book!Closed \/ Book!Refused) /\ policy'.rows = policy.rows
  BY <1>3, RemoveCloses DEF Remove
<1>4. ASSUME NEW id \in EntryId, Undo(id)
      PROVE  (Book!Undone \/ Book!Refused) /\ policy'.rows = policy.rows
  BY <1>4, UndoUndoes DEF Undo
<1>5. ASSUME NEW pid \in PolicyId, ApplyPolicy(pid)
      PROVE  /\ Book!Transferred \/ Book!Debited \/ Book!Refused
             /\ policy'.rows = policy.rows
  BY <1>5, ApplyTransfers DEF ApplyPolicy
<1>6. ASSUME NEW pid \in PolicyId, UndoPolicy(pid)
      PROVE  /\ Book!TransferUndone \/ Book!HalfUndone \/ Book!Refused
             /\ policy'.rows = policy.rows
  BY <1>6, UndoPolicyUndoes DEF UndoPolicy
<1>7. ASSUME NEW p \in Policy, CreatePolicy(p) PROVE Book!Agreed
  BY <1>7, CreateAgrees
<1>8. ASSUME NEW pid \in PolicyId, DeletePolicy(pid) PROVE Book!Cancelled
  BY <1>8, DeleteCancels
<1>9. ASSUME NEW pid \in PolicyId, PolicyCallFails(pid)
      PROVE  Book!Refused /\ policy'.rows = policy.rows
  BY <1>9, FailedCallIsRefused DEF PolicyCallFails
<1>10. CASE Reopen
  BY <1>10, ReopenChangesNothing DEF Book!AccountsNext
<1>11. CASE UNCHANGED vars
  BY <1>11 DEF vars, Book!accountVars
<1>12. ASSUME NEW desc \in Descriptions, NEW id \in EntryId, NEW value \in Values,
              \/ Update(id, value, desc)
              \/ \E status \in GivenStatus : UpdateAs(id, value, desc, status)
       PROVE  Book!AccountsNext
  <2>1. PICK status \in Statuses : UpdateAs(id, value, desc, status)
    BY <1>12, LedgerAssumption DEF Update, Statuses
  <2> QED
    BY <1>2, <2>1 DEF Book!AccountsNext
<1>13. CASE \E desc \in Descriptions, balance \in Openings : Add(desc, balance)
  BY <1>1, <1>13 DEF Book!AccountsNext
<1>14. CASE \E id \in EntryId : Remove(id) \/ Undo(id)
  BY <1>3, <1>4, <1>14 DEF Book!AccountsNext
<1>15. CASE \E p \in Policy : CreatePolicy(p)
  BY <1>7, <1>15 DEF Book!AccountsNext
<1>16. CASE \E pid \in PolicyId : \/ DeletePolicy(pid) \/ ApplyPolicy(pid)
                                  \/ UndoPolicy(pid) \/ PolicyCallFails(pid)
  BY <1>5, <1>6, <1>8, <1>9, <1>16 DEF Book!AccountsNext
<1> QED
  BY <1>10, <1>11, <1>12, <1>13, <1>14, <1>15, <1>16 DEF Next

\* Flaws apart, the tables are accounts with histories: each call changes the
\* history of the entry it names, as that call should, and no other, and what
\* callers see of an entry is its history, for any number of entries, calls
\* and policies and any amounts and texts.
THEOREM TablesImplementAccounts ==
  ASSUME Flaws = {}, "NEW_ENTRY" \notin GivenStatus
  PROVE  Spec => ImplementsAccounts
<1> DEFINE Sound == TypeOK /\ SameEntries /\ OrderUntilDamage /\ books.damage \subseteq Flaws
<1>1. Sound /\ Sound' /\ [Next]_vars => [Book!AccountsNext]_Book!accountVars
  <2> SUFFICES ASSUME Sound, Sound', [Next]_vars
               PROVE  [Book!AccountsNext]_Book!accountVars
    OBVIOUS
  <2>1. InOrder(books) /\ InOrder(books')
    BY DEF OrderUntilDamage
  <2> QED
    BY <2>1, StepIsAccountsStep DEF InOrder
<1>2. Init => Book!AccountsInit
  <2> SUFFICES ASSUME Init PROVE Book!AccountsInit
    OBVIOUS
  <2>1. /\ books.recs = NoRows /\ books.cycle.rows = NoRows /\ policy.rows = NoRows
        /\ DOMAIN NoRows = {}
    BY DEF Init, OpenTable, NoRows
  <2>2. \A f : f = [k \in {} |-> f[k]] => f = <<>>
    OBVIOUS
  <2>3. NoRows = [k \in {} |-> NoRows[k]]
    BY DEF NoRows
  <2> DEFINE g == [id \in DOMAIN books.recs |-> History(books, id)]
  <2>4. g = [k \in {} |-> g[k]]
    BY <2>1
  <2> HIDE DEF g
  <2>5. g = <<>> /\ books.cycle.rows = <<>> /\ policy.rows = <<>>
    BY <2>1, <2>2, <2>3, <2>4
  <2>6. reply = [op |-> "open", id |-> 0, outcome |-> "ok"]
    BY DEF Init, Reply
  <2> QED
    BY <2>5, <2>6 DEF Book!AccountsInit, g
<1> QED
  BY <1>1, <1>2, OrderInvariance, DamageWithinFlaws, PTL
  DEF Spec, ImplementsAccounts, Book!AccountsSpec
=============================================================================
