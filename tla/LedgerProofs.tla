---------------------------- MODULE LedgerProofs ----------------------------
(***************************************************************************)
(* What every call of TableManager preserves, whatever it is given: the    *)
(* types of the books and the agreement of the four lists of entries; and  *)
(* what it preserves until a flaw has struck: each record is stored and    *)
(* belongs to one entry, and the entry's balance and last transaction are  *)
(* those of its records.                                                   *)
(*                                                                         *)
(* First, facts about amounts: what arithmetic of a fixed width keeps of   *)
(* that of the integers, and what one more key, one key less or another    *)
(* value of one key makes of a sum.  Functions defines the sum over a set  *)
(* by recursion, which is justified here by taking a smallest subset for   *)
(* which a fact fails.                                                     *)
(***************************************************************************)
EXTENDS Ledger, TableOpsProofs

\* What the machine makes of a sum or a product is an amount again.
LEMMA WrapIsMoney ==
  ASSUME NEW n \in Int
  PROVE  Wrap(n) \in Money
<1> DEFINE m == (n + Half) % (2 * Half)
<1>1. m \in 0 .. (2 * Half - 1)
  BY HalfAssumption
<1>2. Wrap(n) = m - Half
  BY DEF Wrap
<1> HIDE DEF m
<1> QED
  BY <1>1, <1>2, HalfAssumption DEF Money

\* A hundredth of an amount is an amount, and so is its negation: the -value
\* of applyPolicy cannot overflow.
LEMMA HundredthIsMoney ==
  ASSUME NEW n \in Money
  PROVE  Hundredth(n) \in Money /\ -Hundredth(n) \in Money
<1>1. n \in Int /\ -Half <= n /\ n <= Half - 1 /\ Half \in Nat \ {0}
  BY HalfAssumption DEF Money
<1>2. CASE n >= 0
  <2>1. n \div 100 \in 0 .. n
    BY <1>1, <1>2
  <2> QED
    BY <1>1, <1>2, <2>1 DEF Hundredth, Money
<1>3. CASE ~(n >= 0)
  <2>1. (-n) \div 100 \in 0 .. (-n - 1)
    BY <1>1, <1>3
  <2> QED
    BY <1>1, <1>3, <2>1 DEF Hundredth, Money
<1> QED
  BY <1>2, <1>3

\* Zero and all amounts are integers.
LEMMA MoneyIsInt == 0 \in Money /\ Money \subseteq Int
BY HalfAssumption DEF Money

\* Quotient and remainder, and that there is but one remainder.
LEMMA DivMod ==
  ASSUME NEW n \in Int, NEW w \in Int, w > 0
  PROVE  n \div w \in Int /\ n % w \in 0..(w - 1) /\ n = w * (n \div w) + (n % w)
<1>1. n \div w \in Int /\ n % w \in 0..(w - 1)
  OBVIOUS
<1>2. n = w * (n \div w) + (n % w)
  OBVIOUS
<1> QED
  BY <1>1, <1>2

LEMMA OneRemainder ==
  ASSUME NEW w \in Int, w > 0, NEW q \in Int, NEW p \in Int,
         NEW r \in 0..(w - 1), NEW s \in 0..(w - 1), w * q + r = w * p + s
  PROVE  r = s
<1> DEFINE d == p - q
<1>1. d \in Int /\ w * d = r - s
  OBVIOUS
<1> HIDE DEF d
<1>2. CASE d > 0
  <2>1. w * d >= w
    BY <1>1, <1>2
  <2> QED
    BY <1>1, <2>1
<1>3. CASE d < 0
  <2>1. w * d <= -w
    BY <1>1, <1>3
  <2> QED
    BY <1>1, <2>1
<1>4. CASE d = 0
  BY <1>1, <1>4
<1> QED
  BY <1>1, <1>2, <1>3, <1>4

\* Integers that differ by a multiple of the width become the same amount.
LEMMA WrapIsPeriodic ==
  ASSUME NEW m \in Int, NEW n \in Int, NEW k \in Int, n = m + (2 * Half) * k
  PROVE  Wrap(n) = Wrap(m)
<1> DEFINE w == 2 * Half
<1> DEFINE q == (m + Half) \div w
<1> DEFINE p == (n + Half) \div w
<1>1. w \in Int /\ w > 0 /\ m + Half \in Int /\ n + Half \in Int
  BY HalfAssumption
<1> HIDE DEF w
<1>2. /\ q \in Int /\ (m + Half) % w \in 0..(w - 1)
      /\ m + Half = w * q + ((m + Half) % w)
  BY <1>1, DivMod
<1>3. /\ p \in Int /\ (n + Half) % w \in 0..(w - 1)
      /\ n + Half = w * p + ((n + Half) % w)
  BY <1>1, DivMod
<1>4. w * (q + k) = w * q + w * k
  BY <1>1, <1>2
<1>5. n = m + w * k
  BY DEF w
<1> DEFINE r == (m + Half) % w
<1> DEFINE s == (n + Half) % w
<1>6. w * (q + k) + r = w * p + s
  <2> HIDE DEF q, p, r, s
  <2> QED
    BY <1>1, <1>2, <1>3, <1>4, <1>5, HalfAssumption DEF r, s
<1>7. r = s
  <2> HIDE DEF q, p, r, s
  <2>1. q + k \in Int /\ r \in 0..(w - 1) /\ s \in 0..(w - 1) /\ p \in Int
    BY <1>2, <1>3 DEF r, s
  <2> QED
    BY <1>1, <1>6, <2>1, OneRemainder
<1> QED
  BY <1>7 DEF Wrap, w

\* An integer and its amount differ by a multiple of the width.
LEMMA WrapDiffers ==
  ASSUME NEW m \in Int
  PROVE  \E k \in Int : m = Wrap(m) + (2 * Half) * k
<1> DEFINE w == 2 * Half
<1>1. w \in Int /\ w > 0 /\ m + Half \in Int /\ Half \in Int
  BY HalfAssumption
<1>2. Wrap(m) = ((m + Half) % w) - Half
  BY DEF Wrap
<1> HIDE DEF w
<1>3. /\ (m + Half) \div w \in Int /\ (m + Half) % w \in Int
      /\ m + Half = w * ((m + Half) \div w) + ((m + Half) % w)
  BY <1>1, DivMod
<1>4. m = Wrap(m) + w * ((m + Half) \div w)
  BY <1>1, <1>2, <1>3
<1> QED
  BY <1>3, <1>4 DEF w

\* Amounts are themselves.
LEMMA WrapOfMoney == ASSUME NEW n \in Money PROVE Wrap(n) = n
<1>1. n \in Int /\ n + Half \in 0..(2 * Half - 1) /\ 2 * Half \in Int /\ Half \in Int
  BY HalfAssumption DEF Money
<1>2. (n + Half) % (2 * Half) = n + Half
  BY <1>1
<1> QED
  BY <1>1, <1>2 DEF Wrap

\* What has wrapped around is not lost to the next addition.
LEMMA WrapOfSum ==
  ASSUME NEW m \in Int, NEW n \in Int
  PROVE  Wrap(Wrap(m) + n) = Wrap(m + n)
<1>1. PICK k \in Int : m = Wrap(m) + (2 * Half) * k
  BY WrapDiffers
<1> DEFINE a == Wrap(m)
<1>2. a \in Int
  BY WrapIsMoney, MoneyIsInt
<1> HIDE DEF a
<1>3. (2 * Half) * k \in Int
  BY HalfAssumption
<1>4. m + n = (a + n) + (2 * Half) * k
  BY <1>1, <1>2, <1>3 DEF a
<1> QED
  BY <1>2, <1>4, WrapIsPeriodic DEF a

-----------------------------------------------------------------------------
\* The key the recursion takes out of a set, and the equation it solves: g
\* has the sums of f over the subsets of S.
Picked(s) == CHOOSE x \in s : TRUE

IsSums(f, S, g) ==
  g = [s \in SUBSET S |-> IF s = {} THEN 0 ELSE f[Picked(s)] + g[s \ {Picked(s)}]]

LEMMA PickedIsIn == ASSUME NEW s, s # {} PROVE Picked(s) \in s
BY DEF Picked

LEMMA SumIsChosen ==
  \A f, S : SumFunctionOnSet(f, S) = (CHOOSE g : IsSums(f, S, g))[S]
BY DEF SumFunctionOnSet, FoldFunctionOnSet, MapThenFoldSet, IsSums, Picked

\* A set of finite subsets that holds every subset whose smaller subsets it
\* holds, holds them all.
LEMMA SubsetInduction ==
  ASSUME NEW S, IsFiniteSet(S), NEW Good,
         \A U \in SUBSET S : (\A V \in SUBSET U : V # U => V \in Good) => U \in Good
  PROVE  SUBSET S \subseteq Good
<1> DEFINE Bad == {U \in SUBSET S : U \notin Good}
<1> SUFFICES ASSUME Bad # {} PROVE FALSE
  OBVIOUS
<1>1. Bad \subseteq FiniteSubsetsOf(S)
  BY FS_Subset DEF FiniteSubsetsOf
<1>2. PICK U \in Bad : \A V \in Bad : ~(<<V, U>> \in StrictSubsetOrdering(S))
  <2> HIDE DEF Bad
  <2> QED
    BY <1>1, FS_StrictSubsetOrderingWellFounded, WFMin
<1>3. ASSUME NEW V \in SUBSET U, V # U PROVE V \in Good
  <2>1. V \in SUBSET S
    BY <1>3
  <2>2. <<V, U>> \in StrictSubsetOrdering(S)
    BY <1>3, <2>1 DEF StrictSubsetOrdering
  <2> QED
    BY <1>2, <2>1, <2>2
<1> QED
  BY <1>3

\* The sums over the subsets of a set are determined by the equation.
LEMMA SumsAreUnique ==
  ASSUME NEW f, NEW S, IsFiniteSet(S), NEW g, IsSums(f, S, g),
         NEW T \in SUBSET S, NEW h, IsSums(f, T, h)
  PROVE  \A s \in SUBSET T : g[s] = h[s]
<1> DEFINE Good == {s \in SUBSET T : g[s] = h[s]}
<1>1. ASSUME NEW U \in SUBSET T, \A V \in SUBSET U : V # U => V \in Good
      PROVE  U \in Good
  <2>1. CASE U = {}
    BY <2>1 DEF IsSums
  <2>2. CASE U # {}
    <3> DEFINE x == Picked(U)
    <3>1. x \in U
      BY <2>2, PickedIsIn
    <3>2. g[U] = f[x] + g[U \ {x}] /\ h[U] = f[x] + h[U \ {x}]
      BY <2>2 DEF IsSums
    <3>3. U \ {x} \in Good
      <4> HIDE DEF Good, x
      <4> QED
        BY <1>1, <3>1
    <3> QED
      BY <3>2, <3>3
  <2> QED
    BY <2>1, <2>2
<1>2. IsFiniteSet(T)
  BY FS_Subset
<1>3. SUBSET T \subseteq Good
  <2> HIDE DEF Good
  <2> QED
    BY <1>1, <1>2, SubsetInduction
<1> QED
  BY <1>3

\* They exist.
LEMMA SumsExist ==
  ASSUME NEW f, NEW S, IsFiniteSet(S)
  PROVE  \E g : IsSums(f, S, g)
<1> DEFINE Good == {U \in SUBSET S : \E g : IsSums(f, U, g)}
<1> DEFINE sums(U) == CHOOSE g : IsSums(f, U, g)
<1>1. ASSUME NEW U \in SUBSET S, \A V \in SUBSET U : V # U => V \in Good
      PROVE  U \in Good
  <2> DEFINE total(s) == IF s = {} THEN 0
                         ELSE f[Picked(s)] + sums(s \ {Picked(s)})[s \ {Picked(s)}]
  <2> DEFINE g == [s \in SUBSET U |-> total(s)]
  <2>1. ASSUME NEW s \in SUBSET U, s # {}
        PROVE  sums(s \ {Picked(s)})[s \ {Picked(s)}] = g[s \ {Picked(s)}]
    <3> DEFINE t == s \ {Picked(s)}
    <3>1. t \in SUBSET U /\ t # U
      BY <2>1, PickedIsIn
    <3>2. IsSums(f, t, sums(t))
      BY <1>1, <3>1
    <3>3. sums(t)[t] = total(t)
      <4>1. CASE t = {}
        <5> HIDE DEF sums, t
        <5> QED
          BY <3>2, <4>1 DEF IsSums
      <4>2. CASE t # {}
        <5> DEFINE u == t \ {Picked(t)}
        <5>1. u \in SUBSET t /\ u # U /\ u \in SUBSET U
          BY <4>2, <3>1, PickedIsIn
        <5>2. IsSums(f, u, sums(u))
          BY <1>1, <5>1
        <5>3. IsFiniteSet(t)
          BY <3>1, FS_Subset
        <5>4. sums(t)[u] = sums(u)[u]
          <6> HIDE DEF sums, t, u
          <6> QED
            BY <3>2, <5>1, <5>2, <5>3, SumsAreUnique
        <5>5. sums(t)[t] = f[Picked(t)] + sums(t)[u]
          <6> HIDE DEF sums, t
          <6> QED
            BY <3>2, <4>2 DEF IsSums
        <5> HIDE DEF sums, t
        <5> QED
          BY <4>2, <5>4, <5>5
      <4> QED
        BY <4>1, <4>2
    <3> HIDE DEF total, sums, t
    <3>4. g[t] = total(t)
      BY <3>1
    <3> QED
      BY <3>3, <3>4 DEF t
  <2>2. IsSums(f, U, g)
    <3>1. \A s \in SUBSET U : g[s] = IF s = {} THEN 0
                                     ELSE f[Picked(s)] + g[s \ {Picked(s)}]
      <4> HIDE DEF sums
      <4> QED
        BY <2>1
    <3>2. g = [s \in SUBSET U |-> g[s]]
      OBVIOUS
    <3> HIDE DEF g
    <3> QED
      BY <3>1, <3>2 DEF IsSums
  <2> QED
    BY <2>2
<1>2. SUBSET S \subseteq Good
  <2> HIDE DEF Good
  <2> QED
    BY <1>1, SubsetInduction
<1> QED
  BY <1>2

\* The sum over a set is that of the rest and the key taken out first.
LEMMA SumOfPicked ==
  ASSUME NEW f, NEW S, IsFiniteSet(S)
  PROVE  SumFunctionOnSet(f, S) =
           IF S = {} THEN 0
           ELSE f[Picked(S)] + SumFunctionOnSet(f, S \ {Picked(S)})
<1> DEFINE sums(U) == CHOOSE g : IsSums(f, U, g)
<1> DEFINE T == S \ {Picked(S)}
<1>1. IsFiniteSet(T) /\ T \in SUBSET S
  BY FS_Subset
<1>2. IsSums(f, S, sums(S)) /\ IsSums(f, T, sums(T))
  BY <1>1, SumsExist
<1>3. sums(S)[T] = sums(T)[T]
  <2> HIDE DEF sums, T
  <2> QED
    BY <1>1, <1>2, SumsAreUnique
<1>4. sums(S)[S] = IF S = {} THEN 0 ELSE f[Picked(S)] + sums(S)[T]
  <2>1. sums(S) = [s \in SUBSET S |-> IF s = {} THEN 0
                     ELSE f[Picked(s)] + sums(S)[s \ {Picked(s)}]]
    BY <1>2 DEF IsSums
  <2> HIDE DEF sums
  <2> QED
    BY <2>1
<1>5. SumFunctionOnSet(f, S) = sums(S)[S] /\ SumFunctionOnSet(f, T) = sums(T)[T]
  BY SumIsChosen
<1> HIDE DEF sums, T
<1> QED
  BY <1>3, <1>4, <1>5 DEF T

\* No keys sum to nothing.
LEMMA SumOfNone == ASSUME NEW f PROVE SumFunctionOnSet(f, {}) = 0
BY SumOfPicked, FS_EmptySet

\* Integers sum to an integer.
LEMMA SumIsInt ==
  ASSUME NEW f, NEW S, IsFiniteSet(S), \A x \in S : f[x] \in Int
  PROVE  SumFunctionOnSet(f, S) \in Int
<1> DEFINE Good == {U \in SUBSET S : SumFunctionOnSet(f, U) \in Int}
<1>1. ASSUME NEW U \in SUBSET S, \A V \in SUBSET U : V # U => V \in Good
      PROVE  U \in Good
  <2>1. IsFiniteSet(U)
    BY FS_Subset
  <2>2. CASE U = {}
    BY <2>2, SumOfNone
  <2>3. CASE U # {}
    <3>1. Picked(U) \in U
      BY <2>3, PickedIsIn
    <3>2. U \ {Picked(U)} \in Good
      <4> HIDE DEF Good
      <4> QED
        BY <1>1, <3>1
    <3> QED
      BY <2>1, <2>3, <3>1, <3>2, SumOfPicked
  <2> QED
    BY <2>2, <2>3
<1>2. SUBSET S \subseteq Good
  <2> HIDE DEF Good
  <2> QED
    BY <1>1, SubsetInduction
<1> QED
  BY <1>2

\* Any key may be taken out first.
LEMMA SumWithout ==
  ASSUME NEW f, NEW S, IsFiniteSet(S), \A x \in S : f[x] \in Int, NEW k \in S
  PROVE  SumFunctionOnSet(f, S) = f[k] + SumFunctionOnSet(f, S \ {k})
<1> DEFINE Sum(U) == SumFunctionOnSet(f, U)
<1> DEFINE Good == {U \in SUBSET S : \A x \in U : Sum(U) = f[x] + Sum(U \ {x})}
<1>1. ASSUME NEW U \in SUBSET S, \A V \in SUBSET U : V # U => V \in Good
      PROVE  U \in Good
  <2> SUFFICES ASSUME NEW x \in U PROVE Sum(U) = f[x] + Sum(U \ {x})
    OBVIOUS
  <2> DEFINE p == Picked(U)
  <2>1. p \in U
    BY PickedIsIn
  <2>2. Sum(U) = f[p] + Sum(U \ {p})
    BY FS_Subset, SumOfPicked
  <2>3. CASE x # p
    <3>1. U \ {p} \in Good /\ U \ {x} \in Good
      <4> HIDE DEF Good, p
      <4> QED
        BY <1>1, <2>1
    <3>2. x \in U \ {p} /\ p \in U \ {x} /\ (U \ {p}) \ {x} = (U \ {x}) \ {p}
      BY <2>1, <2>3
    <3>3. /\ Sum(U \ {p}) = f[x] + Sum((U \ {p}) \ {x})
          /\ Sum(U \ {x}) = f[p] + Sum((U \ {p}) \ {x})
      BY <3>1, <3>2
    <3>4. f[x] \in Int /\ f[p] \in Int
      BY <2>1
    <3>5. Sum((U \ {p}) \ {x}) \in Int
      <4>1. (U \ {p}) \ {x} \in SUBSET S
        OBVIOUS
      <4> HIDE DEF p
      <4> QED
        BY <4>1, FS_Subset, SumIsInt
    <3> HIDE DEF Sum, p
    <3> QED
      BY <2>2, <3>3, <3>4, <3>5
  <2> QED
    BY <2>2, <2>3
<1>2. SUBSET S \subseteq Good
  <2> HIDE DEF Good
  <2> QED
    BY <1>1, SubsetInduction
<1> QED
  BY <1>2

\* A sum grows by the amount of a new key.
LEMMA SumWith ==
  ASSUME NEW f, NEW S, IsFiniteSet(S), NEW k, k \notin S,
         \A x \in S \cup {k} : f[x] \in Int
  PROVE  SumFunctionOnSet(f, S \cup {k}) = f[k] + SumFunctionOnSet(f, S)
<1>1. IsFiniteSet(S \cup {k}) /\ (S \cup {k}) \ {k} = S
  BY FS_AddElement
<1> QED
  BY <1>1, SumWithout

\* A sum over a set is that of any function with the same amounts on it.
LEMMA SumOfEqual ==
  ASSUME NEW f, NEW g, NEW S, IsFiniteSet(S), \A x \in S : f[x] = g[x]
  PROVE  SumFunctionOnSet(f, S) = SumFunctionOnSet(g, S)
<1> DEFINE Good == {U \in SUBSET S : SumFunctionOnSet(f, U) = SumFunctionOnSet(g, U)}
<1>1. ASSUME NEW U \in SUBSET S, \A V \in SUBSET U : V # U => V \in Good
      PROVE  U \in Good
  <2>1. IsFiniteSet(U)
    BY FS_Subset
  <2>2. CASE U = {}
    BY <2>2, SumOfNone
  <2>3. CASE U # {}
    <3>1. Picked(U) \in U
      BY <2>3, PickedIsIn
    <3>2. U \ {Picked(U)} \in Good
      <4> HIDE DEF Good
      <4> QED
        BY <1>1, <3>1
    <3> QED
      BY <2>1, <2>3, <3>1, <3>2, SumOfPicked
  <2> QED
    BY <2>2, <2>3
<1>2. SUBSET S \subseteq Good
  <2> HIDE DEF Good
  <2> QED
    BY <1>1, SubsetInduction
<1> QED
  BY <1>2

-----------------------------------------------------------------------------
\* The calls.  Each keeps the types, and the agreement of the lists if there is
\* one, which after a crash there may not be.

WellFormed(b) == IsBooks(b) /\ EntriesAgree(b)

Keeps(b, c) == IsBooks(c) /\ (EntriesAgree(b) => EntriesAgree(c))

\* What it takes for the books a call of TableManager leaves to be well-formed.
LEMMA BooksOf ==
  ASSUME NEW b,
         NEW cycle, NEW daily, NEW entryIds, NEW recs, NEW cached, NEW damage,
         IsTable(cycle, Entry), cycle.count >= 0,
         IsTable(daily, Record), daily.count >= 0,
         entryIds \subseteq Nat, recs \in [DOMAIN recs -> SUBSET Nat],
         \A id \in DOMAIN recs : IsFiniteSet(recs[id]),
         damage \subseteq {"cycle", "daily", "undo", "remove"},
         EntriesAgree(b)
         => /\ DOMAIN recs = entryIds
            /\ cached \subseteq entryIds
            /\ DOMAIN cycle.rows \subseteq cached
            /\ "remove" \notin damage => entryIds \subseteq DOMAIN cycle.rows
  PROVE  Keeps(b, [cycle |-> cycle, daily |-> daily, entryIds |-> entryIds,
                   recs |-> recs, cached |-> cached, damage |-> damage])
BY DEF Keeps, IsBooks, EntriesAgree

\* Writing back a row that exists (the UPDATE of CycleTable) changes no key
\* and no counter.
LEMMA RewriteFacts ==
  ASSUME NEW b, IsBooks(b), NEW id \in DOMAIN b.cycle.rows, NEW entry \in Entry
  PROVE  Keeps(b, [b EXCEPT !.cycle.rows[id] = entry])
<1> DEFINE c == [b EXCEPT !.cycle.rows[id] = entry]
<1> DEFINE rows == [b.cycle.rows EXCEPT ![id] = entry]
<1> DEFINE t == [rows |-> rows, nextId |-> b.cycle.nextId, count |-> b.cycle.count]
<1>1. IsTable(b.cycle, Entry) /\ b.cycle.count >= 0
  BY DEF IsBooks
<1>2. IsRows(rows, Entry) /\ DOMAIN rows = DOMAIN b.cycle.rows
  BY <1>1 DEF IsTable, IsRows
<1>3. IsTable(t, Entry) /\ t.count >= 0
  BY <1>1, <1>2 DEF IsTable
<1>4. c = [cycle |-> t, daily |-> b.daily, entryIds |-> b.entryIds,
           recs |-> b.recs, cached |-> b.cached, damage |-> b.damage]
  BY <1>1 DEF IsBooks, IsTable
<1>5. c.cycle = t /\ c.daily = b.daily /\ c.entryIds = b.entryIds
      /\ c.recs = b.recs /\ c.cached = b.cached /\ c.damage = b.damage
  BY <1>4
<1> HIDE DEF c, t, rows
<1>6. DOMAIN c.cycle.rows = DOMAIN b.cycle.rows
  BY <1>2, <1>5 DEF t
<1> QED
  BY <1>3, <1>4, <1>5, <1>6 DEF Keeps, IsBooks, EntriesAgree, c

\* Adding a record to DailyTable and naming it in the entry's records table
\* leaves the lists of entries alone.
LEMMA RecordedFacts ==
  ASSUME NEW b, IsBooks(b), NEW id, NEW record \in Record
  PROVE  Keeps(b, Recorded(b, id, record))
<1> DEFINE daily == AddRow(b.daily, record)
<1> DEFINE damage == b.damage \cup Collision(b.daily, "daily")
<1> DEFINE recs == IF id \in b.entryIds \cap DOMAIN b.recs
                     THEN [b.recs EXCEPT ![id] = @ \cup {b.daily.nextId}]
                     ELSE b.recs
<1> DEFINE c == Recorded(b, id, record)
<1>1. c = [cycle |-> b.cycle, daily |-> daily, entryIds |-> b.entryIds,
           recs |-> recs, cached |-> b.cached, damage |-> damage]
  BY DEF Recorded, IsBooks
<1>2. IsTable(daily, Record) /\ daily.count >= 0
  BY AddRowFacts DEF IsBooks
<1>3. /\ recs \in [DOMAIN recs -> SUBSET Nat] /\ DOMAIN recs = DOMAIN b.recs
      /\ \A k \in DOMAIN recs : IsFiniteSet(recs[k])
  <2>1. b.daily.nextId \in Nat
    BY DEF IsBooks, IsTable
  <2>2. CASE id \in b.entryIds \cap DOMAIN b.recs
    <3>1. recs = [b.recs EXCEPT ![id] = b.recs[id] \cup {b.daily.nextId}]
      BY <2>2
    <3>2. IsFiniteSet(b.recs[id] \cup {b.daily.nextId})
      BY <2>2, FS_AddElement DEF IsBooks
    <3> HIDE DEF recs
    <3> QED
      BY <2>1, <2>2, <3>1, <3>2 DEF IsBooks
  <2>3. CASE id \notin b.entryIds \cap DOMAIN b.recs
    BY <2>3 DEF IsBooks
  <2> QED
    BY <2>2, <2>3
<1>4. damage \subseteq {"cycle", "daily", "undo", "remove"}
  BY DEF Collision, IsBooks
<1>6. b.damage \subseteq damage
  OBVIOUS
<1> HIDE DEF daily, damage, recs
<1>5. Keeps(b, [cycle |-> b.cycle, daily |-> daily, entryIds |-> b.entryIds,
                  recs |-> recs, cached |-> b.cached, damage |-> damage])
  BY <1>2, <1>3, <1>4, <1>6, BooksOf DEF IsBooks, EntriesAgree
<1> QED
  BY <1>1, <1>5

\* add, also when the new ID is one that is taken.
LEMMA AddedFacts ==
  ASSUME NEW b, IsBooks(b), NEW desc \in Descriptions, NEW balance \in Money
  PROVE  Keeps(b, Added(b, desc, balance))
<1> DEFINE id == b.cycle.nextId
<1> DEFINE entry == [balance |-> balance, last |-> 0, desc |-> desc,
                     status |-> "UNKNOWN"]
<1> DEFINE cycle == AddRow(b.cycle, entry)
<1> DEFINE recs == WithTable(b.recs, id)
<1> DEFINE damage == b.damage \cup Collision(b.cycle, "cycle")
<1> DEFINE listed == [cycle |-> cycle, daily |-> b.daily,
                      entryIds |-> b.entryIds \cup {id}, recs |-> recs,
                      cached |-> b.cached \cup {id}, damage |-> damage]
<1> DEFINE record == NewRecord(balance, desc, "NEW_ENTRY")
<1>1. Added(b, desc, balance) = Recorded(listed, id, record)
  BY DEF Added
<1>2. record \in Record
  BY DEF NewRecord, Record, Statuses
<1>3. entry \in Entry /\ id \in Nat
  BY MoneyIsInt DEF Entry, Statuses, IsBooks, IsTable
<1>4. /\ IsTable(cycle, Entry) /\ cycle.count >= 0
      /\ DOMAIN cycle.rows = DOMAIN b.cycle.rows \cup {id}
  <2>1. IsTable(cycle, Entry) /\ cycle.count >= 0
    BY <1>3, AddRowFacts DEF IsBooks
  <2>2. DOMAIN cycle.rows = DOMAIN b.cycle.rows \cup {id}
    BY DEF AddRow, InsertRow
  <2> QED
    BY <2>1, <2>2
<1>5. /\ recs \in [DOMAIN recs -> SUBSET Nat]
      /\ DOMAIN recs = DOMAIN b.recs \cup {id}
      /\ \A k \in DOMAIN recs : IsFiniteSet(recs[k])
  BY FS_EmptySet DEF WithTable, IsBooks
<1>6. damage \subseteq {"cycle", "daily", "undo", "remove"}
  BY DEF Collision, IsBooks
<1>7. Keeps(b, listed)
  <2> DEFINE entryIds == b.entryIds \cup {id}
  <2> DEFINE cached == b.cached \cup {id}
  <2>1. b.damage \subseteq damage /\ entryIds \subseteq Nat
    BY <1>3 DEF IsBooks
  <2>2. EntriesAgree(b)
        => /\ DOMAIN recs = entryIds
           /\ cached \subseteq entryIds
           /\ DOMAIN cycle.rows \subseteq cached
           /\ "remove" \notin damage => entryIds \subseteq DOMAIN cycle.rows
    <3> HIDE DEF cycle, recs, damage, id
    <3> QED
      BY <1>4, <1>5, <2>1 DEF EntriesAgree
  <2>3. IsTable(b.daily, Record) /\ b.daily.count >= 0
    BY DEF IsBooks
  <2>4. listed = [cycle |-> cycle, daily |-> b.daily, entryIds |-> entryIds,
                  recs |-> recs, cached |-> cached, damage |-> damage]
    OBVIOUS
  <2> HIDE DEF cycle, recs, damage, id, entryIds, cached, listed
  <2> QED
    BY <1>4, <1>5, <1>6, <2>1, <2>2, <2>3, <2>4, BooksOf
<1> HIDE DEF listed, record
<1> QED
  BY <1>1, <1>2, <1>7, RecordedFacts DEF Keeps

\* update, also when it throws.
LEMMA UpdatedFacts ==
  ASSUME NEW b, IsBooks(b), NEW id, NEW record \in Record
  PROVE  Keeps(b, Updated(b, id, record))
<1>1. CASE CanUpdate(b, id, record.desc)
  <2> DEFINE entry == UpdatedEntry(b.cycle.rows[id], record)
  <2> DEFINE c == [b EXCEPT !.cycle.rows[id] = entry]
  <2>1. id \in DOMAIN b.cycle.rows /\ b.cycle.rows[id] \in Entry
    BY <1>1 DEF CanUpdate, IsBooks, IsTable, IsRows
  <2>2. entry \in Entry
    <3> DEFINE sum == b.cycle.rows[id].balance + record.value
    <3>1. b.cycle.rows[id].balance \in Int /\ record.value \in Int
      <4>1. b.cycle.rows[id].balance \in Money /\ record.value \in Money
        BY <2>1 DEF Entry, Record
      <4> QED
        BY <4>1, MoneyIsInt
    <3>2. Wrap(sum) \in Money
      BY <3>1, WrapIsMoney
    <3>3. Pasted[record.desc] \in Descriptions
      BY LedgerAssumption DEF Record
    <3> QED
      BY <2>1, <3>2, <3>3 DEF UpdatedEntry, Entry, Record
  <2>3. Keeps(b, c)
    BY <2>1, <2>2, RewriteFacts
  <2>4. Updated(b, id, record) = Recorded(c, id, record)
    BY <1>1 DEF Updated
  <2> HIDE DEF c
  <2> QED
    BY <2>3, <2>4, RecordedFacts DEF Keeps
<1>2. CASE ~CanUpdate(b, id, record.desc)
  BY <1>2 DEF Updated, Keeps
<1> QED
  BY <1>1, <1>2

\* remove, also of an entry that does not exist and when it is refused.
LEMMA RemovedFacts ==
  ASSUME NEW b, IsBooks(b), NEW id \in Nat
  PROVE  Keeps(b, Removed(b, id))
<1> DEFINE cycle == DeleteRow(b.cycle, id)
<1>1. /\ IsTable(cycle, Entry) /\ cycle.count >= 0
      /\ cycle.rows = WithoutRows(b.cycle.rows, {id})
  BY DeleteRowFacts DEF IsBooks
<1>2. DOMAIN cycle.rows = DOMAIN b.cycle.rows \ {id}
  BY <1>1 DEF WithoutRows, Restrict
<1>3. CASE id \in DOMAIN b.recs /\ CanDelete(b, id)
  <2> DEFINE daily == DeleteRows(b.daily, b.recs[id], Cardinality(b.recs[id]))
  <2> DEFINE recs == Restrict(b.recs, DOMAIN b.recs \ {id})
  <2>1. Removed(b, id) =
          [cycle |-> cycle, daily |-> daily, entryIds |-> b.entryIds \ {id},
           recs |-> recs, cached |-> b.cached \ {id}, damage |-> b.damage]
    BY <1>3 DEF Removed, IsBooks
  <2>2. Cardinality(b.recs[id]) \in Nat
    BY <1>3, FS_CardinalityType DEF IsBooks
  <2>3. IsTable(daily, Record) /\ daily.count >= 0
    BY <2>2, DeleteRowsFacts DEF IsBooks
  <2>4. /\ recs \in [DOMAIN recs -> SUBSET Nat]
        /\ DOMAIN recs = DOMAIN b.recs \ {id}
        /\ \A k \in DOMAIN recs : IsFiniteSet(recs[k])
    BY DEF Restrict, IsBooks
  <2> HIDE DEF cycle, daily, recs
  <2> QED
    BY <1>1, <1>2, <2>1, <2>3, <2>4 DEF Keeps, IsBooks, EntriesAgree
<1>4. CASE id \in DOMAIN b.recs /\ ~CanDelete(b, id)
  <2> DEFINE damage == b.damage \cup {"remove"}
  <2>1. Removed(b, id) =
          [cycle |-> cycle, daily |-> b.daily, entryIds |-> b.entryIds,
           recs |-> b.recs, cached |-> b.cached \ {id}, damage |-> damage]
    BY <1>4 DEF Removed, IsBooks
  <2>2. "remove" \in damage /\ damage \subseteq {"cycle", "daily", "undo", "remove"}
    BY DEF IsBooks
  <2> DEFINE cached == b.cached \ {id}
  <2>3. EntriesAgree(b)
        => /\ DOMAIN b.recs = b.entryIds
           /\ cached \subseteq b.entryIds
           /\ DOMAIN cycle.rows \subseteq cached
           /\ "remove" \notin damage => b.entryIds \subseteq DOMAIN cycle.rows
    <3> HIDE DEF cycle, damage
    <3> QED
      BY <1>2, <2>2 DEF EntriesAgree
  <2>4. /\ IsTable(b.daily, Record) /\ b.daily.count >= 0
        /\ b.entryIds \subseteq Nat /\ b.recs \in [DOMAIN b.recs -> SUBSET Nat]
        /\ \A k \in DOMAIN b.recs : IsFiniteSet(b.recs[k])
    BY DEF IsBooks
  <2> HIDE DEF cycle, damage, cached
  <2>5. Keeps(b, [cycle |-> cycle, daily |-> b.daily, entryIds |-> b.entryIds,
                    recs |-> b.recs, cached |-> cached, damage |-> damage])
    BY <1>1, <2>2, <2>3, <2>4, BooksOf
  <2> QED
    BY <2>1, <2>5 DEF cached
<1>5. CASE id \notin DOMAIN b.recs
  <2>1. Removed(b, id) =
          [cycle |-> cycle, daily |-> b.daily, entryIds |-> b.entryIds,
           recs |-> b.recs, cached |-> b.cached \ {id}, damage |-> b.damage]
    BY <1>5 DEF Removed, IsBooks
  <2>2. EntriesAgree(b)
        => /\ DOMAIN b.recs = b.entryIds
           /\ b.cached \ {id} \subseteq b.entryIds
           /\ DOMAIN cycle.rows \subseteq b.cached \ {id}
           /\ "remove" \notin b.damage => b.entryIds \subseteq DOMAIN cycle.rows
    <3> HIDE DEF cycle
    <3> QED
      BY <1>2, <1>5 DEF EntriesAgree
  <2> DEFINE cached == b.cached \ {id}
  <2>3. /\ IsTable(b.daily, Record) /\ b.daily.count >= 0
        /\ b.entryIds \subseteq Nat /\ b.recs \in [DOMAIN b.recs -> SUBSET Nat]
        /\ \A k \in DOMAIN b.recs : IsFiniteSet(b.recs[k])
        /\ b.damage \subseteq {"cycle", "daily", "undo", "remove"}
    BY DEF IsBooks
  <2> HIDE DEF cycle, cached
  <2>4. Keeps(b, [cycle |-> cycle, daily |-> b.daily, entryIds |-> b.entryIds,
                    recs |-> b.recs, cached |-> cached, damage |-> b.damage])
    BY <1>1, <2>2, <2>3, BooksOf DEF cached
  <2> QED
    BY <2>1, <2>4 DEF cached
<1> QED
  BY <1>3, <1>4, <1>5

\* undo, also when it throws after it has deleted the record.
LEMMA UndoneFacts ==
  ASSUME NEW b, IsBooks(b), NEW id
  PROVE  Keeps(b, Undone(b, id))
<1>1. CASE ~CanUndo(b, id)
  BY <1>1 DEF Undone, Keeps
<1>2. CASE CanUndo(b, id)
  <2> DEFINE last == LastRecord(b, id)
  <2> DEFINE previous == PreviousRecord(b, id)
  <2> DEFINE daily == DeleteRow(b.daily, last)
  <2> DEFINE recs == [b.recs EXCEPT ![id] = @ \ {last}]
  <2> DEFINE erased == [cycle |-> b.cycle, daily |-> daily,
                        entryIds |-> b.entryIds, recs |-> recs,
                        cached |-> b.cached, damage |-> b.damage]
  <2>1. id \in DOMAIN b.recs /\ last \in DOMAIN b.daily.rows /\ last \in Nat
    BY <1>2 DEF CanUndo, IsBooks, IsTable, IsRows
  <2>2. IsTable(daily, Record) /\ daily.count >= 0
    <3> HIDE DEF last
    <3> QED
      BY <2>1, DeleteRowFacts DEF IsBooks
  <2>3. /\ recs \in [DOMAIN recs -> SUBSET Nat] /\ DOMAIN recs = DOMAIN b.recs
        /\ \A k \in DOMAIN recs : IsFiniteSet(recs[k])
    <3>1. recs = [b.recs EXCEPT ![id] = b.recs[id] \ {last}]
      OBVIOUS
    <3>2. IsFiniteSet(b.recs[id] \ {last})
      BY <2>1, FS_RemoveElement, FS_Difference DEF IsBooks
    <3> HIDE DEF recs, last
    <3> QED
      BY <2>1, <3>1, <3>2 DEF IsBooks
  <2>4. Keeps(b, erased)
    <3> HIDE DEF daily, recs
    <3> QED
      BY <2>2, <2>3 DEF Keeps, IsBooks, EntriesAgree
  <2>5. CASE ~Restorable(b, id)
    <3>1. Undone(b, id) = [erased EXCEPT !.damage = @ \cup {"undo"}]
      BY <1>2, <2>5 DEF Undone
    <3> HIDE DEF erased
    <3> QED
      BY <2>4, <3>1 DEF Keeps, IsBooks, EntriesAgree
  <2>6. CASE Restorable(b, id)
    <3> DEFINE entry == RolledBack(b.cycle.rows[id], b.daily.rows[last].value,
                                   b.daily.rows[previous])
    <3>1. /\ id \in DOMAIN b.cycle.rows /\ b.cycle.rows[id] \in Entry
          /\ previous \in DOMAIN b.daily.rows
      BY <2>6 DEF Restorable, CanUpdate, IsBooks, IsTable, IsRows
    <3>2. b.daily.rows[last] \in Record /\ b.daily.rows[previous] \in Record
      <4> HIDE DEF last, previous
      <4> QED
        BY <2>1, <3>1 DEF IsBooks, IsTable, IsRows
    <3>3. entry \in Entry
      <4> DEFINE rest == b.cycle.rows[id].balance - b.daily.rows[last].value
      <4> HIDE DEF last, previous
      <4>1. b.cycle.rows[id].balance \in Int /\ b.daily.rows[last].value \in Int
        <5>1. b.cycle.rows[id].balance \in Money /\ b.daily.rows[last].value \in Money
          BY <3>1, <3>2 DEF Entry, Record
        <5> QED
          BY <5>1, MoneyIsInt
      <4>2. Wrap(rest) \in Money
        BY <4>1, WrapIsMoney
      <4>3. Pasted[b.daily.rows[previous].desc] \in Descriptions
        BY <3>2, LedgerAssumption DEF Record
      <4> QED
        BY <3>1, <3>2, <4>2, <4>3, MoneyIsInt
        DEF RolledBack, Entry, Record, Statuses
    <3>4. erased.cycle = b.cycle
      OBVIOUS
    <3>5. Undone(b, id) = [erased EXCEPT !.cycle.rows[id] = entry]
      <4>1. Undone(b, id) = [erased EXCEPT !.cycle.rows[id] =
                RolledBack(erased.cycle.rows[id], b.daily.rows[last].value,
                           b.daily.rows[previous])]
        BY <1>2, <2>6 DEF Undone
      <4> QED
        BY <3>4, <4>1
    <3> HIDE DEF erased, entry
    <3> QED
      BY <2>4, <3>1, <3>3, <3>4, <3>5, RewriteFacts DEF Keeps
  <2> QED
    BY <2>5, <2>6
<1> QED
  BY <1>1, <1>2

\* A new TableManager on the file.
LEMMA ReopenedFacts ==
  ASSUME NEW b, IsBooks(b)
  PROVE  Keeps(b, Reopened(b))
<1> DEFINE cycle == OpenTable(b.cycle.rows)
<1> DEFINE daily == OpenTable(b.daily.rows)
<1>1. Reopened(b) = [cycle |-> cycle, daily |-> daily, entryIds |-> b.entryIds,
                     recs |-> b.recs, cached |-> b.entryIds, damage |-> b.damage]
  BY DEF Reopened
<1>2. /\ IsTable(cycle, Entry) /\ cycle.count >= 0 /\ cycle.rows = b.cycle.rows
      /\ IsTable(daily, Record) /\ daily.count >= 0
  BY OpenTableFacts DEF IsBooks, IsTable
<1> HIDE DEF cycle, daily
<1>3. Keeps(b, [cycle |-> cycle, daily |-> daily, entryIds |-> b.entryIds,
                  recs |-> b.recs, cached |-> b.entryIds, damage |-> b.damage])
  BY <1>2, BooksOf DEF IsBooks, EntriesAgree
<1> QED
  BY <1>1, <1>3

\* The amount applyPolicy moves is one, rounded toward zero, and so is what
\* it takes from the source.
LEMMA PortionType ==
  ASSUME NEW balance \in Money, NEW ratio \in Money
  PROVE  /\ Hundredth(Wrap(balance * ratio)) \in Money
         /\ -Hundredth(Wrap(balance * ratio)) \in Money
<1>1. balance * ratio \in Int
  BY MoneyIsInt
<1> QED
  BY <1>1, WrapIsMoney, HundredthIsMoney

\* applyPolicy, whether both, one or none of its updates succeed.
LEMMA AppliedFacts ==
  ASSUME NEW b, WellFormed(b), NEW p \in Policy, p.source \in DOMAIN b.cycle.rows
  PROVE  WellFormed(Applied(b, p))
<1> DEFINE value == Portion(b, p)
<1> DEFINE debited == Updated(b, p.source, PolicyRecord(p, -value))
<1>1. value \in Money /\ -value \in Money
  <2>1. b.cycle.rows[p.source].balance \in Money
    BY DEF WellFormed, IsBooks, IsTable, IsRows, Entry
  <2>2. p.ratio \in Money
    BY LedgerAssumption DEF Policy
  <2> QED
    BY <2>1, <2>2, PortionType DEF Portion
<1>2. PolicyRecord(p, value) \in Record /\ PolicyRecord(p, -value) \in Record
  <2> HIDE DEF value
  <2> QED
    BY <1>1 DEF PolicyRecord, NewRecord, Record, Statuses, Policy
<1>3. WellFormed(debited)
  <2> HIDE DEF value
  <2> QED
    BY <1>2, UpdatedFacts DEF Keeps, WellFormed
<1>4. WellFormed(Updated(debited, p.destination, PolicyRecord(p, value)))
  <2> HIDE DEF value, debited
  <2> QED
    BY <1>2, <1>3, UpdatedFacts DEF Keeps, WellFormed
<1> QED
  BY <1>3, <1>4 DEF Applied

\* undoPolicy, likewise.
LEMMA PolicyUndoneFacts ==
  ASSUME NEW b, WellFormed(b), NEW p
  PROVE  WellFormed(PolicyUndone(b, p))
<1>1. WellFormed(Undone(b, p.source))
  BY UndoneFacts DEF Keeps, WellFormed
<1>2. WellFormed(Undone(Undone(b, p.source), p.destination))
  BY <1>1, UndoneFacts DEF Keeps, WellFormed
<1> QED
  BY <1>1, <1>2 DEF PolicyUndone

-----------------------------------------------------------------------------
\* Every call keeps the books well-formed and the policies typed.
LEMMA LedgerStep ==
  ASSUME TypeOK, SameEntries, Next
  PROVE  TypeOK' /\ SameEntries'
<1>1. WellFormed(books) /\ IsTable(policy, Policy) /\ policy.count >= 0
  BY DEF TypeOK, SameEntries, WellFormed
<1>2. ASSUME WellFormed(books'), IsTable(policy', Policy), policy'.count >= 0,
             reply'.outcome \in {"ok", "throws"}
      PROVE  TypeOK' /\ SameEntries'
  BY <1>2 DEF TypeOK, SameEntries, WellFormed
<1>3. \A op, id, returns : Reply(op, id, returns).outcome \in {"ok", "throws"}
  BY DEF Reply
<1>4. ASSUME NEW desc \in Descriptions, NEW balance \in Openings, Add(desc, balance)
      PROVE  TypeOK' /\ SameEntries'
  BY <1>1, <1>2, <1>3, <1>4, AddedFacts, LedgerAssumption DEF Keeps, WellFormed, Add
<1>5. ASSUME NEW desc \in Descriptions, NEW id \in EntryId, NEW value \in Values,
             NEW status \in Statuses, UpdateAs(id, value, desc, status)
      PROVE  TypeOK' /\ SameEntries'
  <2>1. NewRecord(value, desc, status) \in Record
    BY LedgerAssumption DEF NewRecord, Record
  <2> QED
    BY <1>1, <1>2, <1>3, <1>5, <2>1, UpdatedFacts DEF Keeps, WellFormed, UpdateAs
<1>6. ASSUME NEW desc \in Descriptions, NEW id \in EntryId, NEW value \in Values,
             Update(id, value, desc)
      PROVE  TypeOK' /\ SameEntries'
  <2>1. (IF value < 0 THEN "EXPENSE" ELSE "INCOME") \in Statuses
    BY DEF Statuses
  <2> QED
    BY <1>5, <1>6, <2>1 DEF Update
<1>7. ASSUME NEW id \in EntryId, Remove(id) PROVE TypeOK' /\ SameEntries'
  <2>1. id \in Nat
    BY LedgerAssumption DEF EntryId
  <2> QED
    BY <1>1, <1>2, <1>3, <1>7, <2>1, RemovedFacts DEF Keeps, WellFormed, Remove
<1>8. ASSUME NEW id \in EntryId, Undo(id) PROVE TypeOK' /\ SameEntries'
  BY <1>1, <1>2, <1>3, <1>8, UndoneFacts DEF Keeps, WellFormed, Undo
<1>9. ASSUME NEW p \in Policy, CreatePolicy(p) PROVE TypeOK' /\ SameEntries'
  BY <1>1, <1>2, <1>3, <1>9, AddRowFacts DEF CreatePolicy
<1>10. ASSUME NEW pid \in PolicyId, DeletePolicy(pid) PROVE TypeOK' /\ SameEntries'
  <2>1. pid \in Nat
    BY LedgerAssumption DEF PolicyId
  <2> QED
    BY <1>1, <1>2, <1>3, <1>10, <2>1, DeleteRowFacts DEF DeletePolicy
<1>11. ASSUME NEW pid \in PolicyId, ApplyPolicy(pid) PROVE TypeOK' /\ SameEntries'
  <2>1. policy.rows[pid] \in Policy
    BY <1>1, <1>11 DEF ApplyPolicy, IsTable, IsRows
  <2> QED
    BY <1>1, <1>2, <1>3, <1>11, <2>1, AppliedFacts DEF ApplyPolicy
<1>12. ASSUME NEW pid \in PolicyId, UndoPolicy(pid) PROVE TypeOK' /\ SameEntries'
  BY <1>1, <1>2, <1>3, <1>12, PolicyUndoneFacts DEF Keeps, WellFormed, UndoPolicy
<1>13. ASSUME NEW pid \in PolicyId, PolicyCallFails(pid)
       PROVE  TypeOK' /\ SameEntries'
  BY <1>1, <1>2, <1>3, <1>13 DEF PolicyCallFails
<1>14. CASE Reopen
  <2>1. WellFormed(books')
    BY <1>1, <1>14, ReopenedFacts DEF Keeps, WellFormed, Reopen
  <2>2. IsTable(policy', Policy) /\ policy'.count >= 0
    BY <1>1, <1>14, OpenTableFacts DEF Reopen, IsTable
  <2> QED
    BY <1>2, <1>3, <1>14, <2>1, <2>2 DEF Reopen
<1>15. GivenStatus \subseteq Statuses
  BY LedgerAssumption
<1> QED
  BY <1>4, <1>5, <1>6, <1>7, <1>8, <1>9, <1>10, <1>11, <1>12, <1>13, <1>14, <1>15
  DEF Next

LEMMA InitIsWellFormed == Init => TypeOK /\ SameEntries
<1> SUFFICES ASSUME Init PROVE TypeOK /\ SameEntries
  OBVIOUS
<1>1. DOMAIN NoRows = {} /\ \A Row : IsRows(NoRows, Row)
  BY FS_EmptySet DEF IsRows, NoRows
<1>2. \A Row : IsTable(OpenTable(NoRows), Row)
  BY <1>1, OpenTableFacts
<1>3. OpenTable(NoRows).rows = NoRows /\ OpenTable(NoRows).count >= 0
  BY <1>1, OpenTableFacts
<1>4. NoRows \in [DOMAIN NoRows -> SUBSET Nat]
  BY <1>1 DEF NoRows
<1>5. WellFormed(books)
  BY <1>1, <1>2, <1>3, <1>4 DEF WellFormed, IsBooks, EntriesAgree, Init
<1> QED
  BY <1>2, <1>3, <1>5 DEF Init, Reply, TypeOK, SameEntries, WellFormed

LEMMA LedgerInvariance == Spec => [](TypeOK /\ SameEntries)
<1>2. TypeOK /\ SameEntries /\ [Next]_vars => (TypeOK /\ SameEntries)'
  <2> SUFFICES ASSUME TypeOK, SameEntries, [Next]_vars
               PROVE  TypeOK' /\ SameEntries'
    OBVIOUS
  <2>1. CASE UNCHANGED vars
    BY <2>1 DEF vars, TypeOK, SameEntries
  <2> QED
    BY <2>1, LedgerStep
<1> QED
  BY <1>2, InitIsWellFormed, PTL DEF Spec

\* Whatever TableManager is asked to do, and whichever of its flaws strike,
\* the rows, amounts, IDs and counters of all its tables keep their types.
THEOREM LedgerIsTyped == Spec => []TypeOK
BY LedgerInvariance, PTL

\* And CycleTable, Entry_IDs_Table, the records tables and m_entry_ids name the
\* same entries.  A removal refused halfway leaves more in the others, but
\* even then each entry of CycleTable is in all of them.
THEOREM EntriesAlwaysAgree == Spec => []SameEntries
BY LedgerInvariance, PTL

-----------------------------------------------------------------------------
\* The books before any flaw.  The counters of DailyTable are sound, so that a
\* new record gets an ID above all others; those of CycleTable need not be, as
\* a caller may remove entries that do not exist.
Kept(b) ==
  /\ WellFormed(b) /\ b.damage = {}
  /\ SoundTable(b.daily)
  /\ Partitioned(b)
  /\ \A id \in DOMAIN b.recs : b.recs[id] # {}

LEMMA KeptFacts ==
  ASSUME NEW b, Kept(b)
  PROVE  /\ DOMAIN b.cycle.rows = DOMAIN b.recs /\ b.entryIds = DOMAIN b.recs
         /\ DOMAIN b.recs \subseteq Nat /\ b.daily.nextId \in Nat
         /\ DOMAIN b.daily.rows \subseteq Nat
         /\ \A r \in DOMAIN b.daily.rows : b.daily.rows[r] \in Record
         /\ \A id \in DOMAIN b.recs :
              /\ b.cycle.rows[id] \in Entry
              /\ b.recs[id] \subseteq DOMAIN b.daily.rows
              /\ IsFiniteSet(b.recs[id])
              /\ LastRecord(b, id) \in b.recs[id]
              /\ \A r \in b.recs[id] : r <= LastRecord(b, id)
<1>1. /\ DOMAIN b.cycle.rows = DOMAIN b.recs /\ b.entryIds = DOMAIN b.recs
      /\ DOMAIN b.recs \subseteq Nat /\ b.daily.nextId \in Nat
      /\ DOMAIN b.daily.rows \subseteq Nat
  BY DEF Kept, WellFormed, EntriesAgree, IsBooks, IsTable, IsRows
<1>2. \A r \in DOMAIN b.daily.rows : b.daily.rows[r] \in Record
  BY DEF Kept, WellFormed, IsBooks, IsTable, IsRows
<1>3. ASSUME NEW id \in DOMAIN b.recs
      PROVE  /\ b.cycle.rows[id] \in Entry
             /\ b.recs[id] \subseteq DOMAIN b.daily.rows
             /\ IsFiniteSet(b.recs[id])
             /\ LastRecord(b, id) \in b.recs[id]
             /\ \A r \in b.recs[id] : r <= LastRecord(b, id)
  <2>1. b.cycle.rows[id] \in Entry
    BY <1>1 DEF Kept, WellFormed, IsBooks, IsTable, IsRows
  <2>2. b.recs[id] \subseteq DOMAIN b.daily.rows /\ b.recs[id] # {}
    BY DEF Kept, Partitioned
  <2>3. IsFiniteSet(b.recs[id]) /\ b.recs[id] \subseteq Nat
    BY <1>1, <2>2 DEF Kept, WellFormed, IsBooks
  <2> QED
    BY <2>1, <2>2, <2>3, MaxOfNaturals DEF LastRecord
<1> QED
  BY <1>1, <1>2, <1>3

\* c has one more record than b, under a new ID above all others, and names it
\* among the records of entry id.
Grown(b, c, id, record) ==
  LET r == b.daily.nextId
  IN  /\ r \notin DOMAIN b.daily.rows
      /\ \A k \in DOMAIN b.daily.rows : k < r
      /\ DOMAIN c.daily.rows = DOMAIN b.daily.rows \cup {r}
      /\ c.daily.rows[r] = record
      /\ \A k \in DOMAIN b.daily.rows : c.daily.rows[k] = b.daily.rows[k]
      /\ DOMAIN c.recs = DOMAIN b.recs
      /\ c.recs[id] = b.recs[id] \cup {r}
      /\ \A k \in DOMAIN b.recs \ {id} : c.recs[k] = b.recs[k]

LEMMA RecordedGrows ==
  ASSUME NEW b, WellFormed(b), SoundTable(b.daily), Partitioned(b),
         NEW id \in DOMAIN b.recs, NEW record \in Record,
         Recorded(b, id, record).damage = {}
  PROVE  LET c == Recorded(b, id, record)
         IN  /\ b.damage = {} /\ WellFormed(c) /\ SoundTable(c.daily)
             /\ Partitioned(c) /\ Grown(b, c, id, record) /\ c.cycle = b.cycle
<1> DEFINE c == Recorded(b, id, record)
<1> DEFINE r == b.daily.nextId
<1> DEFINE daily == AddRow(b.daily, record)
<1> DEFINE recs == [b.recs EXCEPT ![id] = b.recs[id] \cup {r}]
<1>1. b.damage = {} /\ ~WillCollide(b.daily) /\ b.entryIds = DOMAIN b.recs
  <2>1. c.damage = b.damage \cup Collision(b.daily, "daily")
    BY DEF Recorded, WellFormed, IsBooks
  <2>2. b.damage = {} /\ Collision(b.daily, "daily") = {}
    BY <2>1
  <2> QED
    BY <2>2 DEF Collision, WellFormed, EntriesAgree
<1>2. c = [cycle |-> b.cycle, daily |-> daily, entryIds |-> b.entryIds,
           recs |-> recs, cached |-> b.cached,
           damage |-> b.damage \cup Collision(b.daily, "daily")]
  BY <1>1 DEF Recorded, WellFormed, IsBooks
<1>3. c.cycle = b.cycle /\ c.daily = daily /\ c.recs = recs
  BY <1>2
<1>4. WellFormed(c)
  BY RecordedFacts DEF Keeps, WellFormed
<1>5. /\ IsTable(b.daily, Record) /\ b.daily.count >= 0
      /\ IsRows(b.daily.rows, Record) /\ b.daily.nextId \in Nat
      /\ b.recs \in [DOMAIN b.recs -> SUBSET Nat]
  BY DEF WellFormed, IsBooks, IsTable
<1>6. SoundTable(daily)
  BY <1>5, AddRowFacts
<1>7. r \in Nat /\ r \notin DOMAIN b.daily.rows /\ \A k \in DOMAIN b.daily.rows : k < r
  BY <1>1, <1>5 DEF SoundTable, WillCollide, IdsAhead, MistakenForEmpty, IsTable
<1>8. /\ DOMAIN daily.rows = DOMAIN b.daily.rows \cup {r}
      /\ daily.rows[r] = record
      /\ \A k \in DOMAIN b.daily.rows : daily.rows[k] = b.daily.rows[k]
  <2>1. daily.rows = InsertRow(b.daily.rows, r, record)
    BY DEF AddRow
  <2> HIDE DEF daily, r
  <2> QED
    BY <1>7, <2>1 DEF InsertRow
<1>9. /\ DOMAIN recs = DOMAIN b.recs /\ recs[id] = b.recs[id] \cup {r}
      /\ \A k \in DOMAIN b.recs \ {id} : recs[k] = b.recs[k]
  BY <1>5
<1> HIDE DEF daily, recs, r
<1>10. /\ \A k \in DOMAIN b.recs : b.recs[k] \subseteq DOMAIN b.daily.rows
       /\ \A x \in DOMAIN b.daily.rows : \E k \in DOMAIN b.recs : x \in b.recs[k]
  BY DEF Partitioned
<1>11. Partitioned(c)
  <2>1. ASSUME NEW x \in DOMAIN daily.rows
        PROVE  \E k \in DOMAIN recs : x \in recs[k]
    BY <1>8, <1>9, <1>10
  <2>2. \A k \in DOMAIN recs : recs[k] \subseteq DOMAIN daily.rows
    BY <1>8, <1>9, <1>10
  <2>3. DOMAIN daily.rows = UNION {recs[k] : k \in DOMAIN recs}
    BY <2>1, <2>2
  <2>4. \A k, other \in DOMAIN recs : k # other => recs[k] \cap recs[other] = {}
    <3>1. \A k \in DOMAIN b.recs : r \notin b.recs[k]
      BY <1>7, <1>10
    <3>2. \A k, other \in DOMAIN b.recs : k # other => b.recs[k] \cap b.recs[other] = {}
      BY DEF Partitioned
    <3> QED
      BY <1>9, <3>1, <3>2
  <2> HIDE DEF c
  <2> QED
    BY <1>3, <2>3, <2>4 DEF Partitioned
<1>12. Grown(b, c, id, record)
  <2> HIDE DEF c
  <2> QED
    BY <1>3, <1>7, <1>8, <1>9 DEF Grown, r
<1> QED
  BY <1>1, <1>3, <1>4, <1>6, <1>11, <1>12
\* Whether the row of an entry is rewritten has no bearing on its records.
LEMMA RewriteKeeps ==
  ASSUME NEW b, IsBooks(b), NEW id \in DOMAIN b.cycle.rows, NEW entry \in Entry
  PROVE  LET c == [b EXCEPT !.cycle.rows[id] = entry]
         IN  /\ c.daily = b.daily /\ c.recs = b.recs /\ c.damage = b.damage
             /\ c.entryIds = b.entryIds
             /\ c.cycle.rows = [b.cycle.rows EXCEPT ![id] = entry]
<1> DEFINE c == [b EXCEPT !.cycle.rows[id] = entry]
<1> DEFINE t == [rows |-> [b.cycle.rows EXCEPT ![id] = entry],
                 nextId |-> b.cycle.nextId, count |-> b.cycle.count]
<1>1. c = [cycle |-> t, daily |-> b.daily, entryIds |-> b.entryIds,
           recs |-> b.recs, cached |-> b.cached, damage |-> b.damage]
  BY DEF IsBooks, IsTable
<1> HIDE DEF c
<1>2. c.cycle = t /\ t.rows = [b.cycle.rows EXCEPT ![id] = entry]
  BY <1>1
<1> HIDE DEF t
<1> QED
  BY <1>1, <1>2 DEF c

\* The amount an update leaves, and what undo makes of it, is one.
LEMMA UpdatedEntryType ==
  ASSUME NEW entry \in Entry, NEW record \in Record
  PROVE  UpdatedEntry(entry, record) \in Entry
<1>1. entry.balance \in Int /\ record.value \in Int
  <2>1. entry.balance \in Money /\ record.value \in Money
    BY DEF Entry, Record
  <2> QED
    BY <2>1, MoneyIsInt
<1> DEFINE sum == entry.balance + record.value
<1>2. Wrap(sum) \in Money
  BY <1>1, WrapIsMoney
<1>3. Pasted[record.desc] \in Descriptions
  BY LedgerAssumption DEF Record
<1> QED
  BY <1>2, <1>3 DEF UpdatedEntry, Entry, Record

LEMMA RolledBackType ==
  ASSUME NEW entry \in Entry, NEW value \in Money, NEW record \in Record
  PROVE  RolledBack(entry, value, record) \in Entry
<1>1. entry.balance \in Int /\ value \in Int
  <2>1. entry.balance \in Money
    BY DEF Entry
  <2> QED
    BY <2>1, MoneyIsInt
<1> DEFINE rest == entry.balance - value
<1>2. Wrap(rest) \in Money
  BY <1>1, WrapIsMoney
<1>3. Pasted[record.desc] \in Descriptions
  BY LedgerAssumption DEF Record
<1> QED
  BY <1>2, <1>3, MoneyIsInt DEF RolledBack, Entry, Record, Statuses

\* update: the entry follows its new record, or nothing happens.
LEMMA UpdatedKeeps ==
  ASSUME NEW b, Kept(b), NEW id, NEW record \in Record,
         Updated(b, id, record).damage = {}
  PROVE  LET c == Updated(b, id, record)
         IN  /\ Kept(c)
             /\ IF CanUpdate(b, id, record.desc)
                  THEN /\ Grown(b, c, id, record)
                       /\ c.cycle.rows = [b.cycle.rows EXCEPT
                            ![id] = UpdatedEntry(b.cycle.rows[id], record)]
                  ELSE c = b
<1> DEFINE c == Updated(b, id, record)
<1> DEFINE entry == UpdatedEntry(b.cycle.rows[id], record)
<1> DEFINE a == [b EXCEPT !.cycle.rows[id] = entry]
<1>1. CASE ~CanUpdate(b, id, record.desc)
  BY <1>1 DEF Updated
<1>2. CASE CanUpdate(b, id, record.desc)
  <2>1. /\ id \in DOMAIN b.cycle.rows /\ id \in DOMAIN b.recs
        /\ b.cycle.rows[id] \in Entry
    BY <1>2, KeptFacts DEF CanUpdate
  <2>2. entry \in Entry
    BY <2>1, UpdatedEntryType
  <2>3. c = Recorded(a, id, record)
    BY <1>2 DEF Updated
  <2>4. WellFormed(b)
    BY DEF Kept
  <2> HIDE DEF entry
  <2>5. /\ WellFormed(a) /\ a.daily = b.daily /\ a.recs = b.recs
        /\ a.cycle.rows = [b.cycle.rows EXCEPT ![id] = entry]
    <3>1. WellFormed(a)
      BY <2>1, <2>2, <2>4, RewriteFacts DEF Keeps, WellFormed
    <3>2. /\ a.daily = b.daily /\ a.recs = b.recs
          /\ a.cycle.rows = [b.cycle.rows EXCEPT ![id] = entry]
      BY <2>1, <2>2, <2>4, RewriteKeeps DEF WellFormed
    <3> QED
      BY <3>1, <3>2
  <2> HIDE DEF a, c
  <2>6. SoundTable(a.daily) /\ Partitioned(a) /\ Recorded(a, id, record).damage = {}
    BY <2>3, <2>5 DEF Kept, Partitioned, c
  <2>7. /\ WellFormed(c) /\ SoundTable(c.daily) /\ Partitioned(c)
        /\ Grown(a, c, id, record) /\ c.cycle = a.cycle
    BY <2>1, <2>3, <2>5, <2>6, RecordedGrows
  <2>8. Grown(b, c, id, record)
    BY <2>5, <2>7 DEF Grown
  <2>9. \A k \in DOMAIN c.recs : c.recs[k] # {}
    BY <2>1, <2>8 DEF Grown, Kept
  <2> QED
    BY <1>2, <2>5, <2>7, <2>8, <2>9 DEF Kept, c, entry
<1> QED
  BY <1>1, <1>2
\* add: the ID given out is free, also when it is one of a removed entry, and
\* the entry has a first record of its own.
FirstEntry(desc, balance) ==
  [balance |-> balance, last |-> 0, desc |-> desc, status |-> "UNKNOWN"]

FirstRecord(desc, balance) == NewRecord(balance, desc, "NEW_ENTRY")

LEMMA AddedKeeps ==
  ASSUME NEW b, Kept(b), NEW desc \in Descriptions, NEW balance \in Money,
         Added(b, desc, balance).damage = {}
  PROVE  LET c == Added(b, desc, balance)
             id == b.cycle.nextId
             r == b.daily.nextId
         IN  /\ Kept(c)
             /\ id \in Nat /\ id \notin DOMAIN b.recs /\ r \notin DOMAIN b.daily.rows
             /\ DOMAIN c.cycle.rows = DOMAIN b.cycle.rows \cup {id}
             /\ c.cycle.rows[id] = FirstEntry(desc, balance)
             /\ \A k \in DOMAIN b.cycle.rows : c.cycle.rows[k] = b.cycle.rows[k]
             /\ DOMAIN c.recs = DOMAIN b.recs \cup {id} /\ c.recs[id] = {r}
             /\ \A k \in DOMAIN b.recs : c.recs[k] = b.recs[k]
             /\ DOMAIN c.daily.rows = DOMAIN b.daily.rows \cup {r}
             /\ c.daily.rows[r] = FirstRecord(desc, balance)
             /\ \A k \in DOMAIN b.daily.rows : c.daily.rows[k] = b.daily.rows[k]
<1> DEFINE c == Added(b, desc, balance)
<1> DEFINE id == b.cycle.nextId
<1> DEFINE r == b.daily.nextId
<1> DEFINE entry == FirstEntry(desc, balance)
<1> DEFINE record == FirstRecord(desc, balance)
<1> DEFINE cycle == AddRow(b.cycle, entry)
<1> DEFINE recs == WithTable(b.recs, id)
<1> DEFINE a == [cycle |-> cycle, daily |-> b.daily,
                 entryIds |-> b.entryIds \cup {id}, recs |-> recs,
                 cached |-> b.cached \cup {id},
                 damage |-> b.damage \cup Collision(b.cycle, "cycle")]
<1>1. c = Recorded(a, id, record)
  BY DEF Added, FirstEntry, FirstRecord
<1>2. record \in Record /\ entry \in Entry
  BY MoneyIsInt DEF FirstRecord, FirstEntry, NewRecord, Record, Entry, Statuses
<1>3. IsTable(b.cycle, Entry) /\ b.cycle.count >= 0 /\ id \in Nat
  BY DEF Kept, WellFormed, IsBooks, IsTable
<1>4. IsTable(cycle, Entry) /\ cycle.count >= 0
  BY <1>2, <1>3, AddRowFacts
<1>5. b.damage = {} /\ DOMAIN b.recs = b.entryIds /\ b.cached = b.entryIds
      /\ DOMAIN b.cycle.rows = b.entryIds
  BY DEF Kept, WellFormed, EntriesAgree
<1>6. a.damage = {} /\ id \notin DOMAIN b.cycle.rows
  <2>1. a.damage = {}
    BY <1>1 DEF Recorded
  <2>2. Collision(b.cycle, "cycle") = {}
    BY <2>1
  <2> QED
    BY <2>1, <2>2 DEF Collision, WillCollide
<1>7. /\ DOMAIN cycle.rows = DOMAIN b.cycle.rows \cup {id}
      /\ cycle.rows[id] = entry
      /\ \A k \in DOMAIN b.cycle.rows : cycle.rows[k] = b.cycle.rows[k]
  <2>1. cycle.rows = InsertRow(b.cycle.rows, id, entry)
    BY DEF AddRow
  <2> HIDE DEF cycle, id, entry
  <2> QED
    BY <1>6, <2>1 DEF InsertRow
<1>8. /\ DOMAIN recs = DOMAIN b.recs \cup {id} /\ recs[id] = {}
      /\ \A k \in DOMAIN b.recs : recs[k] = b.recs[k]
  BY <1>5, <1>6 DEF WithTable
<1>9. /\ a.cycle = cycle /\ a.daily = b.daily /\ a.recs = recs
      /\ a.entryIds = b.entryIds \cup {id}
  OBVIOUS
<1>10. /\ recs \in [DOMAIN recs -> SUBSET Nat]
       /\ \A k \in DOMAIN recs : IsFiniteSet(recs[k])
  BY FS_EmptySet DEF WithTable, Kept, WellFormed, IsBooks
<1>11. WellFormed(a)
  <2> DEFINE entryIds == b.entryIds \cup {id}
  <2>1. a = [cycle |-> cycle, daily |-> b.daily, entryIds |-> entryIds,
             recs |-> recs, cached |-> entryIds, damage |-> {}]
    BY <1>5, <1>6
  <2>2. IsTable(b.daily, Record) /\ b.daily.count >= 0 /\ entryIds \subseteq Nat
    BY <1>3 DEF Kept, WellFormed, IsBooks
  <2>3. DOMAIN cycle.rows = entryIds /\ DOMAIN recs = entryIds
    BY <1>5, <1>7, <1>8
  <2> HIDE DEF cycle, recs, entryIds, a
  <2> QED
    BY <1>4, <1>10, <2>1, <2>2, <2>3 DEF WellFormed, IsBooks, EntriesAgree
<1>12. Partitioned(a)
  <2>1. UNION {recs[k] : k \in DOMAIN recs} = UNION {b.recs[k] : k \in DOMAIN b.recs}
    <3> HIDE DEF recs, id
    <3>1. \A k \in DOMAIN recs : recs[k] = {} \/ k \in DOMAIN b.recs
      BY <1>8
    <3> QED
      BY <1>8, <3>1
  <2>2. \A k, other \in DOMAIN recs : k # other => recs[k] \cap recs[other] = {}
    <3> HIDE DEF recs, id
    <3> QED
      BY <1>8 DEF Kept, Partitioned
  <2>3. DOMAIN b.daily.rows = UNION {b.recs[k] : k \in DOMAIN b.recs}
    BY DEF Kept, Partitioned
  <2> HIDE DEF a, recs
  <2> QED
    BY <1>9, <2>1, <2>2, <2>3 DEF Partitioned
<1> HIDE DEF a, c, cycle, recs, entry, record, id
<1>13. SoundTable(a.daily) /\ Recorded(a, id, record).damage = {} /\ id \in DOMAIN a.recs
  BY <1>1, <1>8, <1>9 DEF Kept, c
<1>14. /\ WellFormed(c) /\ SoundTable(c.daily) /\ Partitioned(c)
       /\ Grown(a, c, id, record) /\ c.cycle = a.cycle
  BY <1>1, <1>2, <1>11, <1>12, <1>13, RecordedGrows
<1>15. /\ DOMAIN c.recs = DOMAIN b.recs \cup {id} /\ c.recs[id] = {r}
       /\ \A k \in DOMAIN b.recs : c.recs[k] = b.recs[k]
  BY <1>5, <1>6, <1>8, <1>9, <1>14 DEF Grown
<1>16. /\ r \notin DOMAIN b.daily.rows
       /\ DOMAIN c.daily.rows = DOMAIN b.daily.rows \cup {r}
       /\ c.daily.rows[r] = record
       /\ \A k \in DOMAIN b.daily.rows : c.daily.rows[k] = b.daily.rows[k]
  BY <1>9, <1>14 DEF Grown
<1>17. Kept(c)
  BY <1>14, <1>15 DEF Kept, c
<1> QED
  BY <1>3, <1>5, <1>6, <1>7, <1>9, <1>14, <1>15, <1>16, <1>17
  DEF c, entry, record, id
\* remove: the entry goes with its records, and no other record does.
LEMMA RemovedKeeps ==
  ASSUME NEW b, Kept(b), NEW id \in Nat, Removed(b, id).damage = {}
  PROVE  LET c == Removed(b, id)
         IN  /\ Kept(c)
             /\ DOMAIN c.cycle.rows = DOMAIN b.cycle.rows \ {id}
             /\ \A k \in DOMAIN c.cycle.rows : c.cycle.rows[k] = b.cycle.rows[k]
             /\ DOMAIN c.recs = DOMAIN b.recs \ {id}
             /\ \A k \in DOMAIN c.recs : c.recs[k] = b.recs[k]
             /\ DOMAIN c.daily.rows \subseteq DOMAIN b.daily.rows
             /\ \A r \in DOMAIN c.daily.rows : c.daily.rows[r] = b.daily.rows[r]
<1> DEFINE c == Removed(b, id)
<1> DEFINE cycle == DeleteRow(b.cycle, id)
<1>1. WellFormed(c)
  BY RemovedFacts DEF Keeps, WellFormed, Kept
<1>2. /\ DOMAIN cycle.rows = DOMAIN b.cycle.rows \ {id}
      /\ \A k \in DOMAIN cycle.rows : cycle.rows[k] = b.cycle.rows[k]
  <2>1. IsTable(b.cycle, Entry) /\ b.cycle.count >= 0 /\ IsRows(b.cycle.rows, Entry)
    BY DEF Kept, WellFormed, IsBooks, IsTable
  <2>2. cycle.rows = WithoutRows(b.cycle.rows, {id})
    BY <2>1, DeleteRowFacts
  <2> HIDE DEF cycle
  <2> QED
    BY <2>2 DEF WithoutRows, Restrict
<1>3. CASE id \notin DOMAIN b.recs
  <2>1. /\ c.cycle = cycle /\ c.daily = b.daily /\ c.recs = b.recs
        /\ c.damage = b.damage
    BY <1>3 DEF Removed, Kept, WellFormed, IsBooks
  <2> HIDE DEF c, cycle
  <2> QED
    BY <1>1, <1>2, <1>3, <2>1 DEF Kept, Partitioned, c
<1>4. CASE id \in DOMAIN b.recs
  <2> DEFINE daily == DeleteRows(b.daily, b.recs[id], Cardinality(b.recs[id]))
  <2> DEFINE recs == Restrict(b.recs, DOMAIN b.recs \ {id})
  <2>1. CanDelete(b, id)
    <3> SUFFICES ASSUME ~CanDelete(b, id) PROVE "remove" \in c.damage
      OBVIOUS
    <3>1. c = [cycle |-> cycle, daily |-> b.daily, entryIds |-> b.entryIds,
               recs |-> b.recs, cached |-> b.cached \ {id},
               damage |-> b.damage \cup {"remove"}]
      BY <1>4 DEF Removed, Kept, WellFormed, IsBooks
    <3> HIDE DEF c, cycle
    <3> QED
      BY <3>1
  <2>2. /\ c.cycle = cycle /\ c.daily = daily /\ c.recs = recs
        /\ c.damage = b.damage
    BY <1>4, <2>1 DEF Removed, Kept, WellFormed, IsBooks
  <2>3. /\ DOMAIN recs = DOMAIN b.recs \ {id}
        /\ \A k \in DOMAIN recs : recs[k] = b.recs[k]
    BY DEF Restrict
  <2>4. b.recs[id] \subseteq DOMAIN b.daily.rows /\ Cardinality(b.recs[id]) \in Nat
    BY <1>4, KeptFacts, FS_CardinalityType
  <2>5. IsTable(b.daily, Record) /\ b.daily.count >= 0 /\ SoundTable(b.daily)
        /\ IsRows(b.daily.rows, Record)
    BY DEF Kept, WellFormed, IsBooks, IsTable
  <2>6. SoundTable(daily) /\ daily.rows = WithoutRows(b.daily.rows, b.recs[id])
    BY <2>4, <2>5, DeleteRowsFacts
  <2>7. /\ DOMAIN daily.rows = DOMAIN b.daily.rows \ b.recs[id]
        /\ \A r \in DOMAIN daily.rows : daily.rows[r] = b.daily.rows[r]
    <3> HIDE DEF daily
    <3> QED
      BY <2>6 DEF WithoutRows, Restrict
  <2> HIDE DEF c, cycle, daily, recs
  <2>8. Partitioned(c)
    <3>1. \A k, other \in DOMAIN b.recs : k # other => b.recs[k] \cap b.recs[other] = {}
      BY DEF Kept, Partitioned
    <3>2. /\ \A k \in DOMAIN b.recs : b.recs[k] \subseteq DOMAIN b.daily.rows
          /\ \A r \in DOMAIN b.daily.rows : \E k \in DOMAIN b.recs : r \in b.recs[k]
      BY DEF Kept, Partitioned
    <3>3. \A r \in DOMAIN daily.rows : \E k \in DOMAIN recs : r \in recs[k]
      BY <2>3, <2>7, <3>2
    <3>4. \A k \in DOMAIN recs : recs[k] \subseteq DOMAIN daily.rows
      <4> SUFFICES ASSUME NEW k \in DOMAIN recs, NEW r \in recs[k]
                   PROVE  r \in DOMAIN b.daily.rows /\ r \notin b.recs[id]
        BY <2>7
      <4> QED
        BY <1>4, <2>3, <3>1, <3>2
    <3>5. DOMAIN daily.rows = UNION {recs[k] : k \in DOMAIN recs}
      <4>1. ASSUME NEW r \in DOMAIN daily.rows PROVE r \in UNION {recs[k] : k \in DOMAIN recs}
        BY <3>3
      <4>2. ASSUME NEW r \in UNION {recs[k] : k \in DOMAIN recs} PROVE r \in DOMAIN daily.rows
        BY <3>4
      <4> QED
        BY <4>1, <4>2
    <3>6. \A k, other \in DOMAIN recs : k # other => recs[k] \cap recs[other] = {}
      BY <2>3, <3>1
    <3> QED
      BY <2>2, <3>5, <3>6 DEF Partitioned
  <2>9. \A k \in DOMAIN c.recs : c.recs[k] # {}
    BY <2>2, <2>3 DEF Kept
  <2> QED
    BY <1>1, <1>2, <2>2, <2>3, <2>6, <2>7, <2>8, <2>9 DEF Kept, c
<1> QED
  BY <1>3, <1>4

\* A new TableManager finds the same contents, and counters as good as any.
LEMMA ReopenedKeeps ==
  ASSUME NEW b, Kept(b)
  PROVE  LET c == Reopened(b)
         IN  Kept(c) /\ c.cycle.rows = b.cycle.rows /\ c.recs = b.recs
             /\ c.daily.rows = b.daily.rows
<1> DEFINE c == Reopened(b)
<1>1. WellFormed(c)
  BY ReopenedFacts DEF Keeps, WellFormed, Kept
<1>2. IsRows(b.daily.rows, Record) /\ IsRows(b.cycle.rows, Entry)
  BY DEF Kept, WellFormed, IsBooks, IsTable
<1>3. /\ c.daily = OpenTable(b.daily.rows) /\ c.cycle = OpenTable(b.cycle.rows)
      /\ c.recs = b.recs /\ c.damage = b.damage
  BY DEF Reopened
<1>4. SoundTable(c.daily) /\ c.daily.rows = b.daily.rows /\ c.cycle.rows = b.cycle.rows
  BY <1>2, <1>3, OpenTableFacts
<1> HIDE DEF c
<1> QED
  BY <1>1, <1>3, <1>4 DEF Kept, Partitioned, c
\* c is b without the latest record of entry id.
Shrunk(b, c, id) ==
  LET r == LastRecord(b, id)
  IN  /\ DOMAIN c.daily.rows = DOMAIN b.daily.rows \ {r}
      /\ \A k \in DOMAIN c.daily.rows : c.daily.rows[k] = b.daily.rows[k]
      /\ DOMAIN c.recs = DOMAIN b.recs
      /\ c.recs[id] = b.recs[id] \ {r}
      /\ \A k \in DOMAIN b.recs \ {id} : c.recs[k] = b.recs[k]

\* No records table names a record that is gone.
Stored(b) == \A id \in DOMAIN b.recs : b.recs[id] \subseteq DOMAIN b.daily.rows

\* An entry with at least two records has one before its latest.
LEMMA PreviousFacts ==
  ASSUME NEW b, IsBooks(b), NEW id, CanUndo(b, id)
  PROVE  /\ id \in DOMAIN b.recs
         /\ LastRecord(b, id) \in b.recs[id]
         /\ PreviousRecord(b, id) \in b.recs[id] \ {LastRecord(b, id)}
         /\ \A r \in b.recs[id] \ {LastRecord(b, id)} : r <= PreviousRecord(b, id)
<1> DEFINE last == LastRecord(b, id)
<1> DEFINE rest == b.recs[id] \ {last}
<1>1. /\ id \in DOMAIN b.recs /\ Cardinality(b.recs[id]) >= 2
      /\ IsFiniteSet(b.recs[id]) /\ b.recs[id] \subseteq Nat
  BY DEF CanUndo, IsBooks
<1>2. last \in b.recs[id]
  <2>1. b.recs[id] # {}
    BY <1>1, FS_EmptySet
  <2> QED
    BY <1>1, <2>1, MaxOfNaturals DEF LastRecord
<1> HIDE DEF last
<1>3. IsFiniteSet(rest) /\ Cardinality(rest) = Cardinality(b.recs[id]) - 1
  BY <1>1, <1>2, FS_RemoveElement, Zenon
<1>4. Cardinality(rest) >= 1
  BY <1>1, <1>3, FS_CardinalityType
<1>5. rest # {}
  BY <1>4, FS_EmptySet
<1>6. Max(rest) \in rest /\ \A r \in rest : r <= Max(rest)
  <2> HIDE DEF rest
  <2>1. rest \subseteq Nat
    BY <1>1 DEF rest
  <2> QED
    BY <1>3, <1>5, <2>1, MaxOfNaturals
<1> QED
  BY <1>1, <1>2, <1>6 DEF PreviousRecord, last

\* undo: the entry follows the record before its latest, or nothing happens.
LEMMA UndoneKeeps ==
  ASSUME NEW b, Kept(b), NEW id, Undone(b, id).damage = {}
  PROVE  LET c == Undone(b, id)
         IN  /\ Kept(c)
             /\ IF CanUndo(b, id)
                  THEN /\ Restorable(b, id)
                       /\ Shrunk(b, c, id)
                       /\ c.cycle.rows = [b.cycle.rows EXCEPT
                            ![id] = RolledBack(b.cycle.rows[id],
                                      b.daily.rows[LastRecord(b, id)].value,
                                      b.daily.rows[PreviousRecord(b, id)])]
                  ELSE c = b
<1> DEFINE c == Undone(b, id)
<1>1. CASE ~CanUndo(b, id)
  BY <1>1 DEF Undone
<1>2. CASE CanUndo(b, id)
  <2> DEFINE last == LastRecord(b, id)
  <2> DEFINE previous == PreviousRecord(b, id)
  <2> DEFINE daily == DeleteRow(b.daily, last)
  <2> DEFINE recs == [b.recs EXCEPT ![id] = b.recs[id] \ {last}]
  <2> DEFINE entry == RolledBack(b.cycle.rows[id], b.daily.rows[last].value,
                                 b.daily.rows[previous])
  <2> DEFINE a == [cycle |-> b.cycle, daily |-> daily, entryIds |-> b.entryIds,
                   recs |-> recs, cached |-> b.cached, damage |-> b.damage]
  <2>1. /\ id \in DOMAIN b.recs /\ last \in b.recs[id]
        /\ previous \in b.recs[id] \ {last}
    BY <1>2, PreviousFacts DEF Kept, WellFormed
  <2>2. /\ last \in DOMAIN b.daily.rows /\ last \in Nat
        /\ b.recs[id] \subseteq DOMAIN b.daily.rows
        /\ id \in DOMAIN b.cycle.rows /\ b.cycle.rows[id] \in Entry
        /\ b.daily.rows[last] \in Record /\ b.daily.rows[previous] \in Record
    <3> HIDE DEF last, previous
    <3> QED
      BY <2>1, KeptFacts
  <2>3. IsTable(b.daily, Record) /\ b.daily.count >= 0 /\ SoundTable(b.daily)
        /\ b.recs \in [DOMAIN b.recs -> SUBSET Nat]
    BY DEF Kept, WellFormed, IsBooks
  <2>4. Restorable(b, id)
    <3> SUFFICES ASSUME ~Restorable(b, id) PROVE "undo" \in c.damage
      OBVIOUS
    <3>1. c = [a EXCEPT !.damage = b.damage \cup {"undo"}]
      BY <1>2 DEF Undone
    <3> HIDE DEF c, daily, recs
    <3> QED
      BY <3>1
  <2>5. c = [a EXCEPT !.cycle.rows[id] = entry]
    <3>1. c = [a EXCEPT !.cycle.rows[id] = RolledBack(a.cycle.rows[id],
                 b.daily.rows[last].value, b.daily.rows[previous])]
      BY <1>2, <2>4 DEF Undone
    <3>2. a.cycle = b.cycle
      OBVIOUS
    <3> QED
      BY <3>1, <3>2
  <2>6. WellFormed(c)
    BY UndoneFacts DEF Keeps, WellFormed, Kept
  <2> HIDE DEF c, entry, daily, recs, last, previous
  <2>7. /\ c.daily = daily /\ c.recs = recs
        /\ c.cycle.rows = [b.cycle.rows EXCEPT ![id] = entry]
    <3> DEFINE t == [rows |-> [b.cycle.rows EXCEPT ![id] = entry],
                     nextId |-> b.cycle.nextId, count |-> b.cycle.count]
    <3>1. c = [cycle |-> t, daily |-> daily, entryIds |-> b.entryIds,
               recs |-> recs, cached |-> b.cached, damage |-> b.damage]
      BY <2>5 DEF Kept, WellFormed, IsBooks, IsTable
    <3>2. c.cycle = t /\ t.rows = [b.cycle.rows EXCEPT ![id] = entry]
      BY <3>1
    <3> HIDE DEF t
    <3> QED
      BY <3>1, <3>2
  <2>8. SoundTable(daily) /\ daily.rows = WithoutRows(b.daily.rows, {last})
    BY <2>2, <2>3, DeleteRowFacts DEF daily
  <2>9. /\ DOMAIN daily.rows = DOMAIN b.daily.rows \ {last}
        /\ \A k \in DOMAIN daily.rows : daily.rows[k] = b.daily.rows[k]
    BY <2>8 DEF WithoutRows, Restrict
  <2>10. /\ DOMAIN recs = DOMAIN b.recs /\ recs[id] = b.recs[id] \ {last}
         /\ \A k \in DOMAIN b.recs \ {id} : recs[k] = b.recs[k]
    BY <2>1, <2>3 DEF recs
  <2>11. Shrunk(b, c, id)
    BY <2>7, <2>9, <2>10 DEF Shrunk, last
  <2>12. Partitioned(c)
    <3>1. \A k, other \in DOMAIN b.recs : k # other => b.recs[k] \cap b.recs[other] = {}
      BY DEF Kept, Partitioned
    <3>2. /\ \A k \in DOMAIN b.recs : b.recs[k] \subseteq DOMAIN b.daily.rows
          /\ \A r \in DOMAIN b.daily.rows : \E k \in DOMAIN b.recs : r \in b.recs[k]
      BY DEF Kept, Partitioned
    <3>3. ASSUME NEW r \in DOMAIN daily.rows PROVE r \in UNION {recs[k] : k \in DOMAIN recs}
      <4>1. PICK k \in DOMAIN b.recs : r \in b.recs[k]
        BY <2>9, <3>2
      <4>2. k \in DOMAIN recs /\ r \in recs[k]
        BY <2>9, <2>10, <4>1
      <4> QED
        BY <4>2
    <3>4. ASSUME NEW k \in DOMAIN recs PROVE recs[k] \subseteq DOMAIN daily.rows
      BY <2>1, <2>9, <2>10, <3>1, <3>2
    <3>5. DOMAIN daily.rows = UNION {recs[k] : k \in DOMAIN recs}
      BY <3>3, <3>4
    <3>6. \A k, other \in DOMAIN recs : k # other => recs[k] \cap recs[other] = {}
      BY <2>10, <3>1
    <3> QED
      BY <2>7, <3>5, <3>6 DEF Partitioned
  <2>13. \A k \in DOMAIN c.recs : c.recs[k] # {}
    BY <2>1, <2>7, <2>10 DEF Kept
  <2>14. Kept(c)
    BY <2>6, <2>7, <2>8, <2>12, <2>13 DEF Kept, c
  <2> QED
    BY <1>2, <2>4, <2>7, <2>11, <2>14 DEF c, entry, last, previous
<1> QED
  BY <1>1, <1>2
-----------------------------------------------------------------------------
\* What the two calls of a policy do, one after the other.
LEMMA DamageStays ==
  ASSUME NEW b, WellFormed(b), NEW id
  PROVE  /\ \A record : b.damage \subseteq Updated(b, id, record).damage
         /\ b.damage \subseteq Undone(b, id).damage
<1>1. ASSUME NEW record PROVE b.damage \subseteq Updated(b, id, record).damage
  <2> DEFINE entry == UpdatedEntry(b.cycle.rows[id], record)
  <2> DEFINE a == [b EXCEPT !.cycle.rows[id] = entry]
  <2>1. CASE ~CanUpdate(b, id, record.desc)
    BY <2>1 DEF Updated
  <2>2. CASE CanUpdate(b, id, record.desc)
    <3>1. Updated(b, id, record) = Recorded(a, id, record)
      BY <2>2 DEF Updated
    <3>2. /\ a.damage = b.damage
          /\ a = [cycle |-> a.cycle, daily |-> a.daily, entryIds |-> a.entryIds,
                  recs |-> a.recs, cached |-> a.cached, damage |-> a.damage]
      BY DEF WellFormed, IsBooks
    <3> HIDE DEF a
    <3>3. Recorded(a, id, record).damage = a.damage \cup Collision(a.daily, "daily")
      BY <3>2 DEF Recorded
    <3> QED
      BY <3>1, <3>2, <3>3
  <2> QED
    BY <2>1, <2>2
<1>2. b.damage \subseteq Undone(b, id).damage
  <2> DEFINE last == LastRecord(b, id)
  <2> DEFINE daily == DeleteRow(b.daily, last)
  <2> DEFINE recs == [b.recs EXCEPT ![id] = @ \ {last}]
  <2> DEFINE a == [cycle |-> b.cycle, daily |-> daily, entryIds |-> b.entryIds,
                   recs |-> recs, cached |-> b.cached, damage |-> b.damage]
  <2>1. \/ Undone(b, id) = b
        \/ Undone(b, id) = [a EXCEPT !.damage = @ \cup {"undo"}]
        \/ \E entry : Undone(b, id) = [a EXCEPT !.cycle.rows[id] = entry]
    BY DEF Undone
  <2> HIDE DEF daily, recs
  <2>2. /\ [a EXCEPT !.damage = @ \cup {"undo"}].damage = b.damage \cup {"undo"}
        /\ \A entry : [a EXCEPT !.cycle.rows[id] = entry].damage = b.damage
    OBVIOUS
  <2> HIDE DEF a
  <2> QED
    BY <2>1, <2>2
<1> QED
  BY <1>1, <1>2

LEMMA PolicyRecordType ==
  ASSUME NEW b, WellFormed(b), NEW p \in Policy, p.source \in DOMAIN b.cycle.rows
  PROVE  LET value == Portion(b, p)
         IN  /\ value \in Money /\ PolicyRecord(p, value) \in Record
             /\ -value \in Money /\ PolicyRecord(p, -value) \in Record
<1> DEFINE value == Portion(b, p)
<1>1. value \in Money /\ -value \in Money
  <2>1. b.cycle.rows[p.source].balance \in Money
    BY DEF WellFormed, IsBooks, IsTable, IsRows, Entry
  <2>2. p.ratio \in Money
    BY LedgerAssumption DEF Policy
  <2> QED
    BY <2>1, <2>2, PortionType DEF Portion
<1> HIDE DEF value
<1>2. PolicyRecord(p, value) \in Record /\ PolicyRecord(p, -value) \in Record
  BY <1>1 DEF PolicyRecord, NewRecord, Record, Statuses, Policy
<1> QED
  BY <1>1, <1>2 DEF value

LEMMA AppliedParts ==
  ASSUME NEW b, WellFormed(b), NEW p \in Policy, p.source \in DOMAIN b.cycle.rows
  PROVE  LET value == Portion(b, p)
             debited == Updated(b, p.source, PolicyRecord(p, -value))
         IN  /\ b.damage \subseteq debited.damage
             /\ debited.damage \subseteq Applied(b, p).damage
             /\ \/ Applied(b, p) = debited
                \/ Applied(b, p) =
                     Updated(debited, p.destination, PolicyRecord(p, value))
<1> DEFINE value == Portion(b, p)
<1> DEFINE debited == Updated(b, p.source, PolicyRecord(p, -value))
<1>1. \/ Applied(b, p) = debited
      \/ Applied(b, p) = Updated(debited, p.destination, PolicyRecord(p, value))
  BY DEF Applied
<1>2. WellFormed(debited)
  BY PolicyRecordType, UpdatedFacts DEF Keeps, WellFormed
<1>3. b.damage \subseteq debited.damage
  BY DamageStays
<1> HIDE DEF debited, value
<1>4. debited.damage \subseteq Applied(b, p).damage
  BY <1>1, <1>2, DamageStays
<1> QED
  BY <1>1, <1>3, <1>4 DEF debited, value

LEMMA PolicyUndoneParts ==
  ASSUME NEW b, WellFormed(b), NEW p
  PROVE  LET first == Undone(b, p.source)
         IN  /\ b.damage \subseteq first.damage
             /\ first.damage \subseteq PolicyUndone(b, p).damage
             /\ \/ PolicyUndone(b, p) = first
                \/ PolicyUndone(b, p) = Undone(first, p.destination)
<1> DEFINE first == Undone(b, p.source)
<1>1. PolicyUndone(b, p) = first \/ PolicyUndone(b, p) = Undone(first, p.destination)
  BY DEF PolicyUndone
<1>2. WellFormed(first) /\ b.damage \subseteq first.damage
  BY UndoneFacts, DamageStays DEF Keeps, WellFormed
<1> HIDE DEF first
<1>3. first.damage \subseteq PolicyUndone(b, p).damage
  BY <1>1, <1>2, DamageStays
<1> QED
  BY <1>1, <1>2, <1>3 DEF first

\* What a step of the ledger does to the books.
CallOf(b, c) ==
  \/ \E desc \in Descriptions, balance \in Money :
       b.cycle.nextId < MaxEntry /\ c = Added(b, desc, balance)
  \/ \E id \in EntryId, record \in Record :
       /\ "NEW_ENTRY" \notin GivenStatus => record.status # "NEW_ENTRY"
       /\ c = Updated(b, id, record)
  \/ \E id \in EntryId : c = Removed(b, id) \/ c = Undone(b, id)
  \/ \E p \in Policy : p.source \in DOMAIN b.cycle.rows /\ c = Applied(b, p)
  \/ \E p \in Policy : c = PolicyUndone(b, p)
  \/ c = Reopened(b)
  \/ c = b

LEMMA StepIsCall ==
  ASSUME TypeOK, [Next]_vars
  PROVE  CallOf(books, books')
<1>1. \A pid \in DOMAIN policy.rows : policy.rows[pid] \in Policy
  BY DEF TypeOK, IsTable, IsRows
<1>2. ASSUME NEW desc \in Descriptions, NEW balance \in Openings, Add(desc, balance)
      PROVE  CallOf(books, books')
  BY <1>2, LedgerAssumption DEF Add, CallOf
<1>3. ASSUME NEW desc \in Descriptions, NEW id \in EntryId, NEW value \in Values,
             NEW status \in Statuses, UpdateAs(id, value, desc, status),
             "NEW_ENTRY" \notin GivenStatus => status # "NEW_ENTRY"
      PROVE  CallOf(books, books')
  <2> DEFINE record == NewRecord(value, desc, status)
  <2>1. record \in Record /\ record.status = status
    BY LedgerAssumption DEF NewRecord, Record
  <2>2. books' = Updated(books, id, record)
    BY <1>3 DEF UpdateAs
  <2> HIDE DEF record
  <2> QED
    BY <1>3, <2>1, <2>2 DEF CallOf
<1>4. ASSUME NEW desc \in Descriptions, NEW id \in EntryId, NEW value \in Values,
             Update(id, value, desc)
      PROVE  CallOf(books, books')
  <2>1. (IF value < 0 THEN "EXPENSE" ELSE "INCOME") \in Statuses \ {"NEW_ENTRY"}
    BY DEF Statuses
  <2> QED
    BY <1>3, <1>4, <2>1 DEF Update
<1>5. ASSUME NEW id \in EntryId, Remove(id) \/ Undo(id) PROVE CallOf(books, books')
  BY <1>5 DEF Remove, Undo, CallOf
<1>6. ASSUME NEW pid \in PolicyId, ApplyPolicy(pid) \/ UndoPolicy(pid)
      PROVE  CallOf(books, books')
  BY <1>1, <1>6 DEF ApplyPolicy, UndoPolicy, CallOf
<1>7. ASSUME UNCHANGED books PROVE CallOf(books, books')
  BY <1>7 DEF CallOf
<1>8. CASE Reopen
  BY <1>8 DEF Reopen, CallOf
<1>9. GivenStatus \subseteq Statuses
  BY LedgerAssumption
<1>10. ASSUME Next PROVE CallOf(books, books')
  BY <1>2, <1>3, <1>4, <1>5, <1>6, <1>7, <1>8, <1>9, <1>10
  DEF Next, CreatePolicy, DeletePolicy, PolicyCallFails
<1> QED
  BY <1>7, <1>10 DEF vars
-----------------------------------------------------------------------------
\* The records of an entry sum to an integer, the same in any books in which
\* the entry has the same records.
RecordSum(b, id) == SumFunctionOnSet(Amount(b), b.recs[id])

LEMMA AmountFacts ==
  ASSUME NEW b, IsBooks(b), NEW r \in DOMAIN b.daily.rows
  PROVE  Amount(b)[r] = b.daily.rows[r].value /\ Amount(b)[r] \in Int
<1>1. Amount(b)[r] = b.daily.rows[r].value
  BY DEF Amount
<1>2. b.daily.rows[r].value \in Money
  <2>1. b.daily.rows[r] \in Record
    BY DEF IsBooks, IsTable, IsRows
  <2> QED
    BY <2>1 DEF Record
<1> QED
  BY <1>1, <1>2, MoneyIsInt

LEMMA RecordSumType ==
  ASSUME NEW b, IsBooks(b), NEW id \in DOMAIN b.recs,
         b.recs[id] \subseteq DOMAIN b.daily.rows
  PROVE  RecordSum(b, id) \in Int
<1>1. IsFiniteSet(b.recs[id])
  BY DEF IsBooks
<1> QED
  BY <1>1, AmountFacts, SumIsInt DEF RecordSum

LEMMA AmountType ==
  ASSUME NEW b, Kept(b)
  PROVE  /\ \A r \in DOMAIN b.daily.rows :
              Amount(b)[r] = b.daily.rows[r].value /\ Amount(b)[r] \in Int
         /\ \A id \in DOMAIN b.recs : RecordSum(b, id) \in Int
BY KeptFacts, AmountFacts, RecordSumType DEF Kept, WellFormed

LEMMA SameAmountsSameSum ==
  ASSUME NEW b, IsBooks(b), NEW c, IsBooks(c), NEW id \in DOMAIN b.recs,
         id \in DOMAIN c.recs, c.recs[id] = b.recs[id],
         b.recs[id] \subseteq DOMAIN b.daily.rows,
         c.recs[id] \subseteq DOMAIN c.daily.rows,
         \A r \in b.recs[id] : c.daily.rows[r] = b.daily.rows[r]
  PROVE  RecordSum(c, id) = RecordSum(b, id)
<1>1. \A r \in b.recs[id] : Amount(c)[r] = Amount(b)[r]
  BY AmountFacts
<1>2. IsFiniteSet(b.recs[id])
  BY DEF IsBooks
<1> QED
  BY <1>1, <1>2, SumOfEqual DEF RecordSum

LEMMA SameRecordsSameSum ==
  ASSUME NEW b, Kept(b), NEW c, Kept(c), NEW id \in DOMAIN b.recs,
         id \in DOMAIN c.recs, c.recs[id] = b.recs[id],
         \A r \in b.recs[id] : c.daily.rows[r] = b.daily.rows[r]
  PROVE  RecordSum(c, id) = RecordSum(b, id)
BY KeptFacts, SameAmountsSameSum DEF Kept, WellFormed

\* In c the entry has the records it has in b and a later one, r, and has been
\* updated with it.
Ahead(b, c, id, r, record) ==
  /\ id \in DOMAIN b.recs /\ id \in DOMAIN c.recs
  /\ \A k \in b.recs[id] : k < r /\ c.daily.rows[k] = b.daily.rows[k]
  /\ c.recs[id] = b.recs[id] \cup {r}
  /\ c.daily.rows[r] = record
  /\ c.cycle.rows[id] = UpdatedEntry(b.cycle.rows[id], record)

LEMMA AheadBalances ==
  ASSUME NEW b, IsBooks(b), NEW c, IsBooks(c), NEW id, NEW r, NEW record \in Record,
         Ahead(b, c, id, r, record),
         b.recs[id] \subseteq DOMAIN b.daily.rows,
         c.recs[id] \subseteq DOMAIN c.daily.rows,
         b.cycle.rows[id].balance = Wrap(RecordSum(b, id))
  PROVE  c.cycle.rows[id].balance = Wrap(RecordSum(c, id))
<1> DEFINE names == b.recs[id]
<1>1. /\ id \in DOMAIN b.recs /\ id \in DOMAIN c.recs
      /\ IsFiniteSet(names) /\ names \subseteq Nat
  BY DEF Ahead, IsBooks
<1>2. /\ r \notin names /\ r \in DOMAIN c.daily.rows
      /\ c.recs[id] = names \cup {r} /\ c.daily.rows[r] = record
      /\ names \subseteq DOMAIN c.daily.rows
      /\ \A k \in names : c.daily.rows[k] = b.daily.rows[k]
  BY <1>1 DEF Ahead
<1>3. /\ \A k \in names \cup {r} : Amount(c)[k] \in Int
      /\ Amount(c)[r] = record.value
      /\ \A k \in names : Amount(c)[k] = Amount(b)[k]
  BY <1>2, AmountFacts
<1>4. SumFunctionOnSet(Amount(c), names) = RecordSum(b, id)
  BY <1>1, <1>3, SumOfEqual DEF RecordSum
<1>5. RecordSum(c, id) = record.value + RecordSum(b, id)
  BY <1>1, <1>2, <1>3, <1>4, SumWith DEF RecordSum
<1>6. record.value \in Int /\ RecordSum(b, id) \in Int
  BY <1>1, <1>3, RecordSumType
<1>7. c.cycle.rows[id].balance = Wrap(Wrap(RecordSum(b, id)) + record.value)
  BY DEF Ahead, UpdatedEntry
<1>8. Wrap(Wrap(RecordSum(b, id)) + record.value)
        = Wrap(RecordSum(b, id) + record.value)
  BY <1>6, WrapOfSum
<1>9. RecordSum(b, id) + record.value = record.value + RecordSum(b, id)
  BY <1>6
<1> QED
  BY <1>5, <1>7, <1>8, <1>9

\* In c the entry has the records it has in b but the latest, which it has been
\* rolled back from.
Behind(b, c, id) ==
  LET r == LastRecord(b, id)
  IN  /\ id \in DOMAIN b.recs /\ id \in DOMAIN c.recs /\ r \in b.recs[id]
      /\ c.recs[id] = b.recs[id] \ {r}
      /\ \A k \in c.recs[id] : c.daily.rows[k] = b.daily.rows[k]
      /\ c.cycle.rows[id] = RolledBack(b.cycle.rows[id], b.daily.rows[r].value,
                                       b.daily.rows[PreviousRecord(b, id)])

LEMMA BehindBalances ==
  ASSUME NEW b, IsBooks(b), NEW c, IsBooks(c), NEW id, Behind(b, c, id),
         b.recs[id] \subseteq DOMAIN b.daily.rows,
         c.recs[id] \subseteq DOMAIN c.daily.rows,
         b.cycle.rows[id].balance = Wrap(RecordSum(b, id))
  PROVE  c.cycle.rows[id].balance = Wrap(RecordSum(c, id))
<1> DEFINE r == LastRecord(b, id)
<1> DEFINE names == b.recs[id] \ {r}
<1> DEFINE value == b.daily.rows[r].value
<1>1. /\ id \in DOMAIN b.recs /\ id \in DOMAIN c.recs /\ r \in b.recs[id]
      /\ c.recs[id] = names
      /\ \A k \in names : c.daily.rows[k] = b.daily.rows[k]
      /\ c.cycle.rows[id].balance = Wrap(b.cycle.rows[id].balance - value)
  BY DEF Behind, RolledBack
<1> HIDE DEF r
<1>2. IsFiniteSet(b.recs[id]) /\ IsFiniteSet(names)
  BY <1>1, FS_Difference DEF IsBooks
<1>3. \A k \in names : Amount(c)[k] = Amount(b)[k]
  BY <1>1, AmountFacts
<1>4. RecordSum(c, id) = SumFunctionOnSet(Amount(b), names)
  BY <1>1, <1>2, <1>3, SumOfEqual DEF RecordSum
<1>5. Amount(b)[r] = value /\ value \in Int
      /\ \A k \in b.recs[id] : Amount(b)[k] \in Int
  BY <1>1, AmountFacts
<1>6. RecordSum(b, id) = value + RecordSum(c, id)
  BY <1>1, <1>2, <1>4, <1>5, SumWithout DEF RecordSum
<1>7. RecordSum(b, id) \in Int /\ RecordSum(c, id) \in Int
  BY <1>1, RecordSumType
<1>8. c.cycle.rows[id].balance = Wrap(Wrap(RecordSum(b, id)) - value)
  BY <1>1
<1> HIDE DEF value
<1>9. Wrap(Wrap(RecordSum(b, id)) + (-value)) = Wrap(RecordSum(b, id) + (-value))
  BY <1>5, <1>7, WrapOfSum
<1>10. Wrap(RecordSum(b, id)) \in Int
  BY <1>7, WrapIsMoney, MoneyIsInt
<1>11. /\ Wrap(RecordSum(b, id)) - value = Wrap(RecordSum(b, id)) + (-value)
       /\ RecordSum(b, id) + (-value) = RecordSum(c, id)
  BY <1>5, <1>6, <1>7, <1>10
<1> QED
  BY <1>8, <1>9, <1>11

LEMMA AddedBalances ==
  ASSUME NEW b, Kept(b), Balanced(b), NEW desc \in Descriptions,
         NEW balance \in Money, Added(b, desc, balance).damage = {}
  PROVE  Balanced(Added(b, desc, balance))
<1> DEFINE c == Added(b, desc, balance)
<1> DEFINE id == b.cycle.nextId
<1> DEFINE r == b.daily.nextId
<1>1. /\ Kept(c)
      /\ id \notin DOMAIN b.recs /\ r \notin DOMAIN b.daily.rows
      /\ DOMAIN c.cycle.rows = DOMAIN b.cycle.rows \cup {id}
      /\ c.cycle.rows[id] = FirstEntry(desc, balance)
      /\ \A k \in DOMAIN b.cycle.rows : c.cycle.rows[k] = b.cycle.rows[k]
      /\ DOMAIN c.recs = DOMAIN b.recs \cup {id} /\ c.recs[id] = {r}
      /\ \A k \in DOMAIN b.recs : c.recs[k] = b.recs[k]
      /\ DOMAIN c.daily.rows = DOMAIN b.daily.rows \cup {r}
      /\ c.daily.rows[r] = FirstRecord(desc, balance)
      /\ \A k \in DOMAIN b.daily.rows : c.daily.rows[k] = b.daily.rows[k]
  BY AddedKeeps
<1> HIDE DEF c, id, r
<1>2. ASSUME NEW k \in DOMAIN b.cycle.rows
      PROVE  c.cycle.rows[k].balance = Wrap(RecordSum(c, k))
  <2>1. k \in DOMAIN b.recs /\ b.recs[k] \subseteq DOMAIN b.daily.rows
    BY KeptFacts
  <2>2. RecordSum(c, k) = RecordSum(b, k)
    BY <1>1, <2>1, SameRecordsSameSum
  <2> QED
    BY <1>1, <2>2 DEF Balanced, RecordSum
<1>3. c.cycle.rows[id].balance = Wrap(RecordSum(c, id))
  <2>1. Amount(c)[r] = balance /\ Amount(c)[r] \in Int
    <3>1. Amount(c)[r] = c.daily.rows[r].value /\ Amount(c)[r] \in Int
      BY <1>1, AmountType
    <3> QED
      BY <1>1, <3>1 DEF FirstRecord, NewRecord
  <2>2. SumFunctionOnSet(Amount(c), {} \cup {r}) = Amount(c)[r] + SumFunctionOnSet(Amount(c), {})
    BY <2>1, SumWith, FS_EmptySet
  <2>3. RecordSum(c, id) = balance
    BY <1>1, <2>1, <2>2, SumOfNone DEF RecordSum
  <2> QED
    BY <1>1, <2>3, WrapOfMoney DEF FirstEntry
<1> QED
  BY <1>1, <1>2, <1>3 DEF Balanced, RecordSum, c

LEMMA UpdatedBalances ==
  ASSUME NEW b, Kept(b), Balanced(b), NEW id, NEW record \in Record,
         Updated(b, id, record).damage = {}
  PROVE  Balanced(Updated(b, id, record))
<1> DEFINE c == Updated(b, id, record)
<1> DEFINE r == b.daily.nextId
<1>1. CASE ~CanUpdate(b, id, record.desc)
  BY <1>1 DEF Updated
<1>2. CASE CanUpdate(b, id, record.desc)
  <2>1. /\ Kept(c) /\ Grown(b, c, id, record)
        /\ c.cycle.rows = [b.cycle.rows EXCEPT
                            ![id] = UpdatedEntry(b.cycle.rows[id], record)]
    BY <1>2, UpdatedKeeps
  <2> HIDE DEF c
  <2>2. /\ id \in DOMAIN b.cycle.rows /\ id \in DOMAIN b.recs
        /\ DOMAIN b.cycle.rows = DOMAIN b.recs
        /\ \A k \in DOMAIN b.recs : b.recs[k] \subseteq DOMAIN b.daily.rows
        /\ IsFiniteSet(b.recs[id])
    BY <1>2, KeptFacts DEF CanUpdate
  <2>3. /\ DOMAIN c.cycle.rows = DOMAIN b.cycle.rows
        /\ c.cycle.rows[id] = UpdatedEntry(b.cycle.rows[id], record)
        /\ \A k \in DOMAIN b.cycle.rows \ {id} : c.cycle.rows[k] = b.cycle.rows[k]
    BY <2>1, <2>2
  <2>4. ASSUME NEW k \in DOMAIN b.cycle.rows, k # id
        PROVE  c.cycle.rows[k].balance = Wrap(RecordSum(c, k))
    <3>1. RecordSum(c, k) = RecordSum(b, k)
      BY <2>1, <2>2, <2>4, SameRecordsSameSum DEF Grown
    <3> QED
      BY <2>3, <2>4, <3>1 DEF Balanced, RecordSum
  <2>5. c.cycle.rows[id].balance = Wrap(RecordSum(c, id))
    <3>1. Ahead(b, c, id, r, record)
      BY <2>1, <2>2, <2>3 DEF Grown, Ahead
    <3>2. c.recs[id] \subseteq DOMAIN c.daily.rows
      BY <2>1, <2>2, KeptFacts DEF Grown
    <3> QED
      BY <2>1, <2>2, <3>1, <3>2, AheadBalances
      DEF Balanced, RecordSum, Kept, WellFormed
  <2> QED
    BY <2>3, <2>4, <2>5 DEF Balanced, RecordSum, c
<1> QED
  BY <1>1, <1>2

LEMMA RemovedBalances ==
  ASSUME NEW b, Kept(b), Balanced(b), NEW id \in Nat, Removed(b, id).damage = {}
  PROVE  Balanced(Removed(b, id))
<1> DEFINE c == Removed(b, id)
<1>1. /\ Kept(c)
      /\ DOMAIN c.cycle.rows = DOMAIN b.cycle.rows \ {id}
      /\ \A k \in DOMAIN c.cycle.rows : c.cycle.rows[k] = b.cycle.rows[k]
      /\ DOMAIN c.recs = DOMAIN b.recs \ {id}
      /\ \A k \in DOMAIN c.recs : c.recs[k] = b.recs[k]
      /\ \A r \in DOMAIN c.daily.rows : c.daily.rows[r] = b.daily.rows[r]
  BY RemovedKeeps
<1> HIDE DEF c
<1>2. ASSUME NEW k \in DOMAIN c.cycle.rows
      PROVE  c.cycle.rows[k].balance = Wrap(RecordSum(c, k))
  <2>1. k \in DOMAIN c.recs /\ c.recs[k] \subseteq DOMAIN c.daily.rows
        /\ k \in DOMAIN b.recs /\ k \in DOMAIN b.cycle.rows
    BY <1>1, KeptFacts
  <2>2. RecordSum(c, k) = RecordSum(b, k)
    BY <1>1, <2>1, SameRecordsSameSum
  <2> QED
    BY <1>1, <2>1, <2>2 DEF Balanced, RecordSum
<1> QED
  BY <1>2 DEF Balanced, RecordSum, c

LEMMA UndoneBalances ==
  ASSUME NEW b, Kept(b), Balanced(b), NEW id, Undone(b, id).damage = {}
  PROVE  Balanced(Undone(b, id))
<1> DEFINE c == Undone(b, id)
<1> DEFINE r == LastRecord(b, id)
<1> DEFINE previous == PreviousRecord(b, id)
<1>1. CASE ~CanUndo(b, id)
  BY <1>1 DEF Undone
<1>2. CASE CanUndo(b, id)
  <2>1. /\ Kept(c) /\ Shrunk(b, c, id)
        /\ c.cycle.rows = [b.cycle.rows EXCEPT ![id] =
             RolledBack(b.cycle.rows[id], b.daily.rows[r].value, b.daily.rows[previous])]
    BY <1>2, UndoneKeeps
  <2>2. id \in DOMAIN b.recs /\ r \in b.recs[id]
    BY <1>2, PreviousFacts DEF Kept, WellFormed
  <2> HIDE DEF c, previous
  <2>3. /\ id \in DOMAIN b.cycle.rows
        /\ DOMAIN b.cycle.rows = DOMAIN b.recs
        /\ \A k \in DOMAIN b.recs : b.recs[k] \subseteq DOMAIN b.daily.rows
        /\ IsFiniteSet(b.recs[id])
    BY <2>2, KeptFacts
  <2>4. /\ DOMAIN c.cycle.rows = DOMAIN b.cycle.rows
        /\ c.cycle.rows[id] = RolledBack(b.cycle.rows[id], b.daily.rows[r].value,
                                         b.daily.rows[previous])
        /\ \A k \in DOMAIN b.cycle.rows \ {id} : c.cycle.rows[k] = b.cycle.rows[k]
    BY <2>1, <2>3
  <2>5. ASSUME NEW k \in DOMAIN b.cycle.rows, k # id
        PROVE  c.cycle.rows[k].balance = Wrap(RecordSum(c, k))
    <3>1. k \in DOMAIN c.recs /\ c.recs[k] = b.recs[k]
      BY <2>1, <2>3, <2>5 DEF Shrunk
    <3>2. c.recs[k] \subseteq DOMAIN c.daily.rows
      BY <2>1, <3>1, KeptFacts
    <3>3. RecordSum(c, k) = RecordSum(b, k)
      BY <2>1, <2>3, <3>1, <3>2, SameRecordsSameSum DEF Shrunk
    <3> QED
      BY <2>4, <2>5, <3>3 DEF Balanced, RecordSum
  <2>6. c.cycle.rows[id].balance = Wrap(RecordSum(c, id))
    <3>1. Behind(b, c, id)
      <4>1. c.recs[id] \subseteq DOMAIN c.daily.rows /\ id \in DOMAIN c.recs
        BY <2>1, <2>2, KeptFacts DEF Shrunk
      <4> QED
        BY <2>1, <2>2, <2>4, <4>1 DEF Shrunk, Behind, previous
    <3>2. c.recs[id] \subseteq DOMAIN c.daily.rows
      BY <2>1, <3>1, KeptFacts DEF Behind
    <3> QED
      BY <2>1, <2>2, <2>3, <3>1, <3>2, BehindBalances
      DEF Balanced, RecordSum, Kept, WellFormed
  <2> QED
    BY <2>4, <2>5, <2>6 DEF Balanced, RecordSum, c
<1> QED
  BY <1>1, <1>2
-----------------------------------------------------------------------------
LEMMA MirroredFacts ==
  ASSUME NEW b, Kept(b)
  PROVE  Mirrored(b) <=> \A id \in DOMAIN b.recs :
                           Follows(b.cycle.rows[id], b.daily.rows[LastRecord(b, id)])
BY KeptFacts DEF Mirrored

\* Entries whose row and records stay follow the same record as before.
LEMMA SameRecordsSameLast ==
  ASSUME NEW b, Kept(b), Mirrored(b), NEW c, Kept(c), NEW id \in DOMAIN b.recs,
         id \in DOMAIN c.recs, c.recs[id] = b.recs[id],
         c.cycle.rows[id] = b.cycle.rows[id],
         \A r \in b.recs[id] : c.daily.rows[r] = b.daily.rows[r]
  PROVE  Follows(c.cycle.rows[id], c.daily.rows[LastRecord(c, id)])
<1>1. LastRecord(c, id) = LastRecord(b, id) /\ LastRecord(b, id) \in b.recs[id]
  BY KeptFacts DEF LastRecord
<1> QED
  BY <1>1, MirroredFacts

LEMMA AddedMirrors ==
  ASSUME NEW b, Kept(b), Mirrored(b), NEW desc \in Descriptions,
         NEW balance \in Money, Added(b, desc, balance).damage = {}
  PROVE  Mirrored(Added(b, desc, balance))
<1> DEFINE c == Added(b, desc, balance)
<1> DEFINE id == b.cycle.nextId
<1> DEFINE r == b.daily.nextId
<1>1. /\ Kept(c)
      /\ c.cycle.rows[id] = FirstEntry(desc, balance)
      /\ \A k \in DOMAIN b.cycle.rows : c.cycle.rows[k] = b.cycle.rows[k]
      /\ DOMAIN c.recs = DOMAIN b.recs \cup {id} /\ c.recs[id] = {r}
      /\ \A k \in DOMAIN b.recs : c.recs[k] = b.recs[k]
      /\ c.daily.rows[r] = FirstRecord(desc, balance)
      /\ \A k \in DOMAIN b.daily.rows : c.daily.rows[k] = b.daily.rows[k]
  BY AddedKeeps
<1> HIDE DEF c, id, r
<1>2. ASSUME NEW k \in DOMAIN b.recs
      PROVE  Follows(c.cycle.rows[k], c.daily.rows[LastRecord(c, k)])
  <2>1. b.recs[k] \subseteq DOMAIN b.daily.rows /\ k \in DOMAIN b.cycle.rows
    BY KeptFacts
  <2> QED
    BY <1>1, <2>1, SameRecordsSameLast
<1>3. Follows(c.cycle.rows[id], c.daily.rows[LastRecord(c, id)])
  <2>1. LastRecord(c, id) = r
    BY <1>1, KeptFacts
  <2> QED
    BY <1>1, <2>1 DEF FirstEntry, FirstRecord, NewRecord, Follows
<1> QED
  BY <1>1, <1>2, <1>3, MirroredFacts DEF c

\* The record an update adds is the entry's latest.
LEMMA GrownLast ==
  ASSUME NEW b, Kept(b), NEW id \in DOMAIN b.recs, NEW c, Kept(c), NEW record,
         Grown(b, c, id, record)
  PROVE  LastRecord(c, id) = b.daily.nextId
<1>1. /\ b.recs[id] \subseteq DOMAIN b.daily.rows /\ b.daily.nextId \in Nat
      /\ DOMAIN b.daily.rows \subseteq Nat
  BY KeptFacts
<1>2. /\ id \in DOMAIN c.recs /\ c.recs[id] = b.recs[id] \cup {b.daily.nextId}
      /\ \A k \in b.recs[id] : k < b.daily.nextId
  BY <1>1 DEF Grown
<1>3. LastRecord(c, id) \in c.recs[id] /\ b.daily.nextId <= LastRecord(c, id)
  BY <1>2, KeptFacts
<1> QED
  BY <1>1, <1>2, <1>3

LEMMA UpdatedMirrors ==
  ASSUME NEW b, Kept(b), Mirrored(b), NEW id, NEW record \in Record,
         record.status # "NEW_ENTRY", Updated(b, id, record).damage = {}
  PROVE  Mirrored(Updated(b, id, record))
<1> DEFINE c == Updated(b, id, record)
<1> DEFINE r == b.daily.nextId
<1>1. CASE ~CanUpdate(b, id, record.desc)
  BY <1>1 DEF Updated
<1>2. CASE CanUpdate(b, id, record.desc)
  <2>1. /\ Kept(c) /\ Grown(b, c, id, record)
        /\ c.cycle.rows = [b.cycle.rows EXCEPT
                            ![id] = UpdatedEntry(b.cycle.rows[id], record)]
    BY <1>2, UpdatedKeeps
  <2> HIDE DEF c
  <2>2. /\ id \in DOMAIN b.cycle.rows /\ id \in DOMAIN b.recs
        /\ DOMAIN b.cycle.rows = DOMAIN b.recs
        /\ \A k \in DOMAIN b.recs : b.recs[k] \subseteq DOMAIN b.daily.rows
    BY <1>2, KeptFacts DEF CanUpdate
  <2>3. /\ c.cycle.rows[id] = UpdatedEntry(b.cycle.rows[id], record)
        /\ \A k \in DOMAIN b.cycle.rows \ {id} : c.cycle.rows[k] = b.cycle.rows[k]
    BY <2>1, <2>2
  <2>4. ASSUME NEW k \in DOMAIN b.recs, k # id
        PROVE  Follows(c.cycle.rows[k], c.daily.rows[LastRecord(c, k)])
    BY <2>1, <2>2, <2>3, <2>4, SameRecordsSameLast DEF Grown
  <2>5. Follows(c.cycle.rows[id], c.daily.rows[LastRecord(c, id)])
    <3>1. LastRecord(c, id) = r /\ c.daily.rows[r] = record
      BY <2>1, <2>2, GrownLast DEF Grown
    <3> QED
      BY <2>3, <3>1 DEF UpdatedEntry, Follows
  <2> QED
    BY <2>1, <2>4, <2>5, MirroredFacts DEF c, Grown
<1> QED
  BY <1>1, <1>2

LEMMA RemovedMirrors ==
  ASSUME NEW b, Kept(b), Mirrored(b), NEW id \in Nat, Removed(b, id).damage = {}
  PROVE  Mirrored(Removed(b, id))
<1> DEFINE c == Removed(b, id)
<1>1. /\ Kept(c)
      /\ \A k \in DOMAIN c.cycle.rows : c.cycle.rows[k] = b.cycle.rows[k]
      /\ DOMAIN c.recs = DOMAIN b.recs \ {id}
      /\ \A k \in DOMAIN c.recs : c.recs[k] = b.recs[k]
      /\ \A r \in DOMAIN c.daily.rows : c.daily.rows[r] = b.daily.rows[r]
  BY RemovedKeeps
<1> HIDE DEF c
<1>2. ASSUME NEW k \in DOMAIN c.recs
      PROVE  Follows(c.cycle.rows[k], c.daily.rows[LastRecord(c, k)])
  <2>1. k \in DOMAIN c.cycle.rows /\ c.recs[k] \subseteq DOMAIN c.daily.rows
    BY <1>1, KeptFacts
  <2> QED
    BY <1>1, <2>1, SameRecordsSameLast
<1> QED
  BY <1>1, <1>2, MirroredFacts DEF c

LEMMA UndoneMirrors ==
  ASSUME NEW b, Kept(b), Mirrored(b), NEW id, Undone(b, id).damage = {}
  PROVE  Mirrored(Undone(b, id))
<1> DEFINE c == Undone(b, id)
<1> DEFINE r == LastRecord(b, id)
<1> DEFINE previous == PreviousRecord(b, id)
<1>1. CASE ~CanUndo(b, id)
  BY <1>1 DEF Undone
<1>2. CASE CanUndo(b, id)
  <2>1. /\ Kept(c) /\ Shrunk(b, c, id)
        /\ c.cycle.rows = [b.cycle.rows EXCEPT ![id] =
             RolledBack(b.cycle.rows[id], b.daily.rows[r].value, b.daily.rows[previous])]
    BY <1>2, UndoneKeeps
  <2>2. id \in DOMAIN b.recs /\ previous \in b.recs[id] \ {r}
    BY <1>2, PreviousFacts DEF Kept, WellFormed
  <2>3. LastRecord(c, id) = previous
    <3> HIDE DEF c
    <3> QED
      BY <2>1 DEF Shrunk, LastRecord, PreviousRecord
  <2> HIDE DEF c, previous, r
  <2>4. /\ DOMAIN b.cycle.rows = DOMAIN b.recs
        /\ b.recs[id] \subseteq DOMAIN b.daily.rows
    BY <2>2, KeptFacts
  <2>5. /\ c.cycle.rows[id] = RolledBack(b.cycle.rows[id], b.daily.rows[r].value,
                                         b.daily.rows[previous])
        /\ \A k \in DOMAIN b.cycle.rows \ {id} : c.cycle.rows[k] = b.cycle.rows[k]
    BY <2>1, <2>2, <2>4
  <2>6. ASSUME NEW k \in DOMAIN b.recs, k # id
        PROVE  Follows(c.cycle.rows[k], c.daily.rows[LastRecord(c, k)])
    <3>1. k \in DOMAIN c.recs /\ c.recs[k] = b.recs[k]
      BY <2>1, <2>6 DEF Shrunk
    <3>2. c.recs[k] \subseteq DOMAIN c.daily.rows
      BY <2>1, <3>1, KeptFacts
    <3> QED
      BY <2>1, <2>4, <2>5, <2>6, <3>1, <3>2, SameRecordsSameLast DEF Shrunk
  <2>7. Follows(c.cycle.rows[id], c.daily.rows[LastRecord(c, id)])
    <3>1. c.daily.rows[previous] = b.daily.rows[previous]
      BY <2>1, <2>2, <2>4 DEF Shrunk, r
    <3> QED
      BY <2>3, <2>5, <3>1 DEF RolledBack, Follows
  <2> QED
    BY <2>1, <2>6, <2>7, MirroredFacts DEF c, Shrunk
<1> QED
  BY <1>1, <1>2
-----------------------------------------------------------------------------
\* The invariant of all calls until a flaw has struck.  An entry mirrors its
\* latest record as long as callers leave the status of a first record to add.
InOrder(b) ==
  /\ Kept(b)
  /\ Balanced(b)
  /\ "NEW_ENTRY" \notin GivenStatus => Mirrored(b)

LEMMA UpdateKeepsOrder ==
  ASSUME NEW b, InOrder(b), NEW id, NEW record \in Record,
         "NEW_ENTRY" \notin GivenStatus => record.status # "NEW_ENTRY",
         Updated(b, id, record).damage = {}
  PROVE  InOrder(Updated(b, id, record))
BY UpdatedKeeps, UpdatedBalances, UpdatedMirrors DEF InOrder

LEMMA UndoKeepsOrder ==
  ASSUME NEW b, InOrder(b), NEW id, Undone(b, id).damage = {}
  PROVE  InOrder(Undone(b, id))
BY UndoneKeeps, UndoneBalances, UndoneMirrors DEF InOrder

\* No call takes back what a flaw has done.
LEMMA CallKeepsDamage ==
  ASSUME NEW b, WellFormed(b), NEW c, CallOf(b, c)
  PROVE  b.damage \subseteq c.damage
<1>1. ASSUME NEW desc, NEW balance PROVE b.damage \subseteq Added(b, desc, balance).damage
  BY DEF Added, Recorded
<1>2. ASSUME NEW id PROVE b.damage \subseteq Removed(b, id).damage
  <2> DEFINE gone == [b EXCEPT !.cycle = DeleteRow(@, id), !.cached = @ \ {id}]
  <2>1. /\ DOMAIN gone = DOMAIN b /\ gone.damage = b.damage /\ "damage" \in DOMAIN b
        /\ "daily" # "damage" /\ "recs" # "damage" /\ "entryIds" # "damage"
    BY DEF WellFormed, IsBooks
  <2> HIDE DEF gone
  <2>2. \/ Removed(b, id) = gone
        \/ Removed(b, id) = [gone EXCEPT !.damage = @ \cup {"remove"}]
        \/ Removed(b, id) = [gone EXCEPT
              !.daily = DeleteRows(@, b.recs[id], Cardinality(b.recs[id])),
              !.recs = Restrict(@, DOMAIN @ \ {id}),
              !.entryIds = @ \ {id}]
    BY DEF Removed, gone
  <2> QED
    BY <2>1, <2>2
<1>3. Reopened(b).damage = b.damage
  BY DEF Reopened
<1> QED
  BY <1>1, <1>2, <1>3, DamageStays, AppliedParts, PolicyUndoneParts DEF CallOf

\* Every call that no flaw strikes keeps the books in order.
LEMMA CallKeepsOrder ==
  ASSUME NEW b, InOrder(b), NEW c, CallOf(b, c), c.damage = {}
  PROVE  InOrder(c)
<1>1. ASSUME NEW desc \in Descriptions, NEW balance \in Money, c = Added(b, desc, balance)
      PROVE  InOrder(c)
  BY <1>1, AddedKeeps, AddedBalances, AddedMirrors DEF InOrder
<1>2. ASSUME NEW id \in EntryId, NEW record \in Record, c = Updated(b, id, record),
             "NEW_ENTRY" \notin GivenStatus => record.status # "NEW_ENTRY"
      PROVE  InOrder(c)
  BY <1>2, UpdateKeepsOrder
<1>3. ASSUME NEW id \in EntryId, c = Removed(b, id) PROVE InOrder(c)
  <2>1. id \in Nat
    BY LedgerAssumption DEF EntryId
  <2> QED
    BY <1>3, <2>1, RemovedKeeps, RemovedBalances, RemovedMirrors DEF InOrder
<1>4. ASSUME NEW id \in EntryId, c = Undone(b, id) PROVE InOrder(c)
  BY <1>4, UndoKeepsOrder
<1>5. ASSUME NEW p \in Policy, p.source \in DOMAIN b.cycle.rows, c = Applied(b, p)
      PROVE  InOrder(c)
  <2> DEFINE credit == PolicyRecord(p, Portion(b, p))
  <2> DEFINE debit == PolicyRecord(p, -Portion(b, p))
  <2> DEFINE debited == Updated(b, p.source, debit)
  <2>1. /\ credit \in Record /\ debit \in Record
        /\ debited.damage \subseteq c.damage
        /\ c = debited \/ c = Updated(debited, p.destination, credit)
    BY <1>5, PolicyRecordType, AppliedParts DEF InOrder, Kept
  <2>2. credit.status # "NEW_ENTRY" /\ debit.status # "NEW_ENTRY"
    BY DEF PolicyRecord, NewRecord
  <2> HIDE DEF credit, debit
  <2>3. InOrder(debited)
    BY <2>1, <2>2, UpdateKeepsOrder
  <2> HIDE DEF debited
  <2>4. ASSUME c = Updated(debited, p.destination, credit) PROVE InOrder(c)
    BY <2>1, <2>2, <2>3, <2>4, UpdateKeepsOrder
  <2> QED
    BY <2>1, <2>3, <2>4
<1>6. ASSUME NEW p \in Policy, c = PolicyUndone(b, p) PROVE InOrder(c)
  <2> DEFINE first == Undone(b, p.source)
  <2>1. /\ first.damage \subseteq c.damage
        /\ c = first \/ c = Undone(first, p.destination)
    BY <1>6, PolicyUndoneParts DEF InOrder, Kept
  <2>2. InOrder(first)
    BY <2>1, UndoKeepsOrder
  <2> HIDE DEF first
  <2>3. ASSUME c = Undone(first, p.destination) PROVE InOrder(c)
    BY <2>1, <2>2, <2>3, UndoKeepsOrder
  <2> QED
    BY <2>1, <2>2, <2>3
<1>7. ASSUME c = Reopened(b) PROVE InOrder(c)
  <2>1. /\ Kept(c) /\ c.cycle.rows = b.cycle.rows /\ c.recs = b.recs
        /\ c.daily.rows = b.daily.rows
    BY <1>7, ReopenedKeeps DEF InOrder
  <2> QED
    BY <2>1 DEF InOrder, Balanced, Amount, Mirrored, LastRecord
<1> QED
  BY <1>1, <1>2, <1>3, <1>4, <1>5, <1>6, <1>7 DEF CallOf

LEMMA OrderAtStart == Init => InOrder(books)
<1> SUFFICES ASSUME Init PROVE InOrder(books)
  OBVIOUS
<1>1. WellFormed(books)
  BY InitIsWellFormed DEF WellFormed, TypeOK, SameEntries
<1>2. DOMAIN NoRows = {} /\ IsRows(NoRows, Record)
  BY FS_EmptySet DEF IsRows, NoRows
<1>3. /\ books.recs = NoRows /\ books.damage = {}
      /\ books.daily = OpenTable(NoRows)
      /\ books.cycle.rows = NoRows
  BY DEF Init, OpenTable
<1>4. SoundTable(books.daily) /\ books.daily.rows = NoRows
  BY <1>2, <1>3, OpenTableFacts
<1> QED
  BY <1>1, <1>2, <1>3, <1>4 DEF InOrder, Kept, Partitioned, Balanced, Mirrored

\* Until a flaw has struck the books are in order.
OrderUntilDamage == books.damage = {} => InOrder(books)

LEMMA OrderInvariance == Spec => [](TypeOK /\ SameEntries /\ OrderUntilDamage)
<1>1. /\ TypeOK /\ SameEntries /\ TypeOK' /\ SameEntries'
      /\ OrderUntilDamage /\ [Next]_vars
      => OrderUntilDamage'
  <2> SUFFICES ASSUME TypeOK, SameEntries, OrderUntilDamage, [Next]_vars,
                      books'.damage = {}
               PROVE  InOrder(books')
    BY DEF OrderUntilDamage
  <2>1. CallOf(books, books') /\ WellFormed(books)
    BY StepIsCall DEF WellFormed, TypeOK, SameEntries
  <2>2. books.damage = {}
    BY <2>1, CallKeepsDamage
  <2> QED
    BY <2>1, <2>2, CallKeepsOrder DEF OrderUntilDamage
<1>2. Init => OrderUntilDamage
  BY OrderAtStart DEF OrderUntilDamage
<1> QED
  BY <1>1, <1>2, LedgerInvariance, PTL DEF Spec

\* Without flaws, and with them until the first has struck, every record
\* belongs to exactly one entry and no entry names one that is gone.
THEOREM RecordsStayPartitioned == Spec => [](books.damage = {} => RecordsPartition)
<1>1. OrderUntilDamage => (books.damage = {} => RecordsPartition)
  BY DEF OrderUntilDamage, InOrder, Kept, RecordsPartition
<1> QED
  BY <1>1, OrderInvariance, PTL

\* Until then every balance is the sum of the entry's records, whatever has
\* been added, undone, moved by policies or wrapped around on the way.
THEOREM BalancesAreSums == Spec => [](books.damage = {} => BooksBalance)
<1>1. OrderUntilDamage => (books.damage = {} => BooksBalance)
  BY DEF OrderUntilDamage, InOrder, BooksBalance
<1> QED
  BY <1>1, OrderInvariance, PTL

\* And what an entry says of its last transaction is what its latest record
\* says, with the description as the UPDATE stores it, unless a caller of
\* update claims the status of a first record.
THEOREM EntriesMirrorRecords ==
  ASSUME "NEW_ENTRY" \notin GivenStatus
  PROVE  Spec => [](books.damage = {} => EntryMirrorsLastRecord)
<1>1. OrderUntilDamage => (books.damage = {} => EntryMirrorsLastRecord)
  BY DEF OrderUntilDamage, InOrder, EntryMirrorsLastRecord
<1> QED
  BY <1>1, OrderInvariance, PTL
-----------------------------------------------------------------------------
\* d is c, but for the record r and the entry id, which is as in b.
TakenBack(b, c, d, id, r) ==
  /\ DOMAIN d.recs = DOMAIN c.recs
  /\ d.recs[id] = b.recs[id]
  /\ \A k \in DOMAIN c.recs \ {id} : d.recs[k] = c.recs[k]
  /\ DOMAIN d.cycle.rows = DOMAIN c.cycle.rows
  /\ d.cycle.rows[id] = b.cycle.rows[id]
  /\ \A k \in DOMAIN c.cycle.rows \ {id} : d.cycle.rows[k] = c.cycle.rows[k]
  /\ DOMAIN d.daily.rows = DOMAIN c.daily.rows \ {r}
  /\ \A k \in DOMAIN d.daily.rows : d.daily.rows[k] = c.daily.rows[k]

\* Rolling an updated entry back leaves the entry, also when the update has
\* wrapped its balance around.
LEMMA RolledBackIsBefore ==
  ASSUME NEW entry \in Entry, NEW record \in Record, NEW before,
         Follows(entry, before),
         before.status = "NEW_ENTRY" => Pasted[before.desc] = before.desc
  PROVE  RolledBack(UpdatedEntry(entry, record), record.value, before) = entry
<1> DEFINE sum == entry.balance + record.value
<1>1. entry.balance \in Money /\ entry.balance \in Int /\ record.value \in Int
  <2>1. entry.balance \in Money /\ record.value \in Money
    BY DEF Entry, Record
  <2> QED
    BY <2>1, MoneyIsInt
<1>2. Wrap(Wrap(sum) - record.value) = entry.balance
  <2>1. sum \in Int /\ -record.value \in Int /\ sum + (-record.value) = entry.balance
    BY <1>1
  <2> HIDE DEF sum
  <2>2. Wrap(Wrap(sum) + (-record.value)) = Wrap(sum + (-record.value))
    BY <2>1, WrapOfSum
  <2>3. Wrap(sum) \in Int
    BY <2>1, WrapIsMoney, MoneyIsInt
  <2>4. Wrap(sum) - record.value = Wrap(sum) + (-record.value)
    BY <1>1, <2>3
  <2> QED
    BY <1>1, <2>1, <2>2, <2>4, WrapOfMoney
<1>3. RolledBack(UpdatedEntry(entry, record), record.value, before) =
        [balance |-> entry.balance,
         last |-> IF before.status = "NEW_ENTRY" THEN 0 ELSE before.value,
         desc |-> Pasted[before.desc],
         status |-> IF before.status = "NEW_ENTRY" THEN "UNKNOWN" ELSE before.status]
  BY <1>2 DEF RolledBack, UpdatedEntry
<1>4. entry = [balance |-> entry.balance, last |-> entry.last, desc |-> entry.desc,
               status |-> entry.status]
  BY DEF Entry
<1> QED
  BY <1>3, <1>4 DEF Follows

\* undo takes a later record back, whatever has happened to other entries.
LEMMA UndoTakesBack ==
  ASSUME NEW b, Kept(b), Mirrored(b), NEW c, Kept(c), NEW id, NEW r,
         NEW record \in Record, Ahead(b, c, id, r, record), LastIsPlain(b, id)
  PROVE  /\ UndoReturns(c, id) /\ Kept(Undone(c, id))
         /\ TakenBack(b, c, Undone(c, id), id, r)
<1> DEFINE d == Undone(c, id)
<1> DEFINE before == LastRecord(b, id)
<1>1. /\ id \in DOMAIN b.recs /\ id \in DOMAIN c.recs
      /\ before \in b.recs[id] /\ IsFiniteSet(b.recs[id])
      /\ IsFiniteSet(c.recs[id])
      /\ b.cycle.rows[id] \in Entry /\ id \in DOMAIN c.cycle.rows
      /\ c.recs[id] \subseteq DOMAIN c.daily.rows /\ DOMAIN c.daily.rows \subseteq Nat
  BY KeptFacts DEF Ahead
<1>2. /\ c.recs[id] = b.recs[id] \cup {r} /\ r \in Nat
      /\ \A k \in b.recs[id] : k < r /\ k \in Nat
  BY <1>1 DEF Ahead
<1>3. r \notin b.recs[id]
  BY <1>2
<1>4. LastRecord(c, id) = r
  <2>1. LastRecord(c, id) \in c.recs[id] /\ r <= LastRecord(c, id)
    BY <1>1, <1>2, KeptFacts
  <2> QED
    BY <1>2, <2>1
<1>5. PreviousRecord(c, id) = before
  <2>1. c.recs[id] \ {r} = b.recs[id]
    BY <1>2, <1>3
  <2> QED
    BY <1>4, <2>1 DEF PreviousRecord, LastRecord
<1> HIDE DEF before
<1>6. CanUndo(c, id)
  <2> DEFINE names == b.recs[id]
  <2>1. Cardinality(names) \in Nat /\ Cardinality(names) # 0
    BY <1>1, FS_CardinalityType, FS_EmptySet
  <2>2. Cardinality(names \cup {r}) = Cardinality(names) + 1
    BY <1>1, <1>3, FS_AddElement, Zenon
  <2>3. Cardinality(c.recs[id]) >= 2
    <3>1. Cardinality(c.recs[id]) = Cardinality(names) + 1
      BY <1>2, <2>2
    <3> HIDE DEF names
    <3> QED
      BY <2>1, <3>1
  <2> QED
    BY <1>1, <1>2, <1>4, <2>3 DEF CanUndo
<1>7. /\ before \in DOMAIN c.daily.rows
      /\ c.daily.rows[before] = b.daily.rows[before]
      /\ c.daily.rows[r] = record
  BY <1>1, <1>2 DEF Ahead
<1>8. Restorable(c, id)
  BY <1>1, <1>5, <1>7 DEF Restorable, CanUpdate, LastIsPlain, before
<1>9. d.damage = {}
  <2> DEFINE daily == DeleteRow(c.daily, r)
  <2> DEFINE recs == [c.recs EXCEPT ![id] = @ \ {r}]
  <2> DEFINE a == [cycle |-> c.cycle, daily |-> daily, entryIds |-> c.entryIds,
                   recs |-> recs, cached |-> c.cached, damage |-> c.damage]
  <2>1. \E entry : d = [a EXCEPT !.cycle.rows[id] = entry]
    BY <1>4, <1>6, <1>8 DEF Undone
  <2> HIDE DEF daily, recs
  <2>2. \A entry : [a EXCEPT !.cycle.rows[id] = entry].damage = c.damage
    OBVIOUS
  <2> HIDE DEF a, d
  <2> QED
    BY <2>1, <2>2 DEF Kept
<1>10. /\ Kept(d) /\ Shrunk(c, d, id)
       /\ d.cycle.rows = [c.cycle.rows EXCEPT ![id] =
            RolledBack(c.cycle.rows[id], record.value, c.daily.rows[before])]
  BY <1>4, <1>5, <1>6, <1>7, <1>9, UndoneKeeps
<1>11. RolledBack(c.cycle.rows[id], record.value, c.daily.rows[before]) = b.cycle.rows[id]
  <2>1. Follows(b.cycle.rows[id], b.daily.rows[before])
    BY <1>1, MirroredFacts DEF before
  <2>2. b.daily.rows[before].status = "NEW_ENTRY"
        => Pasted[b.daily.rows[before].desc] = b.daily.rows[before].desc
    BY DEF LastIsPlain, before
  <2> QED
    BY <1>1, <1>7, <2>1, <2>2, RolledBackIsBefore DEF Ahead
<1>12. UndoReturns(c, id)
  BY <1>1, <1>6, <1>8 DEF UndoReturns
<1> HIDE DEF d
<1>13. TakenBack(b, c, d, id, r)
  BY <1>1, <1>2, <1>3, <1>4, <1>10, <1>11 DEF TakenBack, Shrunk
<1> QED
  BY <1>10, <1>12, <1>13 DEF d

\* Two books with the same rows have the same contents.
LEMMA SameContents ==
  ASSUME NEW b, Kept(b), NEW d, Kept(d),
         DOMAIN d.recs = DOMAIN b.recs,
         \A k \in DOMAIN b.recs : d.recs[k] = b.recs[k],
         \A k \in DOMAIN b.recs : d.cycle.rows[k] = b.cycle.rows[k],
         DOMAIN d.daily.rows = DOMAIN b.daily.rows,
         \A k \in DOMAIN b.daily.rows : d.daily.rows[k] = b.daily.rows[k]
  PROVE  Contents(d) = Contents(b)
<1>1. /\ d.recs \in [DOMAIN d.recs -> SUBSET Nat]
      /\ b.recs \in [DOMAIN b.recs -> SUBSET Nat]
      /\ d.cycle.rows \in [DOMAIN d.cycle.rows -> Entry]
      /\ b.cycle.rows \in [DOMAIN b.cycle.rows -> Entry]
      /\ d.daily.rows \in [DOMAIN d.daily.rows -> Record]
      /\ b.daily.rows \in [DOMAIN b.daily.rows -> Record]
  BY DEF Kept, WellFormed, IsBooks, IsTable, IsRows
<1>2. /\ DOMAIN b.cycle.rows = DOMAIN b.recs /\ DOMAIN d.cycle.rows = DOMAIN d.recs
      /\ b.entryIds = DOMAIN b.recs /\ d.entryIds = DOMAIN d.recs
  BY KeptFacts
<1>3. d.recs = b.recs
  BY <1>1
<1>4. d.cycle.rows = b.cycle.rows
  BY <1>1, <1>2
<1>5. d.daily.rows = b.daily.rows
  BY <1>1
<1> QED
  BY <1>2, <1>3, <1>4, <1>5 DEF Contents

\* undo after one update, on any object that has the file.
LEMMA UndoInvertsGrowth ==
  ASSUME NEW b, Kept(b), Mirrored(b), NEW c, Kept(c), NEW id, NEW record \in Record,
         CanUpdate(b, id, record.desc), LastIsPlain(b, id), Grown(b, c, id, record),
         c.cycle.rows = [b.cycle.rows EXCEPT ![id] = UpdatedEntry(b.cycle.rows[id], record)]
  PROVE  Contents(Undone(c, id)) = Contents(b)
<1> DEFINE d == Undone(c, id)
<1> DEFINE r == b.daily.nextId
<1>1. /\ id \in DOMAIN b.cycle.rows /\ id \in DOMAIN b.recs
      /\ b.recs[id] \subseteq DOMAIN b.daily.rows /\ DOMAIN b.cycle.rows = DOMAIN b.recs
  BY KeptFacts DEF CanUpdate
<1>2. Ahead(b, c, id, r, record)
  BY <1>1 DEF Grown, Ahead
<1>3. Kept(d) /\ TakenBack(b, c, d, id, r)
  BY <1>2, UndoTakesBack
<1> HIDE DEF d, r
<1>4. DOMAIN d.recs = DOMAIN b.recs /\ \A k \in DOMAIN b.recs : d.recs[k] = b.recs[k]
  BY <1>3 DEF Grown, TakenBack
<1>5. \A k \in DOMAIN b.recs : d.cycle.rows[k] = b.cycle.rows[k]
  BY <1>1, <1>3 DEF TakenBack
<1>6. /\ DOMAIN d.daily.rows = DOMAIN b.daily.rows
      /\ \A k \in DOMAIN b.daily.rows : d.daily.rows[k] = b.daily.rows[k]
  BY <1>3 DEF Grown, TakenBack, r
<1> QED
  BY <1>3, <1>4, <1>5, <1>6, SameContents DEF d

LEMMA UndoInverts ==
  ASSUME NEW b, Kept(b), Mirrored(b), NEW id, NEW record \in Record,
         CanUpdate(b, id, record.desc), Updated(b, id, record).damage = {},
         LastIsPlain(b, id)
  PROVE  Contents(Undone(Updated(b, id, record), id)) = Contents(b)
<1> DEFINE c == Updated(b, id, record)
<1>1. /\ Kept(c) /\ Grown(b, c, id, record)
      /\ c.cycle.rows = [b.cycle.rows EXCEPT
                          ![id] = UpdatedEntry(b.cycle.rows[id], record)]
  BY UpdatedKeeps
<1> HIDE DEF c
<1>2. Contents(Undone(c, id)) = Contents(b)
  BY <1>1, UndoInvertsGrowth
<1> QED
  BY <1>2 DEF c

\* undo is the inverse of update in every state that calls of any number and
\* kind can reach, as long as no flaw has struck.
THEOREM UndoIsInverse ==
  ASSUME "NEW_ENTRY" \notin GivenStatus
  PROVE  Spec => []UndoInvertsUpdate
<1>1. TypeOK /\ SameEntries /\ OrderUntilDamage => UndoInvertsUpdate
  <2> SUFFICES ASSUME TypeOK, SameEntries, OrderUntilDamage,
                      NEW id \in DOMAIN books.cycle.rows, NEW value \in Values,
                      NEW desc \in Descriptions, NEW status \in GivenStatus,
                      UpdateReturns(books, id, desc), LastIsPlain(books, id),
                      Updated(books, id, NewRecord(value, desc, status)).damage = {}
               PROVE  Contents(Undone(Updated(books, id, NewRecord(value, desc, status)), id))
                        = Contents(books)
    BY DEF UndoInvertsUpdate
  <2> DEFINE record == NewRecord(value, desc, status)
  <2>1. record \in Record /\ record.desc = desc
    BY LedgerAssumption DEF NewRecord, Record
  <2> HIDE DEF record
  <2>2. Updated(books, id, record).damage = {}
    BY DEF record
  <2>3. books.damage = {}
    BY <2>2, DamageStays DEF TypeOK, SameEntries, WellFormed
  <2>4. CanUpdate(books, id, record.desc)
    BY <2>1 DEF UpdateReturns
  <2> QED
    BY <2>1, <2>2, <2>3, <2>4, UndoInverts DEF OrderUntilDamage, InOrder, record
<1> QED
  BY <1>1, OrderInvariance, PTL

\* What applyPolicy does, when it returns, to entries of which one may be both.
LEMMA PolicyApplied ==
  ASSUME NEW b, Kept(b), Mirrored(b), NEW p \in Policy, ApplyReturns(b, p),
         Applied(b, p).damage = {}
  PROVE  LET debit == PolicyRecord(p, -Portion(b, p))
             credit == PolicyRecord(p, Portion(b, p))
             a == Updated(b, p.source, debit)
             c == Updated(a, p.destination, credit)
         IN  /\ Applied(b, p) = c
             /\ debit \in Record /\ debit.desc = p.desc
             /\ debit.value = -Portion(b, p) /\ debit.status # "NEW_ENTRY"
             /\ credit \in Record /\ credit.desc = p.desc
             /\ credit.value = Portion(b, p) /\ Portion(b, p) \in Int
             /\ p.source \in DOMAIN b.recs /\ p.destination \in DOMAIN b.recs
             /\ Kept(a) /\ Mirrored(a) /\ Grown(b, a, p.source, debit)
             /\ a.cycle.rows = [b.cycle.rows EXCEPT ![p.source] =
                                  UpdatedEntry(b.cycle.rows[p.source], debit)]
             /\ Kept(c) /\ Grown(a, c, p.destination, credit)
             /\ c.cycle.rows = [a.cycle.rows EXCEPT ![p.destination] =
                                  UpdatedEntry(a.cycle.rows[p.destination], credit)]
             /\ CanUpdate(a, p.source, p.desc)
<1> DEFINE portion == Portion(b, p)
<1> DEFINE debit == PolicyRecord(p, -portion)
<1> DEFINE credit == PolicyRecord(p, portion)
<1> DEFINE a == Updated(b, p.source, debit)
<1> DEFINE c == Updated(a, p.destination, credit)
<1>1. /\ CanUpdate(b, p.source, p.desc) /\ CanUpdate(b, p.destination, p.desc)
      /\ UpdateReturns(b, p.source, p.desc)
  BY DEF ApplyReturns, UpdateReturns
<1>2. /\ p.source \in DOMAIN b.recs /\ p.destination \in DOMAIN b.recs
      /\ p.source \in DOMAIN b.cycle.rows /\ p.destination \in DOMAIN b.cycle.rows
  BY <1>1, KeptFacts DEF CanUpdate
<1>3. /\ debit \in Record /\ credit \in Record /\ portion \in Money
      /\ a.damage \subseteq Applied(b, p).damage
  BY <1>2, PolicyRecordType, AppliedParts DEF Kept
<1>4. portion \in Int
  BY <1>3, MoneyIsInt
<1>5. Applied(b, p) = c
  BY <1>1 DEF Applied
<1> HIDE DEF c, portion
<1>6. /\ debit.desc = p.desc /\ debit.value = -portion
      /\ credit.desc = p.desc /\ credit.value = portion
      /\ debit.status # "NEW_ENTRY" /\ credit.status # "NEW_ENTRY"
  BY DEF PolicyRecord, NewRecord
<1>7. a.damage = {} /\ c.damage = {}
  BY <1>3, <1>5
<1> HIDE DEF debit, credit
<1>8. /\ Kept(a) /\ Mirrored(a) /\ Grown(b, a, p.source, debit)
      /\ a.cycle.rows = [b.cycle.rows EXCEPT ![p.source] =
                           UpdatedEntry(b.cycle.rows[p.source], debit)]
  BY <1>1, <1>3, <1>6, <1>7, UpdatedKeeps, UpdatedMirrors
<1> HIDE DEF a
<1>9. DOMAIN a.cycle.rows = DOMAIN b.cycle.rows
  BY <1>8
<1>10. CanUpdate(a, p.source, p.desc) /\ CanUpdate(a, p.destination, p.desc)
  BY <1>1, <1>9 DEF CanUpdate
<1>11. /\ Kept(c) /\ Grown(a, c, p.destination, credit)
       /\ c.cycle.rows = [a.cycle.rows EXCEPT ![p.destination] =
                            UpdatedEntry(a.cycle.rows[p.destination], credit)]
  BY <1>3, <1>6, <1>7, <1>8, <1>10, UpdatedKeeps DEF c
<1> QED
  BY <1>2, <1>3, <1>4, <1>5, <1>6, <1>8, <1>10, <1>11 DEF a, c, debit, credit, portion

LEMMA UndoPolicyInverts ==
  ASSUME NEW b, Kept(b), Mirrored(b), NEW p \in Policy, ApplyReturns(b, p),
         Applied(b, p).damage = {},
         LastIsPlain(b, p.source), LastIsPlain(b, p.destination)
  PROVE  Contents(PolicyUndone(Applied(b, p), p)) = Contents(b)
<1> DEFINE source == p.source
<1> DEFINE destination == p.destination
<1> DEFINE debit == PolicyRecord(p, -Portion(b, p))
<1> DEFINE credit == PolicyRecord(p, Portion(b, p))
<1> DEFINE a == Updated(b, source, debit)
<1> DEFINE c == Applied(b, p)
<1> DEFINE d == Undone(c, source)
<1> DEFINE e == Undone(d, destination)
<1> DEFINE r == b.daily.nextId
<1> DEFINE q == a.daily.nextId
<1>1. /\ debit \in Record /\ debit.desc = p.desc /\ credit \in Record
      /\ debit.status # "NEW_ENTRY"
      /\ source \in DOMAIN b.recs /\ destination \in DOMAIN b.recs
      /\ Kept(a) /\ Mirrored(a) /\ Grown(b, a, source, debit)
      /\ a.cycle.rows = [b.cycle.rows EXCEPT ![source] =
                           UpdatedEntry(b.cycle.rows[source], debit)]
      /\ Kept(c) /\ Grown(a, c, destination, credit)
      /\ c.cycle.rows = [a.cycle.rows EXCEPT ![destination] =
                           UpdatedEntry(a.cycle.rows[destination], credit)]
      /\ CanUpdate(a, source, p.desc)
  BY PolicyApplied
<1>2. /\ DOMAIN b.cycle.rows = DOMAIN b.recs
      /\ \A k \in DOMAIN b.recs : b.recs[k] \subseteq DOMAIN b.daily.rows
      /\ \A k \in DOMAIN a.recs : a.recs[k] \subseteq DOMAIN a.daily.rows
      /\ DOMAIN a.daily.rows \subseteq Nat /\ r \in Nat /\ q \in Nat
  BY <1>1, KeptFacts
<1>3. UndoReturns(c, source) => PolicyUndone(c, p) = e
  BY DEF PolicyUndone
<1> HIDE DEF a, c, d, e, debit, credit, r, q, source, destination
<1>4. /\ DOMAIN a.recs = DOMAIN b.recs /\ DOMAIN c.recs = DOMAIN b.recs
      /\ DOMAIN a.cycle.rows = DOMAIN b.recs /\ DOMAIN c.cycle.rows = DOMAIN b.recs
      /\ DOMAIN a.daily.rows = DOMAIN b.daily.rows \cup {r}
      /\ DOMAIN c.daily.rows = DOMAIN a.daily.rows \cup {q}
      /\ r \notin DOMAIN b.daily.rows /\ q \notin DOMAIN a.daily.rows
  BY <1>1, <1>2 DEF Grown, r, q
<1>5. /\ a.daily.rows[r] = debit /\ c.daily.rows[r] = debit
      /\ c.daily.rows[q] = credit
      /\ \A k \in DOMAIN b.daily.rows :
           /\ a.daily.rows[k] = b.daily.rows[k] /\ c.daily.rows[k] = b.daily.rows[k]
           /\ k < r /\ k < q
  BY <1>1, <1>4 DEF Grown, r, q
<1>6. /\ a.recs[source] = b.recs[source] \cup {r}
      /\ \A k \in DOMAIN b.recs \ {source} : a.recs[k] = b.recs[k]
      /\ c.recs[destination] = a.recs[destination] \cup {q}
      /\ \A k \in DOMAIN b.recs \ {destination} : c.recs[k] = a.recs[k]
  BY <1>1, <1>4 DEF Grown, r, q
<1>7. /\ a.cycle.rows[source] = UpdatedEntry(b.cycle.rows[source], debit)
      /\ \A k \in DOMAIN b.recs \ {source} : a.cycle.rows[k] = b.cycle.rows[k]
      /\ c.cycle.rows[destination] = UpdatedEntry(a.cycle.rows[destination], credit)
      /\ \A k \in DOMAIN b.recs \ {destination} : c.cycle.rows[k] = a.cycle.rows[k]
  BY <1>1, <1>2, <1>4
<1>8. CASE source = destination
  <2>1. Ahead(a, c, source, q, credit)
    BY <1>1, <1>2, <1>4, <1>5, <1>6, <1>7, <1>8 DEF Ahead, Grown, q
  <2>2. LastIsPlain(a, source)
    <3>1. LastRecord(a, source) = r
      BY <1>1, GrownLast DEF r
    <3> QED
      BY <1>1, <1>5, <3>1 DEF LastIsPlain
  <2>3. UndoReturns(c, source) /\ Kept(d) /\ TakenBack(a, c, d, source, q)
    BY <1>1, <2>1, <2>2, UndoTakesBack DEF d
  <2>4. /\ DOMAIN d.recs = DOMAIN b.recs
        /\ DOMAIN d.daily.rows = DOMAIN a.daily.rows
        /\ \A k \in DOMAIN a.daily.rows : d.daily.rows[k] = c.daily.rows[k]
        /\ \A k \in DOMAIN b.recs : d.recs[k] = a.recs[k]
        /\ \A k \in DOMAIN b.recs : d.cycle.rows[k] = a.cycle.rows[k]
    <3>1. DOMAIN d.recs = DOMAIN b.recs /\ \A k \in DOMAIN b.recs : d.recs[k] = a.recs[k]
      BY <1>4, <1>6, <1>8, <2>3 DEF TakenBack
    <3>2. \A k \in DOMAIN b.recs : d.cycle.rows[k] = a.cycle.rows[k]
      BY <1>4, <1>7, <1>8, <2>3 DEF TakenBack
    <3>3. /\ DOMAIN d.daily.rows = DOMAIN a.daily.rows
          /\ \A k \in DOMAIN a.daily.rows : d.daily.rows[k] = c.daily.rows[k]
      BY <1>4, <2>3 DEF TakenBack
    <3> QED
      BY <3>1, <3>2, <3>3
  <2>5. Ahead(b, d, source, r, debit)
    BY <1>1, <1>2, <1>4, <1>5, <1>6, <1>7, <2>4 DEF Ahead
  <2>6. Kept(e) /\ TakenBack(b, d, e, source, r)
    BY <1>1, <1>8, <2>3, <2>5, UndoTakesBack DEF e, source
  <2>7. DOMAIN e.recs = DOMAIN b.recs /\ \A k \in DOMAIN b.recs : e.recs[k] = b.recs[k]
    BY <1>6, <2>4, <2>6 DEF TakenBack
  <2>8. \A k \in DOMAIN b.recs : e.cycle.rows[k] = b.cycle.rows[k]
    <3>1. DOMAIN d.cycle.rows = DOMAIN b.recs
      BY <1>4, <2>3 DEF TakenBack
    <3> QED
      BY <1>7, <2>4, <2>6, <3>1 DEF TakenBack
  <2>9. /\ DOMAIN e.daily.rows = DOMAIN b.daily.rows
        /\ \A k \in DOMAIN b.daily.rows : e.daily.rows[k] = b.daily.rows[k]
    BY <1>4, <1>5, <2>4, <2>6 DEF TakenBack
  <2>10. Contents(e) = Contents(b)
    BY <2>6, <2>7, <2>8, <2>9, SameContents
  <2> QED
    BY <1>3, <2>3, <2>10 DEF c
<1>9. CASE source # destination
  <2>1. Ahead(b, c, source, r, debit)
    BY <1>1, <1>2, <1>4, <1>5, <1>6, <1>7, <1>9 DEF Ahead
  <2>2. UndoReturns(c, source) /\ Kept(d) /\ TakenBack(b, c, d, source, r)
    BY <1>1, <2>1, UndoTakesBack DEF d, source
  <2>3. /\ DOMAIN d.recs = DOMAIN b.recs /\ DOMAIN d.cycle.rows = DOMAIN b.recs
        /\ DOMAIN d.daily.rows = DOMAIN b.daily.rows \cup {q}
        /\ \A k \in DOMAIN d.daily.rows : d.daily.rows[k] = c.daily.rows[k]
        /\ d.recs[source] = b.recs[source]
        /\ \A k \in DOMAIN b.recs \ {source} : d.recs[k] = c.recs[k]
        /\ d.cycle.rows[source] = b.cycle.rows[source]
        /\ \A k \in DOMAIN b.recs \ {source} : d.cycle.rows[k] = c.cycle.rows[k]
    BY <1>4, <2>2 DEF TakenBack
  <2>4. Ahead(b, d, destination, q, credit)
    BY <1>1, <1>2, <1>4, <1>5, <1>6, <1>7, <1>9, <2>3 DEF Ahead
  <2>5. Kept(e) /\ TakenBack(b, d, e, destination, q)
    BY <1>1, <2>2, <2>4, UndoTakesBack DEF e, destination
  <2>6. DOMAIN e.recs = DOMAIN b.recs /\ \A k \in DOMAIN b.recs : e.recs[k] = b.recs[k]
    BY <1>6, <2>3, <2>5 DEF TakenBack
  <2>7. \A k \in DOMAIN b.recs : e.cycle.rows[k] = b.cycle.rows[k]
    BY <1>7, <2>3, <2>5 DEF TakenBack
  <2>8. /\ DOMAIN e.daily.rows = DOMAIN b.daily.rows
        /\ \A k \in DOMAIN b.daily.rows : e.daily.rows[k] = b.daily.rows[k]
    BY <1>4, <1>5, <2>3, <2>5 DEF TakenBack
  <2>9. Contents(e) = Contents(b)
    BY <2>5, <2>6, <2>7, <2>8, SameContents
  <2> QED
    BY <1>3, <2>2, <2>9 DEF c
<1> QED
  BY <1>8, <1>9

\* And undoPolicy is the inverse of applyPolicy, on both entries or on the one
\* that is both.
THEOREM UndoPolicyIsInverse ==
  ASSUME "NEW_ENTRY" \notin GivenStatus
  PROVE  Spec => []UndoPolicyInvertsApply
<1>1. TypeOK /\ SameEntries /\ OrderUntilDamage => UndoPolicyInvertsApply
  <2> SUFFICES ASSUME TypeOK, SameEntries, OrderUntilDamage,
                      NEW pid \in DOMAIN policy.rows,
                      ApplyReturns(books, policy.rows[pid]),
                      Applied(books, policy.rows[pid]).damage = {},
                      LastIsPlain(books, policy.rows[pid].source),
                      LastIsPlain(books, policy.rows[pid].destination)
               PROVE  Contents(PolicyUndone(Applied(books, policy.rows[pid]), policy.rows[pid]))
                        = Contents(books)
    BY DEF UndoPolicyInvertsApply
  <2>1. policy.rows[pid] \in Policy
    BY DEF TypeOK, IsTable, IsRows
  <2>2. WellFormed(books)
    BY DEF TypeOK, SameEntries, WellFormed
  <2>3. policy.rows[pid].source \in DOMAIN books.cycle.rows
    BY DEF ApplyReturns, UpdateReturns, CanUpdate
  <2>4. books.damage = {}
    BY <2>1, <2>2, <2>3, AppliedParts
  <2> QED
    BY <2>1, <2>4, UndoPolicyInverts DEF OrderUntilDamage, InOrder
<1> QED
  BY <1>1, OrderInvariance, PTL
-----------------------------------------------------------------------------
\* What an update does to CycleTable, flaw or not.
LEMMA UpdatedRows ==
  ASSUME NEW b, WellFormed(b), NEW id, NEW record \in Record,
         CanUpdate(b, id, record.desc)
  PROVE  LET c == Updated(b, id, record)
         IN  /\ WellFormed(c)
             /\ id \in DOMAIN b.cycle.rows /\ b.cycle.rows[id] \in Entry
             /\ c.cycle.rows = [b.cycle.rows EXCEPT
                                 ![id] = UpdatedEntry(b.cycle.rows[id], record)]
<1> DEFINE c == Updated(b, id, record)
<1> DEFINE entry == UpdatedEntry(b.cycle.rows[id], record)
<1> DEFINE a == [b EXCEPT !.cycle.rows[id] = entry]
<1>1. id \in DOMAIN b.cycle.rows /\ b.cycle.rows[id] \in Entry
  BY DEF CanUpdate, WellFormed, IsBooks, IsTable, IsRows
<1>2. entry \in Entry
  BY <1>1, UpdatedEntryType
<1>3. WellFormed(c)
  BY UpdatedFacts DEF Keeps, WellFormed
<1>4. c = Recorded(a, id, record)
  BY DEF Updated
<1> HIDE DEF entry
<1>5. WellFormed(a) /\ a.cycle.rows = [b.cycle.rows EXCEPT ![id] = entry]
  BY <1>1, <1>2, RewriteFacts, RewriteKeeps DEF Keeps, WellFormed
<1> HIDE DEF a, c
<1>6. c.cycle = a.cycle
  BY <1>4, <1>5 DEF Recorded, WellFormed, IsBooks
<1> QED
  BY <1>1, <1>3, <1>5, <1>6 DEF c, entry

\* Rewriting one entry changes the money in all of them by as much.
LEMMA TotalOfUpdate ==
  ASSUME NEW b, WellFormed(b), NEW id \in DOMAIN b.cycle.rows, NEW c, WellFormed(c),
         NEW entry \in Entry, c.cycle.rows = [b.cycle.rows EXCEPT ![id] = entry]
  PROVE  /\ Total(b) \in Int /\ Total(c) \in Int
         /\ Total(c) - Total(b) = entry.balance - b.cycle.rows[id].balance
<1> DEFINE ids == DOMAIN b.cycle.rows
<1> DEFINE rest == SumFunctionOnSet(Balance(b), ids \ {id})
<1>1. /\ IsFiniteSet(ids) /\ DOMAIN c.cycle.rows = ids
      /\ c.cycle.rows[id] = entry
      /\ \A k \in ids : b.cycle.rows[k] \in Entry /\ c.cycle.rows[k] \in Entry
      /\ \A k \in ids \ {id} : c.cycle.rows[k] = b.cycle.rows[k]
  BY DEF WellFormed, IsBooks, IsTable, IsRows
<1>2. /\ DOMAIN Balance(b) = ids /\ DOMAIN Balance(c) = ids
      /\ \A k \in ids : /\ Balance(b)[k] = b.cycle.rows[k].balance
                        /\ Balance(c)[k] = c.cycle.rows[k].balance
  BY <1>1 DEF Balance
<1>3. \A k \in ids : Balance(b)[k] \in Int /\ Balance(c)[k] \in Int
  <2>1. \A k \in ids : b.cycle.rows[k].balance \in Money /\ c.cycle.rows[k].balance \in Money
    BY <1>1 DEF Entry
  <2> QED
    BY <1>2, <2>1, MoneyIsInt
<1>4. Total(b) = SumFunctionOnSet(Balance(b), ids) /\ Total(c) = SumFunctionOnSet(Balance(c), ids)
  BY <1>2 DEF Total, SumFunction
<1>5. IsFiniteSet(ids \ {id})
  BY <1>1, FS_Difference
<1>6. SumFunctionOnSet(Balance(c), ids \ {id}) = rest
  BY <1>1, <1>2, <1>5, SumOfEqual
<1>7. rest \in Int
  BY <1>3, <1>5, SumIsInt
<1>8. Total(b) = Balance(b)[id] + rest
  BY <1>1, <1>3, <1>4, SumWithout
<1>9. Total(c) = Balance(c)[id] + rest
  BY <1>1, <1>3, <1>4, <1>6, SumWithout
<1> HIDE DEF rest
<1>10. Balance(b)[id] \in Int /\ Balance(c)[id] \in Int
  BY <1>3
<1>11. Total(c) - Total(b) = Balance(c)[id] - Balance(b)[id]
  BY <1>7, <1>8, <1>9, <1>10
<1> QED
  BY <1>1, <1>2, <1>7, <1>8, <1>9, <1>10, <1>11

\* Two amounts wrapped on the way make up for each other, up to the width.
LEMMA WrappedMove ==
  ASSUME NEW m \in Int, NEW n \in Int, NEW v \in Int
  PROVE  /\ Wrap(m + (-v)) \in Int /\ Wrap(n + v) \in Int
         /\ Wrap((Wrap(m + (-v)) - m) + (Wrap(n + v) - n)) = 0
<1> DEFINE w == 2 * Half
<1> DEFINE x == m + (-v)
<1> DEFINE y == n + v
<1> DEFINE diff == (Wrap(x) - m) + (Wrap(y) - n)
<1>1. x \in Int /\ y \in Int /\ (x - m) + (y - n) = 0 /\ w \in Int
  BY HalfAssumption
<1> HIDE DEF x, y
<1>2. Wrap(x) \in Int /\ Wrap(y) \in Int
  BY <1>1, WrapIsMoney, MoneyIsInt
<1>3. PICK k \in Int : x = Wrap(x) + (2 * Half) * k
  BY <1>1, WrapDiffers
<1>4. PICK l \in Int : y = Wrap(y) + (2 * Half) * l
  BY <1>1, WrapDiffers
<1> DEFINE i == -(k + l)
<1> DEFINE wk == w * k
<1> DEFINE wl == w * l
<1> DEFINE wi == w * i
<1>5. x = Wrap(x) + wk /\ y = Wrap(y) + wl
  BY <1>3, <1>4
<1> HIDE DEF w
<1>6. wk \in Int /\ wl \in Int /\ i \in Int /\ wi = -wk - wl
  BY <1>1
<1> HIDE DEF wk, wl, i, wi
<1>7. diff = 0 + wi /\ diff \in Int
  BY <1>1, <1>2, <1>5, <1>6
<1> HIDE DEF diff
<1>8. Wrap(diff) = Wrap(0)
  BY <1>6, <1>7, WrapIsPeriodic DEF wi, w
<1>9. Wrap(0) = 0
  BY MoneyIsInt, WrapOfMoney
<1> QED
  BY <1>2, <1>8, <1>9 DEF diff, x, y

\* applyPolicy, when it returns, takes from one entry what it gives to another,
\* or to the same, flaw or not.
LEMMA ApplyConserves ==
  ASSUME NEW b, WellFormed(b), NEW p \in Policy, ApplyReturns(b, p)
  PROVE  Wrap(Total(Applied(b, p)) - Total(b)) = 0
<1> DEFINE v == Portion(b, p)
<1> DEFINE debit == PolicyRecord(p, -v)
<1> DEFINE credit == PolicyRecord(p, v)
<1> DEFINE a == Updated(b, p.source, debit)
<1> DEFINE c == Updated(a, p.destination, credit)
<1>1. /\ CanUpdate(b, p.source, p.desc) /\ CanUpdate(b, p.destination, p.desc)
      /\ UpdateReturns(b, p.source, p.desc) /\ p.source \in DOMAIN b.cycle.rows
  BY DEF ApplyReturns, UpdateReturns, CanUpdate
<1>2. debit \in Record /\ credit \in Record /\ v \in Money
  BY <1>1, PolicyRecordType
<1>3. Applied(b, p) = c
  BY <1>1 DEF Applied
<1> HIDE DEF v, c
<1>4. /\ debit.desc = p.desc /\ debit.value = -v
      /\ credit.desc = p.desc /\ credit.value = v
  BY DEF PolicyRecord, NewRecord
<1> DEFINE taken == UpdatedEntry(b.cycle.rows[p.source], debit)
<1> DEFINE given == UpdatedEntry(a.cycle.rows[p.destination], credit)
<1> HIDE DEF debit, credit
<1>5. /\ WellFormed(a) /\ b.cycle.rows[p.source] \in Entry
      /\ a.cycle.rows = [b.cycle.rows EXCEPT ![p.source] = taken]
  <2> DEFINE id == p.source
  <2>1. CanUpdate(b, id, debit.desc)
    BY <1>1, <1>4
  <2> HIDE DEF id
  <2>2. /\ WellFormed(Updated(b, id, debit)) /\ b.cycle.rows[id] \in Entry
        /\ Updated(b, id, debit).cycle.rows =
             [b.cycle.rows EXCEPT ![id] = UpdatedEntry(b.cycle.rows[id], debit)]
    BY <1>2, <2>1, UpdatedRows
  <2> QED
    BY <2>2 DEF id
<1> HIDE DEF a
<1>6. CanUpdate(a, p.destination, credit.desc)
  <2>1. DOMAIN a.cycle.rows = DOMAIN b.cycle.rows
    BY <1>5
  <2> QED
    BY <1>1, <1>4, <2>1 DEF CanUpdate
<1>7. /\ WellFormed(c) /\ a.cycle.rows[p.destination] \in Entry
      /\ p.destination \in DOMAIN a.cycle.rows
      /\ c.cycle.rows = [a.cycle.rows EXCEPT ![p.destination] = given]
  <2>1. /\ WellFormed(Updated(a, p.destination, credit))
        /\ a.cycle.rows[p.destination] \in Entry
        /\ p.destination \in DOMAIN a.cycle.rows
        /\ Updated(a, p.destination, credit).cycle.rows =
             [a.cycle.rows EXCEPT ![p.destination] = given]
    BY <1>2, <1>5, <1>6, UpdatedRows
  <2> QED
    BY <2>1 DEF c
<1>8. taken \in Entry /\ given \in Entry
  BY <1>2, <1>5, <1>7, UpdatedEntryType
<1> DEFINE m == b.cycle.rows[p.source].balance
<1> DEFINE n == a.cycle.rows[p.destination].balance
<1>9. m \in Int /\ n \in Int /\ v \in Int
  <2>1. m \in Money /\ n \in Money
    BY <1>5, <1>7 DEF Entry
  <2> QED
    BY <1>2, <2>1, MoneyIsInt
<1>10. taken.balance = Wrap(m + (-v)) /\ given.balance = Wrap(n + v)
  BY <1>4 DEF UpdatedEntry
<1> HIDE DEF taken, given
<1>11. /\ Total(b) \in Int /\ Total(a) \in Int
       /\ Total(a) - Total(b) = taken.balance - m
  BY <1>1, <1>5, <1>8, TotalOfUpdate
<1>12. Total(c) \in Int /\ Total(c) - Total(a) = given.balance - n
  BY <1>5, <1>7, <1>8, TotalOfUpdate, SMTT(20)
<1> HIDE DEF m, n
<1>13. Wrap(m + (-v)) \in Int /\ Wrap(n + v) \in Int
  BY <1>9, WrappedMove
<1>14. Total(c) - Total(b) = (Wrap(m + (-v)) - m) + (Wrap(n + v) - n)
  BY <1>9, <1>10, <1>11, <1>12, <1>13
<1> QED
  BY <1>3, <1>9, <1>14, WrappedMove

\* So no transfer that returns makes or loses money, in any state whatsoever.
THEOREM TransfersConserve == Spec => TransferConserves
<1>1. TypeOK /\ SameEntries /\ [Next]_vars
      => [reply'.op = "applyPolicy" /\ reply'.outcome = "ok" =>
            Wrap(Total(books') - Total(books)) = 0]_vars
  <2> SUFFICES ASSUME TypeOK, SameEntries, Next,
                      reply'.op = "applyPolicy", reply'.outcome = "ok"
               PROVE  Wrap(Total(books') - Total(books)) = 0
    OBVIOUS
  <2>1. \A op, id, returns : Reply(op, id, returns).op = op
    BY DEF Reply
  <2> DEFINE op == reply'.op
  <2>2. op # "add" /\ op # "update" /\ op # "remove" /\ op # "undo" /\ op # "open"
        /\ op # "createPolicy" /\ op # "deletePolicy" /\ op # "undoPolicy"
    OBVIOUS
  <2>3. PICK pid \in PolicyId : ApplyPolicy(pid)
    <3>1. ASSUME NEW pid \in PolicyId, PolicyCallFails(pid) PROVE FALSE
      BY <3>1 DEF PolicyCallFails, Reply
    <3> HIDE DEF op
    <3>2. \A desc, balance : Add(desc, balance) => op = "add"
      BY <2>1 DEF Add, op
    <3>3. \A id, value, desc, status : UpdateAs(id, value, desc, status) => op = "update"
      BY <2>1 DEF UpdateAs, op
    <3>4. \A id : (Remove(id) => op = "remove") /\ (Undo(id) => op = "undo")
      BY <2>1 DEF Remove, Undo, op
    <3>5. \A p : CreatePolicy(p) => op = "createPolicy"
      BY <2>1 DEF CreatePolicy, op
    <3>6. \A pid : (DeletePolicy(pid) => op = "deletePolicy")
                   /\ (UndoPolicy(pid) => op = "undoPolicy")
      BY <2>1 DEF DeletePolicy, UndoPolicy, op
    <3>7. Reopen => op = "open"
      BY <2>1 DEF Reopen, op
    <3> QED
      BY <2>2, <3>1, <3>2, <3>3, <3>4, <3>5, <3>6, <3>7 DEF Next, Update
  <2>4. /\ policy.rows[pid] \in Policy /\ ApplyReturns(books, policy.rows[pid])
        /\ books' = Applied(books, policy.rows[pid])
    BY <2>3 DEF ApplyPolicy, Reply, TypeOK, IsTable, IsRows
  <2> QED
    BY <2>4, ApplyConserves DEF TypeOK, SameEntries, WellFormed
<1> QED
  BY <1>1, LedgerInvariance, PTL DEF Spec, TransferConserves
-----------------------------------------------------------------------------
\* In behaviours that leave a flaw out, it never strikes.
LEMMA DamageWithinFlaws == Spec => [](books.damage \subseteq Flaws)
<1>1. Init => books.damage \subseteq Flaws
  BY DEF Init
<1>2. books.damage \subseteq Flaws /\ [Next]_vars => (books.damage \subseteq Flaws)'
  <2> SUFFICES ASSUME books.damage \subseteq Flaws, [Next]_vars
               PROVE  books'.damage \subseteq Flaws
    OBVIOUS
  <2>1. \A desc, balance : Add(desc, balance) => books'.damage \subseteq Flaws
    BY DEF Add, WithinFlaws
  <2>2. \A id, value, desc, status :
          UpdateAs(id, value, desc, status) => books'.damage \subseteq Flaws
    BY DEF UpdateAs, WithinFlaws
  <2>3. \A id : Remove(id) \/ Undo(id) => books'.damage \subseteq Flaws
    BY DEF Remove, Undo, WithinFlaws
  <2>4. \A pid : ApplyPolicy(pid) \/ UndoPolicy(pid) => books'.damage \subseteq Flaws
    BY DEF ApplyPolicy, UndoPolicy, WithinFlaws
  <2>5. Reopen => books'.damage = books.damage
    BY DEF Reopen, Reopened
  <2> QED
    BY <2>1, <2>2, <2>3, <2>4, <2>5
    DEF Next, Update, CreatePolicy, DeletePolicy, PolicyCallFails, vars
<1> QED
  BY <1>1, <1>2, PTL DEF Spec

\* Without flaws the books are right for ever: records belong to one entry each,
\* balances are their sums, and entries say what their latest records say.
THEOREM BooksWithoutFlaws ==
  ASSUME Flaws = {}, "NEW_ENTRY" \notin GivenStatus
  PROVE  Spec => [](RecordsPartition /\ BooksBalance /\ EntryMirrorsLastRecord)
<1>1. books.damage \subseteq Flaws /\ OrderUntilDamage
      => RecordsPartition /\ BooksBalance /\ EntryMirrorsLastRecord
  BY DEF OrderUntilDamage, InOrder, Kept, RecordsPartition, BooksBalance,
         EntryMirrorsLastRecord
<1> QED
  BY <1>1, DamageWithinFlaws, OrderInvariance, PTL
=============================================================================
