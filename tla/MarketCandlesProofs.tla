------------------------- MODULE MarketCandlesProofs -------------------------
(***************************************************************************)
(* Theorems about MarketCandles: its types, that the chart's bars are a    *)
(* CandleWindow and that a synced chart is true.  The first part is about  *)
(* arrays of bars in the order of their times: sorting, merging and        *)
(* capping them.                                                           *)
(***************************************************************************)
EXTENDS MarketCandles, SequenceTheorems, FiniteSetTheorems, TLAPS

TimesOf(seq) == Times(ToSet(seq))

Increasing(seq) == \A i, j \in 1..Len(seq) : i < j => seq[i].t < seq[j].t

OnePerTime(S) == \A b, c \in S : b.t = c.t => b = c

\* The elements of a sequence, and how many there are.
LEMMA ElementsOf ==
  ASSUME NEW S, NEW seq \in Seq(S)
  PROVE  /\ Len(seq) \in Nat
         /\ ToSet(seq) = {seq[i] : i \in 1..Len(seq)}
         /\ ToSet(seq) \subseteq S
         /\ \A i \in 1..Len(seq) : seq[i] \in S
         /\ seq \in [1..Len(seq) -> S]
         /\ DOMAIN seq = 1..Len(seq)
         /\ seq = <<>> <=> Len(seq) = 0
         /\ seq = <<>> <=> ToSet(seq) = {}
<1>1. /\ Len(seq) \in Nat
      /\ seq \in [1..Len(seq) -> S]
      /\ DOMAIN seq = 1..Len(seq)
      /\ seq = <<>> <=> Len(seq) = 0
  BY LenProperties, EmptySeq
<1>2. ToSet(seq) = {seq[i] : i \in 1..Len(seq)}
  BY <1>1 DEF ToSet
<1>3. \A i \in 1..Len(seq) : seq[i] \in S
  BY <1>1
<1>4. seq = <<>> <=> ToSet(seq) = {}
  <2>1. Len(seq) # 0 => 1 \in 1..Len(seq)
    BY <1>1
  <2>2. Len(seq) = 0 => 1..Len(seq) = {}
    BY <1>1
  <2>. QED  BY <1>1, <1>2, <2>1, <2>2
<1>. QED  BY <1>1, <1>2, <1>3, <1>4

\* An array in the order of its times holds one bar per time, as many as it
\* is long.
LEMMA IncreasingElements ==
  ASSUME NEW seq \in Seq(Bar), Increasing(seq)
  PROVE  /\ OnePerTime(ToSet(seq))
         /\ IsFiniteSet(ToSet(seq))
         /\ Cardinality(ToSet(seq)) = Len(seq)
<1>1. /\ Len(seq) \in Nat /\ ToSet(seq) = {seq[i] : i \in 1..Len(seq)}
      /\ \A i \in 1..Len(seq) : seq[i] \in Bar
      /\ DOMAIN seq = 1..Len(seq)
  BY ElementsOf
<1>2. \A b \in Bar : b.t \in Int
  BY DEF Bar, Window!Bar
<1>3. \A i, j \in 1..Len(seq) : seq[i].t = seq[j].t => i = j
  <2>1. SUFFICES ASSUME NEW i \in 1..Len(seq), NEW j \in 1..Len(seq),
                        seq[i].t = seq[j].t
                 PROVE  i = j
    OBVIOUS
  <2>2. ~(i < j) /\ ~(j < i)
    BY <1>1, <1>2, <2>1 DEF Increasing
  <2>. QED  BY <1>1, <2>2
<1>4. OnePerTime(ToSet(seq))
  BY <1>1, <1>3 DEF OnePerTime
<1>5. seq \in Bijection(1..Len(seq), ToSet(seq))
  <2>1. seq \in Injection(1..Len(seq), ToSet(seq))
    BY <1>1, <1>3, ElementsOf DEF Injection, IsInjective
  <2>2. seq \in Surjection(1..Len(seq), ToSet(seq))
    BY <1>1, ElementsOf DEF Surjection
  <2>. QED  BY <2>1, <2>2 DEF Bijection
<1>6. ExistsBijection(1..Len(seq), ToSet(seq))
  BY <1>5 DEF ExistsBijection
<1>. QED  BY <1>1, <1>4, <1>6, FS_CountingElements, FS_NatBijection

\* The times of a set with one bar per time: as many as the bars.
LEMMA TimesCount ==
  ASSUME NEW S \in SUBSET Bar, IsFiniteSet(S), OnePerTime(S)
  PROVE  /\ IsFiniteSet(Times(S)) /\ Times(S) \subseteq 1..MaxNow
         /\ Cardinality(Times(S)) = Cardinality(S)
<1>. DEFINE f == [b \in S |-> b.t]
<1>1. f \in Surjection(S, Times(S))
  BY DEF Surjection, Times, Window!Times
<1>2. f \in Injection(S, Times(S))
  BY DEF Injection, IsInjective, Times, Window!Times, OnePerTime
<1>3. Times(S) \subseteq 1..MaxNow
  BY DEF Times, Window!Times, Bar, Window!Bar
<1>. QED  BY <1>1, <1>2, <1>3, FS_Surjection
\* Sorting a set with one bar per time: its elements in the order of their
\* times.
LEMMA SortedInOrder ==
  ASSUME NEW S \in SUBSET Bar, IsFiniteSet(S), OnePerTime(S)
  PROVE  /\ Sorted(S) \in Seq(Bar)
         /\ Len(Sorted(S)) = Cardinality(S)
         /\ ToSet(Sorted(S)) = S
         /\ Increasing(Sorted(S))
<1>. DEFINE Upto(b) == {c \in S : c.t <= b.t}
            n == Cardinality(S)
            rank == [b \in S |-> Cardinality(Upto(b))]
            at(i) == CHOOSE b \in S : Cardinality(Upto(b)) = i
<1>1. n \in Nat
  BY FS_CardinalityType
<1>2. \A b \in S : b.t \in Int
  BY DEF Bar, Window!Bar
<1>3. \A b \in S : IsFiniteSet(Upto(b)) /\ rank[b] \in 1..n
  <2>1. SUFFICES ASSUME NEW b \in S
                 PROVE  IsFiniteSet(Upto(b)) /\ Cardinality(Upto(b)) \in 1..n
    OBVIOUS
  <2>2. Upto(b) \in SUBSET S /\ b \in Upto(b)
    BY <1>2
  <2>. HIDE DEF Upto
  <2>3. IsFiniteSet(Upto(b)) /\ Cardinality(Upto(b)) <= n
    BY <2>2, FS_Subset
  <2>4. Cardinality(Upto(b)) \in Nat /\ Cardinality(Upto(b)) # 0
    BY <2>2, <2>3, FS_CardinalityType, FS_EmptySet
  <2>. QED  BY <1>1, <2>3, <2>4
<1>4. \A b, c \in S : b.t < c.t => rank[b] < rank[c]
  <2>1. SUFFICES ASSUME NEW b \in S, NEW c \in S, b.t < c.t
                 PROVE  Cardinality(Upto(b)) < Cardinality(Upto(c))
    OBVIOUS
  <2>2. Upto(b) \in SUBSET Upto(c) /\ c \in Upto(c) /\ c \notin Upto(b)
    BY <1>2, <2>1
  <2>3. /\ IsFiniteSet(Upto(b)) /\ IsFiniteSet(Upto(c))
        /\ Cardinality(Upto(b)) \in Int /\ Cardinality(Upto(c)) \in Int
    BY <1>1, <1>3
  <2>. HIDE DEF Upto
  <2>4. /\ Cardinality(Upto(b)) <= Cardinality(Upto(c))
        /\ Cardinality(Upto(b)) # Cardinality(Upto(c))
    BY <2>2, <2>3, FS_Subset
  <2>. QED  BY <2>3, <2>4
<1>5. \A b, c \in S : rank[b] <= rank[c] <=> b.t <= c.t
  <2>1. SUFFICES ASSUME NEW b \in S, NEW c \in S
                 PROVE  rank[b] <= rank[c] <=> b.t <= c.t
    OBVIOUS
  <2>2. rank[b] \in Int /\ rank[c] \in Int /\ b.t \in Int /\ c.t \in Int
    <3>1. rank[b] \in 1..n /\ rank[c] \in 1..n
      BY <1>3
    <3>. HIDE DEF rank
    <3>. QED  BY <1>1, <1>2, <3>1
  <2>3. b.t < c.t => rank[b] < rank[c]
    BY <1>4
  <2>4. c.t < b.t => rank[c] < rank[b]
    BY <1>4
  <2>5. b.t = c.t => b = c
    BY DEF OnePerTime
  <2>. HIDE DEF rank
  <2>. QED  BY <2>2, <2>3, <2>4, <2>5
<1>6. rank \in Injection(S, 1..n)
  <2>1. \A b, c \in S : rank[b] = rank[c] => b = c
    <3>1. SUFFICES ASSUME NEW b \in S, NEW c \in S, rank[b] = rank[c]
                   PROVE  b = c
      OBVIOUS
    <3>2. rank[b] \in Int /\ b.t \in Int /\ c.t \in Int
      <4>1. rank[b] \in 1..n
        BY <1>3
      <4>. HIDE DEF rank
      <4>. QED  BY <1>1, <1>2, <4>1
    <3>3. b.t <= c.t /\ c.t <= b.t
      <4>. HIDE DEF rank
      <4>. QED  BY <1>5, <3>1, <3>2
    <3>. QED  BY <3>2, <3>3 DEF OnePerTime
  <2>2. rank \in [S -> 1..n]
    BY <1>3
  <2>. QED  BY <2>1, <2>2 DEF Injection, IsInjective
<1>7. rank \in Surjection(S, 1..n)
  <2>1. IsFiniteSet(1..n) /\ Cardinality(1..n) = n
    <3>. HIDE DEF n
    <3>1. n = 0 \/ 1 <= n
      BY <1>1
    <3>. QED  BY <1>1, <3>1, FS_Interval
  <2>. HIDE DEF rank
  <2>. QED  BY <1>6, <2>1, FS_Injection
<1>8. \A i \in 1..n : at(i) \in S /\ rank[at(i)] = i
  <2>1. SUFFICES ASSUME NEW i \in 1..n
                 PROVE  at(i) \in S /\ Cardinality(Upto(at(i))) = i
    OBVIOUS
  <2>2. \E b \in S : Cardinality(Upto(b)) = i
    BY <1>7 DEF Surjection
  <2>. HIDE DEF Upto
  <2>. QED  BY <2>2
<1>9. Sorted(S) = [i \in 1..n |-> at(i)]
  BY DEF Sorted
<1>. HIDE DEF at, n
<1>10. /\ Sorted(S) \in Seq(Bar) /\ Len(Sorted(S)) = n
       /\ \A i \in 1..n : Sorted(S)[i] = at(i)
  <2>1. [i \in 1..n |-> at(i)] \in Seq(S)
    <3>1. [i \in 1..n |-> at(i)] \in [1..n -> S]
      BY <1>8
    <3>. QED  BY <1>1, <3>1, SeqDef
  <2>2. Sorted(S) \in Seq(Bar)
    BY <1>9, <2>1, SeqMonotonic
  <2>3. Len(Sorted(S)) = n
    BY <1>1, <1>9, <2>2, LenProperties
  <2>. QED  BY <1>9, <2>2, <2>3
<1>11. ToSet(Sorted(S)) = S
  <2>1. ToSet(Sorted(S)) = {at(i) : i \in 1..n}
    BY <1>10, ElementsOf
  <2>2. \A b \in S : b = at(rank[b])
    <3>1. SUFFICES ASSUME NEW b \in S
                   PROVE  b = at(rank[b])
      OBVIOUS
    <3>2. rank[b] \in 1..n
      BY <1>3
    <3>3. at(rank[b]) \in S /\ rank[at(rank[b])] = rank[b]
      BY <1>8, <3>2
    <3>. QED  BY <1>6, <3>3 DEF Injection, IsInjective
  <2>3. \A b \in S : rank[b] \in 1..n
    BY <1>3
  <2>. HIDE DEF rank
  <2>. QED  BY <1>8, <2>1, <2>2, <2>3
<1>12. Increasing(Sorted(S))
  <2>1. SUFFICES ASSUME NEW i \in 1..n, NEW j \in 1..n, i < j
                 PROVE  at(i).t < at(j).t
    BY <1>10 DEF Increasing
  <2>2. at(i) \in S /\ at(j) \in S /\ rank[at(i)] = i /\ rank[at(j)] = j
    BY <1>8
  <2>3. at(i).t \in Int /\ at(j).t \in Int
    BY <1>2, <2>2
  <2>4. ~(at(j).t <= at(i).t)
    <3>1. ~(rank[at(j)] <= rank[at(i)])
      BY <1>1, <2>1, <2>2
    <3>. HIDE DEF rank
    <3>. QED  BY <1>5, <2>2, <3>1
  <2>. QED  BY <2>3, <2>4
<1>. QED  BY <1>10, <1>11, <1>12 DEF n

\* Merging: the incoming bars, and those held at other times.
LEMMA Merged ==
  ASSUME NEW existing \in Seq(Bar), NEW incoming \in Seq(Bar),
         Increasing(existing), Increasing(incoming)
  PROVE  LET both == MergeBars(existing, incoming)
         IN  /\ both \in Seq(Bar) /\ Increasing(both)
             /\ ToSet(both) = ToSet(incoming)
                   \cup {b \in ToSet(existing) : b.t \notin TimesOf(incoming)}
             /\ TimesOf(both) = TimesOf(existing) \cup TimesOf(incoming)
<1>. DEFINE E == ToSet(existing)
            I == ToSet(incoming)
            U == I \cup {b \in E : b.t \notin Times(I)}
<1>1. E \in SUBSET Bar /\ I \in SUBSET Bar
  BY ElementsOf
<1>2. OnePerTime(E) /\ OnePerTime(I) /\ IsFiniteSet(E) /\ IsFiniteSet(I)
  BY IncreasingElements
<1>. HIDE DEF E, I
<1>3. U \in SUBSET Bar /\ U \subseteq E \cup I
  BY <1>1
<1>4. OnePerTime(U)
  BY <1>2 DEF OnePerTime, Times, Window!Times
<1>5. Times(U) = Times(E) \cup Times(I)
  BY DEF Times, Window!Times
<1>6. IsFiniteSet(U)
  <2>. HIDE DEF U
  <2>1. IsFiniteSet(E \cup I)
    BY <1>2, FS_Union
  <2>. QED  BY <1>3, <2>1, FS_Subset
<1>7. MergeBars(existing, incoming) = Sorted(U)
  BY DEF MergeBars, E, I
<1>8. /\ Sorted(U) \in Seq(Bar) /\ Increasing(Sorted(U))
      /\ ToSet(Sorted(U)) = U
  <2>. HIDE DEF U
  <2>. QED  BY <1>3, <1>4, <1>6, SortedInOrder
<1>9. U = ToSet(incoming)
             \cup {b \in ToSet(existing) : b.t \notin TimesOf(incoming)}
  BY DEF E, I, TimesOf
<1>10. TimesOf(Sorted(U)) = TimesOf(existing) \cup TimesOf(incoming)
  <2>. HIDE DEF U
  <2>. QED  BY <1>5, <1>8 DEF TimesOf, E, I
<1>. HIDE DEF U
<1>. QED  BY <1>7, <1>8, <1>9, <1>10

\* Capping: the newest Cap bars, in their order.
LEMMA Capped ==
  ASSUME NEW seq \in Seq(Bar), Increasing(seq)
  PROVE  LET new == CapBars(seq)
         IN  /\ new \in Seq(Bar) /\ Increasing(new) /\ Len(new) <= Cap
             /\ ToSet(new) \subseteq ToSet(seq)
             /\ Len(seq) <= Cap => new = seq
             /\ \A b \in ToSet(seq) :
                   \/ b \in ToSet(new)
                   \/ Len(new) = Cap /\ \A c \in ToSet(new) : b.t < c.t
             /\ new = <<>> => seq = <<>>
<1>. DEFINE n == Len(seq)
<1>1. /\ n \in Nat /\ Cap \in Nat \ {0}
      /\ ToSet(seq) = {seq[i] : i \in 1..n}
      /\ \A i \in 1..n : seq[i] \in Bar
  BY ElementsOf, CandlesAssumption
<1>. HIDE DEF n
<1>2. CASE n <= Cap
  <2>1. CapBars(seq) = seq
    BY <1>2 DEF CapBars, n
  <2>. QED  BY <1>2, <2>1 DEF n
<1>3. CASE ~(n <= Cap)
  <2>. DEFINE m == n - Cap + 1
              new == SubSeq(seq, m, n)
  <2>1. CapBars(seq) = new
    BY <1>3 DEF CapBars, n
  <2>2. /\ m \in Int /\ m <= n /\ 1 <= m /\ n - m + 1 = Cap
        /\ n - Cap + 1 = m
    BY <1>1, <1>3
  <2>. HIDE DEF m
  <2>3. \A i \in m..n : seq[i] \in Bar
    BY <1>1, <2>2
  <2>4. /\ new \in Seq(Bar) /\ Len(new) = Cap
        /\ \A i \in 1..Cap : new[i] = seq[m + i - 1]
    <3>1. /\ new \in Seq(Bar)
          /\ Len(new) = IF m <= n THEN n - m + 1 ELSE 0
          /\ \A i \in 1..n - m + 1 : new[i] = seq[m + i - 1]
      BY <1>1, <2>2, <2>3, SubSeqProperties
    <3>. HIDE DEF new
    <3>. QED  BY <2>2, <3>1
  <2>. HIDE DEF new
  <2>5. ToSet(new) = {new[i] : i \in 1..Cap}
    BY <2>4, ElementsOf
  <2>6. \A i \in 1..Cap : m + i - 1 \in 1..n
    BY <1>1, <2>2
  <2>7. Increasing(new)
    <3>1. SUFFICES ASSUME NEW i \in 1..Cap, NEW j \in 1..Cap, i < j
                   PROVE  new[i].t < new[j].t
      BY <2>4 DEF Increasing
    <3>2. m + i - 1 < m + j - 1
      BY <1>1, <2>2, <3>1
    <3>. QED  BY <2>4, <2>6, <3>2 DEF Increasing, n
  <2>8. ToSet(new) \subseteq ToSet(seq)
    BY <1>1, <2>4, <2>5, <2>6
  <2>9. ASSUME NEW b \in ToSet(seq), b \notin ToSet(new)
        PROVE  \A c \in ToSet(new) : b.t < c.t
    <3>1. PICK k \in 1..n : b = seq[k]
      BY <1>1
    <3>2. k < m
      <4>1. SUFFICES ASSUME m <= k
                     PROVE  b \in ToSet(new)
        BY <1>1, <2>2, <2>9
      <4>2. k - m + 1 \in 1..Cap /\ m + (k - m + 1) - 1 = k
        BY <1>1, <2>2, <4>1
      <4>3. new[k - m + 1] = seq[m + (k - m + 1) - 1]
        BY <2>4, <4>2
      <4>. QED  BY <2>5, <3>1, <4>2, <4>3
    <3>3. SUFFICES ASSUME NEW i \in 1..Cap
                   PROVE  b.t < seq[m + i - 1].t
      BY <2>4, <2>5
    <3>4. k < m + i - 1 /\ m + i - 1 \in 1..n
      BY <1>1, <2>2, <2>6, <3>2
    <3>. QED  BY <3>1, <3>4 DEF Increasing, n
  <2>10. new # <<>>
    BY <1>1, <2>4, ElementsOf
  <2>. QED  BY <1>1, <1>3, <2>1, <2>4, <2>7, <2>8, <2>9, <2>10 DEF n
<1>. QED  BY <1>2, <1>3

\* What merging and capping together keep: every bar that was held or came
\* in, at its time, but for those older than a full array.
LEMMA Learnt ==
  ASSUME NEW existing \in Seq(Bar), NEW incoming \in Seq(Bar),
         Increasing(existing), Increasing(incoming)
  PROVE  LET both == MergeBars(existing, incoming)
             new == CapBars(both)
         IN  /\ new \in Seq(Bar) /\ Increasing(new) /\ Len(new) <= Cap
             /\ \A b \in ToSet(new) :
                   \/ b \in ToSet(incoming)
                   \/ b \in ToSet(existing) /\ b.t \notin TimesOf(incoming)
             /\ TimesOf(new) \subseteq TimesOf(existing) \cup TimesOf(incoming)
             /\ \A t \in TimesOf(existing) \cup TimesOf(incoming) :
                   \/ t \in TimesOf(new)
                   \/ Len(new) = Cap /\ \A c \in ToSet(new) : t < c.t
             /\ ~(Len(both) > Cap) =>
                   TimesOf(new) = TimesOf(existing) \cup TimesOf(incoming)
             /\ new = <<>> => existing = <<>> /\ incoming = <<>>
<1>. DEFINE both == MergeBars(existing, incoming)
            new == CapBars(both)
<1>1. /\ both \in Seq(Bar) /\ Increasing(both)
      /\ ToSet(both) = ToSet(incoming)
            \cup {b \in ToSet(existing) : b.t \notin TimesOf(incoming)}
      /\ TimesOf(both) = TimesOf(existing) \cup TimesOf(incoming)
  BY Merged
<1>. HIDE DEF both
<1>2. /\ new \in Seq(Bar) /\ Increasing(new) /\ Len(new) <= Cap
      /\ ToSet(new) \subseteq ToSet(both)
      /\ Len(both) <= Cap => new = both
      /\ \A b \in ToSet(both) :
            \/ b \in ToSet(new)
            \/ Len(new) = Cap /\ \A c \in ToSet(new) : b.t < c.t
      /\ new = <<>> => both = <<>>
  BY <1>1, Capped
<1>. HIDE DEF new
<1>3. TimesOf(new) \subseteq TimesOf(both)
  BY <1>2 DEF TimesOf, Times, Window!Times
<1>4. ASSUME NEW t \in TimesOf(both)
      PROVE  \/ t \in TimesOf(new)
             \/ Len(new) = Cap /\ \A c \in ToSet(new) : t < c.t
  <2>1. PICK b \in ToSet(both) : b.t = t
    BY DEF TimesOf, Times, Window!Times
  <2>. QED  BY <1>2, <2>1 DEF TimesOf, Times, Window!Times
<1>5. ~(Len(both) > Cap) => TimesOf(new) = TimesOf(both)
  <2>1. Len(both) \in Nat /\ Cap \in Nat
    BY <1>1, ElementsOf, CandlesAssumption
  <2>. QED  BY <1>2, <2>1
<1>6. both = <<>> => existing = <<>> /\ incoming = <<>>
  <2>1. both = <<>> => TimesOf(both) = {}
    <3>1. both = <<>> => ToSet(both) = {}
      BY <1>1, ElementsOf
    <3>. QED  BY <3>1 DEF TimesOf, Times, Window!Times
  <2>2. /\ TimesOf(existing) = {} => ToSet(existing) = {}
        /\ TimesOf(incoming) = {} => ToSet(incoming) = {}
    BY DEF TimesOf, Times, Window!Times
  <2>3. /\ existing = <<>> <=> ToSet(existing) = {}
        /\ incoming = <<>> <=> ToSet(incoming) = {}
    BY ElementsOf
  <2>. HIDE DEF TimesOf
  <2>. QED  BY <1>1, <2>1, <2>2, <2>3
<1>7. /\ \A b \in ToSet(new) :
            \/ b \in ToSet(incoming)
            \/ b \in ToSet(existing) /\ b.t \notin TimesOf(incoming)
      /\ new = <<>> => existing = <<>> /\ incoming = <<>>
  BY <1>1, <1>2, <1>6
<1>. HIDE DEF TimesOf, Increasing
<1>8. /\ TimesOf(new) \subseteq TimesOf(existing) \cup TimesOf(incoming)
      /\ \A t \in TimesOf(existing) \cup TimesOf(incoming) :
            \/ t \in TimesOf(new)
            \/ Len(new) = Cap /\ \A c \in ToSet(new) : t < c.t
      /\ ~(Len(both) > Cap) =>
            TimesOf(new) = TimesOf(existing) \cup TimesOf(incoming)
  BY <1>1, <1>3, <1>4, <1>5
<1>. QED  BY <1>2, <1>7, <1>8 DEF both, new

\* The bars that a tick's effect merges in: the tick, or none.
LEMMA TickMerged ==
  ASSUME NEW T, T \subseteq Bar, T = {} \/ \E b \in Bar : T = {b}
  PROVE  LET seq == [i \in 1..Cardinality(T) |-> CHOOSE b \in T : TRUE]
         IN  seq \in Seq(Bar) /\ Increasing(seq) /\ ToSet(seq) = T
<1>. DEFINE seq == [i \in 1..Cardinality(T) |-> CHOOSE b \in T : TRUE]
<1>1. CASE T = {}
  <2>1. Cardinality(T) = 0
    BY <1>1, FS_EmptySet
  <2>2. 1..Cardinality(T) = {}
    BY <2>1
  <2>3. seq = <<>>
    BY <2>2
  <2>. HIDE DEF seq
  <2>4. seq \in Seq(Bar) /\ Len(seq) = 0 /\ ToSet(seq) = {}
    BY <2>3, EmptySeq, ElementsOf
  <2>5. Increasing(seq)
    BY <2>4 DEF Increasing
  <2>. QED  BY <1>1, <2>4, <2>5 DEF seq
<1>2. ASSUME NEW a \in Bar, T = {a}
      PROVE  seq \in Seq(Bar) /\ Increasing(seq) /\ ToSet(seq) = T
  <2>1. Cardinality(T) = 1
    BY <1>2, FS_Singleton
  <2>2. seq = [i \in 1..1 |-> a]
    BY <1>2, <2>1
  <2>. HIDE DEF seq
  <2>3. seq \in Seq(Bar)
    BY <2>2, SeqDef
  <2>4. Len(seq) = 1
    BY <2>2, <2>3, LenProperties
  <2>5. ToSet(seq) = {seq[i] : i \in 1..1}
    BY <2>3, <2>4, ElementsOf
  <2>. QED  BY <1>2, <2>2, <2>3, <2>4, <2>5 DEF Increasing
<1>. QED  BY <1>1, <1>2

-----------------------------------------------------------------------------
(* Pages.                                                                  *)

\* The newest bars of a set: all from some time on, and at least those of
\* as many times as are asked for.
LEMMA NewestOf ==
  ASSUME NEW B \in SUBSET Bar, IsFiniteSet(B), OnePerTime(B), NEW limit \in Nat \ {0}
  PROVE  /\ Newest(B, limit) \subseteq B /\ IsFiniteSet(Newest(B, limit))
         /\ OnePerTime(Newest(B, limit))
         /\ \A b \in Newest(B, limit), c \in B : b.t <= c.t => c \in Newest(B, limit)
         /\ \A last \in Int, c \in B :
               last - limit < c.t /\ (\A d \in B : d.t <= last) => c \in Newest(B, limit)
<1>. DEFINE From(b) == {c \in B : b.t <= c.t}
<1>1. Newest(B, limit) = {b \in B : Cardinality(From(b)) <= limit}
  BY DEF Newest
<1>2. \A b \in B : b.t \in Int
  BY DEF Bar, Window!Bar
<1>3. \A b \in B : /\ From(b) \in SUBSET B /\ IsFiniteSet(From(b))
                   /\ Cardinality(From(b)) \in Nat
  <2>1. \A b \in B : From(b) \in SUBSET B
    OBVIOUS
  <2>. HIDE DEF From
  <2>. QED  BY <2>1, FS_Subset, FS_CardinalityType
<1>4. ASSUME NEW b \in B, NEW c \in B, b.t <= c.t, Cardinality(From(b)) <= limit
      PROVE  Cardinality(From(c)) <= limit
  <2>1. From(c) \in SUBSET From(b)
    BY <1>2, <1>4
  <2>. HIDE DEF From
  <2>2. Cardinality(From(c)) <= Cardinality(From(b))
    BY <1>3, <2>1, FS_Subset
  <2>. QED  BY <1>3, <1>4, <2>2
<1>5. ASSUME NEW last \in Int, NEW c \in B, last - limit < c.t, \A d \in B : d.t <= last
      PROVE  Cardinality(From(c)) <= limit
  <2>1. Times(From(c)) \subseteq c.t..last
    BY <1>2, <1>5 DEF Times, Window!Times
  <2>2. From(c) \in SUBSET Bar /\ OnePerTime(From(c))
    BY DEF OnePerTime
  <2>3. c.t \in Int /\ c.t <= last
    BY <1>2, <1>5
  <2>4. IsFiniteSet(c.t..last) /\ Cardinality(c.t..last) = last - c.t + 1
    BY <2>3, FS_Interval
  <2>. HIDE DEF From
  <2>5. Cardinality(Times(From(c))) = Cardinality(From(c))
    BY <1>3, <2>2, TimesCount
  <2>6. Cardinality(Times(From(c))) <= Cardinality(c.t..last)
    BY <2>1, <2>4, FS_Subset
  <2>7. Cardinality(From(c)) \in Nat /\ Cardinality(From(c)) <= last - c.t + 1
    BY <1>3, <2>4, <2>5, <2>6
  <2>. QED  BY <1>5, <2>3, <2>7
<1>. HIDE DEF From
<1>6. IsFiniteSet(Newest(B, limit))
  <2>1. Newest(B, limit) \in SUBSET B
    BY <1>1
  <2>. QED  BY <2>1, FS_Subset
<1>. QED  BY <1>1, <1>4, <1>5, <1>6 DEF OnePerTime

\* What is in a page read at the clock n: bars of the view up to the last one
\* asked for, none left out from its oldest on and, unless it is empty, those
\* of as many times as were asked for.
Reads(page, v, limit, before, n) ==
    LET last == LastOf(before, n)
    IN  /\ page \in Page /\ page.view = v /\ page.at = n
        /\ page.seq \in Seq(Bar) /\ Increasing(page.seq)
        /\ last \in 0..n
        /\ \A b \in ToSet(page.seq) :
              b.view = v /\ b.t <= last /\ Window!Existed(b, n)
        /\ \A a \in TimesOf(page.seq), t \in Traded[v] :
              a < t /\ t <= last => t \in TimesOf(page.seq)
        /\ page.seq # <<>> => \A t \in Traded[v] :
              last - limit < t /\ t <= last => t \in TimesOf(page.seq)

\* A bar as the market has it.
LEMMA MarketBarTold ==
  ASSUME NEW v \in View, NEW t \in Traded[v], t <= now, now \in 1..MaxNow
  PROVE  /\ MarketBar(v, t) \in Bar /\ MarketBar(v, t).view = v /\ MarketBar(v, t).t = t
         /\ Window!Existed(MarketBar(v, t), now)
<1>1. t \in 1..MaxNow
  <2>1. MaxNow \in Nat /\ t \in Nat \ {0}
    BY CandlesAssumption
  <2>. QED  BY <2>1
<1>2. PICK c \in BOOLEAN : c <=> t < now
  OBVIOUS
<1>3. (t < now) = c
  BY <1>2
<1>4. MarketBar(v, t) = [view |-> v, t |-> t, closed |-> c]
  BY <1>3 DEF MarketBar
<1>5. MarketBar(v, t) \in Bar
  BY <1>1, <1>4 DEF Bar, Window!Bar
<1>6. Window!Existed(MarketBar(v, t), now)
  BY <1>2, <1>4 DEF Window!Existed
<1>. QED  BY <1>4, <1>5, <1>6

\* The bars that lie in the window and the one at its edge.
WindowBars(v, limit, last, edge) ==
    {MarketBar(v, t) : t \in InWindow(v, limit, last)} \cup edge

LEMMA WindowRead ==
  ASSUME now \in 1..MaxNow, NEW v \in View, NEW limit \in Nat \ {0}, NEW last \in 0..now,
         NEW edge \in AtEdge(v, limit, last)
  PROVE  LET B == WindowBars(v, limit, last, edge)
         IN  /\ B \in SUBSET Bar /\ IsFiniteSet(B) /\ OnePerTime(B)
             /\ \A b \in B : /\ b.view = v /\ b.t \in Int /\ b.t <= last
                              /\ last - 2 * limit <= b.t /\ Window!Existed(b, now)
             /\ \A t \in Traded[v] : last - 2 * limit < t /\ t <= last =>
                   MarketBar(v, t) \in B /\ MarketBar(v, t).t = t
<1>. DEFINE I == InWindow(v, limit, last)
            inside == {MarketBar(v, t) : t \in I}
            B == inside \cup edge
<1>1. MaxNow \in Nat /\ Traded[v] \subseteq Nat \ {0}
  BY CandlesAssumption
<1>2. I = {t \in Traded[v] : last - 2 * limit < t /\ t <= last}
  BY DEF InWindow
<1>. HIDE DEF I
<1>3. I \subseteq 1..MaxNow /\ \A t \in I : t <= last /\ last - 2 * limit < t /\ t \in Traded[v]
  BY <1>1, <1>2
<1>5. \A b \in inside : /\ b \in Bar /\ b.view = v /\ b.t <= last /\ last - 2 * limit < b.t
                        /\ Window!Existed(b, now) /\ b = MarketBar(v, b.t)
  <2>1. SUFFICES ASSUME NEW t \in I, NEW b, b = MarketBar(v, t)
                 PROVE  /\ b \in Bar /\ b.view = v /\ b.t <= last
                        /\ last - 2 * limit < b.t /\ Window!Existed(b, now)
                        /\ b = MarketBar(v, b.t)
    OBVIOUS
  <2>2. t <= now /\ t \in Traded[v] /\ t <= last /\ last - 2 * limit < t
    BY <1>3
  <2>. QED  BY <2>1, <2>2, MarketBarTold
<1>6. edge = {} \/ \E e \in Bar : /\ edge = {e} /\ e.view = v /\ e.t = last - 2 * limit
                                  /\ Window!Existed(e, now)
  <2>1. SUFFICES ASSUME NEW t \in Traded[v] \cap {last - 2 * limit}, NEW whole \in BOOLEAN,
                        edge = {[view |-> v, t |-> t, closed |-> whole]}
                 PROVE  \E e \in Bar : /\ edge = {e} /\ e.view = v /\ e.t = last - 2 * limit
                                      /\ Window!Existed(e, now)
    BY DEF AtEdge
  <2>. DEFINE e == [view |-> v, t |-> t, closed |-> whole]
  <2>2. t \in 1..MaxNow /\ t < now /\ t \in Traded[v] /\ t = last - 2 * limit
    BY <1>1
  <2>3. e \in Bar /\ e.view = v /\ e.t = last - 2 * limit /\ Window!Existed(e, now)
    BY <2>2 DEF Bar, Window!Bar, Window!Existed
  <2>. QED  BY <2>1, <2>3
<1>7. \A e \in edge : /\ e \in Bar /\ e.view = v /\ e.t = last - 2 * limit
                      /\ Window!Existed(e, now) /\ e.t <= last
                      /\ \A d \in edge : d = e
  <2>1. last - 2 * limit <= last
    OBVIOUS
  <2>. QED  BY <1>6, <2>1
<1>8. IsFiniteSet(B)
  <2>1. IsFiniteSet(I)
    <3>1. IsFiniteSet(1..MaxNow) /\ I \in SUBSET (1..MaxNow)
      BY <1>1, <1>3, FS_Interval
    <3>. QED  BY <3>1, FS_Subset
  <2>2. IsFiniteSet(inside)
    <3>1. IsFiniteSet({MarketBar(v, t) : t \in I})
      <4>. DEFINE f == [t \in I |-> MarketBar(v, t)]
      <4>1. f \in Surjection(I, {MarketBar(v, t) : t \in I})
        BY DEF Surjection
      <4>. HIDE DEF f
      <4>. QED  BY <2>1, <4>1, FS_Surjection
    <3>. QED  BY <3>1
  <2>3. IsFiniteSet(edge)
    <3>1. IsFiniteSet({}) /\ \A e : IsFiniteSet({e})
      BY FS_EmptySet, FS_Singleton
    <3>. QED  BY <1>6, <3>1
  <2>. HIDE DEF inside
  <2>. QED  BY <2>2, <2>3, FS_Union
<1>9. \A t \in I : MarketBar(v, t) \in inside /\ MarketBar(v, t).t = t
  BY DEF MarketBar
<1>. HIDE DEF inside
<1>10. \A b \in B : /\ b \in Bar /\ b.view = v /\ b.t \in Int /\ b.t <= last
                    /\ last - 2 * limit <= b.t /\ Window!Existed(b, now)
  <2>1. \A b \in Bar : b.t \in Int
    BY DEF Bar, Window!Bar
  <2>. QED  BY <1>5, <1>7, <2>1
<1>11. OnePerTime(B)
  <2>1. SUFFICES ASSUME NEW b \in B, NEW c \in B, b.t = c.t
                 PROVE  b = c
    BY DEF OnePerTime
  <2>2. \A e \in edge, d \in inside : e.t # d.t
    BY <1>5, <1>7
  <2>3. CASE b \in inside /\ c \in inside
    BY <1>5, <2>1, <2>3
  <2>4. CASE b \in edge /\ c \in edge
    BY <1>7, <2>4
  <2>. QED  BY <2>1, <2>2, <2>3, <2>4
<1>12. \A t \in Traded[v] : last - 2 * limit < t /\ t <= last =>
          MarketBar(v, t) \in B /\ MarketBar(v, t).t = t
  BY <1>2, <1>9
<1>13. B = WindowBars(v, limit, last, edge)
  BY DEF WindowBars, inside, I
<1>. HIDE DEF B
<1>. QED  BY <1>8, <1>10, <1>11, <1>12, <1>13

\* A page of some bars.
LEMMA PageMade ==
  ASSUME now \in 1..MaxNow, NEW v \in View, NEW limit, NEW S \in SUBSET Bar,
         IsFiniteSet(S), OnePerTime(S)
  PROVE  LET page == PageOf(v, S, limit)
         IN  /\ page \in Page /\ page.view = v /\ page.at = now
             /\ page.seq \in Seq(Bar) /\ Increasing(page.seq)
             /\ ToSet(page.seq) = S /\ TimesOf(page.seq) = Times(S)
             /\ page.seq = <<>> <=> S = {}
<1>1. /\ Sorted(S) \in Seq(Bar) /\ ToSet(Sorted(S)) = S /\ Increasing(Sorted(S))
  BY SortedInOrder
<1>2. Sorted(S) = <<>> <=> S = {}
  BY <1>1, ElementsOf
<1>3. PageOf(v, S, limit) = [view |-> v, seq |-> Sorted(S),
                             more |-> S # {} /\ Cardinality(S) >= limit, at |-> now]
  BY DEF PageOf
<1>. QED  BY <1>1, <1>2, <1>3 DEF Page, TimesOf

LEMMA PageTold ==
  ASSUME now \in 1..MaxNow, NEW v \in View, NEW limit \in Nat \ {0}, NEW before \in Nat,
         before <= now, NEW page \in ReadPage(v, limit, before)
  PROVE  Reads(page, v, limit, before, now)
<1>. DEFINE last == LastOf(before, now)
<1>1. last \in 0..now
  BY DEF LastOf
<1>2. CASE page = PageOf(v, {}, limit)
  <2>1. {} \in SUBSET Bar /\ IsFiniteSet({}) /\ OnePerTime({})
    BY FS_EmptySet DEF OnePerTime
  <2>2. /\ page \in Page /\ page.view = v /\ page.at = now
        /\ page.seq \in Seq(Bar) /\ Increasing(page.seq)
        /\ ToSet(page.seq) = {} /\ TimesOf(page.seq) = Times({})
        /\ page.seq = <<>>
    BY <1>2, <2>1, PageMade
  <2>3. TimesOf(page.seq) = {}
    BY <2>2 DEF Times, Window!Times
  <2>. HIDE DEF last
  <2>. QED  BY <1>1, <2>2, <2>3 DEF Reads, last
<1>3. ASSUME NEW edge \in AtEdge(v, limit, last),
             page = PageOf(v, Newest(WindowBars(v, limit, last, edge), limit), limit)
      PROVE  Reads(page, v, limit, before, now)
  <2>. DEFINE B == WindowBars(v, limit, last, edge)
              S == Newest(B, limit)
  <2>. HIDE DEF last
  <2>1. /\ B \in SUBSET Bar /\ IsFiniteSet(B) /\ OnePerTime(B)
        /\ \A b \in B : /\ b.view = v /\ b.t \in Int /\ b.t <= last
                         /\ last - 2 * limit <= b.t /\ Window!Existed(b, now)
        /\ \A t \in Traded[v] : last - 2 * limit < t /\ t <= last =>
              MarketBar(v, t) \in B /\ MarketBar(v, t).t = t
    BY <1>1, <1>3, WindowRead
  <2>2. page = PageOf(v, S, limit)
    BY <1>3
  <2>3. Traded[v] \subseteq Nat \ {0}
    BY CandlesAssumption
  <2>. HIDE DEF B
  <2>4. /\ S \subseteq B /\ IsFiniteSet(S) /\ OnePerTime(S)
        /\ \A b \in S, c \in B : b.t <= c.t => c \in S
        /\ \A c \in B : last - limit < c.t => c \in S
    BY <1>1, <2>1, NewestOf
  <2>. HIDE DEF S
  <2>5. /\ page \in Page /\ page.view = v /\ page.at = now
        /\ page.seq \in Seq(Bar) /\ Increasing(page.seq)
        /\ ToSet(page.seq) = S /\ TimesOf(page.seq) = Times(S)
        /\ page.seq = <<>> <=> S = {}
    BY <2>1, <2>2, <2>4, PageMade
  <2>6. \A b \in ToSet(page.seq) : b.view = v /\ b.t <= last /\ Window!Existed(b, now)
    BY <2>1, <2>4, <2>5
  <2>7. ASSUME NEW t \in Traded[v], MarketBar(v, t) \in S, MarketBar(v, t).t = t
        PROVE  t \in TimesOf(page.seq)
    BY <2>5, <2>7 DEF Times, Window!Times
  <2>8. ASSUME NEW a \in TimesOf(page.seq), NEW t \in Traded[v], a < t, t <= last
        PROVE  t \in TimesOf(page.seq)
    <3>1. PICK b \in S : b.t = a
      BY <2>5 DEF Times, Window!Times
    <3>2. b \in B /\ last - 2 * limit <= b.t /\ b.t \in Int /\ t \in Int
      BY <2>1, <2>3, <2>4
    <3>3. last - 2 * limit < t
      BY <1>1, <2>8, <3>1, <3>2
    <3>4. MarketBar(v, t) \in B /\ MarketBar(v, t).t = t
      BY <2>1, <2>8, <3>3
    <3>5. MarketBar(v, t) \in S
      BY <2>4, <2>8, <3>1, <3>2, <3>4
    <3>. QED  BY <2>7, <3>4, <3>5
  <2>9. ASSUME NEW t \in Traded[v], last - limit < t, t <= last
        PROVE  t \in TimesOf(page.seq)
    <3>1. last - 2 * limit < t
      BY <1>1, <2>3, <2>9
    <3>2. MarketBar(v, t) \in B /\ MarketBar(v, t).t = t
      BY <2>1, <2>9, <3>1
    <3>3. MarketBar(v, t) \in S
      BY <2>4, <2>9, <3>2
    <3>. QED  BY <2>7, <3>2, <3>3
  <2>. QED  BY <1>1, <2>5, <2>6, <2>8, <2>9 DEF Reads, last
<1>. QED  BY <1>2, <1>3 DEF ReadPage, WindowBars

-----------------------------------------------------------------------------
(* Types.                                                                  *)

Demand == [kind : {"replace", "prepend", "merge"}, view : View,
           limit : Nat \ {0}, before : Nat, page : SUBSET Page]

\* A request q at the clock n: what it asks for, and that its page, if it
\* has one, was read since the bar it asks to precede opened.
Asked(q, n) ==
    /\ q \in Demand
    /\ q.limit = IF q.kind = "merge" THEN TailFetch ELSE PageSize
    /\ q.before \in 0..n
    /\ q.kind = "prepend" <=> q.before # 0
    /\ \A page \in q.page : \E m \in 1..n :
          q.before <= m /\ Reads(page, q.view, q.limit, q.before, m)

Prepending(r) == net[r].kind = "prepend"

ClockTyped ==
    /\ now \in Start..MaxNow /\ view \in View
    /\ hasMore \in BOOLEAN /\ failed \in BOOLEAN /\ due \in BOOLEAN
    /\ moves \in 0..MaxMoves

PastTyped ==
    /\ synced \in BOOLEAN /\ late \in BOOLEAN /\ crossed \in BOOLEAN /\ clipped \in BOOLEAN
    /\ missed \in Nat

BarsTyped ==
    /\ bars \in Seq(Bar) /\ Len(bars) <= Cap
    /\ Increasing(bars)
    /\ \A b \in ToSet(bars) : Window!Existed(b, now)

FeedTyped ==
    /\ lastTick \subseteq Bar
    /\ lastTick = {} \/ \E b \in Bar : lastTick = {b}
    /\ wire \in Seq(Bar) /\ Len(wire) <= MaxWire
    /\ \A b \in lastTick \cup ToSet(wire) : Window!Existed(b, now)
    /\ stirred \in BOOLEAN
    /\ stirred => lastTick # {}

NetTyped ==
    /\ net \in [Request -> {Idle} \cup Demand]
    /\ \A r \in Request : net[r] = Idle \/ Asked(net[r], now)
    /\ \A r, q \in Request : Prepending(r) /\ Prepending(q) => r = q
    /\ loadingMore \in BOOLEAN
    /\ loadingMore <=> \E r \in Request : Prepending(r)

CandlesTyped == ClockTyped /\ PastTyped /\ BarsTyped /\ FeedTyped /\ NetTyped

LEMMA Numbers ==
  /\ Cap \in Nat \ {0} /\ Start \in Nat \ {0} /\ MaxNow \in Nat /\ Start <= MaxNow
  /\ PageSize \in Nat \ {0} /\ TailFetch \in Nat /\ 1 < TailFetch
  /\ MaxWire \in Nat /\ MaxMoves \in Nat
BY CandlesAssumption

LEMMA ClockIsNumber ==
  ASSUME ClockTyped
  PROVE  now \in Nat \ {0} /\ now \in 1..MaxNow
BY Numbers DEF ClockTyped

\* A request is busy exactly if it asks for something.
LEMMA BusyAsks ==
  ASSUME NetTyped, NEW r \in Request
  PROVE  /\ Busy(r) <=> Asked(net[r], now)
         /\ ~Busy(r) <=> net[r] = Idle
         /\ Busy(r) => net[r] \in Demand
<1>1. Idle.kind = "idle"
  BY DEF Idle
<1>2. Asked(net[r], now) => net[r].kind # "idle" /\ net[r] \in Demand
  BY DEF Asked, Demand
<1>. QED  BY <1>1, <1>2 DEF NetTyped, Busy

\* What a reply in flight holds.
LEMMA PageHeld ==
  ASSUME ClockTyped, NetTyped, NEW r \in Request, Busy(r), NEW page \in net[r].page
  PROVE  /\ Reads(page, net[r].view, net[r].limit, net[r].before, page.at)
         /\ page.at \in 1..now /\ net[r].before \in 0..page.at
         /\ net[r].view \in View
<1>. DEFINE q == net[r]
<1>1. Asked(q, now)
  BY BusyAsks
<1>. HIDE DEF q
<1>2. PICK m \in 1..now : q.before <= m /\ Reads(page, q.view, q.limit, q.before, m)
  BY <1>1 DEF Asked, q
<1>3. q.view \in View /\ q.before \in Nat
  BY <1>1 DEF Asked, Demand
<1>4. page.at = m
  BY <1>2 DEF Reads
<1>. QED  BY <1>2, <1>3, <1>4 DEF q

LEMMA AskedLater ==
  ASSUME NEW q, NEW n \in Nat, NEW m \in Nat, n <= m, Asked(q, n)
  PROVE  Asked(q, m)
<1>1. \A page \in q.page : \E k \in 1..m :
         q.before <= k /\ Reads(page, q.view, q.limit, q.before, k)
  <2>1. 1..n \subseteq 1..m
    OBVIOUS
  <2>. QED  BY <2>1 DEF Asked
<1>. QED  BY <1>1 DEF Asked

LEMMA NetKept ==
  ASSUME NetTyped, net' = net, loadingMore' = loadingMore,
         now \in Nat, now' \in Nat, now <= now'
  PROVE  NetTyped'
<1>1. \A r \in Request : net[r] = Idle \/ Asked(net[r], now')
  BY AskedLater DEF NetTyped
<1>. QED  BY <1>1 DEF NetTyped, Prepending

\* A new request: some idle one now asks.
LEMMA NetAsked ==
  ASSUME NetTyped, ClockTyped, now' = now,
         NEW kind \in {"replace", "prepend", "merge"}, NEW v \in View,
         NEW before \in 0..now, NEW limit,
         limit = IF kind = "merge" THEN TailFetch ELSE PageSize,
         kind = "prepend" <=> before # 0,
         Ask(kind, v, limit, before),
         IF kind = "prepend" THEN ~loadingMore /\ loadingMore' = TRUE
                             ELSE loadingMore' = loadingMore
  PROVE  /\ NetTyped'
         /\ \E r \in Request :
               /\ ~Busy(r) /\ Busy(r)'
               /\ net'[r].kind = kind /\ net'[r].view = v /\ net'[r].before = before
               /\ \A q \in Request \ {r} : net'[q] = net[q]
<1>. DEFINE d == [kind |-> kind, view |-> v, limit |-> limit, before |-> before,
                  page |-> {}]
<1>1. PICK r \in Request : ~Busy(r) /\ net' = [net EXCEPT ![r] = d]
  BY DEF Ask
<1>2. d \in Demand /\ Asked(d, now)
  BY Numbers, ClockIsNumber DEF Asked, Demand
<1>3. d.kind = kind /\ d.view = v /\ d.before = before /\ kind # "idle"
  OBVIOUS
<1>. HIDE DEF d
<1>4. /\ net' \in [Request -> {Idle} \cup Demand]
      /\ net'[r] = d
      /\ \A q \in Request \ {r} : net'[q] = net[q]
  BY <1>1, <1>2 DEF NetTyped
<1>5. \A q \in Request : net'[q] = Idle \/ Asked(net'[q], now)
  BY <1>2, <1>4 DEF NetTyped
<1>6. ~Prepending(r)
  BY <1>1 DEF Prepending, Busy
<1>7. /\ \A p, q \in Request : Prepending(p)' /\ Prepending(q)' => p = q
      /\ loadingMore' \in BOOLEAN
      /\ loadingMore' <=> \E q \in Request : Prepending(q)'
  <2>1. CASE kind = "prepend"
    BY <2>1, <1>3, <1>4, <1>6 DEF NetTyped, Prepending
  <2>2. CASE kind # "prepend"
    BY <2>2, <1>3, <1>4, <1>6 DEF NetTyped, Prepending
  <2>. QED  BY <2>1, <2>2
<1>8. NetTyped'
  BY <1>4, <1>5, <1>7 DEF NetTyped
<1>. QED  BY <1>1, <1>3, <1>4, <1>8 DEF Busy

\* An answer: the request is the same, but for its page.
LEMMA NetAnswered ==
  ASSUME NetTyped, ClockTyped, NEW r \in Request, Answer(r)
  PROVE  /\ NetTyped'
         /\ \A q \in Request :
               /\ net'[q].kind = net[q].kind
               /\ Busy(q) => net'[q].view = net[q].view /\ net'[q].before = net[q].before
<1>. DEFINE q == net[r]
<1>0. PICK p \in ReadPage(q.view, q.limit, q.before) : net' = [net EXCEPT ![r].page = {p}]
  BY DEF Answer
<1>. DEFINE d == [q EXCEPT !.page = {p}]
<1>1. Asked(q, now) /\ q \in Demand
  BY BusyAsks DEF Answer
<1>2. net' = [net EXCEPT ![r] = d] /\ now' = now /\ loadingMore' = loadingMore
  BY <1>0 DEF Answer, candles
<1>. HIDE DEF q
<1>3. /\ q.view \in View /\ q.limit \in Nat \ {0} /\ q.before \in Nat
      /\ q.before <= now /\ now \in 1..MaxNow
  BY <1>1, ClockIsNumber DEF Asked, Demand
<1>4. Reads(p, q.view, q.limit, q.before, now)
  BY <1>0, <1>3, PageTold
<1>5. p \in Page
  BY <1>4 DEF Reads
<1>6. /\ d \in Demand /\ d.kind = q.kind /\ d.view = q.view /\ d.limit = q.limit
      /\ d.before = q.before /\ d.page = {p}
  BY <1>1, <1>5 DEF Demand
<1>. HIDE DEF d
<1>7. Asked(d, now)
  BY <1>1, <1>3, <1>4, <1>6 DEF Asked
<1>8. /\ net' \in [Request -> {Idle} \cup Demand]
      /\ net'[r] = d
      /\ \A s \in Request \ {r} : net'[s] = net[s]
  BY <1>2, <1>6 DEF NetTyped
<1>9. \A s \in Request : net'[s].kind = net[s].kind
  BY <1>6, <1>8 DEF q
<1>10. NetTyped'
  BY <1>2, <1>7, <1>8, <1>9 DEF NetTyped, Prepending
<1>. QED  BY <1>6, <1>8, <1>9, <1>10 DEF q

\* A request that ends is idle again.
LEMMA NetSettled ==
  ASSUME NetTyped, NEW r \in Request, Settle(r), now' = now,
         loadingMore' = IF Prepending(r) THEN FALSE ELSE loadingMore
  PROVE  /\ NetTyped'
         /\ ~Busy(r)'
         /\ \A q \in Request \ {r} : net'[q] = net[q]
<1>1. net' = [net EXCEPT ![r] = Idle]
  BY DEF Settle
<1>2. /\ net' \in [Request -> {Idle} \cup Demand]
      /\ net'[r] = Idle
      /\ \A q \in Request \ {r} : net'[q] = net[q]
  BY <1>1 DEF NetTyped
<1>3. ~Busy(r)' /\ ~Prepending(r)'
  BY <1>2 DEF Busy, Prepending, Idle
<1>4. \A q \in Request \ {r} : Prepending(q)' <=> Prepending(q)
  BY <1>2 DEF Prepending
<1>5. loadingMore' \in BOOLEAN
  BY DEF NetTyped
<1>6. loadingMore' <=> \E q \in Request : Prepending(q)'
  BY <1>3, <1>4 DEF NetTyped
<1>7. \A p, q \in Request : Prepending(p)' /\ Prepending(q)' => p = q
  BY <1>3, <1>4 DEF NetTyped
<1>8. \A q \in Request : net'[q] = Idle \/ Asked(net'[q], now')
  BY <1>2 DEF NetTyped
<1>. QED  BY <1>2, <1>3, <1>5, <1>6, <1>7, <1>8 DEF NetTyped

LEMMA BarsLearnt ==
  ASSUME BarsTyped, NEW inc \in Seq(Bar), Increasing(inc), now' = now,
         \A b \in ToSet(inc) : Window!Existed(b, now),
         \/ bars' = CapBars(MergeBars(bars, inc))
         \/ bars' = CapBars(MergeBars(inc, bars))
  PROVE  BarsTyped'
<1>1. /\ bars' \in Seq(Bar) /\ Increasing(bars') /\ Len(bars') <= Cap
      /\ \A b \in ToSet(bars') : b \in ToSet(inc) \/ b \in ToSet(bars)
  BY Learnt DEF BarsTyped
<1>. QED  BY <1>1 DEF BarsTyped

LEMMA ExistedLater ==
  ASSUME NEW b \in Bar, NEW n \in Int, NEW m \in Int, n <= m, Window!Existed(b, n)
  PROVE  Window!Existed(b, m)
BY Numbers DEF Window!Existed, Bar, Window!Bar

LEMMA BarsKept ==
  ASSUME BarsTyped, bars' = bars, now \in Int, now' \in Int, now <= now'
  PROVE  BarsTyped'
<1>1. \A b \in ToSet(bars) : Window!Existed(b, now')
  BY ExistedLater, ElementsOf DEF BarsTyped
<1>. QED  BY <1>1 DEF BarsTyped

\* The bars a tick's effect merges in.
Ticked == [i \in 1..Cardinality(lastTick) |-> CHOOSE b \in lastTick : TRUE]

LEMMA TickedTold ==
  ASSUME FeedTyped
  PROVE  /\ Ticked \in Seq(Bar) /\ Increasing(Ticked) /\ ToSet(Ticked) = lastTick
         /\ \A b \in ToSet(Ticked) : Window!Existed(b, now)
         /\ WithTick = MergeBars(bars, Ticked)
<1>1. Ticked \in Seq(Bar) /\ Increasing(Ticked) /\ ToSet(Ticked) = lastTick
  BY TickMerged DEF FeedTyped, Ticked
<1>2. WithTick = MergeBars(bars, Ticked)
  BY DEF WithTick, Ticked
<1>. QED  BY <1>1, <1>2 DEF FeedTyped

LEMMA KeepTyped ==
  ASSUME PastTyped, NEW seq, NEW age \in Int, Keep(seq, age), clipped' \in BOOLEAN
  PROVE  PastTyped'
<1>1. missed' \in Nat
  <2>1. CASE age - 1 > missed
    BY <2>1 DEF Keep, PastTyped
  <2>2. CASE ~(age - 1 > missed)
    BY <2>2 DEF Keep, PastTyped
  <2>. QED  BY <2>1, <2>2
<1>2. synced' \in BOOLEAN
  BY DEF Keep, PastTyped
<1>3. late' \in BOOLEAN /\ crossed' \in BOOLEAN
  BY DEF Keep, PastTyped
<1>. QED  BY <1>1, <1>2, <1>3 DEF PastTyped

LEMMA TickTimed ==
  ASSUME FeedTyped, ClockTyped, NEW b \in lastTick
  PROVE  b \in Bar /\ b.t \in 1..now /\ Age(b) \in Nat
<1>1. b \in Bar /\ b.t \in 1..now /\ now \in Nat
  BY ClockIsNumber DEF FeedTyped, Bar, Window!Bar, Window!Existed
<1>2. now - b.t \in Nat
  BY <1>1
<1>. QED  BY <1>1, <1>2 DEF Age

LEMMA TypedInit ==
  ASSUME CandlesInit
  PROVE  CandlesTyped
<1>1. ClockTyped /\ PastTyped
  <2>1. now \in Start..MaxNow /\ moves \in 0..MaxMoves
    BY Numbers DEF CandlesInit
  <2>2. /\ view \in View /\ missed \in Nat
        /\ hasMore \in BOOLEAN /\ failed \in BOOLEAN /\ due \in BOOLEAN
    BY DEF CandlesInit
  <2>3. /\ synced \in BOOLEAN /\ late \in BOOLEAN
        /\ crossed \in BOOLEAN /\ clipped \in BOOLEAN
    BY DEF CandlesInit
  <2>. QED  BY <2>1, <2>2, <2>3 DEF ClockTyped, PastTyped
<1>2. BarsTyped
  <2>1. Len(bars) = 0 /\ bars \in Seq(Bar) /\ ToSet(bars) = {}
    BY EmptySeq, ElementsOf DEF CandlesInit
  <2>. QED  BY <2>1, Numbers DEF BarsTyped, Increasing
<1>3. FeedTyped
  <2>1. <<>> \in Seq(Bar) /\ Len(<<>>) = 0 /\ wire = <<>>
    BY EmptySeq DEF CandlesInit
  <2>2. ToSet(wire) = {}
    BY <2>1, ElementsOf
  <2>3. lastTick = {} /\ stirred = FALSE
    BY DEF CandlesInit, NoTick
  <2>4. Len(wire) <= MaxWire /\ wire \in Seq(Bar)
    BY <2>1, Numbers
  <2>. QED  BY <2>2, <2>3, <2>4 DEF FeedTyped
<1>4. NetTyped
  <2>. DEFINE d == [kind |-> "replace", view |-> view, limit |-> PageSize,
                    before |-> 0, page |-> {}]
  <2>1. PICK r \in Request : net = [q \in Request |-> IF q = r THEN d ELSE Idle]
    BY DEF CandlesInit
  <2>2. d \in Demand /\ Asked(d, now) /\ d.kind # "prepend"
    BY <1>1, Numbers, ClockIsNumber DEF Asked, Demand, CandlesInit
  <2>3. Idle.kind # "prepend"
    BY DEF Idle
  <2>. HIDE DEF d
  <2>. QED  BY <2>1, <2>2, <2>3 DEF NetTyped, Prepending, CandlesInit
<1>. QED  BY <1>1, <1>2, <1>3, <1>4 DEF CandlesTyped

LEMMA FeedKept ==
  ASSUME FeedTyped, feed' = feed, now \in Int, now' \in Int, now <= now'
  PROVE  FeedTyped'
<1>1. lastTick' = lastTick /\ wire' = wire /\ stirred' = stirred
  BY DEF feed
<1>2. \A b \in lastTick \cup ToSet(wire) : b \in Bar
  BY ElementsOf DEF FeedTyped
<1>3. \A b \in lastTick \cup ToSet(wire) : Window!Existed(b, now')
  BY <1>2, ExistedLater DEF FeedTyped
<1>. QED  BY <1>1, <1>3 DEF FeedTyped

\* Ticks put on the wire and taken off it.
LEMMA AppendElements ==
  ASSUME NEW seq \in Seq(Bar), NEW b \in Bar
  PROVE  /\ Append(seq, b) \in Seq(Bar) /\ Len(Append(seq, b)) = Len(seq) + 1
         /\ ToSet(Append(seq, b)) = ToSet(seq) \cup {b}
<1>. DEFINE new == Append(seq, b)
<1>1. Len(seq) \in Nat /\ ToSet(seq) = {seq[i] : i \in 1..Len(seq)}
  BY ElementsOf
<1>2. /\ new \in Seq(Bar) /\ Len(new) = Len(seq) + 1
      /\ \A i \in 1..Len(seq) : new[i] = seq[i]
      /\ new[Len(seq) + 1] = b
  BY AppendProperties
<1>. HIDE DEF new
<1>3. ToSet(new) = {new[i] : i \in 1..Len(seq) + 1}
  BY <1>2, ElementsOf
<1>4. ToSet(new) \subseteq ToSet(seq) \cup {b}
  BY <1>1, <1>2, <1>3
<1>5. ToSet(seq) \subseteq ToSet(new)
  BY <1>1, <1>2, <1>3
<1>6. b \in ToSet(new)
  BY <1>1, <1>2, <1>3
<1>. QED  BY <1>2, <1>4, <1>5, <1>6 DEF new

LEMMA HeadElements ==
  ASSUME NEW seq \in Seq(Bar), seq # <<>>
  PROVE  /\ Head(seq) \in ToSet(seq) /\ Head(seq) \in Bar
         /\ Tail(seq) \in Seq(Bar) /\ Len(Tail(seq)) = Len(seq) - 1
         /\ ToSet(Tail(seq)) \subseteq ToSet(seq)
<1>1. /\ Len(seq) \in Nat /\ ToSet(seq) = {seq[i] : i \in 1..Len(seq)}
      /\ Len(seq) # 0
  BY ElementsOf
<1>2. /\ Head(seq) \in Bar /\ Tail(seq) \in Seq(Bar) /\ Len(Tail(seq)) = Len(seq) - 1
      /\ \A i \in 1..Len(Tail(seq)) : Tail(seq)[i] = seq[i + 1]
  BY HeadTailProperties
<1>3. ToSet(Tail(seq)) = {Tail(seq)[i] : i \in 1..Len(seq) - 1}
  <2>1. ToSet(Tail(seq)) = {Tail(seq)[i] : i \in 1..Len(Tail(seq))}
    BY <1>2, ElementsOf
  <2>. QED  BY <1>2, <2>1
<1>4. Head(seq) = seq[1] /\ 1 \in 1..Len(seq)
  BY <1>1
<1>5. \A i \in 1..Len(seq) - 1 : Tail(seq)[i] = seq[i + 1] /\ i + 1 \in 1..Len(seq)
  BY <1>1, <1>2
<1>. QED  BY <1>1, <1>2, <1>3, <1>4, <1>5

LEMMA OpenBarTyped ==
  ASSUME CandlesTyped, OpenBar
  PROVE  CandlesTyped'
<1>1. now \in Nat /\ now' = now + 1 /\ now < MaxNow /\ now' <= MaxNow /\ MaxNow \in Nat
  BY ClockIsNumber, Numbers DEF CandlesTyped, OpenBar
<1>2. ClockTyped'
  BY <1>1, Numbers DEF CandlesTyped, ClockTyped, OpenBar, candles
<1>3. PastTyped'
  <2>1. missed' \in Nat
    BY DEF CandlesTyped, PastTyped, OpenBar
  <2>2. synced' \in BOOLEAN /\ late' \in BOOLEAN
    BY DEF CandlesTyped, PastTyped, OpenBar
  <2>3. crossed' \in BOOLEAN /\ clipped' \in BOOLEAN
    BY DEF CandlesTyped, PastTyped, OpenBar
  <2>. QED  BY <2>1, <2>2, <2>3 DEF PastTyped
<1>4. BarsTyped'
  BY <1>1, BarsKept DEF CandlesTyped, OpenBar, candles
<1>5. NetTyped'
  BY <1>1, NetKept DEF CandlesTyped, OpenBar, candles
<1>6. FeedTyped'
  BY <1>1, FeedKept DEF CandlesTyped, OpenBar
<1>. QED  BY <1>2, <1>3, <1>4, <1>5, <1>6 DEF CandlesTyped

\* The tick published is a bar of the view shown.
LEMMA TickPublished ==
  ASSUME CandlesTyped, PublishTick
  PROVE  \E b \in Bar : /\ b.view = view /\ Window!Existed(b, now)
                        /\ wire' = Append(wire, b)
                        /\ wire' \in Seq(Bar) /\ Len(wire') <= MaxWire
                        /\ ToSet(wire') = ToSet(wire) \cup {b}
<1>1. PICK t \in Traded[view] : t <= now /\ wire' = Append(wire, MarketBar(view, t))
  BY DEF PublishTick
<1>2. now \in 1..MaxNow /\ MaxNow \in Nat /\ view \in View
  BY ClockIsNumber, Numbers DEF CandlesTyped, ClockTyped
<1>. DEFINE b == MarketBar(view, t)
<1>5. b \in Bar /\ b.view = view /\ Window!Existed(b, now)
  BY <1>1, <1>2, MarketBarTold
<1>. HIDE DEF b
<1>6. wire \in Seq(Bar) /\ Len(wire) \in Nat /\ Len(wire) < MaxWire
  BY ElementsOf DEF CandlesTyped, FeedTyped, PublishTick
<1>7. wire' = Append(wire, b)
  BY <1>1 DEF b
<1>8. /\ wire' \in Seq(Bar) /\ Len(wire') = Len(wire) + 1
      /\ ToSet(wire') = ToSet(wire) \cup {b}
  BY <1>5, <1>6, <1>7, AppendElements
<1>9. Len(wire') <= MaxWire
  BY <1>6, <1>8, Numbers
<1>. QED  BY <1>5, <1>7, <1>8, <1>9

LEMMA PublishTickTyped ==
  ASSUME CandlesTyped, PublishTick
  PROVE  CandlesTyped'
<1>1. now' = now /\ now \in Nat
  BY ClockIsNumber DEF CandlesTyped, PublishTick
<1>2. ClockTyped' /\ PastTyped'
  BY DEF CandlesTyped, ClockTyped, PastTyped, PublishTick, candles, past
<1>3. BarsTyped' /\ NetTyped'
  BY <1>1, BarsKept, NetKept DEF CandlesTyped, PublishTick, candles
<1>4. PICK b \in Bar : /\ Window!Existed(b, now)
                      /\ wire' \in Seq(Bar) /\ Len(wire') <= MaxWire
                      /\ ToSet(wire') = ToSet(wire) \cup {b}
  BY TickPublished
<1>5. lastTick' = lastTick /\ stirred' = stirred
  BY DEF PublishTick
<1>6. FeedTyped'
  BY <1>1, <1>4, <1>5 DEF CandlesTyped, FeedTyped
<1>. QED  BY <1>2, <1>3, <1>6 DEF CandlesTyped

LEMMA ReceiveTickTyped ==
  ASSUME CandlesTyped, ReceiveTick
  PROVE  CandlesTyped'
<1>1. now' = now /\ now \in Nat
  BY ClockIsNumber DEF CandlesTyped, ReceiveTick
<1>2. ClockTyped' /\ PastTyped'
  BY DEF CandlesTyped, ClockTyped, PastTyped, ReceiveTick, candles, past
<1>3. BarsTyped' /\ NetTyped'
  BY <1>1, BarsKept, NetKept DEF CandlesTyped, ReceiveTick, candles
<1>4. wire \in Seq(Bar) /\ wire # <<>> /\ Len(wire) \in Nat
  BY ElementsOf DEF CandlesTyped, FeedTyped, ReceiveTick
<1>5. /\ Head(wire) \in ToSet(wire) /\ Head(wire) \in Bar
      /\ Tail(wire) \in Seq(Bar) /\ Len(Tail(wire)) = Len(wire) - 1
      /\ ToSet(Tail(wire)) \subseteq ToSet(wire)
  BY <1>4, HeadElements
<1>7. Len(wire') <= MaxWire
  BY <1>4, <1>5, Numbers DEF ReceiveTick, CandlesTyped, FeedTyped
<1>8. lastTick' = {Head(wire)} /\ wire' = Tail(wire) /\ stirred' = TRUE
  BY DEF ReceiveTick
<1>9. FeedTyped'
  BY <1>1, <1>5, <1>7, <1>8 DEF CandlesTyped, FeedTyped
<1>. QED  BY <1>2, <1>3, <1>9 DEF CandlesTyped

LEMMA RenderTyped ==
  ASSUME CandlesTyped, Render
  PROVE  CandlesTyped'
<1>1. now' = now /\ now \in Nat
  BY ClockIsNumber DEF CandlesTyped, Render
<1>2. ClockTyped' /\ NetTyped'
  BY <1>1, NetKept DEF CandlesTyped, ClockTyped, Render
<1>3. CASE view \in Ticking
  <2>1. PICK b \in lastTick : Keep(WithTick, Age(b))
    BY <1>3 DEF Render, TickEffect, CandlesTyped, FeedTyped
  <2>2. PastTyped'
    <3>1. Age(b) \in Int
      BY TickTimed DEF CandlesTyped
    <3>2. clipped' \in BOOLEAN
      BY <1>3 DEF Render, TickEffect, CandlesTyped, PastTyped
    <3>. HIDE DEF Age
    <3>. QED  BY <2>1, <3>1, <3>2, KeepTyped DEF CandlesTyped
  <2>3. BarsTyped'
    BY <1>1, <2>1, TickedTold, BarsLearnt DEF CandlesTyped, Keep
  <2>4. FeedTyped'
    BY <1>1, <1>3 DEF CandlesTyped, FeedTyped, Render, TickEffect
  <2>. QED  BY <1>2, <2>2, <2>3, <2>4 DEF CandlesTyped
<1>4. CASE view \notin Ticking
  <2>1. lastTick' = {} /\ bars' = bars /\ past' = past /\ wire' = wire /\ stirred' = FALSE
    BY <1>4 DEF Render, TickEffect, NoTick
  <2>2. PastTyped'
    BY <2>1 DEF CandlesTyped, PastTyped, past
  <2>3. BarsTyped'
    BY <1>1, <2>1, BarsKept DEF CandlesTyped
  <2>4. FeedTyped'
    BY <1>1, <2>1 DEF CandlesTyped, FeedTyped
  <2>. QED  BY <1>2, <2>2, <2>3, <2>4 DEF CandlesTyped
<1>. QED  BY <1>3, <1>4

LEMMA RefreshTailTyped ==
  ASSUME CandlesTyped, RefreshTail
  PROVE  CandlesTyped'
<1>1. now' = now /\ now \in Nat /\ 0 \in 0..now
  BY ClockIsNumber DEF CandlesTyped, RefreshTail
<1>2. ClockTyped' /\ PastTyped'
  BY DEF CandlesTyped, ClockTyped, PastTyped, RefreshTail, candles, past
<1>3. BarsTyped' /\ FeedTyped'
  BY <1>1, BarsKept, FeedKept DEF CandlesTyped, RefreshTail, candles
<1>4. NetTyped'
  BY <1>1, NetAsked DEF CandlesTyped, ClockTyped, RefreshTail, candles
<1>. QED  BY <1>2, <1>3, <1>4 DEF CandlesTyped

\* The oldest bar, when there is one.
LEMMA OldestTold ==
  ASSUME ClockTyped, BarsTyped, bars # <<>>
  PROVE  /\ OldestTime(bars) \in 1..now
         /\ OldestTime(bars) \in TimesOf(bars)
         /\ \A t \in TimesOf(bars) : OldestTime(bars) <= t
<1>1. /\ Len(bars) \in Nat \ {0} /\ ToSet(bars) = {bars[i] : i \in 1..Len(bars)}
      /\ \A i \in 1..Len(bars) : bars[i] \in Bar
  BY ElementsOf DEF BarsTyped
<1>2. bars[1] \in ToSet(bars) /\ bars[1] \in Bar
  BY <1>1
<1>3. bars[1].t \in 1..now
  BY <1>2, ClockIsNumber DEF BarsTyped, Bar, Window!Bar, Window!Existed
<1>4. OldestTime(bars) \in TimesOf(bars)
  BY <1>2 DEF OldestTime, TimesOf, Times, Window!Times
<1>5. ASSUME NEW i \in 1..Len(bars)
      PROVE  bars[1].t <= bars[i].t
  <2>1. bars[1].t \in Int /\ bars[i].t \in Int
    BY <1>1 DEF Bar, Window!Bar
  <2>2. CASE i = 1
    BY <2>1, <2>2
  <2>3. CASE i # 1
    BY <1>1, <2>1, <2>3 DEF BarsTyped, Increasing
  <2>. QED  BY <2>2, <2>3
<1>. QED  BY <1>1, <1>3, <1>4, <1>5 DEF OldestTime, TimesOf, Times, Window!Times

LEMMA LoadMoreOlderTyped ==
  ASSUME CandlesTyped, LoadMoreOlder
  PROVE  CandlesTyped'
<1>1. now' = now /\ now \in Nat
  BY ClockIsNumber DEF CandlesTyped, LoadMoreOlder
<1>2. ClockTyped'
  BY DEF CandlesTyped, ClockTyped, LoadMoreOlder
<1>3. PastTyped'
  BY DEF CandlesTyped, PastTyped, LoadMoreOlder
<1>4. BarsTyped' /\ FeedTyped'
  BY <1>1, BarsKept, FeedKept DEF CandlesTyped, LoadMoreOlder
<1>5. OldestTime(bars) \in 0..now /\ OldestTime(bars) # 0
  BY <1>1, OldestTold DEF CandlesTyped, LoadMoreOlder
<1>6. NetTyped'
  BY <1>1, <1>5, NetAsked DEF CandlesTyped, ClockTyped, LoadMoreOlder
<1>. QED  BY <1>2, <1>3, <1>4, <1>6 DEF CandlesTyped

LEMMA ReloadTyped ==
  ASSUME CandlesTyped, Reload
  PROVE  CandlesTyped'
<1>1. now' = now /\ now \in Nat /\ 0 \in 0..now
  BY ClockIsNumber DEF CandlesTyped, Reload
<1>2. ClockTyped'
  <2>1. moves' \in 0..MaxMoves
    BY Numbers DEF CandlesTyped, ClockTyped, Reload
  <2>2. failed' \in BOOLEAN /\ due' \in BOOLEAN /\ view' \in View
    BY DEF CandlesTyped, ClockTyped, Reload
  <2>3. now' = now /\ hasMore' = hasMore
    BY DEF Reload
  <2>. QED  BY <2>1, <2>2, <2>3 DEF CandlesTyped, ClockTyped
<1>3. PastTyped'
  BY DEF CandlesTyped, PastTyped, Reload
<1>4. BarsTyped' /\ FeedTyped'
  BY <1>1, BarsKept, FeedKept DEF CandlesTyped, Reload
<1>5. NetTyped'
  BY <1>1, NetAsked DEF CandlesTyped, ClockTyped, Reload
<1>. QED  BY <1>2, <1>3, <1>4, <1>5 DEF CandlesTyped

LEMMA SwitchViewTyped ==
  ASSUME CandlesTyped, NEW v \in View, SwitchView(v)
  PROVE  CandlesTyped'
<1>1. now' = now /\ now \in Nat /\ 0 \in 0..now
  BY ClockIsNumber DEF CandlesTyped, SwitchView
<1>2. ClockTyped'
  <2>1. moves' \in 0..MaxMoves
    BY Numbers DEF CandlesTyped, ClockTyped, SwitchView
  <2>2. failed' \in BOOLEAN /\ due' \in BOOLEAN /\ view' \in View
    BY DEF CandlesTyped, ClockTyped, SwitchView
  <2>3. now' = now /\ hasMore' = hasMore
    BY DEF SwitchView
  <2>. QED  BY <2>1, <2>2, <2>3 DEF CandlesTyped, ClockTyped
<1>3. PastTyped'
  BY DEF CandlesTyped, PastTyped, SwitchView
<1>4. BarsTyped'
  <2>1. CASE bars' = bars
    BY <1>1, <2>1, BarsKept DEF CandlesTyped
  <2>2. CASE bars' = CapBars(WithTick)
    BY <1>1, <2>2, TickedTold, BarsLearnt DEF CandlesTyped
  <2>. QED  BY <2>1, <2>2 DEF SwitchView
<1>5. FeedTyped'
  <2>1. /\ lastTick' = lastTick \/ lastTick' = {}
        /\ wire' = wire
        /\ stirred' = FALSE \/ (stirred' = stirred /\ lastTick' = lastTick)
    BY DEF SwitchView, NoTick
  <2>2. /\ lastTick' \subseteq Bar /\ lastTick' \subseteq lastTick
        /\ lastTick' = {} \/ \E b \in Bar : lastTick' = {b}
    BY <2>1 DEF CandlesTyped, FeedTyped
  <2>3. stirred' \in BOOLEAN /\ (stirred' => lastTick' # {})
    <3>1. CASE stirred' = FALSE
      BY <3>1
    <3>2. CASE stirred' = stirred /\ lastTick' = lastTick
      <4>1. stirred \in BOOLEAN /\ (stirred => lastTick # {})
        BY DEF CandlesTyped, FeedTyped
      <4>. QED  BY <3>2, <4>1
    <3>. QED  BY <2>1, <3>1, <3>2
  <2>. QED  BY <1>1, <2>1, <2>2, <2>3 DEF CandlesTyped, FeedTyped
<1>6. NetTyped'
  BY <1>1, NetAsked DEF CandlesTyped, SwitchView
<1>. QED  BY <1>2, <1>3, <1>4, <1>5, <1>6 DEF CandlesTyped

LEMMA AnswerTyped ==
  ASSUME CandlesTyped, NEW r \in Request, Answer(r)
  PROVE  CandlesTyped'
<1>1. now' = now /\ now \in Nat
  BY ClockIsNumber DEF CandlesTyped, Answer
<1>2. ClockTyped' /\ PastTyped'
  BY DEF CandlesTyped, ClockTyped, PastTyped, Answer, candles, past
<1>3. BarsTyped' /\ FeedTyped'
  BY <1>1, BarsKept, FeedKept DEF CandlesTyped, Answer, candles
<1>4. NetTyped'
  BY NetAnswered DEF CandlesTyped
<1>. QED  BY <1>2, <1>3, <1>4 DEF CandlesTyped

\* A page's bars are bars the market had by now.
LEMMA PageExisted ==
  ASSUME CandlesTyped, NEW r \in Request, Busy(r), NEW page \in net[r].page
  PROVE  /\ page.seq \in Seq(Bar) /\ Increasing(page.seq)
         /\ \A b \in ToSet(page.seq) : Window!Existed(b, now)
         /\ page.at \in 1..now /\ page.more \in BOOLEAN
<1>1. /\ Reads(page, net[r].view, net[r].limit, net[r].before, page.at)
      /\ page.at \in 1..now
  BY PageHeld DEF CandlesTyped
<1>2. /\ page.seq \in Seq(Bar) /\ Increasing(page.seq) /\ page.more \in BOOLEAN
      /\ \A b \in ToSet(page.seq) : Window!Existed(b, page.at)
  BY <1>1 DEF Reads, Page
<1>3. page.at \in Int /\ now \in Int /\ page.at <= now
  BY <1>1, ClockIsNumber DEF CandlesTyped
<1>4. \A b \in ToSet(page.seq) : Window!Existed(b, now)
  BY <1>2, <1>3, ExistedLater, ElementsOf
<1>. QED  BY <1>1, <1>2, <1>4

LEMMA ResolveTyped ==
  ASSUME CandlesTyped, NEW r \in Request, Resolve(r)
  PROVE  CandlesTyped'
<1>1. now' = now /\ now \in Nat /\ Busy(r) /\ Settle(r) /\ feed' = feed
  BY ClockIsNumber DEF CandlesTyped, Resolve
<1>2. FeedTyped'
  BY <1>1, FeedKept DEF CandlesTyped
<1>3. PICK page \in net[r].page :
         \/ net[r].kind = "replace" /\ ApplyReplace(r, page)
         \/ net[r].kind = "prepend" /\ ApplyPrepend(page)
         \/ net[r].kind = "merge" /\ ApplyTail(page)
  BY DEF Resolve
<1>4. /\ page.seq \in Seq(Bar) /\ Increasing(page.seq)
      /\ \A b \in ToSet(page.seq) : Window!Existed(b, now)
      /\ page.at \in 1..now /\ page.more \in BOOLEAN
  BY <1>1, PageExisted
<1>5. ASSUME net[r].kind = "replace", ApplyReplace(r, page)
      PROVE  CandlesTyped'
  <2>1. ClockTyped'
    BY <1>1, <1>4, <1>5 DEF CandlesTyped, ClockTyped, Resolve, ApplyReplace
  <2>2. PastTyped'
    <3>1. missed' \in Nat
      <4>1. CASE page.seq = <<>> \/ page.at = now
        BY <1>5, <4>1 DEF ApplyReplace
      <4>2. CASE page.seq # <<>> /\ page.at # now
        <5>1. now - page.at - 1 \in Nat
          BY <1>1, <1>4, <4>2
        <5>. QED  BY <1>5, <4>2, <5>1 DEF ApplyReplace
      <4>. QED  BY <4>1, <4>2
    <3>2. synced' \in BOOLEAN /\ late' \in BOOLEAN
      BY <1>5 DEF ApplyReplace
    <3>3. crossed' \in BOOLEAN /\ clipped' \in BOOLEAN
      BY <1>5 DEF CandlesTyped, PastTyped, ApplyReplace, Clips
    <3>. QED  BY <3>1, <3>2, <3>3 DEF PastTyped
  <2>3. BarsTyped'
    <3>1. bars' = CapBars(page.seq)
      BY <1>5 DEF ApplyReplace
    <3>. QED  BY <1>1, <1>4, <3>1, Capped DEF BarsTyped
  <2>4. NetTyped'
    BY <1>1, <1>5, NetSettled DEF CandlesTyped, ApplyReplace, Prepending
  <2>. QED  BY <1>2, <2>1, <2>2, <2>3, <2>4 DEF CandlesTyped
<1>6. ASSUME net[r].kind = "prepend", ApplyPrepend(page)
      PROVE  CandlesTyped'
  <2>1. ClockTyped'
    BY <1>1, <1>4, <1>6 DEF CandlesTyped, ClockTyped, Resolve, ApplyPrepend
  <2>2. PastTyped'
    BY <1>6 DEF CandlesTyped, PastTyped, ApplyPrepend, Clips
  <2>3. BarsTyped'
    BY <1>1, <1>4, <1>6, BarsLearnt DEF CandlesTyped, ApplyPrepend
  <2>4. NetTyped'
    BY <1>1, <1>6, NetSettled DEF CandlesTyped, ApplyPrepend, Prepending
  <2>. QED  BY <1>2, <2>1, <2>2, <2>3, <2>4 DEF CandlesTyped
<1>7. ASSUME net[r].kind = "merge", ApplyTail(page)
      PROVE  CandlesTyped'
  <2>1. ClockTyped'
    BY <1>1, <1>7 DEF CandlesTyped, ClockTyped, Resolve, ApplyTail
  <2>2. clipped' \in BOOLEAN
    BY <1>7 DEF CandlesTyped, PastTyped, ApplyTail, Clips
  <2>3. PastTyped' /\ BarsTyped'
    <3>1. CASE page.seq = <<>>
      <4>1. bars' = bars /\ synced' = synced /\ missed' = missed /\ late' = late
            /\ crossed' = crossed
        BY <1>7, <3>1 DEF ApplyTail
      <4>. QED  BY <1>1, <2>2, <4>1, BarsKept DEF CandlesTyped, PastTyped
    <3>2. CASE page.seq # <<>> /\ page.at = now
      <4>1. /\ bars' = CapBars(MergeBars(bars, page.seq))
            /\ synced' = TRUE /\ missed' = 0 /\ late' = late /\ crossed' = crossed
        BY <1>7, <3>2 DEF ApplyTail
      <4>2. PastTyped'
        BY <2>2, <4>1 DEF CandlesTyped, PastTyped
      <4>. QED  BY <1>1, <1>4, <4>1, <4>2, BarsLearnt DEF CandlesTyped
    <3>3. CASE page.seq # <<>> /\ page.at # now
      <4>1. Keep(MergeBars(bars, page.seq), now - page.at) /\ now - page.at \in Int
        BY <1>1, <1>4, <1>7, <3>3 DEF ApplyTail
      <4>2. bars' = CapBars(MergeBars(bars, page.seq))
        BY <4>1 DEF Keep
      <4>3. PastTyped'
        BY <2>2, <4>1, KeepTyped DEF CandlesTyped
      <4>. QED  BY <1>1, <1>4, <4>2, <4>3, BarsLearnt DEF CandlesTyped
    <3>. QED  BY <3>1, <3>2, <3>3
  <2>4. NetTyped'
    BY <1>1, <1>7, NetSettled DEF CandlesTyped, ApplyTail, Prepending
  <2>. QED  BY <1>2, <2>1, <2>3, <2>4 DEF CandlesTyped
<1>. QED  BY <1>3, <1>5, <1>6, <1>7

LEMMA RejectTyped ==
  ASSUME CandlesTyped, NEW r \in Request, Reject(r)
  PROVE  CandlesTyped'
<1>1. now' = now /\ now \in Nat /\ Settle(r) /\ feed' = feed
  BY ClockIsNumber DEF CandlesTyped, Reject
<1>2. FeedTyped'
  BY <1>1, FeedKept DEF CandlesTyped
<1>3. CASE FailLoad(r)
  <2>1. ClockTyped' /\ PastTyped'
    BY <1>1, <1>3 DEF CandlesTyped, ClockTyped, PastTyped, Reject, FailLoad
  <2>2. BarsTyped'
    <3>1. bars' = <<>> /\ <<>> \in Seq(Bar) /\ Len(<<>>) = 0
      BY <1>3, EmptySeq DEF FailLoad
    <3>2. ToSet(bars') = {}
      BY <3>1, ElementsOf
    <3>3. Increasing(bars') /\ Len(bars') <= Cap
      BY <3>1, Numbers DEF Increasing
    <3>. QED  BY <3>1, <3>2, <3>3 DEF BarsTyped
  <2>3. NetTyped'
    BY <1>1, <1>3, NetSettled DEF CandlesTyped, FailLoad, Prepending
  <2>. QED  BY <1>2, <2>1, <2>2, <2>3 DEF CandlesTyped
<1>4. CASE FailMore(r)
  <2>1. ClockTyped' /\ PastTyped'
    BY <1>1, <1>4 DEF CandlesTyped, ClockTyped, PastTyped, Reject, FailMore, past
  <2>2. BarsTyped'
    BY <1>1, <1>4, BarsKept DEF CandlesTyped, FailMore
  <2>3. NetTyped'
    BY <1>1, <1>4, NetSettled DEF CandlesTyped, FailMore, Prepending
  <2>. QED  BY <1>2, <2>1, <2>2, <2>3 DEF CandlesTyped
<1>5. CASE FailTail(r)
  <2>1. ClockTyped' /\ PastTyped'
    BY <1>1, <1>5 DEF CandlesTyped, ClockTyped, PastTyped, Reject, FailTail, past, candles
  <2>2. BarsTyped'
    BY <1>1, <1>5, BarsKept DEF CandlesTyped, FailTail, candles
  <2>3. NetTyped'
    BY <1>1, <1>5, NetSettled DEF CandlesTyped, FailTail, Prepending, candles
  <2>. QED  BY <1>2, <2>1, <2>2, <2>3 DEF CandlesTyped
<1>. QED  BY <1>3, <1>4, <1>5 DEF Reject

LEMMA TypedNext ==
  ASSUME CandlesTyped, CandlesNext
  PROVE  CandlesTyped'
BY OpenBarTyped, PublishTickTyped, ReceiveTickTyped, RenderTyped, RefreshTailTyped, LoadMoreOlderTyped,
   ReloadTyped, SwitchViewTyped, AnswerTyped, ResolveTyped, RejectTyped
   DEF CandlesNext

-----------------------------------------------------------------------------
(* Whose bars are on their way.                                            *)

\* Unless a load overlapped with something, whatever is in flight is of the
\* view shown, and no older page is asked for while a load runs.
OneView ==
    ~crossed =>
       /\ \A r \in Request : Busy(r) => net[r].view = view
       /\ \A b \in ToSet(wire) : b.view = view
       /\ stirred => \A b \in lastTick : b.view = view
       /\ ~(Loading /\ loadingMore)

\* What a request alone in flight leaves behind: nothing.
LEMMA AloneSettles ==
  ASSUME NetTyped, FeedTyped, NEW r \in Request, Busy(r), Alone(r),
         Settle(r), feed' = feed
  PROVE  /\ \A q \in Request : ~Busy(q)'
         /\ ToSet(wire') = {} /\ ~stirred'
         /\ ~Loading'
<1>1. net' = [net EXCEPT ![r] = Idle] /\ wire' = wire /\ stirred' = stirred
  BY DEF Settle, feed
<1>2. \A q \in Request : ~Busy(q)'
  BY <1>1 DEF Busy, Alone, Idle, NetTyped
<1>3. ~Loading'
  BY <1>2 DEF Loading, Busy
<1>4. ToSet(wire) = {}
  BY ElementsOf DEF Alone, FeedTyped
<1>. QED  BY <1>1, <1>2, <1>3, <1>4 DEF Alone

\* The loads and older pages in flight, after a new request, after an
\* answer and after the end of a request.
LEMMA KindsAsked ==
  ASSUME NEW r \in Request, ~Busy(r), NEW kind, net'[r].kind = kind,
         \A q \in Request \ {r} : net'[q] = net[q]
  PROVE  /\ Loading' <=> Loading \/ kind = "replace"
         /\ \A q \in Request : Prepending(q)' <=>
               Prepending(q) \/ (q = r /\ kind = "prepend")
<1>1. net[r].kind # "replace" /\ net[r].kind # "prepend"
  BY DEF Busy
<1>. QED  BY <1>1 DEF Loading, Prepending

LEMMA KindsAnswered ==
  ASSUME NetTyped, ClockTyped, NEW r \in Request, Answer(r)
  PROVE  /\ Loading' <=> Loading
         /\ \A q \in Request : Prepending(q)' <=> Prepending(q)
         /\ \A q \in Request : Busy(q)' <=> Busy(q)
BY NetAnswered DEF Loading, Prepending, Busy

LEMMA KindsSettled ==
  ASSUME NetTyped, NEW r \in Request, Settle(r)
  PROVE  /\ Loading' => Loading
         /\ net[r].kind # "replace" => (Loading' <=> Loading)
         /\ \A q \in Request : Prepending(q)' <=> Prepending(q) /\ q # r
         /\ \A q \in Request : Busy(q)' => Busy(q) /\ q # r /\ net'[q] = net[q]
<1>1. /\ net'[r] = Idle
      /\ \A q \in Request \ {r} : net'[q] = net[q]
  BY DEF Settle, NetTyped
<1>2. Idle.kind = "idle"
  BY DEF Idle
<1>. QED  BY <1>1, <1>2 DEF Loading, Prepending, Busy

LEMMA OneViewInit ==
  ASSUME CandlesInit, CandlesTyped
  PROVE  OneView
<1>1. ToSet(wire) = {}
  BY ElementsOf DEF CandlesInit, CandlesTyped, FeedTyped
<1>2. ~loadingMore /\ ~stirred
  BY DEF CandlesInit
<1>3. \A r \in Request : Busy(r) => net[r].view = view
  BY DEF CandlesInit, Busy, Idle
<1>. QED  BY <1>1, <1>2, <1>3 DEF OneView

LEMMA OneViewNext ==
  ASSUME CandlesTyped, CandlesTyped', OneView, CandlesNext
  PROVE  OneView'
<1>. USE DEF OneView
<1>1. CASE OpenBar
  <2>1. /\ net' = net /\ view' = view /\ feed' = feed
        /\ loadingMore' = loadingMore /\ crossed' = crossed
    BY <1>1 DEF OpenBar, candles
  <2>. QED  BY <2>1 DEF Busy, Loading, feed
<1>12. CASE PublishTick
  <2>1. \A b \in ToSet(wire') : b \in ToSet(wire) \/ b.view = view
    BY <1>12, TickPublished
  <2>2. /\ net' = net /\ view' = view /\ stirred' = stirred /\ lastTick' = lastTick
        /\ loadingMore' = loadingMore /\ crossed' = crossed
    BY <1>12 DEF PublishTick, candles, past
  <2>. QED  BY <2>1, <2>2 DEF Busy, Loading
<1>2. CASE ReceiveTick
  <2>1. Head(wire) \in ToSet(wire) /\ ToSet(Tail(wire)) \subseteq ToSet(wire)
    BY <1>2, HeadElements DEF ReceiveTick, CandlesTyped, FeedTyped
  <2>2. /\ net' = net /\ view' = view /\ lastTick' = {Head(wire)} /\ wire' = Tail(wire)
        /\ loadingMore' = loadingMore /\ crossed' = crossed
    BY <1>2 DEF ReceiveTick, candles, past
  <2>. QED  BY <2>1, <2>2 DEF Busy, Loading
<1>3. CASE Render
  <2>1. crossed' = crossed
    BY <1>3 DEF Render, TickEffect, Keep, past, CandlesTyped, FeedTyped
  <2>2. /\ net' = net /\ view' = view /\ stirred' = FALSE /\ wire' = wire
        /\ loadingMore' = loadingMore
    BY <1>3 DEF Render
  <2>. QED  BY <2>1, <2>2 DEF Busy, Loading
<1>4. CASE RefreshTail
  <2>1. 0 \in 0..now /\ now' = now /\ loadingMore' = loadingMore
    BY <1>4, ClockIsNumber DEF RefreshTail, CandlesTyped, candles
  <2>2. PICK r \in Request :
           /\ ~Busy(r) /\ net'[r].kind = "merge" /\ net'[r].view = view
           /\ \A q \in Request \ {r} : net'[q] = net[q]
    BY <1>4, <2>1, NetAsked DEF CandlesTyped, ClockTyped, RefreshTail
  <2>3. Loading' <=> Loading
    BY <2>2, KindsAsked
  <2>4. /\ view' = view /\ crossed' = crossed
        /\ wire' = wire /\ stirred' = stirred /\ lastTick' = lastTick
    BY <1>4 DEF RefreshTail, past, feed
  <2>. QED  BY <2>1, <2>2, <2>3, <2>4 DEF Busy
<1>5. CASE LoadMoreOlder
  <2>1. OldestTime(bars) \in 0..now /\ OldestTime(bars) # 0 /\ now' = now
    BY <1>5, OldestTold, ClockIsNumber DEF LoadMoreOlder, CandlesTyped
  <2>2. PICK r \in Request :
           /\ ~Busy(r) /\ net'[r].kind = "prepend" /\ net'[r].view = view
           /\ \A q \in Request \ {r} : net'[q] = net[q]
    BY <1>5, <2>1, NetAsked DEF CandlesTyped, ClockTyped, LoadMoreOlder
  <2>3. Loading' <=> Loading
    BY <2>2, KindsAsked
  <2>4. /\ view' = view /\ crossed' = (crossed \/ Loading)
        /\ wire' = wire /\ stirred' = stirred /\ lastTick' = lastTick
    BY <1>5 DEF LoadMoreOlder, feed
  <2>. QED  BY <2>2, <2>3, <2>4 DEF Busy
<1>6. CASE Reload
  <2>1. 0 \in 0..now /\ now' = now /\ loadingMore' = loadingMore
    BY <1>6, ClockIsNumber DEF Reload, CandlesTyped
  <2>2. PICK r \in Request :
           /\ ~Busy(r) /\ net'[r].view = view
           /\ \A q \in Request \ {r} : net'[q] = net[q]
    BY <1>6, <2>1, NetAsked DEF CandlesTyped, ClockTyped, Reload
  <2>3. /\ view' = view /\ crossed' = (crossed \/ loadingMore)
        /\ wire' = wire /\ stirred' = stirred /\ lastTick' = lastTick
    BY <1>6 DEF Reload, feed
  <2>. QED  BY <2>1, <2>2, <2>3 DEF Busy
<1>7. ASSUME NEW v \in View, SwitchView(v)
      PROVE  OneView'
  <2>1. 0 \in 0..now /\ now' = now /\ loadingMore' = loadingMore
    BY <1>7, ClockIsNumber DEF SwitchView, CandlesTyped
  <2>2. PICK r \in Request :
           /\ ~Busy(r) /\ net'[r].view = v /\ net'[r].kind = "replace"
           /\ \A q \in Request \ {r} : net'[q] = net[q]
    BY <1>7, <2>1, NetAsked DEF CandlesTyped, SwitchView
  <2>3. SUFFICES ASSUME ~crossed'
                 PROVE  OneView'
    OBVIOUS
  <2>4. ~crossed /\ ~stirred /\ wire = <<>> /\ \A q \in Request : ~Busy(q)
    BY <1>7, <2>3 DEF SwitchView
  <2>5. ToSet(wire') = {} /\ ~stirred' /\ view' = v
    <3>1. wire' = wire
      BY <1>7 DEF SwitchView
    <3>2. ToSet(wire) = {}
      BY <2>4, ElementsOf DEF CandlesTyped, FeedTyped
    <3>3. ~stirred' /\ view' = v
      BY <1>7, <2>4 DEF SwitchView
    <3>. QED  BY <3>1, <3>2, <3>3
  <2>6. ~loadingMore
    BY <2>4 DEF CandlesTyped, NetTyped, Prepending, Busy
  <2>. QED  BY <2>1, <2>2, <2>4, <2>5, <2>6 DEF Busy
<1>8. ASSUME NEW r \in Request, Answer(r)
      PROVE  OneView'
  <2>1. /\ \A q \in Request : Busy(q) => net'[q].view = net[q].view
        /\ \A q \in Request : Busy(q)' <=> Busy(q)
        /\ Loading' <=> Loading
    BY <1>8, NetAnswered, KindsAnswered DEF CandlesTyped
  <2>2. /\ view' = view /\ crossed' = crossed /\ loadingMore' = loadingMore
        /\ wire' = wire /\ stirred' = stirred /\ lastTick' = lastTick
    BY <1>8 DEF Answer, candles, feed, past
  <2>. QED  BY <2>1, <2>2
<1>9. ASSUME NEW r \in Request, Busy(r), Settle(r), feed' = feed, view' = view,
             loadingMore' => loadingMore,
             ~crossed' => ~crossed \/ Alone(r)
      PROVE  OneView'
  <2>1. /\ Loading' => Loading
        /\ \A q \in Request : Busy(q)' => Busy(q) /\ net'[q] = net[q]
    BY <1>9, KindsSettled DEF CandlesTyped
  <2>2. wire' = wire /\ stirred' = stirred /\ lastTick' = lastTick
    BY <1>9 DEF feed
  <2>3. CASE crossed' \/ ~crossed
    BY <1>9, <2>1, <2>2, <2>3
  <2>4. CASE Alone(r)
    <3>1. /\ \A q \in Request : ~Busy(q)'
          /\ ToSet(wire') = {} /\ ~stirred' /\ ~Loading'
      BY <1>9, <2>4, AloneSettles DEF CandlesTyped
    <3>. QED  BY <3>1
  <2>. QED  BY <1>9, <2>3, <2>4
<1>10. ASSUME NEW r \in Request, Resolve(r)
       PROVE  OneView'
  <2>1. PICK page \in net[r].page :
           \/ net[r].kind = "replace" /\ ApplyReplace(r, page)
           \/ net[r].kind = "prepend" /\ ApplyPrepend(page)
           \/ net[r].kind = "merge" /\ ApplyTail(page)
    BY <1>10 DEF Resolve
  <2>2. Busy(r) /\ Settle(r) /\ feed' = feed /\ view' = view
    BY <1>10 DEF Resolve
  <2>3. loadingMore' => loadingMore
    BY <2>1 DEF ApplyReplace, ApplyPrepend, ApplyTail
  <2>4. ~crossed' => ~crossed \/ Alone(r)
    BY <2>1 DEF ApplyReplace, ApplyPrepend, ApplyTail, Keep
  <2>. QED  BY <1>9, <2>2, <2>3, <2>4
<1>11. ASSUME NEW r \in Request, Reject(r)
       PROVE  OneView'
  <2>1. Busy(r) /\ Settle(r) /\ feed' = feed /\ view' = view
    BY <1>11 DEF Reject, FailLoad, FailMore, FailTail, Busy
  <2>2. loadingMore' => loadingMore
    BY <1>11 DEF Reject, FailLoad, FailMore, FailTail, candles
  <2>3. ~crossed' => ~crossed \/ Alone(r)
    BY <1>11 DEF Reject, FailLoad, FailMore, FailTail, past
  <2>. QED  BY <1>9, <2>1, <2>2, <2>3
<1>. QED
  BY <1>1, <1>2, <1>3, <1>4, <1>5, <1>6, <1>7, <1>8, <1>10, <1>11, <1>12 DEF CandlesNext

\* What a reply finds: the bars held, the page's, and what stays in flight.
LEMMA ReplyFinds ==
  ASSUME CandlesTyped, NEW r \in Request, Busy(r), Settle(r), NEW page \in net[r].page
  PROVE  /\ net[r].kind # "replace" => (Loading' <=> Loading)
         /\ \A q \in Request : Prepending(q)' =>
               Prepending(q) /\ q # r /\ net'[q] = net[q]
         /\ Reads(page, net[r].view, net[r].limit, net[r].before, page.at)
         /\ page.at \in 1..now /\ net[r].before \in 0..page.at
         /\ Asked(net[r], now)
         /\ bars \in Seq(Bar) /\ Increasing(bars)
         /\ page.seq \in Seq(Bar) /\ Increasing(page.seq)
<1>1. /\ net[r].kind # "replace" => (Loading' <=> Loading)
      /\ \A q \in Request : Prepending(q)' => Prepending(q) /\ q # r
      /\ \A q \in Request : Prepending(q)' => net'[q] = net[q]
  BY KindsSettled DEF CandlesTyped, Prepending, Busy
<1>2. /\ Reads(page, net[r].view, net[r].limit, net[r].before, page.at)
      /\ page.at \in 1..now /\ net[r].before \in 0..page.at
  BY PageHeld DEF CandlesTyped
<1>3. Asked(net[r], now) /\ bars \in Seq(Bar) /\ Increasing(bars)
  BY BusyAsks DEF CandlesTyped, BarsTyped
<1>4. page.seq \in Seq(Bar) /\ Increasing(page.seq)
  BY <1>2 DEF Reads
<1>. QED  BY <1>1, <1>2, <1>3, <1>4

\* No older page outlives a load that is applied to the view it was for.
LEMMA NoPageOutlives ==
  ASSUME CandlesTyped, OneView, NEW r \in Request, net[r].kind = "replace", Settle(r),
         ~crossed' => ~crossed \/ Alone(r), ~crossed',
         NEW q \in Request, Prepending(q)'
  PROVE  FALSE
<1>1. Prepending(q) /\ q # r
  BY KindsSettled DEF CandlesTyped
<1>2. ~Alone(r)
  BY <1>1 DEF Alone, Prepending, Busy
<1>3. Loading /\ loadingMore
  BY <1>1 DEF Loading, CandlesTyped, NetTyped
<1>. QED  BY <1>2, <1>3 DEF OneView

\* The effect of a tick on the bars, where it has one.
LEMMA TickLearnt ==
  ASSUME CandlesTyped, bars' = CapBars(WithTick)
  PROVE  /\ \A b \in ToSet(bars') : b \in lastTick \/ b \in ToSet(bars)
         /\ \A t \in TimesOf(bars) \cup Times(lastTick) :
               \/ t \in TimesOf(bars')
               \/ Len(bars') = Cap /\ \A c \in ToSet(bars') : t < c.t
         /\ TimesOf(bars') \subseteq TimesOf(bars) \cup Times(lastTick)
         /\ ~(Len(WithTick) > Cap) => TimesOf(bars') = TimesOf(bars) \cup Times(lastTick)
<1>1. /\ Ticked \in Seq(Bar) /\ Increasing(Ticked) /\ ToSet(Ticked) = lastTick
      /\ WithTick = MergeBars(bars, Ticked)
  BY TickedTold DEF CandlesTyped
<1>2. bars \in Seq(Bar) /\ Increasing(bars)
  BY DEF CandlesTyped, BarsTyped
<1>3. TimesOf(Ticked) = Times(lastTick)
  BY <1>1 DEF TimesOf
<1>. DEFINE new == CapBars(MergeBars(bars, Ticked))
<1>4. /\ \A b \in ToSet(new) :
            b \in ToSet(Ticked) \/ (b \in ToSet(bars) /\ b.t \notin TimesOf(Ticked))
      /\ TimesOf(new) \subseteq TimesOf(bars) \cup TimesOf(Ticked)
      /\ \A t \in TimesOf(bars) \cup TimesOf(Ticked) :
            \/ t \in TimesOf(new)
            \/ Len(new) = Cap /\ \A c \in ToSet(new) : t < c.t
      /\ ~(Len(MergeBars(bars, Ticked)) > Cap) =>
            TimesOf(new) = TimesOf(bars) \cup TimesOf(Ticked)
  BY <1>1, <1>2, Learnt
<1>5. bars' = new
  BY <1>1
<1>. HIDE DEF new
<1>. QED  BY <1>1, <1>3, <1>4, <1>5

-----------------------------------------------------------------------------
(* A synced chart is true.                                                 *)

\* The time before which the bars are as the market's were: the last page
\* applied, or the last input older than it, was read then.
Base == IF synced THEN now ELSE now - missed - 1

\* Bars of the view, closed ones and with none of the market's left out up to
\* a time.
TrueTo(seq, v, base) ==
    /\ \A b \in ToSet(seq) : b.view = v /\ (b.t < base => b.closed)
    /\ \A a \in TimesOf(seq), t \in Traded[v] : a < t /\ t <= base => t \in TimesOf(seq)

TruthHeld ==
    /\ synced => missed = 0
    /\ ~late => missed <= TailFetch - 2
    /\ ~late /\ ~crossed /\ ~clipped /\ ~Loading =>
          /\ TrueTo(bars, view, Base)
          /\ synced /\ now \in Traded[view] => now \in TimesOf(bars)

\* The array holds t, or it is full and t is older than all of it.
Reaches(seq, t) ==
    t \in TimesOf(seq) \/ (Len(seq) = Cap /\ \A u \in TimesOf(seq) : t < u)

\* The older page asked for is one that ends where the bars begin.
PagesMeet ==
    ~crossed => \A r \in Request : Prepending(r) => Reaches(bars, net[r].before)

LEMMA TradedTimes ==
  ASSUME NEW v \in View
  PROVE  Traded[v] \subseteq Nat \ {0}
BY CandlesAssumption

LEMMA TimesAreNumbers ==
  ASSUME NEW seq \in Seq(Bar), NEW t \in TimesOf(seq)
  PROVE  t \in Nat \ {0}
<1>1. PICK b \in ToSet(seq) : t = b.t
  BY DEF TimesOf, Times, Window!Times
<1>2. b \in Bar
  BY ElementsOf
<1>. QED  BY <1>1, <1>2, Numbers DEF Bar, Window!Bar

\* What was in a full array stays, unless something newer takes its place.
LEMMA FullStays ==
  ASSUME NEW held \in Seq(Bar), NEW new \in Seq(Bar),
         Increasing(held), Increasing(new), Len(held) = Cap, Len(new) <= Cap,
         \A t \in TimesOf(held) :
            \/ t \in TimesOf(new)
            \/ Len(new) = Cap /\ \A c \in ToSet(new) : t < c.t
  PROVE  /\ Len(new) = Cap
         /\ \/ TimesOf(new) = TimesOf(held)
            \/ \E t \in TimesOf(held) : \A u \in TimesOf(new) : t < u
<1>1. ASSUME NEW t \in TimesOf(held), t \notin TimesOf(new)
      PROVE  Len(new) = Cap /\ \A u \in TimesOf(new) : t < u
  BY <1>1 DEF TimesOf, Times, Window!Times
<1>2. CASE TimesOf(held) \subseteq TimesOf(new)
  <2>1. /\ OnePerTime(ToSet(held)) /\ IsFiniteSet(ToSet(held))
        /\ Cardinality(ToSet(held)) = Cap
        /\ OnePerTime(ToSet(new)) /\ IsFiniteSet(ToSet(new))
        /\ Cardinality(ToSet(new)) = Len(new)
        /\ ToSet(held) \in SUBSET Bar /\ ToSet(new) \in SUBSET Bar
    BY IncreasingElements, ElementsOf
  <2>2. /\ Cardinality(TimesOf(held)) = Cap
        /\ Cardinality(TimesOf(new)) = Len(new)
        /\ IsFiniteSet(TimesOf(new))
    <3>1. /\ IsFiniteSet(TimesOf(held))
          /\ Cardinality(TimesOf(held)) = Cardinality(ToSet(held))
      BY <2>1, TimesCount DEF TimesOf
    <3>2. /\ IsFiniteSet(TimesOf(new))
          /\ Cardinality(TimesOf(new)) = Cardinality(ToSet(new))
      BY <2>1, TimesCount DEF TimesOf
    <3>. HIDE DEF TimesOf
    <3>. QED  BY <2>1, <3>1, <3>2
  <2>. HIDE DEF TimesOf
  <2>3. Cap <= Len(new)
    BY <1>2, <2>2, FS_Subset
  <2>4. Len(new) = Cap
    BY <2>3, ElementsOf, Numbers
  <2>5. TimesOf(new) = TimesOf(held)
    BY <1>2, <2>2, <2>4, FS_Subset
  <2>. QED  BY <2>4, <2>5
<1>. QED  BY <1>1, <1>2

LEMMA ReachesStill ==
  ASSUME NEW held \in Seq(Bar), NEW new \in Seq(Bar),
         Increasing(held), Increasing(new), Len(new) <= Cap,
         \A t \in TimesOf(held) :
            \/ t \in TimesOf(new)
            \/ Len(new) = Cap /\ \A c \in ToSet(new) : t < c.t,
         NEW t \in Nat, Reaches(held, t)
  PROVE  Reaches(new, t)
<1>1. CASE t \in TimesOf(held)
  BY <1>1 DEF Reaches, TimesOf, Times, Window!Times
<1>2. CASE Len(held) = Cap /\ \A u \in TimesOf(held) : t < u
  <2>1. /\ Len(new) = Cap
        /\ \/ TimesOf(new) = TimesOf(held)
           \/ \E s \in TimesOf(held) : \A u \in TimesOf(new) : s < u
    BY <1>2, FullStays
  <2>2. CASE TimesOf(new) = TimesOf(held)
    BY <1>2, <2>1, <2>2 DEF Reaches
  <2>3. ASSUME NEW s \in TimesOf(held), \A u \in TimesOf(new) : s < u
        PROVE  Reaches(new, t)
    <3>1. ASSUME NEW u \in TimesOf(new)
          PROVE  t < u
      <4>1. t < s /\ s < u
        BY <1>2, <2>3
      <4>2. s \in Int /\ u \in Int
        BY TimesAreNumbers
      <4>. QED  BY <4>1, <4>2
    <3>. QED  BY <2>1, <3>1 DEF Reaches
  <2>. QED  BY <2>1, <2>2, <2>3
<1>. QED  BY <1>1, <1>2 DEF Reaches

\* No hole opens where the bars learnt leave none.
LEMMA TrueLearnt ==
  ASSUME NEW new \in Seq(Bar), NEW T, NEW v \in View, NEW base \in Int,
         \A t \in T : t \in TimesOf(new) \/ \A c \in ToSet(new) : t < c.t,
         \A b \in ToSet(new) : b.view = v /\ (b.t < base => b.closed),
         \A a \in TimesOf(new), t \in Traded[v] : a < t /\ t <= base => t \in T
  PROVE  TrueTo(new, v, base)
<1>1. ASSUME NEW a \in TimesOf(new), NEW t \in Traded[v], a < t, t <= base
      PROVE  t \in TimesOf(new)
  <2>1. a \in Int /\ t \in Int
    BY TimesAreNumbers, TradedTimes
  <2>2. SUFFICES ASSUME \A c \in ToSet(new) : t < c.t
                 PROVE  FALSE
    BY <1>1
  <2>3. PICK b \in ToSet(new) : a = b.t
    BY DEF TimesOf, Times, Window!Times
  <2>. QED  BY <1>1, <2>1, <2>2, <2>3
<1>. QED  BY <1>1 DEF TrueTo

LEMMA TrueLess ==
  ASSUME NEW seq \in Seq(Bar), NEW v \in View, NEW base \in Int, NEW less \in Int, less <= base,
         TrueTo(seq, v, base)
  PROVE  TrueTo(seq, v, less)
<1>1. \A b \in ToSet(seq) : b.t \in Int
  <2>1. \A b \in ToSet(seq) : b \in Bar
    BY ElementsOf
  <2>. QED  BY <2>1, Numbers DEF Bar, Window!Bar
<1>2. (\A a \in TimesOf(seq) : a \in Int) /\ \A t \in Traded[v] : t \in Int
  BY TimesAreNumbers, TradedTimes
<1>. QED  BY <1>1, <1>2 DEF TrueTo

\* The bar that is forming is never cut off.
LEMMA NowStays ==
  ASSUME ClockTyped, NEW new \in Seq(Bar),
         \A b \in ToSet(new) : Window!Existed(b, now),
         \/ now \in TimesOf(new)
         \/ Len(new) = Cap /\ \A c \in ToSet(new) : now < c.t
  PROVE  now \in TimesOf(new)
<1>1. SUFFICES ASSUME Len(new) = Cap, \A c \in ToSet(new) : now < c.t
               PROVE  FALSE
  OBVIOUS
<1>2. PICK c \in ToSet(new) : TRUE
  BY <1>1, ElementsOf, Numbers
<1>3. c.t \in Int /\ c.t <= now /\ now < c.t
  <2>1. c \in Bar
    BY ElementsOf
  <2>. QED  BY <1>1, <2>1, Numbers DEF Window!Existed, Bar, Window!Bar
<1>. QED  BY <1>3, ClockIsNumber

\* What the history says of input that is some bars old.
LEMMA KeepBase ==
  ASSUME ClockTyped, PastTyped, TruthHeld, now' = now,
         NEW seq, NEW age \in Nat, Keep(seq, age)
  PROVE  /\ Base \in Int /\ Base' \in Int /\ Base' <= Base /\ Base' <= now - age
         /\ synced' => synced
         /\ synced' => missed' = 0
         /\ ~late' => ~late /\ missed' <= TailFetch - 2
<1>1. now \in Nat /\ missed \in Nat /\ missed' \in Nat
  <2>1. now \in Nat /\ missed \in Nat
    BY ClockIsNumber DEF PastTyped
  <2>2. CASE age - 1 > missed
    BY <2>1, <2>2 DEF Keep
  <2>3. CASE ~(age - 1 > missed)
    BY <2>1, <2>3 DEF Keep
  <2>. QED  BY <2>1, <2>2, <2>3
<1>2. ~late' => ~late /\ missed' <= TailFetch - 2
  <2>1. late' = (late \/ missed' > TailFetch - 2)
    BY DEF Keep
  <2>2. late' <=> (late \/ missed' > TailFetch - 2)
    BY <2>1
  <2>. QED  BY <1>1, <2>2, Numbers
<1>3. missed <= missed' /\ age - 1 <= missed'
  BY <1>1 DEF Keep
<1>4. CASE age = 0
  <2>1. missed' = missed /\ synced' = synced
    BY <1>1, <1>4 DEF Keep
  <2>. QED  BY <1>1, <1>2, <1>4, <2>1 DEF Base, TruthHeld
<1>5. CASE age # 0
  <2>1. synced' = FALSE
    BY <1>5 DEF Keep
  <2>2. Base' = now - missed' - 1
    BY <2>1 DEF Base
  <2>3. Base \in Int /\ now - missed - 1 <= Base
    BY <1>1 DEF Base
  <2>4. Base' \in Int /\ Base' <= Base /\ Base' <= now - age
    <3>. DEFINE m == missed'
    <3>1. m \in Nat /\ missed <= m /\ age - 1 <= m
      BY <1>1, <1>3
    <3>2. Base' = now - m - 1
      BY <2>2
    <3>. HIDE DEF m
    <3>3. now - m - 1 \in Int /\ now - m - 1 <= now - age
      BY <1>1, <3>1
    <3>4. now - m - 1 <= Base
      BY <1>1, <2>3, <3>1
    <3>. QED  BY <3>2, <3>3, <3>4
  <2>. QED  BY <1>2, <2>1, <2>3, <2>4
<1>. QED  BY <1>4, <1>5

\* Steps that leave the bars, or learn others.
LEMMA PagesMeetStill ==
  ASSUME CandlesTyped, CandlesTyped', PagesMeet, ~crossed' => ~crossed,
         \A q \in Request : Prepending(q)' => Prepending(q) /\ net'[q].before = net[q].before,
         \/ bars' = bars
         \/ \A t \in TimesOf(bars) :
               \/ t \in TimesOf(bars')
               \/ Len(bars') = Cap /\ \A c \in ToSet(bars') : t < c.t
  PROVE  PagesMeet'
<1>1. SUFFICES ASSUME ~crossed', NEW q \in Request, Prepending(q)'
               PROVE  Reaches(bars', net'[q].before)
  BY DEF PagesMeet, Reaches
<1>2. Reaches(bars, net[q].before) /\ net'[q].before = net[q].before
  BY <1>1 DEF PagesMeet
<1>3. net[q].before \in Nat
  <2>1. Busy(q)
    BY <1>1 DEF Busy, Prepending
  <2>2. Asked(net[q], now)
    BY <2>1, BusyAsks DEF CandlesTyped
  <2>. QED  BY <2>2 DEF Asked, Demand
<1>4. CASE bars' = bars
  BY <1>2, <1>4 DEF Reaches
<1>5. CASE \A t \in TimesOf(bars) :
              \/ t \in TimesOf(bars')
              \/ Len(bars') = Cap /\ \A c \in ToSet(bars') : t < c.t
  <2>1. /\ bars \in Seq(Bar) /\ bars' \in Seq(Bar) /\ Increasing(bars)
        /\ Increasing(bars') /\ Len(bars') <= Cap
    BY DEF CandlesTyped, BarsTyped
  <2>2. Reaches(bars', net[q].before)
    BY <1>2, <1>3, <1>5, <2>1, ReachesStill
  <2>. QED  BY <1>2, <2>2
<1>. QED  BY <1>4, <1>5

LEMMA PagesMeetInit ==
  ASSUME CandlesInit, CandlesTyped
  PROVE  PagesMeet
BY DEF CandlesInit, CandlesTyped, NetTyped, PagesMeet

LEMMA PagesMeetNext ==
  ASSUME CandlesTyped, CandlesTyped', OneView, PagesMeet, CandlesNext
  PROVE  PagesMeet'
<1>1. CASE OpenBar \/ PublishTick \/ ReceiveTick
  <2>1. net' = net /\ bars' = bars /\ crossed' = crossed
    BY <1>1 DEF OpenBar, PublishTick, ReceiveTick, candles, past
  <2>. QED  BY <2>1, PagesMeetStill DEF Prepending
<1>2. CASE Render
  <2>1. /\ net' = net /\ (~crossed' => ~crossed)
        /\ bars' = bars \/ bars' = CapBars(WithTick)
    BY <1>2 DEF Render, TickEffect, Keep, past, CandlesTyped, FeedTyped
  <2>2. \/ bars' = bars
        \/ \A t \in TimesOf(bars) :
               \/ t \in TimesOf(bars')
               \/ Len(bars') = Cap /\ \A c \in ToSet(bars') : t < c.t
    BY <2>1, TickLearnt
  <2>. QED  BY <2>1, <2>2, PagesMeetStill DEF Prepending
<1>3. CASE RefreshTail
  <2>1. 0 \in 0..now /\ now' = now /\ loadingMore' = loadingMore
    BY <1>3, ClockIsNumber DEF RefreshTail, CandlesTyped, candles
  <2>2. PICK r \in Request :
           /\ ~Busy(r) /\ net'[r].kind = "merge"
           /\ \A q \in Request \ {r} : net'[q] = net[q]
    BY <1>3, <2>1, NetAsked DEF CandlesTyped, ClockTyped, RefreshTail
  <2>3. \A q \in Request : Prepending(q)' => Prepending(q) /\ net'[q].before = net[q].before
    BY <2>2 DEF Prepending
  <2>4. bars' = bars /\ crossed' = crossed
    BY <1>3 DEF RefreshTail, past, candles
  <2>. QED  BY <2>3, <2>4, PagesMeetStill
<1>4. CASE LoadMoreOlder
  <2>1. /\ OldestTime(bars) \in 0..now /\ OldestTime(bars) # 0 /\ now' = now
        /\ OldestTime(bars) \in TimesOf(bars)
    BY <1>4, OldestTold, ClockIsNumber DEF LoadMoreOlder, CandlesTyped
  <2>2. PICK r \in Request :
           /\ ~Busy(r) /\ net'[r].kind = "prepend" /\ net'[r].before = OldestTime(bars)
           /\ \A q \in Request \ {r} : net'[q] = net[q]
    BY <1>4, <2>1, NetAsked DEF CandlesTyped, ClockTyped, LoadMoreOlder
  <2>3. bars' = bars /\ (~crossed' => ~crossed)
    BY <1>4 DEF LoadMoreOlder
  <2>4. ASSUME ~crossed', NEW q \in Request, Prepending(q)'
        PROVE  Reaches(bars', net'[q].before)
    <3>1. CASE q = r
      BY <2>1, <2>2, <2>3, <3>1 DEF Reaches
    <3>2. CASE q # r
      BY <2>2, <2>3, <2>4, <3>2 DEF PagesMeet, Prepending, Reaches
    <3>. QED  BY <3>1, <3>2
  <2>. QED  BY <2>4 DEF PagesMeet, Reaches
<1>5. CASE Reload
  <2>1. 0 \in 0..now /\ now' = now /\ loadingMore' = loadingMore
    BY <1>5, ClockIsNumber DEF Reload, CandlesTyped
  <2>2. PICK r \in Request :
           /\ ~Busy(r) /\ net'[r].kind = "replace"
           /\ \A q \in Request \ {r} : net'[q] = net[q]
    BY <1>5, <2>1, NetAsked DEF CandlesTyped, ClockTyped, Reload
  <2>3. \A q \in Request : Prepending(q)' => Prepending(q) /\ net'[q].before = net[q].before
    BY <2>2 DEF Prepending
  <2>4. bars' = bars /\ (~crossed' => ~crossed)
    BY <1>5 DEF Reload
  <2>. QED  BY <2>3, <2>4, PagesMeetStill
<1>6. ASSUME NEW v \in View, SwitchView(v)
      PROVE  PagesMeet'
  <2>1. 0 \in 0..now /\ now' = now /\ loadingMore' = loadingMore
    BY <1>6, ClockIsNumber DEF SwitchView, CandlesTyped
  <2>2. PICK r \in Request :
           /\ ~Busy(r) /\ net'[r].kind = "replace"
           /\ \A q \in Request \ {r} : net'[q] = net[q]
    BY <1>6, <2>1, NetAsked DEF CandlesTyped, SwitchView
  <2>3. \A q \in Request : Prepending(q)' => Prepending(q)
    BY <2>2 DEF Prepending
  <2>4. ~crossed' => \A q \in Request : ~Prepending(q)
    BY <1>6 DEF SwitchView, Busy, Prepending
  <2>. QED  BY <2>3, <2>4 DEF PagesMeet
<1>7. ASSUME NEW r \in Request, Answer(r)
      PROVE  PagesMeet'
  <2>1. \A q \in Request : Prepending(q)' => Prepending(q) /\ net'[q].before = net[q].before
    BY <1>7, NetAnswered DEF CandlesTyped, Prepending, Busy
  <2>2. bars' = bars /\ crossed' = crossed
    BY <1>7 DEF Answer, candles, past
  <2>. QED  BY <2>1, <2>2, PagesMeetStill
<1>8. ASSUME NEW r \in Request, Resolve(r)
      PROVE  PagesMeet'
  <2>1. PICK page \in net[r].page :
           \/ net[r].kind = "replace" /\ ApplyReplace(r, page)
           \/ net[r].kind = "prepend" /\ ApplyPrepend(page)
           \/ net[r].kind = "merge" /\ ApplyTail(page)
    BY <1>8 DEF Resolve
  <2>2. Busy(r) /\ Settle(r)
    BY <1>8 DEF Resolve
  <2>3. /\ \A q \in Request : Prepending(q)' => Prepending(q) /\ net'[q].before = net[q].before
        /\ bars \in Seq(Bar) /\ Increasing(bars)
        /\ page.seq \in Seq(Bar) /\ Increasing(page.seq)
    BY <2>2, ReplyFinds
  <2>4. ASSUME net[r].kind = "replace", ApplyReplace(r, page)
        PROVE  PagesMeet'
    <3>1. ~crossed' => ~crossed \/ Alone(r)
      BY <2>4 DEF ApplyReplace
    <3>2. ~crossed' => \A q \in Request : ~Prepending(q)'
      BY <2>2, <2>4, <3>1, NoPageOutlives
    <3>. QED  BY <3>2 DEF PagesMeet
  <2>5. CASE bars' = CapBars(MergeBars(page.seq, bars)) /\ (~crossed' => ~crossed)
    <3>1. \A t \in TimesOf(bars) :
             \/ t \in TimesOf(bars')
             \/ Len(bars') = Cap /\ \A c \in ToSet(bars') : t < c.t
      BY <2>3, <2>5, Learnt
    <3>. QED  BY <2>3, <2>5, <3>1, PagesMeetStill
  <2>7. CASE bars' = bars /\ (~crossed' => ~crossed)
    BY <2>3, <2>7, PagesMeetStill
  <2>6. CASE bars' = CapBars(MergeBars(bars, page.seq)) /\ (~crossed' => ~crossed)
    <3>1. \A t \in TimesOf(bars) :
             \/ t \in TimesOf(bars')
             \/ Len(bars') = Cap /\ \A c \in ToSet(bars') : t < c.t
      BY <2>3, <2>6, Learnt
    <3>. QED  BY <2>3, <2>6, <3>1, PagesMeetStill
  <2>8. ASSUME ApplyPrepend(page)
        PROVE  PagesMeet'
    BY <2>5, <2>8 DEF ApplyPrepend
  <2>9. ASSUME ApplyTail(page)
        PROVE  PagesMeet'
    <3>1. \/ bars' = bars /\ crossed' = crossed
          \/ bars' = CapBars(MergeBars(bars, page.seq)) /\ crossed' = crossed
      BY <2>9 DEF ApplyTail, Keep
    <3>. QED  BY <2>6, <2>7, <3>1
  <2>. QED  BY <2>1, <2>4, <2>8, <2>9
<1>9. ASSUME NEW r \in Request, Reject(r)
      PROVE  PagesMeet'
  <2>1. Settle(r)
    BY <1>9 DEF Reject
  <2>2. \A q \in Request : Prepending(q)' => Prepending(q) /\ net'[q].before = net[q].before
    BY <2>1, KindsSettled DEF CandlesTyped, Prepending, Busy
  <2>3. CASE FailLoad(r)
    <3>1. ~crossed' => \A q \in Request : ~Prepending(q)'
      BY <2>1, <2>3, NoPageOutlives DEF FailLoad
    <3>. QED  BY <3>1 DEF PagesMeet
  <2>4. CASE FailMore(r) \/ FailTail(r)
    <3>1. bars' = bars /\ crossed' = crossed
      BY <2>4 DEF FailMore, FailTail, candles, past
    <3>. QED  BY <2>2, <3>1, PagesMeetStill
  <2>. QED  BY <1>9, <2>3, <2>4 DEF Reject
<1>. QED
  BY <1>1, <1>2, <1>3, <1>4, <1>5, <1>6, <1>7, <1>8, <1>9 DEF CandlesNext

LEMMA TruthInit ==
  ASSUME CandlesInit, CandlesTyped
  PROVE  TruthHeld
<1>1. PICK r \in Request : net[r].kind = "replace"
  BY DEF CandlesInit
<1>2. Loading
  BY <1>1 DEF Loading
<1>3. missed = 0 /\ 0 <= TailFetch - 2
  BY Numbers DEF CandlesInit
<1>. QED  BY <1>2, <1>3 DEF TruthHeld

\* Steps that change neither the bars nor what the history says of them.
LEMMA TruthKept ==
  ASSUME TruthHeld, now' = now, bars' = bars, view' = view,
         synced' = synced, missed' = missed, late' = late,
         ~crossed' => ~crossed, ~clipped' => ~clipped, ~Loading' => ~Loading
  PROVE  TruthHeld'
<1>1. Base' = Base
  BY DEF Base
<1>2. TrueTo(bars, view, Base)' <=> TrueTo(bars, view, Base)
  BY <1>1 DEF TrueTo
<1>. QED  BY <1>2 DEF TruthHeld

LEMMA TruthOpenBar ==
  ASSUME CandlesTyped, TruthHeld, OpenBar
  PROVE  TruthHeld'
<1>1. now \in Nat /\ missed \in Nat /\ now' = now + 1 /\ ~synced'
  BY ClockIsNumber DEF CandlesTyped, PastTyped, OpenBar
<1>2. Base' = Base
  <2>1. Base' = now + 1 - missed' - 1
    <3>1. Base' = now' - missed' - 1
      BY <1>1 DEF Base
    <3>2. missed' \in Nat
      BY <1>1 DEF OpenBar
    <3>. QED  BY <1>1, <3>1, <3>2
  <2>2. missed' = IF synced THEN 0 ELSE missed + 1
    BY DEF OpenBar
  <2>3. CASE synced
    BY <1>1, <2>1, <2>2, <2>3 DEF Base
  <2>4. CASE ~synced
    BY <1>1, <2>1, <2>2, <2>4 DEF Base
  <2>. QED  BY <2>3, <2>4
<1>3. ~late' => ~late /\ missed' <= TailFetch - 2
  <2>1. missed' \in Nat
    BY <1>1 DEF OpenBar
  <2>2. late' <=> (late \/ missed' > TailFetch - 2)
    BY DEF OpenBar
  <2>. QED  BY <2>1, <2>2, Numbers
<1>4. /\ bars' = bars /\ view' = view /\ crossed' = crossed /\ clipped' = clipped
      /\ Loading' <=> Loading
  BY DEF OpenBar, candles, Loading
<1>5. TrueTo(bars, view, Base)' <=> TrueTo(bars, view, Base)
  BY <1>2, <1>4 DEF TrueTo
<1>. QED  BY <1>1, <1>3, <1>4, <1>5 DEF TruthHeld

LEMMA TruthRender ==
  ASSUME CandlesTyped, CandlesTyped', OneView, TruthHeld, Render
  PROVE  TruthHeld'
<1>1. now' = now /\ net' = net /\ view' = view /\ stirred
  BY DEF Render
<1>2. Loading' <=> Loading
  BY <1>1 DEF Loading
<1>3. CASE view \notin Ticking
  <2>1. bars' = bars /\ past' = past
    BY <1>3 DEF Render, TickEffect
  <2>. QED  BY <1>1, <1>2, <2>1, TruthKept DEF past
<1>4. CASE view \in Ticking
  <2>1. PICK b \in lastTick : Keep(WithTick, Age(b))
    BY <1>4 DEF Render, TickEffect, CandlesTyped, FeedTyped
  <2>2. b \in Bar /\ b.t \in 1..now /\ now \in Nat /\ lastTick = {b} /\ Age(b) \in Nat
    BY <2>1, TickTimed, ClockIsNumber DEF CandlesTyped, FeedTyped
  <2>3. \/ b.closed /\ \E c \in ToSet(bars) : c.t <= b.t
        \/ now - Age(b) = b.t
    BY <2>2 DEF Age
  <2>. HIDE DEF Age
  <2>4. /\ Base \in Int /\ Base' \in Int /\ Base' <= Base /\ Base' <= now - Age(b)
        /\ synced' => synced
        /\ synced' => missed' = 0
        /\ ~late' => ~late /\ missed' <= TailFetch - 2
    BY <1>1, <2>1, <2>2, KeepBase DEF CandlesTyped
  <2>5. crossed' = crossed /\ clipped' = clipped /\ bars' = CapBars(WithTick)
    BY <1>4, <2>1 DEF Keep, Render, TickEffect
  <2>6. /\ \A c \in ToSet(bars') : c = b \/ c \in ToSet(bars)
        /\ \A t \in TimesOf(bars) \cup {b.t} :
               \/ t \in TimesOf(bars')
               \/ Len(bars') = Cap /\ \A c \in ToSet(bars') : t < c.t
        /\ TimesOf(bars') \subseteq TimesOf(bars) \cup {b.t}
    <3>1. Times(lastTick) = {b.t}
      BY <2>2 DEF Times, Window!Times
    <3>. QED  BY <2>2, <2>5, <3>1, TickLearnt
  <2>7. bars' \in Seq(Bar) /\ \A c \in ToSet(bars') : Window!Existed(c, now)
    BY <1>1 DEF CandlesTyped, BarsTyped
  <2>8. ASSUME ~late', ~crossed', ~clipped', ~Loading'
        PROVE  /\ TrueTo(bars', view, Base')
               /\ synced' /\ now \in Traded[view] => now \in TimesOf(bars')
    <3>0. view \in View
      BY DEF CandlesTyped, ClockTyped
    <3>1. /\ TrueTo(bars, view, Base)
          /\ synced /\ now \in Traded[view] => now \in TimesOf(bars)
          /\ b.view = view
      BY <1>1, <1>2, <2>4, <2>5, <2>8 DEF TruthHeld, OneView
    <3>2. TrueTo(bars, view, Base')
      BY <2>4, <3>0, <3>1, TrueLess DEF CandlesTyped, BarsTyped
    <3>3. b.t < Base' => b.closed
      BY <2>2, <2>3, <2>4
    <3>4. \A c \in ToSet(bars') : c.view = view /\ (c.t < Base' => c.closed)
      BY <2>6, <3>1, <3>2, <3>3 DEF TrueTo
    <3>5. ASSUME NEW a \in TimesOf(bars'), NEW t \in Traded[view], a < t, t <= Base'
          PROVE  t \in TimesOf(bars)
      <4>1. CASE a \in TimesOf(bars)
        BY <3>2, <3>5, <4>1 DEF TrueTo
      <4>2. CASE a = b.t
        <5>1. t \in Int
          BY <3>0, TradedTimes
        <5>2. now - Age(b) # b.t
          BY <2>2, <2>4, <3>5, <4>2, <5>1
        <5>3. PICK c \in ToSet(bars) : c.t <= b.t
          BY <2>3, <5>2
        <5>4. c.t \in TimesOf(bars)
          BY DEF TimesOf, Times, Window!Times
        <5>5. c.t \in Int
          BY <5>4, TimesAreNumbers DEF CandlesTyped, BarsTyped
        <5>6. c.t < t
          BY <2>2, <3>5, <4>2, <5>1, <5>3, <5>5
        <5>. QED  BY <3>2, <3>5, <5>4, <5>6 DEF TrueTo
      <4>. QED  BY <2>6, <3>5, <4>1, <4>2
    <3>6. TrueTo(bars', view, Base')
      BY <2>4, <2>6, <2>7, <3>0, <3>4, <3>5, TrueLearnt
    <3>7. synced' /\ now \in Traded[view] => now \in TimesOf(bars')
      BY <2>4, <2>6, <2>7, <3>1, NowStays DEF CandlesTyped
    <3>. QED  BY <3>6, <3>7
  <2>. QED  BY <1>1, <2>4, <2>8 DEF TruthHeld, TrueTo
<1>. QED  BY <1>3, <1>4

\* What a page that is not cut in two makes of the bars of the view it is of.
LEMMA PageIsTrue ==
  ASSUME NEW page, NEW v \in View, NEW limit, NEW before, NEW n \in Nat,
         Reads(page, v, limit, before, n), ~Clips(page)
  PROVE  /\ \A b \in ToSet(page.seq) :
               /\ b.view = v /\ (b.t < n => b.closed)
               /\ b.t \in TimesOf(page.seq)
         /\ \A a \in TimesOf(page.seq), t \in Traded[v] :
               a < t /\ t <= LastOf(before, n) => t \in TimesOf(page.seq)
         /\ page.seq # <<>> => \A t \in Traded[v] :
               LastOf(before, n) - limit < t /\ t <= LastOf(before, n) =>
                  t \in TimesOf(page.seq)
         /\ LastOf(before, n) \in 0..n /\ page.seq \in Seq(Bar) /\ Increasing(page.seq)
<1>1. page.at = n
  BY DEF Reads
<1>2. \A b \in ToSet(page.seq) : b.t < n => b.closed
  BY <1>1 DEF Clips
<1>3. \A b \in ToSet(page.seq) : b.t \in TimesOf(page.seq)
  BY DEF TimesOf, Times, Window!Times
<1>. QED  BY <1>2, <1>3 DEF Reads

\* A load: the page is all there is, and true up to when it was read.
LEMMA TruthReplace ==
  ASSUME CandlesTyped, CandlesTyped', OneView, NEW r \in Request, Busy(r), Settle(r),
         NEW page \in net[r].page, net[r].kind = "replace", ApplyReplace(r, page),
         now' = now, view' = view
  PROVE  TruthHeld'
<1>1. /\ Reads(page, net[r].view, net[r].limit, net[r].before, page.at)
      /\ page.at \in 1..now /\ Asked(net[r], now) /\ page.seq \in Seq(Bar)
      /\ Increasing(page.seq)
  BY ReplyFinds
<1>2. /\ net[r].before = 0 /\ net[r].limit = PageSize /\ now \in Nat /\ net[r].view \in View
      /\ page.view = net[r].view
  BY <1>1, ClockIsNumber DEF Asked, Demand, CandlesTyped, Reads
<1>3. LastOf(net[r].before, page.at) = page.at
  BY <1>2 DEF LastOf
<1>4. /\ bars' \in Seq(Bar) /\ ToSet(bars') \subseteq ToSet(page.seq)
      /\ \A b \in ToSet(page.seq) :
            \/ b \in ToSet(bars')
            \/ Len(bars') = Cap /\ \A c \in ToSet(bars') : b.t < c.t
  <2>1. bars' = CapBars(page.seq)
    BY DEF ApplyReplace
  <2>. QED  BY <1>1, <2>1, Capped
<1>5. /\ TimesOf(bars') \subseteq TimesOf(page.seq)
      /\ \A t \in TimesOf(page.seq) :
            \/ t \in TimesOf(bars')
            \/ Len(bars') = Cap /\ \A c \in ToSet(bars') : t < c.t
  <2>1. TimesOf(bars') \subseteq TimesOf(page.seq)
    BY <1>4 DEF TimesOf, Times, Window!Times
  <2>2. ASSUME NEW t \in TimesOf(page.seq)
        PROVE  \/ t \in TimesOf(bars')
               \/ Len(bars') = Cap /\ \A c \in ToSet(bars') : t < c.t
    <3>1. PICK b \in ToSet(page.seq) : t = b.t
      BY DEF TimesOf, Times, Window!Times
    <3>. QED  BY <1>4, <3>1 DEF TimesOf, Times, Window!Times
  <2>. QED  BY <2>1, <2>2
<1>6. page.seq # <<>> => Base' = page.at
  <2>1. CASE page.at = now
    BY <2>1 DEF Base, ApplyReplace
  <2>2. CASE page.seq # <<>> /\ page.at # now
    <3>1. synced' = FALSE /\ missed' = now - page.at - 1
      BY <2>2 DEF ApplyReplace
    <3>. QED  BY <1>1, <1>2, <3>1 DEF Base
  <2>. QED  BY <2>1, <2>2
<1>7. ASSUME ~Clips(page), page.seq # <<>>
      PROVE  /\ TrueTo(bars', page.view, page.at)
             /\ page.at \in Traded[page.view] =>
                   \/ page.at \in TimesOf(bars')
                   \/ Len(bars') = Cap /\ \A c \in ToSet(bars') : page.at < c.t
  <2>1. page.at \in Nat
    BY <1>1, <1>2
  <2>2. /\ \A b \in ToSet(page.seq) : b.view = page.view /\ (b.t < page.at => b.closed)
        /\ \A a \in TimesOf(page.seq), t \in Traded[page.view] :
              a < t /\ t <= page.at => t \in TimesOf(page.seq)
        /\ \A t \in Traded[page.view] :
              page.at - PageSize < t /\ t <= page.at => t \in TimesOf(page.seq)
    BY <1>1, <1>2, <1>3, <1>7, <2>1, PageIsTrue
  <2>3. TrueTo(bars', page.view, page.at)
    <3>1. \A b \in ToSet(bars') : b.view = page.view /\ (b.t < page.at => b.closed)
      BY <1>4, <2>2
    <3>2. \A a \in TimesOf(bars'), t \in Traded[page.view] :
             a < t /\ t <= page.at => t \in TimesOf(page.seq)
      BY <1>5, <2>2
    <3>3. page.view \in View
      BY <1>2
    <3>4. \A t \in TimesOf(page.seq) :
             t \in TimesOf(bars') \/ \A c \in ToSet(bars') : t < c.t
      BY <1>5
    <3>. DEFINE new == bars'
                v == page.view
                base == page.at
                T == TimesOf(page.seq)
    <3>5. new \in Seq(Bar) /\ base \in Int /\ v \in View
      BY <1>4, <2>1, <3>3
    <3>6. /\ \A t \in T : t \in TimesOf(new) \/ \A c \in ToSet(new) : t < c.t
          /\ \A b \in ToSet(new) : b.view = v /\ (b.t < base => b.closed)
          /\ \A a \in TimesOf(new), t \in Traded[v] : a < t /\ t <= base => t \in T
      BY <3>1, <3>2, <3>4
    <3>7. TrueTo(new, v, base)
      <4>. HIDE DEF new, v, base, T
      <4>. QED  BY <3>5, <3>6, TrueLearnt
    <3>. QED  BY <3>7
  <2>4. page.at - PageSize < page.at /\ page.at <= page.at
    BY <2>1, Numbers
  <2>. QED  BY <1>5, <2>2, <2>3, <2>4
<1>8. ASSUME page.seq = <<>>
      PROVE  /\ \A v, base : TrueTo(bars', v, base)
             /\ ~synced'
  <2>1. ToSet(page.seq) = {}
    BY <1>1, <1>8, ElementsOf
  <2>2. ToSet(bars') = {} /\ TimesOf(bars') = {}
    BY <1>4, <2>1 DEF TimesOf, Times, Window!Times
  <2>. QED  BY <1>8, <2>2 DEF TrueTo, ApplyReplace
<1>9. ~crossed' => page.view = view
  <2>1. SUFFICES ASSUME ~crossed, ~crossed'
                 PROVE  page.view = view
    BY DEF ApplyReplace
  <2>. QED  BY <1>2, <2>1 DEF OneView
<1>10. /\ synced' => missed' = 0
       /\ synced' => page.at = now
       /\ clipped' <=> Clips(page)
  BY DEF ApplyReplace
<1>11. ~late' => missed' <= TailFetch - 2
  <2>1. missed' \in Int
    <3>1. now - page.at - 1 \in Int
      BY <1>1, <1>2
    <3>. QED  BY <3>1 DEF ApplyReplace
  <2>2. late' <=> missed' > TailFetch - 2
    BY DEF ApplyReplace
  <2>. QED  BY <2>1, <2>2, Numbers
<1>12. ASSUME ~crossed', ~clipped'
       PROVE  /\ TrueTo(bars', view, Base')
              /\ synced' /\ now \in Traded[view] => now \in TimesOf(bars')
  <2>1. CASE page.seq = <<>>
    BY <1>8, <2>1
  <2>2. CASE page.seq # <<>>
    <3>1. \A b \in ToSet(bars') : Window!Existed(b, now)
      BY DEF CandlesTyped, BarsTyped
    <3>2. TrueTo(bars', view, Base')
      BY <1>6, <1>7, <1>9, <1>10, <1>12, <2>2
    <3>3. synced' /\ now \in Traded[view] =>
             \/ now \in TimesOf(bars')
             \/ Len(bars') = Cap /\ \A c \in ToSet(bars') : now < c.t
      BY <1>7, <1>9, <1>10, <1>12, <2>2
    <3>. QED  BY <1>4, <3>1, <3>2, <3>3, NowStays DEF CandlesTyped
  <2>. QED  BY <2>1, <2>2
<1>. QED  BY <1>10, <1>11, <1>12 DEF TruthHeld, TrueTo

\* An older page: it ends where the bars begin, or the full array keeps none
\* of it.
LEMMA TruthPrepend ==
  ASSUME CandlesTyped, CandlesTyped', OneView, PagesMeet, TruthHeld,
         NEW r \in Request, Busy(r), Settle(r),
         NEW page \in net[r].page, net[r].kind = "prepend", ApplyPrepend(page),
         now' = now, view' = view
  PROVE  TruthHeld'
<1>. DEFINE before == net[r].before
<1>1. /\ Reads(page, net[r].view, net[r].limit, net[r].before, page.at)
      /\ page.at \in 1..now /\ Asked(net[r], now) /\ before \in 0..page.at
      /\ page.seq \in Seq(Bar) /\ Increasing(page.seq)
      /\ bars \in Seq(Bar) /\ Increasing(bars)
      /\ Loading' <=> Loading
  BY ReplyFinds
<1>2. before # 0 /\ Prepending(r) /\ now \in Nat /\ net[r].view \in View
  BY <1>1, ClockIsNumber DEF Asked, Demand, Prepending, CandlesTyped
<1>3. LastOf(net[r].before, page.at) = before - 1
  BY <1>2 DEF LastOf
<1>4. \A b \in ToSet(page.seq) : b.t <= before - 1
  BY <1>1, <1>3 DEF Reads
<1>5. /\ crossed' = crossed /\ Base' = Base /\ synced' = synced /\ missed' = missed
      /\ late' = late /\ (clipped' <=> clipped \/ Clips(page))
  BY DEF ApplyPrepend, Base
<1>6. /\ bars' \in Seq(Bar) /\ Increasing(bars') /\ Len(bars') <= Cap
      /\ \A b \in ToSet(bars') : b \in ToSet(page.seq) \/ b \in ToSet(bars)
      /\ TimesOf(bars') \subseteq TimesOf(page.seq) \cup TimesOf(bars)
      /\ \A t \in TimesOf(page.seq) \cup TimesOf(bars) :
            \/ t \in TimesOf(bars')
            \/ Len(bars') = Cap /\ \A c \in ToSet(bars') : t < c.t
  <2>1. bars' = CapBars(MergeBars(page.seq, bars))
    BY DEF ApplyPrepend
  <2>2. \A b \in ToSet(bars') :
           \/ b \in ToSet(bars)
           \/ b \in ToSet(page.seq) /\ b.t \notin TimesOf(bars)
    BY <1>1, <2>1, Learnt
  <2>. QED  BY <1>1, <2>1, <2>2, Learnt
<1>7. SUFFICES ASSUME ~late, ~crossed, ~clipped, ~Clips(page), ~Loading
               PROVE  /\ TrueTo(bars', view, Base)
                      /\ synced /\ now \in Traded[view] => now \in TimesOf(bars')
  BY <1>1, <1>5 DEF TruthHeld, TrueTo
<1>8. /\ TrueTo(bars, view, Base)
      /\ synced /\ now \in Traded[view] => now \in TimesOf(bars)
      /\ net[r].view = view /\ Reaches(bars, before) /\ view \in View
  BY <1>2, <1>7 DEF TruthHeld, OneView, PagesMeet, CandlesTyped, NetTyped, ClockTyped
<1>9. Base \in Int /\ page.at \in Nat
  BY <1>1, <1>2 DEF Base, CandlesTyped, PastTyped
<1>10. /\ \A b \in ToSet(page.seq) : b.view = view /\ (b.t < page.at => b.closed)
       /\ \A a \in TimesOf(page.seq), t \in Traded[view] :
             a < t /\ t <= before - 1 => t \in TimesOf(page.seq)
  BY <1>1, <1>2, <1>3, <1>7, <1>8, <1>9, PageIsTrue
<1>11. \A b \in ToSet(bars') : b.view = view /\ (b.t < Base => b.closed)
  <2>1. ASSUME NEW b \in ToSet(page.seq)
        PROVE  b.t < page.at
    <3>1. b.t \in TimesOf(page.seq)
      BY DEF TimesOf, Times, Window!Times
    <3>2. b.t \in Int
      BY <1>1, <3>1, TimesAreNumbers
    <3>. QED  BY <1>1, <1>4, <1>9, <3>2
  <2>. QED  BY <1>6, <1>8, <1>10, <2>1 DEF TrueTo
<1>12. ASSUME NEW a \in TimesOf(bars'), NEW t \in Traded[view], a < t, t <= Base
       PROVE  t \in TimesOf(page.seq) \cup TimesOf(bars)
  <2>1. CASE a \in TimesOf(bars)
    BY <1>8, <1>12, <2>1 DEF TrueTo
  <2>2. CASE a \notin TimesOf(bars)
    <3>1. a \in TimesOf(page.seq)
      BY <1>6, <1>12, <2>2
    <3>2. a \in Int /\ t \in Int /\ a < before /\ before \in Int
      <4>1. PICK b \in ToSet(page.seq) : a = b.t
        BY <3>1 DEF TimesOf, Times, Window!Times
      <4>2. a \in Int /\ t \in Int /\ before \in Int
        BY <1>1, <1>8, <3>1, TimesAreNumbers, TradedTimes
      <4>. QED  BY <1>4, <4>1, <4>2
    <3>3. before \in TimesOf(bars)
      <4>1. SUFFICES ASSUME Len(bars) = Cap, \A u \in TimesOf(bars) : before < u
                     PROVE  FALSE
        BY <1>8 DEF Reaches
      <4>2. \/ TimesOf(bars') = TimesOf(bars)
            \/ \E s \in TimesOf(bars) : \A u \in TimesOf(bars') : s < u
        BY <1>1, <1>6, <4>1, FullStays
      <4>3. PICK s \in TimesOf(bars) : \A u \in TimesOf(bars') : s < u
        BY <1>12, <2>2, <4>2
      <4>4. before < s /\ s < a /\ s \in Int
        BY <1>1, <1>12, <4>1, <4>3, TimesAreNumbers
      <4>. QED  BY <3>2, <4>4
    <3>4. CASE t <= before - 1
      BY <1>10, <1>12, <3>1, <3>4
    <3>5. CASE t = before
      BY <3>3, <3>5
    <3>6. CASE before < t
      BY <1>8, <1>12, <3>3, <3>6 DEF TrueTo
    <3>. QED  BY <3>2, <3>4, <3>5, <3>6
  <2>. QED  BY <2>1, <2>2
<1>13. TrueTo(bars', view, Base)
  BY <1>6, <1>8, <1>9, <1>11, <1>12, TrueLearnt
<1>14. synced /\ now \in Traded[view] => now \in TimesOf(bars')
  <2>1. \A b \in ToSet(bars') : Window!Existed(b, now)
    BY DEF CandlesTyped, BarsTyped
  <2>. QED  BY <1>6, <1>8, <2>1, NowStays DEF CandlesTyped
<1>. QED  BY <1>13, <1>14

\* A tail: it reaches back to where the bars were last true.
LEMMA TruthTail ==
  ASSUME CandlesTyped, CandlesTyped', OneView, TruthHeld,
         NEW r \in Request, Busy(r), Settle(r),
         NEW page \in net[r].page, net[r].kind = "merge", ApplyTail(page),
         now' = now, view' = view
  PROVE  TruthHeld'
<1>1. /\ Reads(page, net[r].view, net[r].limit, net[r].before, page.at)
      /\ page.at \in 1..now /\ Asked(net[r], now)
      /\ page.seq \in Seq(Bar) /\ Increasing(page.seq)
      /\ bars \in Seq(Bar) /\ Increasing(bars)
      /\ Loading' <=> Loading
  BY ReplyFinds
<1>2. /\ net[r].before = 0 /\ net[r].limit = TailFetch /\ now \in Nat /\ missed \in Nat
      /\ net[r].view \in View
  BY <1>1, ClockIsNumber DEF Asked, Demand, CandlesTyped, PastTyped
<1>3. LastOf(net[r].before, page.at) = page.at
  BY <1>2 DEF LastOf
<1>4. clipped' <=> clipped \/ Clips(page)
  BY DEF ApplyTail
<1>5. CASE page.seq = <<>>
  <2>1. /\ bars' = bars /\ synced' = synced /\ missed' = missed /\ late' = late
        /\ crossed' = crossed
    BY <1>5 DEF ApplyTail
  <2>. QED  BY <1>1, <1>4, <2>1, TruthKept
<1>6. ASSUME page.seq # <<>>, bars' = CapBars(MergeBars(bars, page.seq)), crossed' = crossed,
             NEW base \in Int, base <= page.at,
             ~late, ~crossed, ~clipped, ~Clips(page), ~Loading,
             \A t \in Traded[view] :
                /\ t < base => t < Base \/ t \in TimesOf(page.seq)
                /\ t <= base => t <= Base \/ t \in TimesOf(page.seq)
      PROVE  TrueTo(bars', view, base)
  <2>1. /\ bars' \in Seq(Bar)
        /\ \A b \in ToSet(bars') :
              \/ b \in ToSet(page.seq)
              \/ b \in ToSet(bars) /\ b.t \notin TimesOf(page.seq)
        /\ TimesOf(bars') \subseteq TimesOf(bars) \cup TimesOf(page.seq)
        /\ \A t \in TimesOf(bars) \cup TimesOf(page.seq) :
              \/ t \in TimesOf(bars')
              \/ Len(bars') = Cap /\ \A c \in ToSet(bars') : t < c.t
    BY <1>1, <1>6, Learnt
  <2>2. TrueTo(bars, view, Base) /\ net[r].view = view /\ view \in View
    BY <1>6 DEF TruthHeld, OneView, CandlesTyped, ClockTyped
  <2>3. page.at \in Nat
    BY <1>1, <1>2
  <2>4. /\ \A b \in ToSet(page.seq) : b.view = view /\ (b.t < page.at => b.closed)
        /\ \A a \in TimesOf(page.seq), t \in Traded[view] :
              a < t /\ t <= page.at => t \in TimesOf(page.seq)
    BY <1>1, <1>2, <1>3, <1>6, <2>2, <2>3, PageIsTrue
  <2>5. \A t \in Traded[view] : t \in Int
    BY <2>2, TradedTimes
  <2>6. ASSUME NEW b \in ToSet(bars')
        PROVE  b.view = view /\ (b.t < base => b.closed)
    <3>1. CASE b \in ToSet(page.seq)
      <4>1. b.t \in TimesOf(page.seq)
        BY <3>1 DEF TimesOf, Times, Window!Times
      <4>2. b.t \in Int
        BY <1>1, <4>1, TimesAreNumbers
      <4>3. b.t < base => b.t < page.at
        BY <1>6, <2>3, <4>2
      <4>. QED  BY <2>4, <3>1, <4>3
    <3>2. CASE b \in ToSet(bars) /\ b.t \notin TimesOf(page.seq)
      <4>1. b.view = view /\ b.t \in Traded[view]
        BY <2>2, <3>2 DEF TrueTo, CandlesTyped, BarsTyped, Window!Existed
      <4>. QED  BY <1>6, <2>2, <3>2, <4>1 DEF TrueTo
    <3>. QED  BY <2>1, <2>6, <3>1, <3>2
  <2>7. ASSUME NEW a \in TimesOf(bars'), NEW t \in Traded[view], a < t, t <= base
        PROVE  t \in TimesOf(bars) \cup TimesOf(page.seq)
    <3>1. CASE a \in TimesOf(page.seq)
      <4>1. t <= page.at
        BY <1>6, <2>3, <2>5, <2>7
      <4>. QED  BY <2>4, <2>7, <3>1, <4>1
    <3>2. CASE a \in TimesOf(bars)
      BY <1>6, <2>2, <2>7, <3>2 DEF TrueTo
    <3>. QED  BY <2>1, <2>7, <3>1, <3>2
  <2>. QED  BY <1>6, <2>1, <2>2, <2>6, <2>7, TrueLearnt
<1>7. CASE page.seq # <<>> /\ page.at = now
  <2>1. /\ synced' = TRUE /\ missed' = 0 /\ late' = late /\ crossed' = crossed
        /\ Base' = now /\ bars' = CapBars(MergeBars(bars, page.seq))
    BY <1>7 DEF ApplyTail, Base
  <2>2. SUFFICES ASSUME ~late, ~crossed, ~clipped, ~Clips(page), ~Loading
                 PROVE  /\ TrueTo(bars', view, now)
                        /\ now \in Traded[view] => now \in TimesOf(bars')
    <3>1. 0 <= TailFetch - 2
      BY Numbers
    <3>. QED  BY <1>1, <1>4, <2>1, <3>1 DEF TruthHeld, TrueTo
  <2>3. net[r].view = view /\ view \in View
    BY <2>2 DEF OneView, CandlesTyped, ClockTyped
  <2>4. \A t \in Traded[view] : now - TailFetch < t /\ t <= now => t \in TimesOf(page.seq)
    BY <1>1, <1>2, <1>3, <1>7, <2>2, <2>3, PageIsTrue
  <2>5. now - TailFetch + 1 <= Base /\ Base \in Int
    <3>1. missed <= TailFetch - 2
      BY <2>2 DEF TruthHeld
    <3>2. now - TailFetch + 1 <= now - missed - 1 /\ now - TailFetch + 1 <= now
      BY <1>2, <3>1, Numbers
    <3>. QED  BY <1>2, <3>2 DEF Base
  <2>6. ASSUME NEW t \in Traded[view], t <= now, ~(t < Base)
        PROVE  t \in TimesOf(page.seq)
    <3>1. t \in Int
      BY <2>3, TradedTimes
    <3>2. now - TailFetch < t
      BY <1>2, <2>5, <2>6, <3>1, Numbers
    <3>. QED  BY <2>4, <2>6, <3>2
  <2>7. TrueTo(bars', view, now)
    <3>1. \A t \in Traded[view] : t \in Int
      BY <2>3, TradedTimes
    <3>2. \A t \in Traded[view] :
             /\ t < now => t < Base \/ t \in TimesOf(page.seq)
             /\ t <= now => t <= Base \/ t \in TimesOf(page.seq)
      BY <1>2, <2>5, <2>6, <3>1
    <3>3. now \in Int /\ now <= page.at
      BY <1>2, <1>7
    <3>. QED  BY <1>6, <1>7, <2>1, <2>2, <3>2, <3>3
  <2>8. now \in Traded[view] => now \in TimesOf(bars')
    <3>1. SUFFICES ASSUME now \in Traded[view]
                   PROVE  now \in TimesOf(bars')
      OBVIOUS
    <3>2. now \in TimesOf(page.seq)
      BY <1>2, <2>4, <3>1, Numbers
    <3>3. bars' \in Seq(Bar) /\ \A b \in ToSet(bars') : Window!Existed(b, now)
      BY DEF CandlesTyped, BarsTyped
    <3>4. \/ now \in TimesOf(bars')
          \/ Len(bars') = Cap /\ \A c \in ToSet(bars') : now < c.t
      BY <1>1, <2>1, <3>2, Learnt
    <3>. QED  BY <3>3, <3>4, NowStays DEF CandlesTyped
  <2>. QED  BY <2>7, <2>8
<1>8. CASE page.seq # <<>> /\ page.at # now
  <2>1. Keep(MergeBars(bars, page.seq), now - page.at)
    BY <1>8 DEF ApplyTail
  <2>2. now - page.at \in Nat /\ now - page.at # 0 /\ now - (now - page.at) = page.at
    BY <1>1, <1>2, <1>8
  <2>3. /\ Base \in Int /\ Base' \in Int /\ Base' <= Base /\ Base' <= page.at
        /\ ~late' => ~late /\ missed' <= TailFetch - 2
    <3>1. Base' <= now - (now - page.at)
      BY <2>1, <2>2, KeepBase DEF CandlesTyped
    <3>. QED  BY <2>1, <2>2, <3>1, KeepBase DEF CandlesTyped
  <2>4. ~synced' /\ crossed' = crossed /\ bars' = CapBars(MergeBars(bars, page.seq))
    BY <2>1, <2>2 DEF Keep
  <2>5. ASSUME ~late, ~crossed, ~clipped, ~Clips(page), ~Loading
        PROVE  TrueTo(bars', view, Base')
    <3>1. \A t \in Traded[view] : t \in Int
      BY TradedTimes DEF CandlesTyped, ClockTyped
    <3>2. \A t \in Traded[view] :
             /\ t < Base' => t < Base \/ t \in TimesOf(page.seq)
             /\ t <= Base' => t <= Base \/ t \in TimesOf(page.seq)
      BY <2>3, <3>1
    <3>. QED  BY <1>6, <1>8, <2>3, <2>4, <2>5, <3>2
  <2>. QED  BY <1>1, <1>4, <2>3, <2>4, <2>5 DEF TruthHeld, TrueTo
<1>. QED  BY <1>5, <1>7, <1>8

\* A load that fails empties the chart.
LEMMA TruthFailLoad ==
  ASSUME NEW r \in Request, FailLoad(r)
  PROVE  TruthHeld'
<1>1. /\ synced' = FALSE /\ missed' = 0 /\ bars' = <<>>
      /\ 0 <= TailFetch - 2
  BY Numbers DEF FailLoad
<1>2. ToSet(bars') = {} /\ TimesOf(bars') = {}
  <2>1. <<>> \in Seq(Bar)
    BY EmptySeq
  <2>2. ToSet(bars') = {}
    BY <1>1, <2>1, ElementsOf
  <2>. QED  BY <2>2 DEF TimesOf, Times, Window!Times
<1>3. \A v, base : TrueTo(bars', v, base)
  BY <1>2 DEF TrueTo
<1>. QED  BY <1>1, <1>3 DEF TruthHeld, TrueTo

LEMMA TruthNext ==
  ASSUME CandlesTyped, CandlesTyped', OneView, PagesMeet, TruthHeld, CandlesNext
  PROVE  TruthHeld'
<1>1. CASE OpenBar
  BY <1>1, TruthOpenBar
<1>2. CASE PublishTick \/ ReceiveTick
  <2>1. net' = net
    BY <1>2 DEF PublishTick, ReceiveTick
  <2>. QED  BY <1>2, <2>1, TruthKept DEF PublishTick, ReceiveTick, candles, past, Loading
<1>3. CASE Render
  BY <1>3, TruthRender
<1>4. CASE RefreshTail
  <2>1. 0 \in 0..now /\ now' = now /\ loadingMore' = loadingMore
    BY <1>4, ClockIsNumber DEF RefreshTail, CandlesTyped, candles
  <2>2. PICK r \in Request :
           /\ ~Busy(r) /\ net'[r].kind = "merge"
           /\ \A q \in Request \ {r} : net'[q] = net[q]
    BY <1>4, <2>1, NetAsked DEF CandlesTyped, ClockTyped, RefreshTail
  <2>3. Loading' <=> Loading
    BY <2>2, KindsAsked
  <2>. QED  BY <1>4, <2>3, TruthKept DEF RefreshTail, candles, past
<1>5. CASE LoadMoreOlder
  <2>1. OldestTime(bars) \in 0..now /\ OldestTime(bars) # 0 /\ now' = now
    BY <1>5, OldestTold, ClockIsNumber DEF LoadMoreOlder, CandlesTyped
  <2>2. PICK r \in Request :
           /\ ~Busy(r) /\ net'[r].kind = "prepend"
           /\ \A q \in Request \ {r} : net'[q] = net[q]
    BY <1>5, <2>1, NetAsked DEF CandlesTyped, ClockTyped, LoadMoreOlder
  <2>3. Loading' <=> Loading
    BY <2>2, KindsAsked
  <2>. QED  BY <1>5, <2>3, TruthKept DEF LoadMoreOlder
<1>6. CASE Reload
  <2>1. 0 \in 0..now /\ now' = now /\ loadingMore' = loadingMore
    BY <1>6, ClockIsNumber DEF Reload, CandlesTyped
  <2>2. PICK r \in Request :
           /\ ~Busy(r) /\ net'[r].kind = "replace"
           /\ \A q \in Request \ {r} : net'[q] = net[q]
    BY <1>6, <2>1, NetAsked DEF CandlesTyped, ClockTyped, Reload
  <2>3. Loading'
    BY <2>2, KindsAsked
  <2>. QED  BY <1>6, <2>3, TruthKept DEF Reload
<1>7. ASSUME NEW v \in View, SwitchView(v)
      PROVE  TruthHeld'
  <2>1. 0 \in 0..now /\ now' = now /\ loadingMore' = loadingMore
    BY <1>7, ClockIsNumber DEF SwitchView, CandlesTyped
  <2>2. PICK r \in Request :
           /\ ~Busy(r) /\ net'[r].kind = "replace"
           /\ \A q \in Request \ {r} : net'[q] = net[q]
    BY <1>7, <2>1, NetAsked DEF CandlesTyped, SwitchView
  <2>3. Loading'
    BY <2>2, KindsAsked
  <2>4. synced' = FALSE /\ missed' = missed /\ late' = late
    BY <1>7 DEF SwitchView
  <2>. QED  BY <2>3, <2>4 DEF TruthHeld
<1>8. ASSUME NEW r \in Request, Answer(r)
      PROVE  TruthHeld'
  <2>1. Loading' <=> Loading
    BY <1>8, KindsAnswered DEF CandlesTyped
  <2>. QED  BY <1>8, <2>1, TruthKept DEF Answer, candles, past
<1>9. ASSUME NEW r \in Request, Resolve(r)
      PROVE  TruthHeld'
  <2>1. PICK page \in net[r].page :
           \/ net[r].kind = "replace" /\ ApplyReplace(r, page)
           \/ net[r].kind = "prepend" /\ ApplyPrepend(page)
           \/ net[r].kind = "merge" /\ ApplyTail(page)
    BY <1>9 DEF Resolve
  <2>2. Busy(r) /\ Settle(r) /\ now' = now /\ view' = view
    BY <1>9 DEF Resolve
  <2>. QED  BY <2>1, <2>2, TruthReplace, TruthPrepend, TruthTail
<1>10. ASSUME NEW r \in Request, Reject(r)
       PROVE  TruthHeld'
  <2>1. CASE FailLoad(r)
    BY <2>1, TruthFailLoad
  <2>2. CASE FailMore(r) \/ FailTail(r)
    <3>1. Loading' <=> Loading
      BY <1>10, <2>2, KindsSettled DEF Reject, FailMore, FailTail, CandlesTyped
    <3>. QED  BY <1>10, <2>2, <3>1, TruthKept DEF Reject, FailMore, FailTail, candles, past
  <2>. QED  BY <1>10, <2>1, <2>2 DEF Reject
<1>. QED
  BY <1>1, <1>2, <1>3, <1>4, <1>5, <1>6, <1>7, <1>8, <1>9, <1>10 DEF CandlesNext

-----------------------------------------------------------------------------
(* The theorems.                                                           *)

CandlesHold == CandlesTyped /\ OneView /\ PagesMeet /\ TruthHeld

LEMMA CandlesHoldStuttering ==
  ASSUME CandlesHold, UNCHANGED vars
  PROVE  CandlesHold'
<1>1. /\ now' = now /\ view' = view /\ bars' = bars /\ hasMore' = hasMore
      /\ loadingMore' = loadingMore /\ failed' = failed
      /\ lastTick' = lastTick /\ stirred' = stirred /\ wire' = wire
      /\ net' = net /\ due' = due /\ moves' = moves
      /\ synced' = synced /\ missed' = missed /\ late' = late
      /\ crossed' = crossed /\ clipped' = clipped
  BY DEF vars, candles, feed, past
<1>2. CandlesTyped'
  BY <1>1 DEF CandlesHold, CandlesTyped, ClockTyped, PastTyped, BarsTyped, FeedTyped,
              NetTyped, Prepending
<1>3. OneView' /\ PagesMeet'
  BY <1>1 DEF CandlesHold, OneView, PagesMeet, Reaches, Prepending,
              Busy, Loading
<1>4. TruthHeld'
  BY <1>1 DEF CandlesHold, TruthHeld, TrueTo, Base, Loading
<1>. QED  BY <1>2, <1>3, <1>4 DEF CandlesHold

LEMMA CandlesHoldAlways == CandlesSpec => []CandlesHold
<1>1. ASSUME CandlesInit PROVE CandlesHold
  BY <1>1, TypedInit, OneViewInit, PagesMeetInit, TruthInit DEF CandlesHold
<1>2. ASSUME CandlesHold, [CandlesNext]_vars PROVE CandlesHold'
  <2>1. CASE CandlesNext
    <3>1. CandlesTyped'
      BY <1>2, <2>1, TypedNext DEF CandlesHold
    <3>. QED  BY <1>2, <2>1, <3>1, OneViewNext, PagesMeetNext, TruthNext
              DEF CandlesHold
  <2>2. CASE UNCHANGED vars
    BY <1>2, <2>2, CandlesHoldStuttering
  <2>. QED  BY <1>2, <2>1, <2>2
<1>. QED  BY <1>1, <1>2, PTL DEF CandlesSpec

LEMMA TypedIsTypeOK ==
  ASSUME CandlesTyped
  PROVE  CandlesTypeOK
<1>1. /\ now \in Start..MaxNow /\ view \in View
      /\ moves \in 0..MaxMoves /\ missed \in Nat
      /\ {hasMore, failed, stirred, due} \subseteq BOOLEAN
      /\ wire \in Seq(Bar) /\ Len(wire) <= MaxWire
      /\ bars \in Seq(Bar) /\ Len(bars) <= Cap
  BY DEF CandlesTyped, ClockTyped, PastTyped, BarsTyped, FeedTyped
<1>2. \A i \in 1..Len(bars) - 1 : bars[i].t < bars[i + 1].t
  <2>1. Len(bars) \in Nat
    BY <1>1, ElementsOf
  <2>2. \A i \in 1..Len(bars) - 1 : i \in 1..Len(bars) /\ i + 1 \in 1..Len(bars) /\ i < i + 1
    BY <2>1
  <2>. QED  BY <2>2 DEF CandlesTyped, BarsTyped, Increasing
<1>3. lastTick \subseteq Bar /\ Cardinality(lastTick) <= 1
  <2>1. Cardinality(lastTick) \in {0, 1}
    BY FS_EmptySet, FS_Singleton DEF CandlesTyped, FeedTyped
  <2>. QED  BY <2>1 DEF CandlesTyped, FeedTyped
<1>4. ASSUME NEW r \in Request, Busy(r)
      PROVE  /\ net[r].kind \in {"replace", "prepend", "merge"}
             /\ net[r].page \subseteq Page
  BY <1>4, BusyAsks DEF CandlesTyped, Demand
<1>5. loadingMore = (\E r \in Request : net[r].kind = "prepend")
  BY DEF CandlesTyped, NetTyped, Prepending
<1>6. Cardinality({r \in Request : net[r].kind = "prepend"}) <= 1
  <2>. DEFINE P == {r \in Request : net[r].kind = "prepend"}
  <2>1. \A r, q \in P : r = q
    BY DEF CandlesTyped, NetTyped, Prepending
  <2>2. P = {} \/ \E r : P = {r}
    <3>1. SUFFICES ASSUME NEW r \in P
                   PROVE  P = {r}
      OBVIOUS
    <3>. QED  BY <2>1
  <2>. HIDE DEF P
  <2>3. Cardinality(P) \in {0, 1}
    BY <2>2, FS_EmptySet, FS_Singleton
  <2>4. Cardinality(P) <= 1
    BY <2>3
  <2>. QED  BY <2>4 DEF P
<1>. QED  BY <1>1, <1>2, <1>3, <1>4, <1>5, <1>6 DEF CandlesTypeOK

\* Whatever arrives in whatever order, the bars are in the order of their
\* times and no more than the cap, every tick and every page in flight is
\* one the market sent, and loadMoreOlder's flag says whether the one older
\* page there may be is on its way.
THEOREM CandlesTypeCorrect == CandlesSpec => []CandlesTypeOK
<1>1. CandlesHold => CandlesTypeOK
  BY TypedIsTypeOK DEF CandlesHold
<1>. QED  BY <1>1, CandlesHoldAlways, PTL

\* A chart whose tail has been applied in this minute is the market's, from
\* its oldest bar to the newest: see SyncedIsTrue.
THEOREM SyncedIsAlwaysTrue == CandlesSpec => []SyncedIsTrue
<1>1. ASSUME CandlesHold
      PROVE  SyncedIsTrue
  <2>1. SUFFICES ASSUME synced, ~late, ~crossed, ~clipped, ~Loading
                 PROVE  /\ now \in Traded[view] => now \in TimesOf(bars)
                        /\ \A b \in ToSet(bars) : b = MarketBar(view, b.t)
                        /\ \A b \in ToSet(bars) : \A t \in Traded[view] :
                              b.t < t /\ t <= now => t \in TimesOf(bars)
    BY DEF SyncedIsTrue, TimesOf
  <2>2. /\ TrueTo(bars, view, now)
        /\ now \in Traded[view] => now \in TimesOf(bars)
    BY <1>1, <2>1 DEF CandlesHold, TruthHeld, Base
  <2>3. /\ bars \in Seq(Bar) /\ \A b \in ToSet(bars) : Window!Existed(b, now)
        /\ now \in Nat
    BY <1>1, ClockIsNumber DEF CandlesHold, CandlesTyped, BarsTyped
  <2>4. \A b \in ToSet(bars) : b \in Bar /\ b.t \in Int /\ b.t <= now
    <3>1. \A b \in ToSet(bars) : b \in Bar
      BY <2>3, ElementsOf
    <3>. QED  BY <2>3, <3>1, Numbers DEF Bar, Window!Bar, Window!Existed
  <2>5. \A b \in ToSet(bars) : b.t \in TimesOf(bars)
    BY DEF TimesOf, Times, Window!Times
  <2>7. ASSUME NEW b \in ToSet(bars)
        PROVE  b = MarketBar(view, b.t)
    <3>1. b \in Bar /\ b.view = view /\ (b.closed <=> b.t < now)
      BY <2>2, <2>3, <2>4 DEF TrueTo, Window!Existed
    <3>2. b.closed \in BOOLEAN
      BY <3>1 DEF Bar, Window!Bar
    <3>3. b.closed = (b.t < now)
      BY <3>1, <3>2
    <3>4. b = [view |-> b.view, t |-> b.t, closed |-> b.closed]
      BY <3>1 DEF Bar, Window!Bar
    <3>. QED  BY <3>1, <3>3, <3>4 DEF MarketBar
  <2>. QED  BY <2>2, <2>5, <2>7 DEF TrueTo
<1>. QED  BY <1>1, CandlesHoldAlways, PTL

-----------------------------------------------------------------------------
(* The array of bars is a CandleWindow.                                    *)

\* The window counts as everybody does.
LEMMA WindowCounts == \A S : Window!Cardinality(S) = Cardinality(S)
BY DEF Window!Cardinality, Cardinality, Window!IsFiniteSet, IsFiniteSet

\* The bars held are always ones the window may hold.
LEMMA BarsAreSound ==
  ASSUME NEW seq \in Seq(Bar), Increasing(seq), Len(seq) <= Cap, NEW n,
         \A b \in ToSet(seq) : Window!Existed(b, n)
  PROVE  Window!Sound(ToSet(seq), n)
<1>1. /\ OnePerTime(ToSet(seq)) /\ IsFiniteSet(ToSet(seq))
      /\ Cardinality(ToSet(seq)) = Len(seq) /\ ToSet(seq) \in SUBSET Bar
  BY IncreasingElements, ElementsOf
<1>2. Cardinality(Window!Times(ToSet(seq))) = Cardinality(ToSet(seq))
  <2>1. Cardinality(Times(ToSet(seq))) = Cardinality(ToSet(seq))
    BY <1>1, TimesCount
  <2>. QED  BY <2>1 DEF Times
<1>3. Cardinality(ToSet(seq)) <= Cap
  BY <1>1
<1>. QED  BY <1>2, <1>3, WindowCounts DEF Window!Sound

LEMMA LearnStep ==
  ASSUME CandlesTyped', now' = now,
         \A t \in TimesOf(bars) :
            \/ t \in TimesOf(bars')
            \/ Len(bars') = Cap /\ \A c \in ToSet(bars') : t < c.t
  PROVE  Window!Learn
<1>1. Window!Sound(ToSet(bars'), now)
  BY BarsAreSound DEF CandlesTyped, BarsTyped
<1>2. Cardinality(ToSet(bars')) = Len(bars')
  BY IncreasingElements DEF CandlesTyped, BarsTyped
<1>3. ASSUME NEW b \in ToSet(bars)
      PROVE  \/ b.t \in Window!Times(ToSet(bars'))
             \/ Cardinality(ToSet(bars')) = Cap /\ \A c \in ToSet(bars') : b.t < c.t
  <2>1. b.t \in TimesOf(bars)
    BY DEF TimesOf, Times, Window!Times
  <2>2. TimesOf(bars') = Window!Times(ToSet(bars'))
    BY DEF TimesOf, Times
  <2>. QED  BY <1>2, <2>1, <2>2
<1>. QED  BY <1>1, <1>3, WindowCounts DEF Window!Learn

LEMMA LoadStep ==
  ASSUME CandlesTyped', now' = now,
         Window!Unbroken(ToSet(bars')),
         \A b, c \in ToSet(bars') : b.view = c.view
  PROVE  Window!Load
<1>1. Window!Sound(ToSet(bars'), now)
  BY BarsAreSound DEF CandlesTyped, BarsTyped
<1>. QED  BY <1>1 DEF Window!Load

LEMMA WindowStep ==
  ASSUME CandlesTyped, CandlesTyped', CandlesNext
  PROVE  [Window!WindowNext]_<<now, ToSet(bars)>>
<1>1. CASE OpenBar
  <2>1. Window!Open
    BY <1>1 DEF OpenBar, candles, Window!Open
  <2>. QED  BY <2>1 DEF Window!WindowNext
<1>2. CASE bars' = bars /\ now' = now
  BY <1>2
<1>3. CASE bars' = CapBars(WithTick) /\ now' = now
  <2>1. Window!Learn
    BY <1>3, TickLearnt, LearnStep
  <2>. QED  BY <2>1 DEF Window!WindowNext
<1>4. ASSUME NEW r \in Request, Resolve(r)
      PROVE  [Window!WindowNext]_<<now, ToSet(bars)>>
  <2>1. PICK page \in net[r].page :
           \/ net[r].kind = "replace" /\ ApplyReplace(r, page)
           \/ net[r].kind = "prepend" /\ ApplyPrepend(page)
           \/ net[r].kind = "merge" /\ ApplyTail(page)
    BY <1>4 DEF Resolve
  <2>2. Busy(r) /\ Settle(r) /\ now' = now
    BY <1>4 DEF Resolve
  <2>3. /\ Reads(page, net[r].view, net[r].limit, net[r].before, page.at)
        /\ page.at \in 1..now /\ Asked(net[r], now)
        /\ bars \in Seq(Bar) /\ Increasing(bars)
        /\ page.seq \in Seq(Bar) /\ Increasing(page.seq)
    BY <2>2, ReplyFinds
  <2>4. ASSUME net[r].kind = "replace", ApplyReplace(r, page)
        PROVE  Window!Load
    <3>1. bars' = CapBars(page.seq)
      BY <2>4 DEF ApplyReplace
    <3>2. /\ ToSet(bars') \subseteq ToSet(page.seq)
          /\ \A b \in ToSet(page.seq) :
                b \in ToSet(bars') \/ \A c \in ToSet(bars') : b.t < c.t
      BY <2>3, <3>1, Capped
    <3>3. /\ \A b \in ToSet(page.seq) :
                /\ b.view = net[r].view /\ b.t <= LastOf(net[r].before, page.at)
                /\ b.t \in Int /\ b.t \in TimesOf(page.seq)
          /\ \A a \in TimesOf(page.seq), t \in Traded[net[r].view] :
                a < t /\ t <= LastOf(net[r].before, page.at) => t \in TimesOf(page.seq)
          /\ LastOf(net[r].before, page.at) \in Int
      <4>1. \A b \in ToSet(page.seq) : b.t \in TimesOf(page.seq)
        BY DEF TimesOf, Times, Window!Times
      <4>. QED  BY <2>3, <4>1, TimesAreNumbers DEF Reads
    <3>4. ASSUME NEW b \in ToSet(bars'), NEW c \in ToSet(bars'),
                 NEW t \in Traded[b.view], b.t < t, t < c.t
          PROVE  t \in Window!Times(ToSet(bars'))
      <4>1. t \in Int /\ b.view = net[r].view
        <5>1. b.view = net[r].view /\ net[r].view \in View
          BY <2>3, <3>2, <3>3 DEF Asked, Demand
        <5>. QED  BY <5>1, TradedTimes
      <4>2. t <= LastOf(net[r].before, page.at)
        <5>1. c.t <= LastOf(net[r].before, page.at) /\ c.t \in Int
          BY <3>2, <3>3
        <5>. QED  BY <3>3, <3>4, <4>1, <5>1
      <4>3. t \in TimesOf(page.seq)
        BY <3>2, <3>3, <3>4, <4>1, <4>2
      <4>4. PICK d \in ToSet(page.seq) : t = d.t
        BY <4>3 DEF TimesOf, Times, Window!Times
      <4>5. ~(d.t < b.t)
        BY <3>2, <3>3, <3>4, <4>1, <4>4
      <4>6. d \in ToSet(bars')
        BY <3>2, <4>5
      <4>. QED  BY <4>4, <4>6 DEF Window!Times
    <3>5. Window!Unbroken(ToSet(bars'))
      BY <3>4 DEF Window!Unbroken
    <3>6. \A b, c \in ToSet(bars') : b.view = c.view
      BY <3>2, <3>3
    <3>. QED  BY <2>2, <3>5, <3>6, LoadStep
  <2>5. CASE bars' = CapBars(MergeBars(page.seq, bars))
    <3>1. \A t \in TimesOf(bars) :
             \/ t \in TimesOf(bars')
             \/ Len(bars') = Cap /\ \A c \in ToSet(bars') : t < c.t
      BY <2>3, <2>5, Learnt
    <3>2. Window!Learn
      BY <2>2, <3>1, LearnStep
    <3>. QED  BY <3>2 DEF Window!WindowNext
  <2>6. CASE bars' = CapBars(MergeBars(bars, page.seq))
    <3>1. \A t \in TimesOf(bars) :
             \/ t \in TimesOf(bars')
             \/ Len(bars') = Cap /\ \A c \in ToSet(bars') : t < c.t
      BY <2>3, <2>6, Learnt
    <3>2. Window!Learn
      BY <2>2, <3>1, LearnStep
    <3>. QED  BY <3>2 DEF Window!WindowNext
  <2>. QED  BY <2>1, <2>2, <2>4, <2>5, <2>6 DEF ApplyPrepend, ApplyTail, Keep, Window!WindowNext
<1>5. ASSUME NEW r \in Request, Reject(r)
      PROVE  [Window!WindowNext]_<<now, ToSet(bars)>>
  <2>1. now' = now
    BY <1>5 DEF Reject
  <2>2. CASE FailLoad(r)
    <3>1. bars' = <<>>
      BY <2>2 DEF FailLoad
    <3>2. ToSet(bars') = {}
      BY <3>1, ElementsOf DEF CandlesTyped, BarsTyped
    <3>3. Window!Unbroken(ToSet(bars'))
      BY <3>2 DEF Window!Unbroken
    <3>4. Window!Load
      BY <2>1, <3>2, <3>3, LoadStep
    <3>. QED  BY <3>4 DEF Window!WindowNext
  <2>3. CASE FailMore(r) \/ FailTail(r)
    BY <2>1, <2>3 DEF FailMore, FailTail, candles
  <2>. QED  BY <1>5, <2>2, <2>3 DEF Reject
<1>6. CASE Render
  <2>1. now' = now /\ (bars' = bars \/ bars' = CapBars(WithTick))
    BY <1>6 DEF Render, TickEffect, Keep, CandlesTyped, FeedTyped
  <2>. QED  BY <1>2, <1>3, <2>1
<1>7. ASSUME NEW v \in View, SwitchView(v)
      PROVE  [Window!WindowNext]_<<now, ToSet(bars)>>
  <2>1. now' = now /\ (bars' = bars \/ bars' = CapBars(WithTick))
    BY <1>7 DEF SwitchView
  <2>. QED  BY <1>2, <1>3, <2>1
<1>8. CASE PublishTick \/ ReceiveTick \/ RefreshTail \/ LoadMoreOlder \/ Reload
  BY <1>2, <1>8 DEF PublishTick, ReceiveTick, RefreshTail, LoadMoreOlder, Reload, candles
<1>9. ASSUME NEW r \in Request, Answer(r)
      PROVE  [Window!WindowNext]_<<now, ToSet(bars)>>
  BY <1>2, <1>9 DEF Answer, candles
<1>. QED  BY <1>1, <1>4, <1>5, <1>6, <1>7, <1>8, <1>9 DEF CandlesNext

\* Every step of the chart is a step of the window: a bar opens, a load
\* replaces the bars by one unbroken page of one view, or bars are learnt and
\* none held is lost but the oldest of a full array.
THEOREM BarsAreWindow == CandlesSpec => IsCandleWindow
<1>1. ASSUME CandlesInit
      PROVE  Window!WindowInit
  <2>1. ToSet(bars) = {}
    BY <1>1, EmptySeq, TypedInit, ElementsOf DEF CandlesInit, CandlesTyped, BarsTyped
  <2>. QED  BY <1>1, <2>1 DEF CandlesInit, Window!WindowInit
<1>2. ASSUME CandlesHold, CandlesHold', [CandlesNext]_vars
      PROVE  [Window!WindowNext]_<<now, ToSet(bars)>>
  <2>1. CASE CandlesNext
    BY <1>2, <2>1, WindowStep DEF CandlesHold
  <2>2. CASE UNCHANGED vars
    BY <2>2 DEF vars, candles
  <2>. QED  BY <1>2, <2>1, <2>2
<1>. QED
  BY <1>1, <1>2, CandlesHoldAlways, PTL
     DEF CandlesSpec, IsCandleWindow, Window!WindowSpec

=============================================================================
