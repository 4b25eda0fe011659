-------------------------- MODULE ConservationProofs --------------------------
(***************************************************************************)
(* Money is conserved.  On chain, training credit is neither created nor   *)
(* lost by what owners do with vaults (AgentWallet), for any finite sets   *)
(* of addresses and wallets; on paper, the Training Ledger conserves what  *)
(* was put in and keeps its row consistent, for any finite set of pairs,   *)
(* any prices and budgets and any number of trades (TrainingLedger).  The  *)
(* two modules share no variable; their proofs share the lemmas on sums.   *)
(***************************************************************************)
EXTENDS AgentWalletProofs, TrainingLedger, FiniteSetTheorems, WellFoundedInduction

-----------------------------------------------------------------------------
(* Sums over finite sets.                                                  *)

Picked(s) == CHOOSE x \in s : TRUE

\* The sums of f over the subsets of S, as SumFunctionOnSet defines them.
SumsOf(f, S) ==
    CHOOSE g : g = [s \in SUBSET S |->
                      IF s = {} THEN 0 ELSE f[Picked(s)] + g[s \ {Picked(s)}]]

LEMMA SumIsOf == \A f, S : SumFunctionOnSet(f, S) = SumsOf(f, S)[S]
  BY DEF SumFunctionOnSet, FoldFunctionOnSet, MapThenFoldSet, SumsOf, Picked

\* Of some subsets of a finite set, one has the fewest elements.
LEMMA LeastSubset ==
    ASSUME NEW S, IsFiniteSet(S), NEW B \in SUBSET SUBSET S, B # {}
    PROVE  \E b \in B : \A c \in B : Cardinality(c) >= Cardinality(b)
<1> DEFINE T == {Cardinality(b) : b \in B}
<1>1. \A b \in B : Cardinality(b) \in Nat
  BY FS_Subset, FS_CardinalityType
<1>2. T \subseteq Nat /\ T # {}
  BY <1>1
<1>3. PICK x \in T : \A y \in T : ~ (<<y, x>> \in OpToRel(<, Nat))
  <2> HIDE DEF T
  <2> QED  BY <1>2, NatLessThanWellFounded, WFMin
<1>4. PICK b \in B : x = Cardinality(b)
  BY <1>3
<1>5. \A c \in B : ~(Cardinality(c) < x)
  BY <1>1, <1>2, <1>3 DEF OpToRel
<1> QED
  BY <1>1, <1>4, <1>5

\* An element less: a subset that is smaller by one.
LEMMA PickedOut ==
    ASSUME NEW S, IsFiniteSet(S), NEW s \in SUBSET S, s # {}
    PROVE  /\ Picked(s) \in s
           /\ s \ {Picked(s)} \in SUBSET S
           /\ Cardinality(s) \in Nat /\ Cardinality(s \ {Picked(s)}) = Cardinality(s) - 1
           /\ Cardinality(s \ {Picked(s)}) \in Nat
<1>1. Picked(s) \in s
  BY DEF Picked
<1>2. IsFiniteSet(s)
  BY FS_Subset
<1>3. Cardinality(s \ {Picked(s)}) = Cardinality(s) - 1
  BY <1>1, <1>2, FS_RemoveElement
<1>4. IsFiniteSet(s \ {Picked(s)})
  BY <1>2, FS_Subset
<1> QED
  BY <1>1, <1>2, <1>3, <1>4, FS_CardinalityType

\* The definition is a recursion that ends: it has a solution.
LEMMA SumsExist ==
    ASSUME NEW f, NEW S, IsFiniteSet(S)
    PROVE  \A s \in SUBSET S :
              SumsOf(f, S)[s] = IF s = {} THEN 0
                                ELSE f[Picked(s)] + SumsOf(f, S)[s \ {Picked(s)}]
<1> DEFINE Unfolded(g, s) == IF s = {} THEN 0 ELSE f[Picked(s)] + g[s \ {Picked(s)}]
           Upto(n) == \E g : \A s \in SUBSET S : Cardinality(s) <= n => g[s] = Unfolded(g, s)
           T == {n \in Nat : ~Upto(n)}
<1>1. \A s \in SUBSET S : IsFiniteSet(s) /\ Cardinality(s) \in Nat
  BY FS_Subset, FS_CardinalityType
<1>2. T = {}
  <2> SUFFICES ASSUME T # {} PROVE FALSE
    OBVIOUS
  <2>1. PICK n \in T : \A y \in T : ~ (<<y, n>> \in OpToRel(<, Nat))
    <3>1. T \subseteq Nat
      OBVIOUS
    <3> HIDE DEF T
    <3> QED  BY <3>1, NatLessThanWellFounded, WFMin
  <2>2. n \in Nat /\ ~Upto(n)
    OBVIOUS
  <2>3. CASE n = 0
    <3> DEFINE g == [s \in SUBSET S |-> 0]
    <3>1. \A s \in SUBSET S : Cardinality(s) <= n => g[s] = Unfolded(g, s)
      <4>1. \A s \in SUBSET S : Cardinality(s) <= n => s = {}
        BY <1>1, <2>3, FS_EmptySet
      <4> QED
        BY <4>1
    <3>2. Upto(n)
      <4> HIDE DEF g, Unfolded
      <4> QED
        BY <3>1
    <3> QED
      BY <2>2, <3>2
  <2>4. CASE n # 0
    <3>1. n - 1 \in Nat /\ n - 1 \notin T
      <4> HIDE DEF T
      <4>1. n - 1 \in Nat /\ n - 1 < n
        BY <2>2, <2>4
      <4>2. <<n - 1, n>> \in OpToRel(<, Nat)
        BY <2>2, <4>1 DEF OpToRel
      <4> QED
        BY <2>1, <4>1, <4>2
    <3>2. Upto(n - 1)
      BY <3>1
    <3> HIDE DEF T
    <3>3. PICK g : \A s \in SUBSET S : Cardinality(s) <= n - 1 => g[s] = Unfolded(g, s)
      BY <3>2
    <3> DEFINE h == [s \in SUBSET S |-> IF Cardinality(s) <= n - 1 THEN g[s] ELSE Unfolded(g, s)]
    <3>4. ASSUME NEW s \in SUBSET S, Cardinality(s) <= n  PROVE h[s] = Unfolded(h, s)
      <4>1. h[s] = Unfolded(g, s)
        BY <3>3
      <4>2. CASE s = {}
        BY <4>1, <4>2
      <4>3. CASE s # {}
        <5> DEFINE r == s \ {Picked(s)}
        <5>1. r \in SUBSET S /\ Cardinality(r) <= n - 1
          BY <1>1, <2>2, <3>4, <4>3, PickedOut
        <5>2. h[r] = g[r]
          <6> HIDE DEF r
          <6> QED
            BY <5>1
        <5> QED
          BY <4>1, <4>3, <5>2
      <4> QED
        BY <4>2, <4>3
    <3>5. Upto(n)
      <4> HIDE DEF h, Unfolded
      <4> QED
        BY <3>4
    <3> QED
      BY <2>2, <3>5
  <2> QED
    BY <2>3, <2>4
<1>3. Upto(Cardinality(S))
  BY <1>1, <1>2
<1>4. PICK g : \A s \in SUBSET S : g[s] = Unfolded(g, s)
  <2>1. \A s \in SUBSET S : Cardinality(s) <= Cardinality(S)
    BY FS_Subset
  <2> HIDE DEF Unfolded
  <2> QED
    BY <1>3, <2>1
<1> HIDE DEF T, Upto
<1> DEFINE h == [s \in SUBSET S |-> g[s]]
<1>5. h = [s \in SUBSET S |-> IF s = {} THEN 0 ELSE f[Picked(s)] + h[s \ {Picked(s)}]]
  <2>1. ASSUME NEW s \in SUBSET S
        PROVE  g[s] = IF s = {} THEN 0 ELSE f[Picked(s)] + h[s \ {Picked(s)}]
    <3>1. h[s \ {Picked(s)}] = g[s \ {Picked(s)}]
      <4>1. s \ {Picked(s)} \in SUBSET S
        OBVIOUS
      <4> QED
        BY <4>1
    <3> HIDE DEF h
    <3> QED
      BY <1>4, <3>1
  <2> DEFINE b(s) == IF s = {} THEN 0 ELSE f[Picked(s)] + h[s \ {Picked(s)}]
  <2>2. \A s \in SUBSET S : g[s] = b(s)
    BY <2>1
  <2>3. h = [s \in SUBSET S |-> b(s)]
    <3> HIDE DEF b
    <3> QED
      BY <2>2
  <2> QED
    BY <2>3
<1> HIDE DEF h
<1>6. \E k : k = [s \in SUBSET S |-> IF s = {} THEN 0 ELSE f[Picked(s)] + k[s \ {Picked(s)}]]
  BY <1>5
<1>7. SumsOf(f, S) = [s \in SUBSET S |->
          IF s = {} THEN 0 ELSE f[Picked(s)] + SumsOf(f, S)[s \ {Picked(s)}]]
  BY <1>6 DEF SumsOf
<1> QED
  BY <1>7

LEMMA SumsOfNothing ==
    ASSUME NEW f, NEW S, IsFiniteSet(S)
    PROVE  SumsOf(f, S)[{}] = 0
  BY SumsExist

\* Sums of integers, and what one argument more or less adds to them.
LEMMA SumsDiffer ==
    ASSUME NEW S, IsFiniteSet(S), NEW f, NEW g, NEW x,
           \A y \in S : f[y] \in Int /\ g[y] \in Int,
           \A y \in S \ {x} : g[y] = f[y]
    PROVE  \A s \in SUBSET S :
              /\ SumsOf(f, S)[s] \in Int
              /\ SumsOf(g, S)[s] = SumsOf(f, S)[s] + IF x \in s THEN g[x] - f[x] ELSE 0
<1> DEFINE F == SumsOf(f, S)
           G == SumsOf(g, S)
           Differ(s) == F[s] \in Int /\ G[s] = F[s] + IF x \in s THEN g[x] - f[x] ELSE 0
           B == {s \in SUBSET S : ~Differ(s)}
<1> SUFFICES ASSUME B # {} PROVE FALSE
  OBVIOUS
<1>1. PICK b \in B : \A c \in B : Cardinality(c) >= Cardinality(b)
  <2>1. B \in SUBSET SUBSET S
    OBVIOUS
  <2> HIDE DEF B
  <2> QED
    BY <2>1, LeastSubset
<1>2. b \in SUBSET S /\ ~Differ(b)
  OBVIOUS
<1>3. CASE b = {}
  <2>1. F[b] = 0 /\ G[b] = 0 /\ x \notin b
    BY <1>3, SumsOfNothing
  <2> HIDE DEF F, G
  <2> QED
    BY <1>2, <2>1
<1>4. CASE b # {}
  <2> DEFINE p == Picked(b)
             r == b \ {p}
  <2>1. /\ p \in b /\ r \in SUBSET S
        /\ Cardinality(b) \in Nat /\ Cardinality(r) = Cardinality(b) - 1
    BY <1>2, <1>4, PickedOut
  <2>2. F[b] = f[p] + F[r] /\ G[b] = g[p] + G[r]
    BY <1>2, <1>4, SumsExist
  <2>3. f[p] \in Int /\ g[p] \in Int /\ (p # x => g[p] = f[p])
    BY <1>2, <2>1
  <2> HIDE DEF F, G, p
  <2>4. Differ(r)
    <3>1. r \notin B
      <4> HIDE DEF B, r
      <4> QED
        BY <1>1, <2>1
    <3> QED
      BY <2>1, <3>1
  <2>5. Differ(b)
    <3>1. CASE p = x
      BY <1>2, <2>1, <2>2, <2>3, <2>4, <3>1
    <3>2. CASE p # x
      <4>1. x \in b <=> x \in r
        BY <3>2
      <4>2. CASE x \in b
        <5>1. g[x] \in Int /\ f[x] \in Int
          BY <1>2, <4>2
        <5> HIDE DEF r
        <5> QED
          BY <2>2, <2>3, <2>4, <3>2, <4>1, <4>2, <5>1
      <4>3. CASE x \notin b
        <5> HIDE DEF r
        <5> QED
          BY <2>2, <2>3, <2>4, <3>2, <4>1, <4>3
      <4> QED
        BY <4>2, <4>3
    <3> QED
      BY <3>1, <3>2
  <2> QED
    BY <1>2, <2>5
<1> QED
  BY <1>3, <1>4

\* The sum over all of S: of nothing, of integers, and after one change.
LEMMA SumOfNothing == ASSUME NEW f PROVE SumFunctionOnSet(f, {}) = 0
  BY SumIsOf, SumsOfNothing, FS_EmptySet

LEMMA SumChanges ==
    ASSUME NEW S, IsFiniteSet(S), NEW f \in [S -> Int], NEW g \in [S -> Int], NEW x \in S,
           \A y \in S \ {x} : g[y] = f[y]
    PROVE  SumFunction(f) \in Int /\ SumFunction(g) = SumFunction(f) + g[x] - f[x]
<1>1. SumFunction(f) = SumsOf(f, S)[S] /\ SumFunction(g) = SumsOf(g, S)[S]
  BY SumIsOf DEF SumFunction
<1>2. /\ SumsOf(f, S)[S] \in Int
      /\ SumsOf(g, S)[S] = SumsOf(f, S)[S] + IF x \in S THEN g[x] - f[x] ELSE 0
  BY SumsDiffer
<1>3. g[x] \in Int /\ f[x] \in Int
  OBVIOUS
<1> QED
  BY <1>1, <1>2, <1>3

LEMMA SumOfInts ==
    ASSUME NEW S, IsFiniteSet(S), NEW f \in [S -> Int]
    PROVE  SumFunction(f) \in Int
<1>1. SumFunction(f) = SumsOf(f, S)[S]
  BY SumIsOf DEF SumFunction
<1>2. SumsOf(f, S)[S] \in Int
  BY SumsDiffer
<1> QED
  BY <1>1, <1>2

LEMMA SumOfZeros ==
    ASSUME NEW S, IsFiniteSet(S)
    PROVE  SumFunction([x \in S |-> 0]) = 0
<1> DEFINE f == [x \in S |-> 0]
           F == SumsOf(f, S)
           B == {s \in SUBSET S : F[s] # 0}
<1>1. SumFunction(f) = F[S]
  BY SumIsOf DEF SumFunction
<1>2. B = {}
  <2> SUFFICES ASSUME B # {} PROVE FALSE
    OBVIOUS
  <2>1. PICK b \in B : \A c \in B : Cardinality(c) >= Cardinality(b)
    <3>1. B \in SUBSET SUBSET S
      OBVIOUS
    <3> HIDE DEF B
    <3> QED
      BY <3>1, LeastSubset
  <2>2. b \in SUBSET S /\ F[b] # 0
    OBVIOUS
  <2>3. b # {}
    BY <2>2, SumsOfNothing
  <2>4. /\ Picked(b) \in b /\ b \ {Picked(b)} \in SUBSET S
        /\ Cardinality(b) \in Nat /\ Cardinality(b \ {Picked(b)}) = Cardinality(b) - 1
    BY <2>2, <2>3, PickedOut
  <2>5. F[b \ {Picked(b)}] = 0
    <3> HIDE DEF F
    <3> QED
      BY <2>1, <2>4
  <2>6. F[b] = f[Picked(b)] + F[b \ {Picked(b)}]
    BY <2>2, <2>3, SumsExist
  <2> HIDE DEF F
  <2> QED
    BY <2>2, <2>4, <2>5, <2>6
<1> QED
  BY <1>1, <1>2

-----------------------------------------------------------------------------
(* Training credit on chain.                                               *)

\* The sums are over the same addresses and wallets in every state.
LEMMA CreditTyped ==
    ASSUME TypeOK
    PROVE  /\ IsFiniteSet(Address) /\ credit \in [Address -> Int]
           /\ IsFiniteSet(Wallet) /\ VaultCredit \in [Wallet -> Int]
           /\ SumFunction(credit) \in Int /\ SumFunction(VaultCredit) \in Int
           /\ minted \in Int
<1>1. IsFiniteSet(Address) /\ IsFiniteSet(Wallet)
  BY FiniteAssumption, FS_Union DEF Address
<1>2. credit \in [Address -> Int] /\ minted \in Int
  BY DEF TypeOK
<1>3. VaultCredit \in [Wallet -> Int]
  <2>1. \A w \in DOMAIN vault : vault[w].balance \in Int
    BY DEF TypeOK, Vault
  <2> QED
    BY <2>1 DEF VaultCredit
<1> QED
  BY <1>1, <1>2, <1>3, SumOfInts

\* What an amount more or less in one vault does to the credit of all vaults.
LEMMA BalanceChanges ==
    ASSUME TypeOK, NEW w \in DOMAIN vault, NEW d \in Int,
           vault' = [vault EXCEPT ![w].balance = @ + d], TypeOK'
    PROVE  SumFunction(VaultCredit') = SumFunction(VaultCredit) + d
<1>1. w \in Wallet /\ DOMAIN vault' = DOMAIN vault
  BY DEF TypeOK
<1>2. vault[w].balance \in Int /\ vault'[w].balance = vault[w].balance + d
  BY DEF TypeOK, Vault
<1>3. \A x \in DOMAIN vault \ {w} : vault'[x] = vault[x]
  OBVIOUS
<1>4. VaultCredit'[w] = VaultCredit[w] + d /\ VaultCredit[w] \in Int
  BY <1>1, <1>2 DEF VaultCredit
<1>5. \A x \in Wallet \ {w} : VaultCredit'[x] = VaultCredit[x]
  BY <1>1, <1>3 DEF VaultCredit
<1>6. IsFiniteSet(Wallet) /\ VaultCredit \in [Wallet -> Int] /\ SumFunction(VaultCredit) \in Int
  BY CreditTyped
<1>7. VaultCredit' \in [Wallet -> Int]
  <2>1. \A x \in DOMAIN vault' : vault'[x].balance \in Int
    BY DEF TypeOK, Vault
  <2> QED
    BY <2>1 DEF VaultCredit
<1>8. SumFunction(VaultCredit')
        = SumFunction(VaultCredit) + VaultCredit'[w] - VaultCredit[w]
  BY <1>1, <1>5, <1>6, <1>7, SumChanges
<1> QED
  BY <1>4, <1>6, <1>8

\* The same for the coins of one address.
LEMMA CoinsChange ==
    ASSUME TypeOK, NEW a \in Address, NEW d \in Int,
           credit' = [credit EXCEPT ![a] = @ + d], TypeOK'
    PROVE  SumFunction(credit') = SumFunction(credit) + d
<1>1. IsFiniteSet(Address) /\ credit \in [Address -> Int] /\ SumFunction(credit) \in Int
  BY CreditTyped
<1>2. credit' \in [Address -> Int]
  BY DEF TypeOK
<1>3. credit'[a] = credit[a] + d /\ credit[a] \in Int
  BY <1>1
<1>4. \A x \in Address \ {a} : credit'[x] = credit[x]
  BY <1>1
<1>5. SumFunction(credit') = SumFunction(credit) + credit'[a] - credit[a]
  <2> DEFINE new == credit'
  <2>1. new \in [Address -> Int] /\ \A x \in Address \ {a} : new[x] = credit[x]
    BY <1>2, <1>4
  <2> HIDE DEF new
  <2>2. SumFunction(new) = SumFunction(credit) + new[a] - credit[a]
    BY <1>1, <2>1, SumChanges
  <2> QED
    BY <2>2 DEF new
<1> QED
  BY <1>1, <1>3, <1>5

LEMMA CreditInit == Init => CreditConserved
<1> SUFFICES ASSUME Init PROVE CreditConserved
  OBVIOUS
<1>1. IsFiniteSet(Address) /\ IsFiniteSet(Wallet)
  BY FiniteAssumption, FS_Union DEF Address
<1>2. credit = [a \in Address |-> 0] /\ minted = 0
  BY DEF Init
<1>3. VaultCredit = [w \in Wallet |-> 0]
  <2>1. DOMAIN vault = {}
    BY DEF Init
  <2> QED
    BY <2>1 DEF VaultCredit
<1>4. SumFunction(credit) = 0
  BY <1>1, <1>2, SumOfZeros
<1>5. SumFunction(VaultCredit) = 0
  BY <1>1, <1>3, SumOfZeros
<1> QED
  BY <1>2, <1>4, <1>5 DEF CreditConserved

\* A new vault starts empty where there was none, an empty one is closed, and
\* a deposit or a withdrawal puts on one side what it takes from the other.
LEMMA CreditStep ==
    ASSUME TypeOK, TypeOK', WalletsStayBound, CreditConserved, [Next]_vars
    PROVE  CreditConserved'
<1>0. SumFunction(credit) \in Int /\ SumFunction(VaultCredit) \in Int /\ minted \in Int
  BY CreditTyped
<1> DEFINE Same == UNCHANGED credit /\ UNCHANGED minted /\ VaultCredit' = VaultCredit
<1>1. ASSUME Same PROVE CreditConserved'
  BY <1>1 DEF CreditConserved
<1>2. CASE UNCHANGED <<vault, credit, minted>>
  BY <1>2 DEF CreditConserved, VaultCredit
<1>3. CASE SetupNext
  <2>0. PICK w \in Wallet \ DOMAIN policy :
            /\ \E v : vault' = With(vault, w, v) /\ v.balance = 0
            /\ UNCHANGED <<credit, minted>>
    BY <1>3 DEF SetupNext, SetupAgentWallet
  <2>1. PICK v : /\ vault' = With(vault, w, v) /\ v.balance = 0
                 /\ UNCHANGED <<credit, minted>>
    BY <2>0
  <2>2. w \notin DOMAIN vault
    BY <2>1 DEF WalletsStayBound
  <2>3. /\ DOMAIN vault' = DOMAIN vault \cup {w} /\ vault'[w] = v
        /\ \A x \in DOMAIN vault \ {w} : vault'[x] = vault[x]
    BY <2>1 DEF With
  <2>4. VaultCredit' = VaultCredit
    BY <2>1, <2>2, <2>3 DEF VaultCredit
  <2> QED
    BY <1>1, <2>1, <2>4
<1>4. CASE VaultNext
  <2>1. ASSUME NEW s \in Address, NEW w \in Wallet, PauseVault(s, w)
        PROVE  Same
    <3>1. /\ w \in DOMAIN vault /\ UNCHANGED <<credit, minted>>
          /\ vault' = [vault EXCEPT ![w].status = "paused"]
      BY <2>1 DEF PauseVault
    <3>2. vault[w] \in Vault
      BY <3>1 DEF TypeOK
    <3>3. DOMAIN vault' = DOMAIN vault
          /\ \A x \in DOMAIN vault : vault'[x].balance = vault[x].balance
      BY <3>1, <3>2 DEF Vault
    <3> QED
      BY <3>1, <3>3 DEF VaultCredit
  <2>2. ASSUME NEW s \in Address, NEW w \in Wallet, CloseVault(s, w)
        PROVE  Same
    <3>1. w \in DOMAIN vault /\ vault[w].balance = 0 /\ UNCHANGED <<credit, minted>>
      BY <2>2 DEF CloseVault, IsEmpty
    <3>2. DOMAIN vault' = DOMAIN vault \ {w}
          /\ \A x \in DOMAIN vault \ {w} : vault'[x] = vault[x]
      BY <2>2 DEF CloseVault, Without
    <3> QED
      BY <3>1, <3>2 DEF VaultCredit
  <2>3. ASSUME NEW s \in Address, NEW w \in Wallet, NEW amount \in 1..MaxCredit,
               DepositTrainingCredit(s, w, amount)
        PROVE  CreditConserved'
    <3>0. amount \in Int /\ -amount \in Int
      BY BoundAssumption
    <3>1. /\ w \in DOMAIN vault /\ UNCHANGED minted
          /\ vault' = [vault EXCEPT ![w].balance = @ + amount]
          /\ credit' = [credit EXCEPT ![s] = @ - amount]
      BY <2>3 DEF DepositTrainingCredit
    <3>2. credit' = [credit EXCEPT ![s] = @ + (-amount)]
      BY <3>0, <3>1 DEF TypeOK
    <3>3. SumFunction(VaultCredit') = SumFunction(VaultCredit) + amount
      BY <3>0, <3>1, BalanceChanges
    <3>4. SumFunction(credit') = SumFunction(credit) + (-amount)
      BY <3>0, <3>2, CoinsChange
    <3> QED
      BY <1>0, <3>0, <3>1, <3>3, <3>4 DEF CreditConserved
  <2>4. ASSUME NEW s \in Address, NEW w \in Wallet, NEW amount \in 1..MaxCredit,
               WithdrawTrainingCredit(s, w, amount)
        PROVE  CreditConserved'
    <3>0. amount \in Int /\ -amount \in Int
      BY BoundAssumption
    <3>1. /\ w \in DOMAIN vault /\ UNCHANGED minted
          /\ vault' = [vault EXCEPT ![w].balance = @ - amount]
          /\ credit' = [credit EXCEPT ![s] = @ + amount]
      BY <2>4 DEF WithdrawTrainingCredit
    <3>2. vault' = [vault EXCEPT ![w].balance = @ + (-amount)]
      <4>1. vault[w].balance \in Int
        BY <3>1 DEF TypeOK, Vault
      <4>2. vault[w].balance - amount = vault[w].balance + (-amount)
        BY <3>0, <4>1
      <4> QED
        BY <3>1, <4>2
    <3>3. SumFunction(VaultCredit') = SumFunction(VaultCredit) + (-amount)
      BY <3>0, <3>1, <3>2, BalanceChanges
    <3>4. SumFunction(credit') = SumFunction(credit) + amount
      BY <3>0, <3>1, CoinsChange
    <3> QED
      BY <1>0, <3>0, <3>1, <3>3, <3>4 DEF CreditConserved
  <2>5. ASSUME NEW s \in Address, NEW amount \in 1..MaxCredit, MintTrainingCredit(s, amount)
        PROVE  CreditConserved'
    <3>0. amount \in Int
      BY BoundAssumption
    <3>1. /\ UNCHANGED vault /\ minted' = minted + amount
          /\ credit' = [credit EXCEPT ![s] = @ + amount]
      BY <2>5 DEF MintTrainingCredit
    <3>2. SumFunction(credit') = SumFunction(credit) + amount
      BY <3>0, <3>1, CoinsChange
    <3>3. VaultCredit' = VaultCredit
      BY <3>1 DEF VaultCredit
    <3> QED
      BY <1>0, <3>0, <3>1, <3>2, <3>3 DEF CreditConserved
  <2> QED
    BY <1>1, <1>4, <2>1, <2>2, <2>3, <2>4, <2>5 DEF VaultNext
<1>5. CASE PandaNext
  <2>1. UNCHANGED <<vault, credit, minted>>
    BY <1>5 DEF PandaNext, LockTrading, UnlockTrading, TransferPanda
  <2> QED
    BY <1>2, <2>1
<1>6. CASE PolicyNext
  <2>1. \A s \in Address, w \in Wallet, h \in PairsHash, n, l \in Amount, c \in DailyCap :
           UpdatePolicy(s, w, h, n, l, c) => UNCHANGED <<vault, credit, minted>>
    BY DEF UpdatePolicy
  <2>2. \A s \in Address, w \in Wallet :
           /\ \A flag \in BOOLEAN : PausePolicy(s, w, flag) => UNCHANGED <<vault, credit, minted>>
           /\ RevokeAgent(s, w) => UNCHANGED <<vault, credit, minted>>
    BY DEF PausePolicy, RevokeAgent
  <2> QED
    BY <1>2, <1>6, <2>1, <2>2 DEF PolicyNext
<1>7. CASE ProofNext
  BY <1>2, <1>7 DEF ProofNext, SubmitChainProof
<1>8. CASE Tick \/ UNCHANGED vars
  BY <1>2, <1>8 DEF Tick, vars
<1> QED
  BY <1>3, <1>4, <1>5, <1>6, <1>7, <1>8 DEF Next

\* Whatever is minted, deposited, withdrawn and closed, by whomever and in
\* whatever order, what the addresses and the vaults of all wallets hold adds
\* up to what was minted.  The vaults' bindings matter: because a wallet is set
\* up once, no setup replaces a vault with credit in it.
THEOREM CreditHolds == Spec => []CreditConserved
<1>1. TypeOK /\ TypeOK' /\ WalletsStayBound /\ CreditConserved /\ [Next]_vars
        => CreditConserved'
  BY CreditStep
<1> QED
  BY <1>1, CreditInit, TypeCorrect, BindingsHold, PTL DEF Spec

-----------------------------------------------------------------------------
(* Arithmetic of a trade.                                                  *)

LEMMA Division ==
    ASSUME NEW a \in Int, NEW n \in Nat \ {0}
    PROVE  /\ a \div n \in Int
           /\ a % n \in 0..n-1
           /\ a = n * (a \div n) + (a % n)
  OBVIOUS

\* A whole part of a cost, for at most the quantity held: at most the cost,
\* and all of it for all of the quantity.
LEMMA PartOfCost ==
    ASSUME NEW part \in Int, NEW cost \in Nat, NEW held \in Nat \ {0},
           NEW sold \in Int, sold <= held, held * part = cost * sold
    PROVE  part <= cost /\ (sold = held => part = cost)
<1>1. ASSUME part > cost  PROVE FALSE
  <2>1. held * part >= held * (cost + 1)
    BY <1>1
  <2>2. cost * sold <= cost * held
    OBVIOUS
  <2>3. held * (cost + 1) = cost * held + held
    OBVIOUS
  <2>4. {held * part, cost * sold, cost * held, held * (cost + 1)} \subseteq Int
    OBVIOUS
  <2> QED
    BY <2>1, <2>2, <2>3, <2>4
<1>2. ASSUME sold = held  PROVE part = cost
  <2>1. held * part = held * cost
    BY <1>2
  <2> QED
    BY <2>1
<1> QED
  BY <1>1, <1>2

-----------------------------------------------------------------------------
(* Types.                                                                  *)

\* A tick is open only while trades are left to make.
LedgerTyped == LedgerTypeOK /\ (tick.open => trades < MaxTrades)

LEMMA UnrealizedTyped ==
    ASSUME NEW pos \in [Pair -> Position]
    PROVE  Unrealized(pos) \in Int
<1> DEFINE Held == {p \in Pair : pos[p].quantity > 0}
           f == [p \in Held |-> pos[p].quantity * pos[p].mark - pos[p].cost]
<1>1. IsFiniteSet(Held)
  BY LedgerAssumption, FS_Subset
<1>2. f \in [Held -> Int]
  <2>1. \A p \in Pair : /\ pos[p].quantity \in Nat /\ pos[p].cost \in Nat
                        /\ pos[p].mark \in Nat
    BY DEF Position
  <2> QED
    BY <2>1
<1> HIDE DEF Held, f
<1>3. SumFunction(f) \in Int
  BY <1>1, <1>2, SumOfInts
<1> QED
  BY <1>3 DEF f, Held, Unrealized

LEMMA RefreshedTyped ==
    ASSUME NEW cash \in Int, NEW realized \in Int, NEW pos \in [Pair -> Position]
    PROVE  /\ Refreshed(cash, realized, pos) \in Account
           /\ Refreshed(cash, realized, pos).cash = cash
           /\ Refreshed(cash, realized, pos).realized = realized
           /\ Refreshed(cash, realized, pos).unrealized = Unrealized(pos)
           /\ Refreshed(cash, realized, pos).equity = cash + Unrealized(pos)
  BY UnrealizedTyped DEF Refreshed, Account

\* Only the columns that differ are written.
LEMMA FlushedTyped ==
    ASSUME account \in Account, NEW seen \in Reading, NEW new,
           {new.cash, new.equity, new.realized, new.unrealized} \subseteq Int
    PROVE  /\ Flushed(seen, new) \in Account
           /\ seen = Row(account, TRUE) =>
                 /\ Flushed(seen, new).cash = new.cash
                 /\ Flushed(seen, new).equity = new.equity
                 /\ Flushed(seen, new).realized = new.realized
                 /\ Flushed(seen, new).unrealized = new.unrealized
  BY DEF Flushed, Net, Row, Account, Reading

LEMMA NotionalsTyped ==
    ASSUME LedgerTyped, NEW notional \in Notionals
    PROVE  /\ notional \in Int /\ SizingEquity \in Int
           /\ SizingEquity >= 0 => notional >= 0
<1>1. SizingEquity \in Int
  BY LedgerAssumption DEF SizingEquity, LedgerTyped, LedgerTypeOK, Reading
<1>2. SizingEquity \div 4 \in Int /\ (-SizingEquity) \div 4 \in Int
  BY <1>1
<1> QED
  BY <1>1, <1>2 DEF Notionals

\* What a trade does: it pays some cost into the position, or takes some out,
\* and gains the rest of what the cash changes by.
TradeTold(p, pos, paid, gain) ==
    /\ tick.open
    /\ pos \in [Pair -> Position]
    /\ \A q \in Pair \ {p} : pos[q] = position[q]
    /\ pos[p].cost = position[p].cost + paid
    /\ Committed(pos, Refreshed(tick.cash - paid + gain, tick.realized + gain, pos))
    /\ SizingEquity >= 0 /\ tick.cash >= 0 => tick.cash - paid + gain >= 0

LEMMA BuyTold ==
    ASSUME LedgerTyped, NEW p \in Pair, NEW price \in Price, NEW notional \in Notionals,
           Buy(p, price, notional)
    PROVE  \E pos \in [Pair -> Position], paid \in Int, gain \in Int :
              TradeTold(p, pos, paid, gain)
<1> DEFINE spend == Spend(notional)
           bought == spend \div price
           pos == [position EXCEPT ![p] = [quantity |-> @.quantity + bought,
                                           cost |-> @.cost + spend,
                                           mark |-> price]]
<1>1. /\ tick.open /\ spend > 0 /\ spend % price = 0
      /\ Committed(pos, Refreshed(tick.cash - spend, tick.realized, pos))
  BY DEF Buy
<1>2. /\ price \in Nat \ {0} /\ position \in [Pair -> Position]
      /\ tick.cash \in Int /\ tick.realized \in Int
  BY LedgerAssumption DEF LedgerTyped, LedgerTypeOK, Reading
<1>3. spend \in Int /\ spend <= tick.cash
  BY <1>2, NotionalsTyped DEF Spend, Lesser
<1> HIDE DEF spend
<1>4. bought \in Int /\ spend = price * bought
  BY <1>1, <1>2, <1>3, Division
<1>5. bought \in Nat \ {0}
  BY <1>1, <1>2, <1>3, <1>4
<1> HIDE DEF bought
<1>6. /\ position[p].quantity \in Nat /\ position[p].cost \in Nat
      /\ position[p] \in Position
  BY <1>2 DEF Position
<1>7. [quantity |-> position[p].quantity + bought,
       cost |-> position[p].cost + spend, mark |-> price] \in Position
  <2>1. position[p].quantity + bought \in Nat \ {0} /\ position[p].cost + spend \in Nat
    BY <1>1, <1>3, <1>5, <1>6
  <2> QED
    BY <1>2, <2>1 DEF Position
<1>8. /\ pos \in [Pair -> Position]
      /\ \A q \in Pair \ {p} : pos[q] = position[q]
      /\ pos[p].cost = position[p].cost + spend
  BY <1>2, <1>7
<1>9. tick.cash - spend = tick.cash - spend + 0 /\ tick.realized = tick.realized + 0
  BY <1>2, <1>3
<1> HIDE DEF pos
<1>10. Committed(pos, Refreshed(tick.cash - spend + 0, tick.realized + 0, pos))
  BY <1>1, <1>9
<1>11. tick.cash - spend + 0 >= 0
  BY <1>2, <1>3
<1>12. TradeTold(p, pos, spend, 0)
  BY <1>1, <1>8, <1>10, <1>11 DEF TradeTold
<1> QED
  BY <1>3, <1>8, <1>12

LEMMA SellTold ==
    ASSUME LedgerTyped, NEW p \in Pair, NEW price \in Price, NEW notional \in Notionals,
           Sell(p, price, notional)
    PROVE  \E pos \in [Pair -> Position], paid \in Int, gain \in Int :
              TradeTold(p, pos, paid, gain)
<1> DEFINE sold == SellQuantity(p, price, notional)
           held == position[p].quantity
           had == position[p].cost
           cost == SoldCost(p, sold)
           pos == [position EXCEPT ![p] = [quantity |-> @.quantity - sold,
                                           cost |-> @.cost - cost,
                                           mark |-> price]]
           gain == sold * price - cost
<1>1. /\ tick.open /\ held > 0 /\ (had * sold) % held = 0
      /\ Committed(pos, Refreshed(tick.cash + sold * price, tick.realized + gain, pos))
  BY DEF Sell
<1>2. /\ price \in Nat \ {0} /\ position \in [Pair -> Position]
      /\ tick.cash \in Int /\ tick.realized \in Int
  BY LedgerAssumption DEF LedgerTyped, LedgerTypeOK, Reading
<1>3. held \in Nat \ {0} /\ had \in Nat
  BY <1>1, <1>2 DEF Position
<1>4. sold \in Int /\ sold <= held /\ (SizingEquity >= 0 => sold >= 0)
  <2>1. notional \div price \in Int /\ (notional >= 0 => notional \div price >= 0)
    BY <1>2, NotionalsTyped
  <2> QED
    BY <1>3, <2>1, NotionalsTyped DEF SellQuantity, Lesser
<1> HIDE DEF sold
<1>5. cost \in Int /\ held * cost = had * sold
  <2>1. had * sold \in Int
    BY <1>3, <1>4
  <2> DEFINE a == had * sold
  <2>2. cost = a \div held
    BY DEF SoldCost
  <2> HIDE DEF a, held
  <2>3. /\ a \div held \in Int
        /\ a = held * (a \div held) + (a % held)
    BY <1>3, <2>1, Division DEF a
  <2>4. a % held = 0
    BY <1>1 DEF a
  <2>5. held * (a \div held) \in Int
    BY <1>3, <2>3
  <2>6. a = held * cost
    BY <2>2, <2>3, <2>4, <2>5
  <2> QED
    BY <2>2, <2>3, <2>6 DEF a
<1> HIDE DEF held, had, cost
<1>6. cost <= had /\ (sold = held => cost = had)
  BY <1>3, <1>4, <1>5, PartOfCost
<1>7. [quantity |-> held - sold, cost |-> had - cost, mark |-> price] \in Position
  <2>1. had - cost \in Nat
    BY <1>3, <1>5, <1>6
  <2>2. CASE sold = held
    BY <1>2, <1>3, <1>4, <1>6, <2>2 DEF Position
  <2>3. CASE sold # held
    <3>1. held - sold \in Nat \ {0}
      BY <1>3, <1>4, <2>3
    <3> QED
      BY <1>2, <2>1, <3>1 DEF Position
  <2> QED
    BY <2>2, <2>3
<1>8. /\ pos \in [Pair -> Position]
      /\ \A q \in Pair \ {p} : pos[q] = position[q]
      /\ pos[p].cost = had - cost
  BY <1>2, <1>7 DEF held, had
<1>9. /\ sold * price \in Int
      /\ SizingEquity >= 0 => sold * price >= 0
  BY <1>2, <1>4
<1>10. /\ gain \in Int /\ -cost \in Int
       /\ had - cost = had + (-cost)
       /\ tick.cash + sold * price = tick.cash - (-cost) + gain
  BY <1>2, <1>3, <1>5, <1>9
<1> HIDE DEF pos, gain
<1>11. Committed(pos, Refreshed(tick.cash - (-cost) + gain, tick.realized + gain, pos))
  BY <1>1, <1>10
<1>12. SizingEquity >= 0 /\ tick.cash >= 0 => tick.cash - (-cost) + gain >= 0
  BY <1>2, <1>9, <1>10
<1>13. TradeTold(p, pos, -cost, gain)
  BY <1>1, <1>8, <1>10, <1>11, <1>12 DEF TradeTold, had
<1> QED
  BY <1>8, <1>10, <1>13

LEMMA LedgerTypeInit == LedgerInit => LedgerTyped
  BY LedgerAssumption
  DEF LedgerInit, LedgerTyped, LedgerTypeOK, NotReading, Reading, Account, Position

LEMMA LedgerTypeStep ==
    ASSUME LedgerTyped, [LedgerNext]_ledgerVars
    PROVE  LedgerTyped'
<1> USE LedgerAssumption DEF LedgerTyped, LedgerTypeOK
<1>0. NotReading \in Reading /\ ~NotReading.open
  BY DEF NotReading, Reading
<1>1. CASE UNCHANGED ledgerVars
  BY <1>1 DEF ledgerVars
<1>2. CASE TickReads
  BY <1>2 DEF TickReads, Row, Reading, Account
<1>3. CASE TickFails
  BY <1>0, <1>3 DEF TickFails
<1>4. ASSUME NEW p \in Pair, NEW price \in Price, NEW notional \in Notionals,
             Buy(p, price, notional) \/ Sell(p, price, notional)
      PROVE  LedgerTyped'
  <2>1. PICK pos \in [Pair -> Position], paid \in Int, gain \in Int :
                TradeTold(p, pos, paid, gain)
    BY <1>4, BuyTold, SellTold
  <2> DEFINE new == Refreshed(tick.cash - paid + gain, tick.realized + gain, pos)
  <2>2. tick.cash - paid + gain \in Int /\ tick.realized + gain \in Int
    BY DEF Reading
  <2>3. pos \in [Pair -> Position] /\ Committed(pos, new) /\ tick.open
    BY <2>1 DEF TradeTold
  <2>4. new \in Account
    BY <2>2, <2>3, RefreshedTyped
  <2> HIDE DEF new
  <2>5. Flushed(tick, new) \in Account
    BY <2>4, FlushedTyped DEF Account
  <2> QED
    BY <1>0, <2>3, <2>5 DEF Committed
<1>5. CASE BudgetReads
  BY <1>5 DEF BudgetReads, Row, Reading, Account
<1>6. ASSUME NEW new \in Budget, BudgetCommits(new)  PROVE LedgerTyped'
  <2> DEFINE delta == new - budget
             row == Rebudgeted(delta)
  <2>1. delta \in Int
    OBVIOUS
  <2> HIDE DEF delta
  <2>2. {row.cash, row.equity, row.realized, row.unrealized} \subseteq Int
    BY <2>1 DEF Rebudgeted, Reading
  <2> HIDE DEF row
  <2>3. Flushed(call, row) \in Account
    BY <2>2, FlushedTyped
  <2>4. account' \in Account /\ budget' \in Nat \ {0}
    BY <1>6, <2>3 DEF BudgetCommits, delta, row
  <2> QED
    BY <1>0, <1>6, <2>4 DEF BudgetCommits
<1> QED
  BY <1>1, <1>2, <1>3, <1>4, <1>5, <1>6 DEF LedgerNext

LEMMA LedgerIsTyped == LedgerSpec => []LedgerTyped
  BY LedgerTypeInit, LedgerTypeStep, PTL DEF LedgerSpec

\* The rows keep their types: a position without quantity has no cost left, and
\* no quantity or cost falls below zero, whatever is bought and sold.
THEOREM LedgerTypeCorrect == LedgerSpec => []LedgerTypeOK
  BY LedgerIsTyped, PTL DEF LedgerTyped

-----------------------------------------------------------------------------
(* Conservation.                                                           *)

\* While ticks and budget calls stay apart, the one that is open has read the
\* row that is still there; the row agrees with the positions and the budget.
LedgerHolds ==
    apart =>
        /\ tick.open => tick = Row(account, TRUE)
        /\ call.open => call = Row(account, TRUE)
        /\ ~(tick.open /\ call.open)
        /\ account.cash + Invested = budget + account.realized
        /\ account.equity = account.cash + account.unrealized
        /\ account.unrealized = Unrealized(position)

\* What the change of one position does to what is invested.
LEMMA InvestedMoves ==
    ASSUME LedgerTypeOK, NEW p \in Pair, NEW pos \in [Pair -> Position], NEW paid \in Int,
           \A q \in Pair \ {p} : pos[q] = position[q],
           pos[p].cost = position[p].cost + paid, position' = pos
    PROVE  Invested \in Int /\ Invested' = Invested + paid
<1> DEFINE f == [q \in Pair |-> position[q].cost]
           g == [q \in Pair |-> pos[q].cost]
<1>1. \A q \in Pair : position[q].cost \in Int /\ pos[q].cost \in Int
  BY DEF LedgerTypeOK, Position
<1>2. /\ f \in [Pair -> Int] /\ g \in [Pair -> Int]
      /\ \A q \in Pair \ {p} : g[q] = f[q]
      /\ g[p] = f[p] + paid /\ f[p] \in Int
  BY <1>1
<1>3. Invested = SumFunction(f) /\ Invested' = SumFunction(g)
  BY DEF Invested
<1> HIDE DEF f, g
<1>4. SumFunction(f) \in Int /\ SumFunction(g) = SumFunction(f) + g[p] - f[p]
  BY <1>2, LedgerAssumption, SumChanges
<1> QED
  BY <1>2, <1>3, <1>4

LEMMA InvestedTyped == ASSUME LedgerTypeOK PROVE Invested \in Int
<1>1. [p \in Pair |-> position[p].cost] \in [Pair -> Int]
  BY DEF LedgerTypeOK, Position
<1> QED
  BY <1>1, LedgerAssumption, SumOfInts DEF Invested

LEMMA LedgerHoldsInit == LedgerInit => LedgerHolds
<1> SUFFICES ASSUME LedgerInit PROVE LedgerHolds
  OBVIOUS
<1>1. Invested = 0
  <2>1. [p \in Pair |-> position[p].cost] = [p \in Pair |-> 0]
    BY DEF LedgerInit
  <2> QED
    BY <2>1, LedgerAssumption, SumOfZeros DEF Invested
<1>2. Unrealized(position) = 0
  <2> DEFINE Held == {p \in Pair : position[p].quantity > 0}
             f == [p \in Held |-> position[p].quantity * position[p].mark - position[p].cost]
  <2>1. Held = {}
    BY DEF LedgerInit
  <2>2. DOMAIN f = Held
    OBVIOUS
  <2> HIDE DEF f, Held
  <2>3. SumFunction(f) = 0
    BY <2>1, <2>2, SumOfNothing DEF SumFunction
  <2> QED
    BY <2>3 DEF Unrealized, f, Held
<1> QED
  BY <1>1, <1>2, LedgerAssumption DEF LedgerInit, LedgerHolds, NotReading

LEMMA LedgerHoldsStep ==
    ASSUME LedgerTyped, LedgerHolds, [LedgerNext]_ledgerVars
    PROVE  LedgerHolds'
<1> SUFFICES ASSUME apart' PROVE LedgerHolds'
  BY DEF LedgerHolds
<1> USE DEF LedgerTyped
<1>0. ~NotReading.open
  BY DEF NotReading
<1>1. CASE UNCHANGED ledgerVars
  BY <1>1 DEF ledgerVars, LedgerHolds, Invested
<1>2. CASE TickReads
  BY <1>2 DEF TickReads, Row, LedgerHolds, Invested
<1>3. CASE TickFails
  BY <1>0, <1>3 DEF TickFails, LedgerHolds, Invested
<1>4. ASSUME NEW p \in Pair, NEW price \in Price, NEW notional \in Notionals,
             Buy(p, price, notional) \/ Sell(p, price, notional)
      PROVE  LedgerHolds'
  <2>1. PICK pos \in [Pair -> Position], paid \in Int, gain \in Int :
                TradeTold(p, pos, paid, gain)
    BY <1>4, BuyTold, SellTold
  <2> DEFINE cash == tick.cash - paid + gain
             realized == tick.realized + gain
             new == Refreshed(cash, realized, pos)
  <2>2. cash \in Int /\ realized \in Int
    BY DEF LedgerTypeOK, Reading
  <2>3. pos \in [Pair -> Position] /\ Committed(pos, new) /\ tick.open
    BY <2>1 DEF TradeTold
  <2>4. apart /\ tick = Row(account, TRUE) /\ ~call.open
    BY <2>3 DEF Committed, LedgerHolds
  <2>5. /\ new \in Account /\ new.cash = cash /\ new.realized = realized
        /\ new.unrealized = Unrealized(pos) /\ new.equity = cash + Unrealized(pos)
    BY <2>2, <2>3, RefreshedTyped
  <2> HIDE DEF new
  <2>6. /\ account' = Flushed(tick, new) /\ position' = pos /\ tick' = NotReading
        /\ budget' = budget /\ call' = call
    BY <2>3 DEF Committed
  <2>7. /\ account'.cash = cash /\ account'.realized = realized
        /\ account'.unrealized = Unrealized(pos) /\ account'.equity = cash + Unrealized(pos)
    <3>1. {new.cash, new.equity, new.realized, new.unrealized} \subseteq Int
      BY <2>5 DEF Account
    <3>2. account \in Account /\ tick \in Reading
      BY DEF LedgerTypeOK
    <3> QED
      BY <2>4, <2>5, <2>6, <3>1, <3>2, FlushedTyped
  <2>8. Invested \in Int /\ Invested' = Invested + paid
    BY <2>1, <2>3, <2>6, InvestedMoves DEF TradeTold
  <2>9. /\ cash = account.cash - paid + gain /\ realized = account.realized + gain
        /\ account.cash \in Int /\ account.realized \in Int /\ budget \in Int
    BY <2>4 DEF Row, LedgerTypeOK, Account
  <2>10. account'.cash + Invested' = budget' + account'.realized
    <3>1. account.cash + Invested = budget + account.realized
      BY <2>4 DEF LedgerHolds
    <3> HIDE DEF cash, realized
    <3>2. cash + (Invested + paid) = (account.cash + Invested) + gain
      BY <2>8, <2>9
    <3>3. cash + (Invested + paid) = budget + realized
      BY <2>9, <3>1, <3>2
    <3> QED
      BY <2>6, <2>7, <2>8, <3>3
  <2> HIDE DEF cash, realized
  <2> QED
    BY <1>0, <2>4, <2>6, <2>7, <2>10 DEF LedgerHolds
<1>5. CASE BudgetReads
  BY <1>5 DEF BudgetReads, Row, LedgerHolds, Invested
<1>6. ASSUME NEW new \in Budget, BudgetCommits(new)  PROVE LedgerHolds'
  <2> DEFINE delta == new - budget
             row == Rebudgeted(delta)
  <2>1. delta \in Int /\ new = budget + delta /\ budget \in Int
    BY LedgerAssumption DEF LedgerTypeOK
  <2>2. call.open /\ apart /\ call = Row(account, TRUE) /\ ~tick.open
    BY <1>6 DEF BudgetCommits, LedgerHolds
  <2>3. UNCHANGED <<position, tick>> /\ call' = NotReading
    BY <1>6 DEF BudgetCommits
  <2>4. Invested' = Invested /\ Invested \in Int
    BY <2>3, InvestedTyped DEF Invested
  <2>5. CASE Affordable(delta)
    <3>1. account' = Flushed(call, row) /\ budget' = new
      BY <1>6, <2>5 DEF BudgetCommits
    <3> HIDE DEF delta
    <3>2. /\ row.cash = account.cash + delta /\ row.equity = account.equity + delta
          /\ row.realized = account.realized /\ row.unrealized = account.unrealized
          /\ {account.cash, account.equity, account.realized, account.unrealized} \subseteq Int
      BY <2>1, <2>2 DEF Rebudgeted, Row, LedgerTypeOK, Account
    <3> HIDE DEF row
    <3>3. /\ account'.cash = row.cash /\ account'.equity = row.equity
          /\ account'.realized = row.realized /\ account'.unrealized = row.unrealized
      <4>1. account \in Account /\ call \in Reading
        BY DEF LedgerTypeOK
      <4>2. {row.cash, row.equity, row.realized, row.unrealized} \subseteq Int
        BY <2>1, <3>2
      <4> QED
        BY <2>2, <3>1, <4>1, <4>2, FlushedTyped
    <3>4. /\ account.cash + Invested = budget + account.realized
          /\ account.equity = account.cash + account.unrealized
          /\ account.unrealized = Unrealized(position)
      BY <2>2 DEF LedgerHolds
    <3>5. account'.cash + Invested' = budget' + account'.realized
      BY <2>1, <2>4, <3>1, <3>2, <3>3, <3>4
    <3>6. account'.equity = account'.cash + account'.unrealized
      BY <2>1, <3>2, <3>3, <3>4
    <3> QED
      BY <1>0, <2>2, <2>3, <3>2, <3>3, <3>4, <3>5, <3>6 DEF LedgerHolds
  <2>6. CASE ~Affordable(delta)
    <3>1. UNCHANGED <<account, budget>>
      BY <1>6, <2>6 DEF BudgetCommits
    <3> QED
      BY <1>0, <2>2, <2>3, <2>4, <3>1 DEF LedgerHolds
  <2> QED
    BY <2>5, <2>6
<1> QED
  BY <1>1, <1>2, <1>3, <1>4, <1>5, <1>6 DEF LedgerNext

LEMMA LedgerAlways == LedgerSpec => []LedgerHolds
  BY LedgerHoldsInit, LedgerHoldsStep, LedgerIsTyped, PTL DEF LedgerSpec

\* Every unit of the budget is cash or the cost of what is held, but for what
\* trades have gained or lost, whatever is bought, sold and rebudgeted.
THEOREM BudgetConserved == LedgerSpec => []Conserved
<1>1. LedgerHolds => Conserved
  BY DEF LedgerHolds, Conserved
<1> QED
  BY <1>1, LedgerAlways, PTL

\* The account row agrees with itself and with the positions.
THEOREM RowAlwaysConsistent == LedgerSpec => []RowConsistent
<1>1. LedgerHolds => RowConsistent
  BY DEF LedgerHolds, RowConsistent
<1> QED
  BY <1>1, LedgerAlways, PTL

\* No trade and no cut of the budget spends cash that is not there.
THEOREM CashAlwaysCovered == LedgerSpec => CashCovered
<1>1. ASSUME LedgerTyped, LedgerHolds, [LedgerNext]_ledgerVars,
             apart, account.equity >= 0, account.cash >= 0
      PROVE  account'.cash >= 0
  <2> USE DEF LedgerTyped
  <2>0. account \in Account /\ tick \in Reading /\ call \in Reading /\ budget \in Int
    BY <1>1 DEF LedgerTypeOK
  <2>1. CASE UNCHANGED account
    BY <1>1, <2>1
  <2>2. ASSUME NEW p \in Pair, NEW price \in Price, NEW notional \in Notionals,
               Buy(p, price, notional) \/ Sell(p, price, notional)
        PROVE  account'.cash >= 0
    <3>1. PICK pos \in [Pair -> Position], paid \in Int, gain \in Int :
                TradeTold(p, pos, paid, gain)
      BY <1>1, <2>2, BuyTold, SellTold
    <3>2. tick.open /\ tick = Row(account, TRUE)
      BY <1>1, <3>1 DEF TradeTold, LedgerHolds
    <3>3. tick.cash >= 0 /\ tick.equity >= 0 /\ SizingEquity >= 0
      BY <1>1, <2>0, <3>2, LedgerAssumption DEF Row, SizingEquity, Reading
    <3> DEFINE cash == tick.cash - paid + gain
               new == Refreshed(cash, tick.realized + gain, pos)
    <3>4. cash >= 0 /\ pos \in [Pair -> Position] /\ account' = Flushed(tick, new)
      BY <3>1, <3>3 DEF TradeTold, Committed
    <3>5. cash \in Int /\ tick.realized + gain \in Int
      BY <2>0 DEF Reading
    <3>6. new \in Account /\ new.cash = cash
      BY <3>4, <3>5, RefreshedTyped
    <3> HIDE DEF new, cash
    <3>7. {new.cash, new.equity, new.realized, new.unrealized} \subseteq Int
      BY <3>6 DEF Account
    <3>8. Flushed(tick, new).cash = new.cash
      BY <2>0, <3>2, <3>7, FlushedTyped
    <3> QED
      BY <3>4, <3>6, <3>8
  <2>3. ASSUME NEW new \in Budget, BudgetCommits(new)  PROVE account'.cash >= 0
    <3> DEFINE delta == new - budget
               row == Rebudgeted(delta)
    <3>1. delta \in Int
      BY <2>0, LedgerAssumption
    <3>2. call.open /\ call = Row(account, TRUE)
      BY <1>1, <2>3 DEF BudgetCommits, LedgerHolds
    <3>3. CASE Affordable(delta)
      <4>1. account' = Flushed(call, row)
        BY <2>3, <3>3 DEF BudgetCommits
      <4> HIDE DEF delta
      <4>2. /\ row.cash = account.cash + delta
            /\ {row.cash, row.equity, row.realized, row.unrealized} \subseteq Int
        BY <2>0, <3>1, <3>2 DEF Rebudgeted, Row, Account
      <4>3. account.cash + delta >= 0
        BY <1>1, <2>0, <3>1, <3>2, <3>3 DEF Affordable, Row, Account
      <4> HIDE DEF row
      <4>4. Flushed(call, row).cash = row.cash
        BY <2>0, <3>2, <4>2, FlushedTyped
      <4> QED
        BY <4>1, <4>2, <4>3, <4>4
    <3>4. CASE ~Affordable(delta)
      BY <1>1, <2>3, <3>4 DEF BudgetCommits
    <3> QED
      BY <3>3, <3>4
  <2> QED
    BY <1>1, <2>1, <2>2, <2>3 DEF LedgerNext, TickReads, TickFails, BudgetReads, ledgerVars
<1>2. LedgerTyped /\ LedgerHolds /\ [LedgerNext]_ledgerVars
        => [apart /\ account.equity >= 0 /\ account.cash >= 0 => account'.cash >= 0]_ledgerVars
  BY <1>1
<1> QED
  BY <1>2, LedgerAlways, LedgerIsTyped, PTL DEF LedgerSpec, CashCovered

=============================================================================
