--------------------------- MODULE LogStoreProofs ---------------------------
(***************************************************************************)
(* FlashLog implements LogStore: seen from outside the flash log is a list *)
(* of frames that grows at its young end and loses frames only at its old  *)
(* end, at most a sector's worth at a time, or while it is being wiped.    *)
(* This holds for every geometry, every set of frame lengths and every     *)
(* pattern of faults, under the conditions of FlashOrderProofs.            *)
(***************************************************************************)
EXTENDS FlashOrderProofs

(* The values of the elements of S, in the order of key.                   *)
Listed(S, key, val) ==
  [i \in 1 .. Cardinality(S) |-> val[CHOOSE a \in S : Rank(S, key, a) = i - 1]]

(* What LogStore leaves of a list.                                         *)
Thinned(list, lost) ==
  LET kept == (1 .. Len(list)) \ lost
      place(i) == CHOOSE j \in kept : Cardinality({k \in kept : k <= j}) = i
  IN  [i \in 1 .. Cardinality(kept) |-> list[place(i)]]

(* The places of the elements of T, in the order of key of S.              *)
Places(S, key, T) == {Rank(S, key, a) + 1 : a \in T}

NoTies(S, key) == \A a, b \in S : key[a] = key[b] => a = b

LEMMA ListedIsSequence ==
  ASSUME NEW S, IsFiniteSet(S), NEW key \in [S -> Int], NoTies(S, key), NEW val
  PROVE  /\ \E V : Listed(S, key, val) \in Seq(V)
         /\ Len(Listed(S, key, val)) = Cardinality(S)
<1> DEFINE n == Cardinality(S)
           L == Listed(S, key, val)
           V == {val[a] : a \in S}
<1>1. n \in Nat /\ \A i \in 0 .. n - 1 : \E a \in S : Rank(S, key, a) = i
  BY FS_CardinalityType, RanksAreOneToOne DEF NoTies
<1>2. L = [i \in 1 .. n |-> val[CHOOSE a \in S : Rank(S, key, a) = i - 1]]
  BY DEF Listed
<1> HIDE DEF n, L
<1>3. L \in [1 .. n -> V]
  <2> SUFFICES ASSUME NEW i \in 1 .. n
               PROVE  val[CHOOSE a \in S : Rank(S, key, a) = i - 1] \in V
    BY <1>2
  <2>1. i - 1 \in 0 .. n - 1
    BY <1>1
  <2>2. \E a \in S : Rank(S, key, a) = i - 1
    BY <1>1, <2>1
  <2> QED
    BY <2>2
<1>4. L \in Seq(V) /\ Len(L) = n
  BY <1>1, <1>3, FunctionIsSequence
<1> QED
  BY <1>4 DEF L, n

LEMMA ListedPlaces ==
  ASSUME NEW S, IsFiniteSet(S), NEW key \in [S -> Int], NoTies(S, key), NEW val
  PROVE  /\ Cardinality(S) \in Nat
         /\ Len(Listed(S, key, val)) = Cardinality(S)
         /\ DOMAIN Listed(S, key, val) = 1 .. Cardinality(S)
         /\ \A a \in S : /\ Rank(S, key, a) \in 0 .. Cardinality(S) - 1
                         /\ Listed(S, key, val)[Rank(S, key, a) + 1] = val[a]
<1> DEFINE n == Cardinality(S)
           L == Listed(S, key, val)
<1>1. n \in Nat
  BY FS_CardinalityType
<1>2. /\ \A a \in S : Rank(S, key, a) \in 0 .. n - 1
      /\ \A a, b \in S : Rank(S, key, a) = Rank(S, key, b) => a = b
  BY RanksAreOneToOne DEF NoTies
<1>3. L = [i \in 1 .. n |-> val[CHOOSE a \in S : Rank(S, key, a) = i - 1]]
  BY DEF Listed
<1>5. Len(L) = n
  <2>1. /\ \E V : Listed(S, key, val) \in Seq(V)
        /\ Len(Listed(S, key, val)) = Cardinality(S)
    BY ListedIsSequence
  <2> QED
    BY <2>1
<1> HIDE DEF n, L
<1>4. ASSUME NEW a \in S
      PROVE  L[Rank(S, key, a) + 1] = val[a]
  <2> DEFINE i == Rank(S, key, a) + 1
  <2>1. i \in 1 .. n /\ i - 1 = Rank(S, key, a)
    BY <1>1, <1>2
  <2> HIDE DEF i
  <2>2. (CHOOSE b \in S : Rank(S, key, b) = i - 1) = a
    BY <1>2, <2>1
  <2>3. L[i] = val[a]
    BY <1>3, <2>1, <2>2
  <2> QED
    BY <2>3 DEF i
<1> QED
  BY <1>1, <1>2, <1>3, <1>4, <1>5 DEF n, L

LEMMA PlacesInList ==
  ASSUME NEW S, IsFiniteSet(S), NEW key \in [S -> Int], NoTies(S, key), NEW T \in SUBSET S
  PROVE  Places(S, key, T) \in SUBSET (1 .. Cardinality(S))
<1>1. /\ Cardinality(S) \in Nat
      /\ \A a \in S : Rank(S, key, a) \in 0 .. Cardinality(S) - 1
  BY RanksAreOneToOne, FS_CardinalityType DEF NoTies
<1>2. \A a \in S : Rank(S, key, a) + 1 \in 1 .. Cardinality(S)
  BY <1>1
<1> QED
  BY <1>2 DEF Places

(* An element has a smaller key when fewer are below it.                   *)
LEMMA RankIsKey ==
  ASSUME NEW S, IsFiniteSet(S), NEW key \in [S -> Int], NoTies(S, key), NEW a \in S, NEW b \in S
  PROVE  /\ Rank(S, key, a) <= Rank(S, key, b) <=> key[a] <= key[b]
         /\ Rank(S, key, a) \in Nat /\ Rank(S, key, b) \in Nat
<1>1. /\ Rank(S, key, a) \in Nat /\ Rank(S, key, b) \in Nat /\ key[a] \in Int /\ key[b] \in Int
      /\ Rank(S, key, a) = Rank(S, key, b) => a = b
      /\ \A x \in S : key[x] \in Int
  BY RanksAreOneToOne, FS_CardinalityType DEF NoTies
<1>2. \A x \in S : IsFiniteSet(Below(S, key, x))
  BY FS_Subset DEF Below
<1>3. \A x, y \in S : key[x] <= key[y] => Below(S, key, x) \in SUBSET Below(S, key, y)
  BY <1>1 DEF Below
<1>4. \A x, y \in S : key[x] <= key[y] => Rank(S, key, x) <= Rank(S, key, y)
  BY <1>2, <1>3, FS_Subset DEF Rank
<1>5. key[a] <= key[b] => Rank(S, key, a) <= Rank(S, key, b)
  BY <1>4
<1>6. key[b] <= key[a] => Rank(S, key, b) <= Rank(S, key, a)
  BY <1>4
<1> QED
  BY <1>1, <1>5, <1>6

(* Taking elements away takes their places out of the list.                *)
LEMMA ListThinned ==
  ASSUME NEW S, IsFiniteSet(S), NEW key \in [S -> Int], NoTies(S, key), NEW val,
         NEW T \in SUBSET S, NEW keyT \in [T -> Int], NEW valT,
         \A a \in T : keyT[a] = key[a] /\ valT[a] = val[a],
         NEW lost, lost = Places(S, key, S \ T)
  PROVE  Listed(T, keyT, valT) = Thinned(Listed(S, key, val), lost)
<1> DEFINE n == Cardinality(S)
           m == Cardinality(T)
           R(a) == Rank(S, key, a)
           Q(a) == Rank(T, keyT, a)
           L == Listed(S, key, val)
           kept == (1 .. n) \ lost
<1>0. lost = {R(a) + 1 : a \in S \ T}
  BY DEF Places
<1>1. IsFiniteSet(T) /\ NoTies(T, keyT)
  BY FS_Subset DEF NoTies
<1>2. /\ n \in Nat /\ Len(L) = n
      /\ \A a \in S : R(a) \in 0 .. n - 1 /\ L[R(a) + 1] = val[a]
      /\ \A a, b \in S : R(a) = R(b) => a = b
      /\ \A i \in 0 .. n - 1 : \E a \in S : R(a) = i
  <2>1. /\ Cardinality(S) \in Nat
        /\ Len(Listed(S, key, val)) = Cardinality(S)
        /\ DOMAIN Listed(S, key, val) = 1 .. Cardinality(S)
        /\ \A a \in S : /\ Rank(S, key, a) \in 0 .. Cardinality(S) - 1
                         /\ Listed(S, key, val)[Rank(S, key, a) + 1] = val[a]
    BY ListedPlaces
  <2>2. /\ \A a, b \in S : R(a) = R(b) => a = b
        /\ \A i \in 0 .. n - 1 : \E a \in S : R(a) = i
    BY RanksAreOneToOne DEF NoTies
  <2> QED
    BY <2>1, <2>2
<1>3. /\ m \in Nat
      /\ \A a \in T : Q(a) \in 0 .. m - 1
      /\ \A a, b \in T : Q(a) = Q(b) => a = b
      /\ \A i \in 0 .. m - 1 : \E a \in T : Q(a) = i
  <2>1. m \in Nat
    BY <1>1, FS_CardinalityType
  <2>2. \A a, b \in T : keyT[a] = keyT[b] => a = b
    BY <1>1 DEF NoTies
  <2> QED
    BY <1>1, <2>1, <2>2, RanksAreOneToOne
<1>4. \A a, b \in S : /\ R(a) <= R(b) <=> key[a] <= key[b]
                      /\ R(a) \in Nat
  BY RankIsKey
<1>5. Listed(T, keyT, valT) = [i \in 1 .. m |-> valT[CHOOSE a \in T : Q(a) = i - 1]]
  BY DEF Listed
<1>t. \A a \in T : keyT[a] \in Int /\ key[a] \in Int /\ a \in S
  OBVIOUS
<1>6. \A a \in T : Q(a) = Cardinality({b \in T : keyT[b] < keyT[a]})
  BY DEF Rank, Below
<1>7. Thinned(L, lost) =
        [i \in 1 .. Cardinality(kept) |->
           L[CHOOSE j \in kept : Cardinality({k \in kept : k <= j}) = i]]
  BY <1>2 DEF Thinned
<1> HIDE DEF n, m, R, Q, L
<1>8. kept = {R(a) + 1 : a \in T}
  <2>1. ASSUME NEW a \in T
        PROVE  R(a) + 1 \in kept
    <3>1. R(a) \in 0 .. n - 1 /\ R(a) + 1 \in 1 .. n
      BY <1>2
    <3>2. ASSUME NEW b \in S \ T, R(a) + 1 = R(b) + 1
          PROVE  FALSE
      <4>1. R(a) = R(b)
        BY <1>4, <3>2
      <4> QED
        BY <1>2, <3>2, <4>1
    <3> QED
      BY <1>0, <3>1, <3>2
  <2>2. ASSUME NEW j \in kept
        PROVE  \E a \in T : j = R(a) + 1
    <3>1. j \in 1 .. n /\ j \notin lost /\ j - 1 \in 0 .. n - 1
      BY <1>2
    <3>2. PICK a \in S : R(a) = j - 1
      BY <1>2, <3>1
    <3>3. j = R(a) + 1
      BY <1>2, <3>1, <3>2
    <3>4. a \in T
      BY <1>0, <3>1, <3>3
    <3> QED
      BY <3>3, <3>4
  <2> QED
    BY <2>1, <2>2
<1> HIDE DEF kept
<1>9. IsFiniteSet(kept) /\ Cardinality(kept) = m
  <2> DEFINE f == [a \in T |-> R(a) + 1]
  <2>1. f \in Bijection(T, kept)
    <3>1. f \in [T -> kept]
      BY <1>8
    <3>2. \A a, b \in T : f[a] = f[b] => a = b
      BY <1>2, <1>4
    <3>3. \A j \in kept : \E a \in T : f[a] = j
      BY <1>8
    <3> QED
      BY <3>1, <3>2, <3>3 DEF Bijection, Injection, Surjection, IsInjective
  <2>2. ExistsBijection(T, kept)
    BY <2>1 DEF ExistsBijection
  <2> QED
    BY <1>1, <2>2, FS_Bijection DEF m
<1>10. ASSUME NEW a \in T
       PROVE  Cardinality({k \in kept : k <= R(a) + 1}) = Q(a) + 1
  <2> DEFINE A == {b \in T : keyT[b] <= keyT[a]}
             B == {b \in T : keyT[b] < keyT[a]}
             K == {k \in kept : k <= R(a) + 1}
             f == [b \in A |-> R(b) + 1]
  <2>1. A = B \cup {a} /\ a \notin B
    BY <1>t, <1>1 DEF NoTies
  <2>2. IsFiniteSet(B) /\ IsFiniteSet(A)
    BY <1>1, FS_Subset
  <2>3. Cardinality(A) = Q(a) + 1
    <3> HIDE DEF A, B
    <3> QED
      BY <1>6, <2>1, <2>2, FS_AddElement DEF B
  <2>4. f \in Bijection(A, K)
    <3>1. \A b \in A : b \in T /\ R(b) + 1 \in kept /\ R(b) + 1 <= R(a) + 1
      BY <1>4, <1>8, <1>t
    <3>2. f \in [A -> K]
      BY <3>1
    <3>3. \A b, d \in A : f[b] = f[d] => b = d
      BY <1>2, <1>4
    <3>4. ASSUME NEW k \in K
          PROVE  \E b \in A : f[b] = k
      <4>1. PICK b \in T : k = R(b) + 1
        BY <1>8
      <4>2. R(b) <= R(a)
        BY <1>4, <4>1
      <4>3. b \in A
        BY <1>4, <1>t, <4>2
      <4> QED
        BY <4>1, <4>3
    <3> QED
      BY <3>2, <3>3, <3>4 DEF Bijection, Injection, Surjection, IsInjective
  <2>5. ExistsBijection(A, K)
    BY <2>4 DEF ExistsBijection
  <2> HIDE DEF A, K
  <2>6. Cardinality(K) = Cardinality(A)
    BY <2>2, <2>5, FS_Bijection
  <2> QED
    BY <2>3, <2>6 DEF K
<1>11. ASSUME NEW i \in 1 .. m
       PROVE  valT[CHOOSE a \in T : Q(a) = i - 1]
                = L[CHOOSE j \in kept : Cardinality({k \in kept : k <= j}) = i]
  <2>1. i - 1 \in 0 .. m - 1
    BY <1>3
  <2>2. PICK a \in T : Q(a) = i - 1
    BY <1>3, <2>1
  <2>3. (CHOOSE b \in T : Q(b) = i - 1) = a
    BY <1>3, <2>2
  <2>4. R(a) + 1 \in kept /\ Cardinality({k \in kept : k <= R(a) + 1}) = i
    BY <1>3, <1>8, <1>10, <2>2
  <2>5. ASSUME NEW j \in kept, Cardinality({k \in kept : k <= j}) = i
        PROVE  j = R(a) + 1
    <3>1. PICK b \in T : j = R(b) + 1
      BY <1>8
    <3>2. Q(b) + 1 = i
      BY <1>10, <2>5, <3>1
    <3>3. Q(b) = Q(a)
      BY <1>3, <2>2, <3>2
    <3> QED
      BY <1>3, <3>1, <3>3
  <2>6. (CHOOSE j \in kept : Cardinality({k \in kept : k <= j}) = i) = R(a) + 1
    BY <2>4, <2>5
  <2>7. L[R(a) + 1] = val[a] /\ valT[a] = val[a]
    BY <1>2
  <2> QED
    BY <2>3, <2>6, <2>7
<1>12. Listed(T, keyT, valT) = Thinned(L, lost)
  BY <1>5, <1>7, <1>9, <1>11
<1> QED
  BY <1>12 DEF L

(* One list is the other and one element more.                             *)
Extends(list, longer) == Len(longer) = Len(list) + 1 /\ SubSeq(longer, 1, Len(list)) = list

(* An element with the largest key joins at the end of the list.           *)
LEMMA ListGrows ==
  ASSUME NEW S, IsFiniteSet(S), NEW key \in [S -> Int], NoTies(S, key), NEW val,
         NEW n, n \notin S, NEW T, T = S \cup {n},
         NEW keyT \in [T -> Int], NoTies(T, keyT), NEW valT,
         \A a \in S : keyT[a] = key[a] /\ valT[a] = val[a] /\ key[a] < keyT[n]
  PROVE  Extends(Listed(S, key, val), Listed(T, keyT, valT))
<1> DEFINE L == Listed(S, key, val)
           M == Listed(T, keyT, valT)
           c == Cardinality(S)
<1>1. IsFiniteSet(T) /\ Cardinality(T) = c + 1
  BY FS_AddElement
<1>2. /\ c \in Nat /\ Len(L) = c
      /\ \A a \in S : Rank(S, key, a) \in 0 .. c - 1 /\ L[Rank(S, key, a) + 1] = val[a]
  <2>1. /\ Cardinality(S) \in Nat
        /\ Len(Listed(S, key, val)) = Cardinality(S)
        /\ DOMAIN Listed(S, key, val) = 1 .. Cardinality(S)
        /\ \A a \in S : /\ Rank(S, key, a) \in 0 .. Cardinality(S) - 1
                         /\ Listed(S, key, val)[Rank(S, key, a) + 1] = val[a]
    BY ListedPlaces
  <2> QED
    BY <2>1
<1>3. \A i \in 0 .. c - 1 : \E a \in S : Rank(S, key, a) = i
  BY RanksAreOneToOne DEF NoTies
<1>4. /\ Len(M) = Cardinality(T)
      /\ \A a \in T : M[Rank(T, keyT, a) + 1] = valT[a]
  <2>2. IsFiniteSet(T) /\ keyT \in [T -> Int] /\ NoTies(T, keyT)
    BY <1>1
  <2>1. /\ Cardinality(T) \in Nat
        /\ Len(Listed(T, keyT, valT)) = Cardinality(T)
        /\ DOMAIN Listed(T, keyT, valT) = 1 .. Cardinality(T)
        /\ \A a \in T : /\ Rank(T, keyT, a) \in 0 .. Cardinality(T) - 1
                         /\ Listed(T, keyT, valT)[Rank(T, keyT, a) + 1] = valT[a]
    BY ONLY <2>2, ListedPlaces
  <2> QED
    BY ONLY <2>1
<1>5. ASSUME NEW a \in S
      PROVE  Rank(T, keyT, a) = Rank(S, key, a)
  <2>1. ~(keyT[n] < keyT[a])
    <3>1. keyT[n] \in Int /\ keyT[a] \in Int /\ keyT[a] < keyT[n]
      OBVIOUS
    <3> QED
      BY <3>1
  <2>2. Below(T, keyT, a) = Below(S, key, a)
    BY <2>1 DEF Below
  <2> QED
    BY <2>2 DEF Rank
<1> HIDE DEF L, M, c
<1>6. ASSUME NEW i \in 1 .. c
      PROVE  M[i] = L[i]
  <2>1. i - 1 \in 0 .. c - 1
    BY <1>2
  <2>2. PICK a \in S : Rank(S, key, a) = i - 1
    BY <1>3, <2>1
  <2>3. Rank(T, keyT, a) + 1 = i /\ Rank(S, key, a) + 1 = i
    <3>1. Rank(T, keyT, a) = i - 1
      BY <1>5, <2>2
    <3> QED
      BY <2>2, <3>1
  <2>4. M[i] = valT[a] /\ L[i] = val[a] /\ valT[a] = val[a]
    BY <1>2, <1>4, <2>3
  <2> QED
    BY <2>4
<1>7. PICK V : L \in Seq(V)
  <2>1. /\ \E V : Listed(S, key, val) \in Seq(V)
        /\ Len(Listed(S, key, val)) = Cardinality(S)
    BY ListedIsSequence
  <2> QED
    BY <2>1 DEF L
<1>10. \A i \in 1 .. c : L[i] \in V /\ M[i] \in V
  BY <1>2, <1>6, <1>7
<1>8. /\ SubSeq(M, 1, c) \in Seq(V) /\ Len(SubSeq(M, 1, c)) = c
      /\ \A i \in 1 .. c : SubSeq(M, 1, c)[i] = M[i]
  <2>1. /\ SubSeq(M, 1, c) \in Seq(V)
        /\ Len(SubSeq(M, 1, c)) = IF 1 <= c THEN c - 1 + 1 ELSE 0
        /\ \A i \in 1 .. c - 1 + 1 : SubSeq(M, 1, c)[i] = M[1 + i - 1]
    BY <1>2, <1>10, SubSeqProperties
  <2>2. c - 1 + 1 = c
    BY <1>2
  <2>3. \A i \in 1 .. c : 1 + i - 1 = i
    OBVIOUS
  <2> QED
    BY <1>2, <2>1, <2>2, <2>3
<1>9. SubSeq(M, 1, c) = L
  BY <1>2, <1>6, <1>7, <1>8, SeqEqual
<1> QED
  BY <1>1, <1>2, <1>4, <1>9 DEF L, M, Extends

-----------------------------------------------------------------------------
(* The list that the flash holds.                                          *)

(* ByAge and the list of its numbers, of a log area fl.                    *)
ByAgeOf(fl) ==
  [i \in 1 .. Cardinality(Frames(fl)) |-> CHOOSE a \in Frames(fl) :
     Cardinality({b \in Frames(fl) : \/ Newer(fl[a].seq, fl[b].seq)
                                     \/ fl[b].seq = fl[a].seq /\ b < a}) = i - 1]

LogOf(fl) == [i \in DOMAIN ByAgeOf(fl) |-> fl[ByAgeOf(fl)[i]].seq]

(* Less than half a circle of numbers behind c, each frame has its own.    *)
Numbered(fl, c) ==
  /\ \A a \in Frames(fl) : Diff(c, fl[a].seq) \in 1 .. Half
  /\ \A a, b \in Frames(fl) : fl[a].seq = fl[b].seq => a = b

AgeKey(fl, c) == [a \in Frames(fl) |-> SeqCount - Diff(c, fl[a].seq)]

NumberOf(fl) == [a \in Frames(fl) |-> fl[a].seq]

LEMMA AgeKeyType ==
  ASSUME NEW fl \in [Addrs -> Cell], NEW c \in Seqs, Numbered(fl, c)
  PROVE  /\ IsFiniteSet(Frames(fl))
         /\ AgeKey(fl, c) \in [Frames(fl) -> Int]
         /\ NoTies(Frames(fl), AgeKey(fl, c))
<1>1. \A a \in Frames(fl) : /\ a \in Addrs /\ fl[a].seq \in Seqs
                            /\ Diff(c, fl[a].seq) \in 1 .. Half
                            /\ Diff(c, fl[a].seq) \in Int /\ SeqCount \in Int
  BY FramesFinite, CellFields, HalfBound DEF Numbered
<1>2. AgeKey(fl, c) \in [Frames(fl) -> Int]
  BY <1>1 DEF AgeKey
<1>3. ASSUME NEW a \in Frames(fl), NEW b \in Frames(fl), AgeKey(fl, c)[a] = AgeKey(fl, c)[b]
      PROVE  a = b
  <2>1. SeqCount - Diff(c, fl[a].seq) = SeqCount - Diff(c, fl[b].seq)
    BY <1>3 DEF AgeKey
  <2>2. Diff(c, fl[a].seq) = Diff(c, fl[b].seq)
    BY <1>1, <2>1
  <2>3. fl[a].seq = fl[b].seq
    BY <1>1, <2>2, NewerIsNearer
  <2> QED
    BY <2>3 DEF Numbered
<1> QED
  BY <1>2, <1>3, FramesFinite DEF NoTies

(* By age means in the order of the distance from c.                       *)
LEMMA LogIsListed ==
  ASSUME NEW fl \in [Addrs -> Cell], NEW c \in Seqs, Numbered(fl, c)
  PROVE  LogOf(fl) = Listed(Frames(fl), AgeKey(fl, c), NumberOf(fl))
<1> DEFINE F == Frames(fl)
           key == AgeKey(fl, c)
           younger(a) == {b \in F : \/ Newer(fl[a].seq, fl[b].seq)
                                    \/ fl[b].seq = fl[a].seq /\ b < a}
           n == Cardinality(F)
<1>1. IsFiniteSet(F) /\ key \in [F -> Int] /\ NoTies(F, key) /\ F \subseteq Addrs
  BY AgeKeyType, FramesFinite
<1>2. ASSUME NEW a \in F
      PROVE  younger(a) = Below(F, key, a)
  <2>1. ASSUME NEW b \in F
        PROVE  (Newer(fl[a].seq, fl[b].seq) \/ (fl[b].seq = fl[a].seq /\ b < a)) <=> key[b] < key[a]
    <3>1. /\ fl[a].seq \in Seqs /\ fl[b].seq \in Seqs /\ a \in Nat /\ b \in Nat
          /\ Diff(c, fl[a].seq) \in 1 .. Half /\ Diff(c, fl[b].seq) \in 1 .. Half
          /\ fl[b].seq = fl[a].seq => a = b
      BY <1>1, CellFields, FrameCells DEF Numbered
    <3>2. Newer(fl[a].seq, fl[b].seq) <=> Diff(c, fl[a].seq) < Diff(c, fl[b].seq)
      BY <3>1, NewerIsNearer
    <3>3. key[a] = SeqCount - Diff(c, fl[a].seq) /\ key[b] = SeqCount - Diff(c, fl[b].seq)
      BY DEF AgeKey
    <3>4. Diff(c, fl[a].seq) < Diff(c, fl[b].seq) <=> key[b] < key[a]
      BY <3>1, <3>3, HalfBound
    <3>5. ~(fl[b].seq = fl[a].seq /\ b < a)
      BY <3>1
    <3>6. ASSUME key[b] < key[a]
          PROVE  Newer(fl[a].seq, fl[b].seq)
      BY <3>2, <3>4, <3>6
    <3>7. ASSUME Newer(fl[a].seq, fl[b].seq)
          PROVE  key[b] < key[a]
      BY <3>2, <3>4, <3>7
    <3> HIDE DEF key
    <3> QED
      BY <3>5, <3>6, <3>7
  <2> HIDE DEF key
  <2> QED
    BY <2>1 DEF Below
<1>3. \A a \in F : Cardinality(younger(a)) = Rank(F, key, a)
  BY <1>2 DEF Rank
<1>4. n \in Nat /\ \A i \in 0 .. n - 1 : \E a \in F : Rank(F, key, a) = i
  BY <1>1, RanksAreOneToOne, FS_CardinalityType DEF NoTies
<1>5. ByAgeOf(fl) = [i \in 1 .. n |-> CHOOSE a \in F : Cardinality(younger(a)) = i - 1]
  BY DEF ByAgeOf
<1> HIDE DEF F, key, younger, n
<1>6. ASSUME NEW i \in 1 .. n
      PROVE  fl[ByAgeOf(fl)[i]].seq = NumberOf(fl)[CHOOSE a \in F : Rank(F, key, a) = i - 1]
  <2>1. i - 1 \in 0 .. n - 1
    BY <1>4
  <2>2. PICK b \in F : b = CHOOSE a \in F : Rank(F, key, a) = i - 1
    BY <1>4, <2>1
  <2>3. (CHOOSE a \in F : Cardinality(younger(a)) = i - 1) = (CHOOSE a \in F : Rank(F, key, a) = i - 1)
    BY <1>3
  <2>4. ByAgeOf(fl)[i] = b
    BY <1>5, <2>2, <2>3
  <2>5. NumberOf(fl)[b] = fl[b].seq
    BY DEF NumberOf, F
  <2> QED
    BY <2>2, <2>4, <2>5
<1>7. DOMAIN ByAgeOf(fl) = 1 .. n
  BY <1>5
<1>8. LogOf(fl) = [i \in 1 .. n |-> NumberOf(fl)[CHOOSE a \in F : Rank(F, key, a) = i - 1]]
  BY <1>6, <1>7 DEF LogOf
<1> QED
  BY <1>8 DEF Listed, F, n, key

LEMMA LogShrinks ==
  ASSUME NEW fl \in [Addrs -> Cell], NEW c \in Seqs, Numbered(fl, c), NEW gl \in [Addrs -> Cell],
         Frames(gl) \subseteq Frames(fl), \A a \in Frames(gl) : gl[a].seq = fl[a].seq,
         NEW lost, lost = Places(Frames(fl), AgeKey(fl, c), Frames(fl) \ Frames(gl))
  PROVE  /\ LogOf(gl) = Thinned(LogOf(fl), lost)
         /\ Len(LogOf(fl)) = Cardinality(Frames(fl))
<1> DEFINE F == Frames(fl)
           G == Frames(gl)
           kf == AgeKey(fl, c)
           kg == AgeKey(gl, c)
           nf == NumberOf(fl)
           ng == NumberOf(gl)
<1>1. Numbered(gl, c)
  BY DEF Numbered
<1>2. IsFiniteSet(F) /\ kf \in [F -> Int] /\ NoTies(F, kf)
  BY AgeKeyType
<1>3. IsFiniteSet(G) /\ kg \in [G -> Int] /\ NoTies(G, kg)
  BY <1>1, AgeKeyType
<1>4. LogOf(fl) = Listed(F, kf, nf)
  BY LogIsListed
<1>5. LogOf(gl) = Listed(G, kg, ng)
  BY <1>1, LogIsListed
<1>6. \A a \in G : kg[a] = kf[a] /\ ng[a] = nf[a]
  BY DEF AgeKey, NumberOf
<1>7. G \in SUBSET F /\ lost = Places(F, kf, F \ G)
  OBVIOUS
<1>8. /\ \E V : Listed(F, kf, nf) \in Seq(V)
      /\ Len(Listed(F, kf, nf)) = Cardinality(F)
  BY <1>2, ListedIsSequence
<1> HIDE DEF F, G, kf, kg, nf, ng
<1>9. Listed(G, kg, ng) = Thinned(Listed(F, kf, nf), lost)
  BY ONLY <1>2, <1>3, <1>6, <1>7, ListThinned
<1>10. Len(LogOf(fl)) = Cardinality(F)
  BY <1>4, <1>8
<1> QED
  BY <1>4, <1>5, <1>9, <1>10 DEF F

LEMMA LogStays ==
  ASSUME NEW fl \in [Addrs -> Cell], NEW c \in Seqs, Numbered(fl, c), NEW gl \in [Addrs -> Cell],
         Frames(gl) = Frames(fl), \A a \in Frames(gl) : gl[a].seq = fl[a].seq
  PROVE  LogOf(gl) = LogOf(fl)
<1>1. Numbered(gl, c)
  BY DEF Numbered
<1>2. AgeKey(gl, c) = AgeKey(fl, c) /\ NumberOf(gl) = NumberOf(fl)
  BY DEF AgeKey, NumberOf
<1>3. LogOf(fl) = Listed(Frames(fl), AgeKey(fl, c), NumberOf(fl))
  BY LogIsListed
<1>4. LogOf(gl) = Listed(Frames(gl), AgeKey(gl, c), NumberOf(gl))
  BY <1>1, LogIsListed
<1> QED
  BY <1>2, <1>3, <1>4

LEMMA LogGrows ==
  ASSUME NEW gl \in [Addrs -> Cell], NEW c \in Seqs, Numbered(gl, c), NEW fl \in [Addrs -> Cell],
         NEW n, n \notin Frames(fl), Frames(gl) = Frames(fl) \cup {n},
         \A a \in Frames(fl) : gl[a].seq = fl[a].seq /\ Diff(c, gl[n].seq) < Diff(c, fl[a].seq)
  PROVE  Extends(LogOf(fl), LogOf(gl))
<1> DEFINE F == Frames(fl)
           G == Frames(gl)
           kf == AgeKey(fl, c)
           kg == AgeKey(gl, c)
           nf == NumberOf(fl)
           ng == NumberOf(gl)
<1>1. Numbered(fl, c)
  BY DEF Numbered
<1>2. IsFiniteSet(F) /\ kf \in [F -> Int] /\ NoTies(F, kf)
  BY <1>1, AgeKeyType
<1>3. kg \in [G -> Int] /\ NoTies(G, kg)
  BY AgeKeyType
<1>4. LogOf(fl) = Listed(F, kf, nf)
  BY <1>1, LogIsListed
<1>5. LogOf(gl) = Listed(G, kg, ng)
  BY LogIsListed
<1>6. ASSUME NEW a \in F
      PROVE  kg[a] = kf[a] /\ ng[a] = nf[a] /\ kf[a] < kg[n]
  <2>1. kg[a] = kf[a] /\ ng[a] = nf[a]
    BY DEF AgeKey, NumberOf
  <2>2. kf[a] = SeqCount - Diff(c, fl[a].seq) /\ kg[n] = SeqCount - Diff(c, gl[n].seq)
    BY DEF AgeKey
  <2>3. /\ Diff(c, fl[a].seq) \in 1 .. Half /\ Diff(c, gl[n].seq) \in 1 .. Half
        /\ Diff(c, gl[n].seq) < Diff(c, fl[a].seq)
    BY <1>1 DEF Numbered
  <2> HIDE DEF kf, kg
  <2>4. kf[a] < kg[n]
    BY <2>2, <2>3, HalfBound
  <2> QED
    BY <2>1, <2>4
<1>7. G = F \cup {n} /\ n \notin F
  OBVIOUS
<1> HIDE DEF F, G, kf, kg, nf, ng
<1>8. Extends(Listed(F, kf, nf), Listed(G, kg, ng))
  BY ONLY <1>2, <1>3, <1>6, <1>7, ListGrows
<1> QED
  BY <1>4, <1>5, <1>8

-----------------------------------------------------------------------------
(* The steps of LogStore, said of the list in flash.                       *)
TheList == [i \in DOMAIN ByAge |-> flash[ByAge[i]].seq]

LEMMA ListNow == TheList = LogOf(flash) /\ TheList' = LogOf(flash')
<1>1. ByAge = ByAgeOf(flash)
  BY DEF ByAge, Sorted, ByAgeOf
<1>2. ByAge' = ByAgeOf(flash')
  BY DEF ByAge, Sorted, ByAgeOf
<1> QED
  BY <1>1, <1>2 DEF TheList, LogOf

LEMMA Storing ==
  ASSUME Extends(LogOf(flash), LogOf(flash')), op.at # "wipe", op'.at # "wipe"
  PROVE  Store!Next
<1>1. Extends(TheList, TheList')
  BY ListNow
<1>2. /\ Len(TheList') = Len(TheList) + 1
      /\ SubSeq(TheList', 1, Len(TheList)) = TheList
  BY <1>1 DEF Extends
<1>3. (op'.at = "wipe") = (op.at = "wipe")
  OBVIOUS
<1>4. Store!Store
  BY <1>2, <1>3, Zenon DEF Store!Store, TheList
<1> QED
  BY <1>4 DEF Store!Next

LEMMA Evicting ==
  ASSUME NEW lost, lost \in SUBSET (1 .. Len(LogOf(flash))), lost # {}, Len(LogOf(flash)) \in Nat,
         \A i \in lost : i <= MostFrames, LogOf(flash') = Thinned(LogOf(flash), lost),
         op.at # "wipe", op'.at # "wipe"
  PROVE  Store!Next
<1>1. TheList' = Thinned(TheList, lost)
  BY ListNow
<1>2. lost \in SUBSET (1 .. (IF Len(TheList) < MostFrames THEN Len(TheList) ELSE MostFrames))
  BY ListNow
<1>3. (op'.at = "wipe") = (op.at = "wipe") /\ ~(op.at = "wipe")
  OBVIOUS
<1>4. TheList' = Store!Without(lost)
  BY <1>1 DEF Thinned, Store!Without, TheList, Cardinality, Store!Cardinality
<1>5. Store!Evict
  BY <1>2, <1>3, <1>4, Zenon DEF Store!Evict, TheList
<1> QED
  BY <1>5 DEF Store!Next

LEMMA Losing ==
  ASSUME NEW lost, lost \in SUBSET (1 .. Len(LogOf(flash))),
         LogOf(flash') = Thinned(LogOf(flash), lost), op.at = "wipe",
         lost # {} \/ op'.at # "wipe"
  PROVE  Store!Next
<1>1. TheList' = Thinned(TheList, lost) /\ lost \in SUBSET (1 .. Len(TheList))
  BY ListNow
<1>2. TheList' = Store!Without(lost)
  BY <1>1 DEF Thinned, Store!Without, TheList, Cardinality, Store!Cardinality
<1>3. CASE op'.at = "wipe"
  <2>1. (op'.at = "wipe") = (op.at = "wipe")
    BY <1>3
  <2>2. Store!Lose
    BY <1>1, <1>2, <1>3, <2>1 DEF Store!Lose, TheList
  <2> QED
    BY <2>2 DEF Store!Next
<1>4. CASE op'.at # "wipe"
  <2>1. (op'.at = "wipe") = FALSE
    BY <1>4
  <2>2. Store!StopWipe
    BY <1>1, <1>2, <2>1 DEF Store!StopWipe, TheList
  <2> QED
    BY <2>2 DEF Store!Next
<1> QED
  BY <1>3, <1>4

LEMMA Starting ==
  ASSUME LogOf(flash') = LogOf(flash), op.at # "wipe", op'.at = "wipe"
  PROVE  Store!Next
<1>1. TheList' = TheList
  BY ListNow
<1>2. (op'.at = "wipe") = TRUE
  OBVIOUS
<1>3. Store!StartWipe
  BY <1>1, <1>2 DEF Store!StartWipe, TheList
<1> QED
  BY <1>3 DEF Store!Next

LEMMA Resting ==
  ASSUME LogOf(flash') = LogOf(flash), op.at = "wipe" <=> op'.at = "wipe"
  PROVE  UNCHANGED Store!vars
<1>1. TheList' = TheList
  BY ListNow
<1>2. (op'.at = "wipe") = (op.at = "wipe")
  OBVIOUS
<1> QED
  BY <1>1, <1>2 DEF Store!vars, TheList

-----------------------------------------------------------------------------
(* A sector has room for MostFrames frames.                                *)

LEMMA ShortestFrame ==
  ASSUME NEW n \in Lens
  PROVE  \E m \in Lens : /\ \A k \in Lens : m <= k
                         /\ m = CHOOSE j \in Lens : \A k \in Lens : j <= k
<1> DEFINE key == [k \in Lens |-> k]
<1>1. IsFiniteSet(Lens) /\ \A k \in Lens : k \in Int
  <2>1. IsFiniteSet(1 .. SectorSize)
    BY AreaPositive, FS_Interval
  <2>2. Lens \in SUBSET (1 .. SectorSize)
    BY FlashAssumption
  <2>3. IsFiniteSet(Lens)
    BY ONLY <2>1, <2>2, FS_Subset
  <2> QED
    BY <2>3, LensNat
<1>2. key \in [Lens -> Int] /\ \A a, b \in Lens : key[a] = key[b] => a = b
  BY <1>1
<1>3. Cardinality(Lens) \in Nat /\ Cardinality(Lens) # 0
  BY <1>1, FS_CardinalityType, FS_EmptySet
<1>4. 0 \in 0 .. Cardinality(Lens) - 1
  BY <1>3
<1> HIDE DEF key
<1>5. PICK m \in Lens : Rank(Lens, key, m) = 0
  BY <1>1, <1>2, <1>4, RanksAreOneToOne
<1>6. IsFiniteSet(Below(Lens, key, m)) /\ Cardinality(Below(Lens, key, m)) = 0
  BY <1>1, <1>5, FS_Subset DEF Rank, Below
<1>7. Below(Lens, key, m) = {}
  BY <1>6, FS_EmptySet
<1>8. \A k \in Lens : ~(k < m)
  BY <1>7 DEF Below, key
<1>9. \A k \in Lens : m <= k
  BY <1>1, <1>8
<1> QED
  BY <1>9

LEMMA LongerTimes ==
  ASSUME NEW m \in Nat, NEW x \in Nat, NEW y \in Nat, x <= y
  PROVE  m * x <= m * y
<1>1. PICK d \in Nat : y = x + d
  <2>1. y - x \in Nat /\ y = x + (y - x)
    OBVIOUS
  <2> QED
    BY <2>1
<1>2. m * y = m * x + m * d /\ m * d \in Nat /\ m * x \in Nat
  BY <1>1
<1> QED
  BY <1>2

LEMMA SlotsApart ==
  ASSUME NEW m \in Nat \ {0}, NEW x \in Nat, NEW y \in Nat, x + m <= y
  PROVE  x \div m < y \div m
<1>1. /\ x \div m \in Nat /\ x = m * (x \div m) + (x % m) /\ x % m \in 0 .. m - 1
      /\ y \div m \in Nat /\ y = m * (y \div m) + (y % m) /\ y % m \in 0 .. m - 1
  BY DivMod, ModRange
<1>2. PICK p \in Nat, q \in Nat, r \in 0 .. m - 1, t \in 0 .. m - 1 :
        p = x \div m /\ q = y \div m /\ x = m * p + r /\ y = m * q + t
  BY <1>1
<1>3. m * p \in Nat /\ m * q \in Nat
  OBVIOUS
<1>4. ASSUME q <= p
      PROVE  FALSE
  <2>1. m * q <= m * p
    BY <1>4, LongerTimes
  <2> QED
    BY <1>2, <1>3, <2>1
<1> QED
  BY <1>2, <1>4

LEMMA SectorHolds ==
  ASSUME NEW fl \in [Addrs -> Cell], HomedIn(fl), NEW s \in Addrs, IsSectorStart(s),
         NEW D, D = Frames(fl) \cap SectorCells(s), NEW f \in D
  PROVE  Cardinality(D) <= MostFrames /\ MostFrames \in Nat
<1>1. \A g \in D : /\ g \in Frames(fl) /\ g \in Addrs /\ g \in Nat /\ fl[g].len \in Lens
                   /\ s <= g /\ fl[g].off = 0 /\ fl[g].len > 0 /\ fl[g].len \in Nat
                   /\ g \in SectorCells(s)
  BY FrameCells DEF SectorCells
<1>2. PICK m \in Lens : /\ \A k \in Lens : m <= k
                        /\ m = CHOOSE j \in Lens : \A k \in Lens : j <= k
  BY <1>1, ShortestFrame
<1>3. MostFrames = SectorSize \div m /\ m \in Nat \ {0} /\ SectorSize \in Nat /\ m <= SectorSize
  BY <1>2, LensNat, AreaPositive DEF MostFrames
<1>4. MostFrames \in Nat
  BY <1>3, DivMod
<1>5. SectorEnd(s) = s + SectorSize /\ s \in Nat
  BY SectorInArea, AreaPositive DEF Addrs
<1> DEFINE slot == [g \in D |-> (g - s) \div m]
<1>6. ASSUME NEW g \in D
      PROVE  slot[g] \in 0 .. MostFrames - 1
  <2>1. SectorEnd(g) = SectorEnd(s)
    <3>1. SectorStart(g) = s
      BY <1>1, ErasedCellsInSector
    <3>2. SectorStart(s) = s
      BY SectorInArea
    <3> QED
      BY <3>1, <3>2 DEF SectorEnd
  <2>2. g + fl[g].len <= SectorEnd(g)
    <3>1. g - fl[g].off + fl[g].len <= SectorEnd(g)
      BY <1>1 DEF HomedIn
    <3> QED
      BY <1>1, <3>1
  <2>3. m <= fl[g].len
    BY <1>1, <1>2
  <2>4. g - s \in Nat /\ (g - s) + m <= SectorSize
    BY <1>1, <1>3, <1>5, <2>1, <2>2, <2>3
  <2>5. (g - s) \div m < SectorSize \div m /\ (g - s) \div m \in Nat
    BY <1>3, <2>4, SlotsApart, DivMod
  <2> QED
    BY <1>3, <1>4, <2>5
<1>7. ASSUME NEW g \in D, NEW h \in D, g < h
      PROVE  slot[g] < slot[h]
  <2>1. g + fl[g].len <= h
    BY <1>1, <1>7, FramesApart
  <2>2. m <= fl[g].len
    BY <1>1, <1>2
  <2>3. g - s \in Nat /\ h - s \in Nat /\ (g - s) + m <= h - s
    BY <1>1, <1>3, <1>5, <2>1, <2>2
  <2> QED
    BY <1>3, <2>3, SlotsApart
<1>8. slot \in Injection(D, 0 .. MostFrames - 1)
  <2>1. slot \in [D -> 0 .. MostFrames - 1]
    BY <1>6
  <2> HIDE DEF slot
  <2>2. ASSUME NEW g \in D, NEW h \in D, slot[g] = slot[h]
        PROVE  g = h
    <3>1. slot[g] \in Int /\ slot[h] \in Int /\ g \in Int /\ h \in Int
      BY <1>1, <2>1
    <3>2. ~(g < h) /\ ~(h < g)
      BY <1>7, <2>2, <3>1
    <3> QED
      BY <3>1, <3>2
  <2> QED
    BY <2>1, <2>2 DEF Injection, IsInjective
<1>9. IsFiniteSet(0 .. MostFrames - 1) /\ Cardinality(0 .. MostFrames - 1) = MostFrames
  <2>1. /\ IsFiniteSet(0 .. MostFrames - 1)
        /\ Cardinality(0 .. MostFrames - 1)
             = IF 0 > MostFrames - 1 THEN 0 ELSE MostFrames - 1 - 0 + 1
    BY <1>4, FS_Interval
  <2> QED
    BY <1>4, <2>1
<1> HIDE DEF slot
<1>10. Cardinality(D) <= Cardinality(0 .. MostFrames - 1)
  BY <1>8, <1>9, FS_Injection
<1> QED
  BY <1>4, <1>9, <1>10

-----------------------------------------------------------------------------
(* What is left of a program that was cut short.                           *)

(* A page begins behind b, at a or before.                                 *)
LaterPage(b, a) == \E p \in Addrs : p % PageSize = 0 /\ b < p /\ p <= a

(* Where a byte lies on a later page than its frame begins, the first byte *)
(* of that frame has been programmed.                                      *)
HeadFirst(fl) ==
  \A a \in Addrs : fl[a].len > 0 /\ LaterPage(a - fl[a].off, a) => fl[a - fl[a].off] # Erased

(* While append programs, its frame is not complete yet: not even by what  *)
(* an earlier one with the same number left behind.                        *)
StillWriting ==
  op.at = "program" =>
    /\ op.addr = op.start => op.start \notin Frames(flash)
    /\ op.addr > op.start =>
         /\ op.addr % PageSize = 0
         /\ flash[op.start] = OwnByte(op.start) =>
              \A a \in Addrs : op.addr <= a /\ a < op.start + op.len => flash[a] # OwnByte(a)

(* The cells of a command's own bytes.                                     *)
Programs(gl) ==
  \A a \in Addrs : \/ gl[a] = flash[a]
                   \/ a \in ChunkCells /\ gl[a] = Garbage
                   \/ a \in ChunkCells /\ gl[a] = OwnByte(a) /\ flash[a] = Erased

LEMMA ProgramsCells ==
  ASSUME Inv, op.at = "program", NEW gl,
         \/ gl = flash \/ TornProgram(gl)
         \/ gl = [a \in Addrs |-> IF a \in ChunkCells THEN Programmed(a) ELSE flash[a]]
  PROVE  Programs(gl)
<1>1. CASE gl = flash
  BY <1>1 DEF Programs
<1>2. CASE gl = [a \in Addrs |-> IF a \in ChunkCells THEN Programmed(a) ELSE flash[a]]
  BY <1>2 DEF Programs, Programmed, OwnByte
<1>3. CASE TornProgram(gl)
  <2>1. PICK torn \in [ChunkCells -> {"old", "new", "bad"}] :
          gl = [b \in Addrs |->
                  IF b \notin ChunkCells THEN flash[b]
                  ELSE CASE torn[b] = "old" -> flash[b]
                         [] torn[b] = "new" -> Programmed(b)
                         [] torn[b] = "bad" -> Garbage]
    BY <1>3 DEF TornProgram
  <2>2. ASSUME NEW a \in Addrs
        PROVE  \/ gl[a] = flash[a]
               \/ a \in ChunkCells /\ gl[a] = Garbage
               \/ a \in ChunkCells /\ gl[a] = OwnByte(a) /\ flash[a] = Erased
    <3>1. CASE a \notin ChunkCells
      BY <2>1, <3>1
    <3>2. CASE a \in ChunkCells
      <4>1. torn[a] \in {"old", "new", "bad"}
        BY <3>2
      <4>2. gl[a] = flash[a] \/ gl[a] = Programmed(a) \/ gl[a] = Garbage
        BY <2>1, <3>2, <4>1
      <4> QED
        BY <3>2, <4>2 DEF Programmed, OwnByte
    <3> QED
      BY <3>1, <3>2
  <2> QED
    BY <2>2 DEF Programs
<1> QED
  BY <1>1, <1>2, <1>3

(* A page ends where the next multiple of its size is.                     *)
LEMMA PageEnd ==
  ASSUME NEW a \in Nat
  PROVE  /\ a % PageSize \in 0 .. PageSize - 1
         /\ (a + (PageSize - (a % PageSize))) % PageSize = 0
         /\ \A p \in Nat : p % PageSize = 0 /\ a < p => a + (PageSize - (a % PageSize)) <= p
<1>1. PageSize \in Nat \ {0}
  BY FlashAssumption
<1>2. /\ a \div PageSize \in Nat /\ a = PageSize * (a \div PageSize) + (a % PageSize)
      /\ a % PageSize \in 0 .. PageSize - 1
  BY <1>1, DivMod, ModRange
<1>3. PICK q \in Nat, r \in 0 .. PageSize - 1 :
        q = a \div PageSize /\ r = a % PageSize /\ a = PageSize * q + r
  BY <1>2
<1>4. PageSize * q \in Nat /\ PageSize * (q + 1) = PageSize * q + PageSize
  BY <1>1
<1>5. a + (PageSize - r) = PageSize * (q + 1)
  BY <1>1, <1>3, <1>4
<1>6. (PageSize * (q + 1)) % PageSize = 0
  BY <1>1, MultipleMod
<1>7. ASSUME NEW p \in Nat, p % PageSize = 0, a < p
      PROVE  PageSize * (q + 1) <= p
  <2>1. p \div PageSize \in Nat /\ p = PageSize * (p \div PageSize)
    BY <1>1, <1>7, DivMod
  <2>2. PICK t \in Nat : p = PageSize * t
    BY <2>1
  <2>3. ~(t <= q)
    <3>1. SUFFICES ASSUME t <= q
                   PROVE  FALSE
      OBVIOUS
    <3>2. PageSize * t <= PageSize * q
      BY <1>1, <3>1, LongerTimes
    <3> QED
      BY <1>1, <1>3, <1>4, <1>7, <2>2, <3>2
  <2>4. q + 1 <= t
    BY <2>3
  <2>5. PageSize * (q + 1) <= PageSize * t
    BY <1>1, <2>4, LongerTimes
  <2> QED
    BY <2>2, <2>5
<1> QED
  BY <1>2, <1>3, <1>5, <1>6, <1>7

(* What an erase leaves, done or cut short.                                *)
Wipes(gl) ==
  \/ gl = flash \/ TornErase(gl)
  \/ gl = [a \in Addrs |-> IF a \in SectorCells(op.addr) THEN Erased ELSE flash[a]]

LEMMA HeadInSector ==
  ASSUME NEW fl \in [Addrs -> Cell], HomedIn(fl), NEW a \in Addrs, fl[a].len > 0
  PROVE  /\ a - fl[a].off \in Addrs
         /\ SectorStart(a - fl[a].off) = SectorStart(a)
<1>1. fl[a].off \in Nat /\ fl[a].len \in Nat \ {0}
  BY LensNat DEF Cell, Erased, Garbage
<1>2. /\ SectorStart(a) <= a - fl[a].off
      /\ a - fl[a].off + fl[a].len <= SectorEnd(a)
  BY DEF HomedIn
<1>3. a \in Nat /\ SectorStart(a) \in Nat /\ a < AreaSize /\ SectorEnd(a) \in Nat /\ AreaSize \in Nat
  BY SectorInArea, AreaPositive DEF Addrs
<1>4. a - fl[a].off \in Addrs /\ a - fl[a].off < SectorEnd(a)
  BY <1>1, <1>2, <1>3 DEF Addrs
<1> QED
  BY <1>2, <1>4, SameSector

LEMMA WipesHeads ==
  ASSUME flash \in [Addrs -> Cell], HomedIn(flash), HeadFirst(flash),
         op.addr \in Addrs, IsSectorStart(op.addr), NEW gl, Wipes(gl)
  PROVE  HeadFirst(gl)
<1> DEFINE s == op.addr
<1>1. SUFFICES ASSUME NEW a \in Addrs, gl[a].len > 0, LaterPage(a - gl[a].off, a), gl # flash
               PROVE  gl[a - gl[a].off] # Erased
  BY DEF HeadFirst
<1> DEFINE h == a - flash[a].off
<1>2. ASSUME flash[a].len > 0, a \notin SectorCells(s)
      PROVE  h \in Addrs /\ h \notin SectorCells(s)
  <2>1. h \in Addrs /\ SectorStart(h) = SectorStart(a)
    BY <1>2, HeadInSector
  <2>2. SUFFICES ASSUME h \in SectorCells(s)
                 PROVE  FALSE
    BY <2>1
  <2>3. SectorStart(a) = s
    BY <2>1, <2>2, ErasedCellsInSector
  <2>4. SectorEnd(a) = SectorEnd(s)
    BY <2>3, SectorInArea DEF SectorEnd
  <2>5. a \in SectorCells(s)
    BY <2>3, <2>4, SectorInArea DEF SectorCells
  <2> QED
    BY <1>2, <2>5
<1>3. CASE gl = [b \in Addrs |-> IF b \in SectorCells(s) THEN Erased ELSE flash[b]]
  <2>1. a \notin SectorCells(s) /\ gl[a] = flash[a]
    BY <1>1, <1>3 DEF Erased
  <2>2. h \in Addrs /\ gl[h] = flash[h]
    BY <1>1, <1>2, <1>3, <2>1
  <2> QED
    BY <1>1, <2>1, <2>2 DEF HeadFirst
<1>4. CASE TornErase(gl)
  <2>1. PICK kept \in SUBSET (Frames(flash) \cap SectorCells(s)), rest \in {Erased, Garbage} :
          gl = [b \in Addrs |-> IF b \in SectorCells(s) \ CellsOfFrames(kept)
                                THEN rest ELSE flash[b]]
    BY <1>4 DEF TornErase
  <2>2. a \notin SectorCells(s) \ CellsOfFrames(kept) /\ gl[a] = flash[a]
    BY <1>1, <2>1 DEF Erased, Garbage
  <2>3. CASE a \notin SectorCells(s)
    <3>1. h \in Addrs /\ gl[h] = flash[h]
      BY <1>1, <1>2, <2>1, <2>2, <2>3
    <3> QED
      BY <1>1, <2>2, <3>1 DEF HeadFirst
  <2>4. CASE a \in CellsOfFrames(kept)
    <3>1. PICK f \in kept : f <= a /\ a < f + flash[f].len
      BY <2>4 DEF CellsOfFrames
    <3>2. /\ f \in Frames(flash) /\ f \in Addrs /\ f \in Nat /\ flash[f].len \in Nat /\ flash[f].len > 0
          /\ \A i \in 0 .. flash[f].len - 1 : flash[f + i].off = i
      BY FrameCells
    <3>3. a - f \in 0 .. flash[f].len - 1 /\ f + (a - f) = a /\ a - (a - f) = f
      BY <3>1, <3>2, AreaPositive DEF Addrs
    <3>4. a - gl[a].off = f
      BY <2>2, <3>2, <3>3
    <3>5. f \in CellsOfFrames(kept)
      BY <3>1, <3>2 DEF CellsOfFrames
    <3>6. gl[f] = flash[f] /\ flash[f] # Erased
      BY <2>1, <3>2, <3>5 DEF Erased
    <3> QED
      BY <3>4, <3>6
  <2> QED
    BY <2>2, <2>3, <2>4
<1> QED
  BY <1>1, <1>3, <1>4 DEF Wipes

LEMMA ProgramsHeads ==
  ASSUME Inv, HomedIn(flash), Written, HeadFirst(flash), op.at = "program", NEW gl, Programs(gl)
  PROVE  HeadFirst(gl)
<1>1. SUFFICES ASSUME NEW a \in Addrs, gl[a].len > 0, LaterPage(a - gl[a].off, a)
               PROVE  gl[a - gl[a].off] # Erased
  BY DEF HeadFirst
<1>2. /\ flash \in [Addrs -> Cell] /\ op.start \in Addrs /\ op.start \in Nat /\ a \in Nat
      /\ op.seq \in Seqs /\ op.len \in Lens /\ op.addr \in Nat /\ op.start <= op.addr
  BY AreaPositive DEF Inv, StorageType, OpShape, Addrs
<1>3. \A b \in Addrs : OwnByte(b) # Erased /\ Garbage # Erased
  BY <1>2, CellKinds DEF OwnByte, Addrs
<1>4. \A b \in Addrs : flash[b] # Erased => gl[b] # Erased
  BY <1>3 DEF Programs
<1>5. CASE gl[a] = flash[a]
  <2>1. a - flash[a].off \in Addrs
    BY <1>1, <1>2, <1>5, HeadInSector
  <2>2. flash[a - flash[a].off] # Erased
    BY <1>1, <1>5 DEF HeadFirst
  <2> QED
    BY <1>4, <1>5, <2>1, <2>2
<1>6. CASE a \in ChunkCells /\ gl[a] = OwnByte(a)
  <2>1. gl[a].off = a - op.start
    BY <1>6 DEF OwnByte, FrameByte
  <2>2. a - gl[a].off = op.start
    BY <1>2, <2>1
  <2>3. PICK p \in Addrs : p % PageSize = 0 /\ op.start < p /\ p <= a
    BY <1>1, <2>2 DEF LaterPage
  <2>4. p \in Nat
    BY AreaPositive DEF Addrs
  <2>5. a < op.addr + Chunk /\ Chunk \in Nat /\ Chunk <= PageSize - (op.addr % PageSize)
    BY <1>6, ChunkFits DEF ChunkCells
  <2>6. op.addr # op.start
    <3>1. SUFFICES ASSUME op.addr = op.start
                   PROVE  FALSE
      OBVIOUS
    <3>2. /\ op.start % PageSize \in 0 .. PageSize - 1 /\ PageSize \in Nat
          /\ op.start + (PageSize - (op.start % PageSize)) <= p
      BY <1>2, <2>3, <2>4, PageEnd, FlashAssumption
    <3> QED
      BY <1>2, <2>3, <2>4, <2>5, <3>1, <3>2
  <2>7. op.start \in Behind
    BY <1>2, <2>6 DEF Behind
  <2>8. flash[op.start] # Erased
    BY <1>2, <1>3, <2>7 DEF Written
  <2> QED
    BY <1>2, <1>4, <2>2, <2>8
<1>7. gl[a] # Garbage
  BY <1>1 DEF Garbage
<1> QED
  BY <1>5, <1>6, <1>7 DEF Programs

StoreInv == HeadFirst(flash) /\ StillWriting

LEMMA InitStoreInv == Init => StoreInv
<1> SUFFICES ASSUME Init
             PROVE  StoreInv
  OBVIOUS
<1>1. HeadFirst(flash)
  BY DEF Init, HeadFirst, Erased
<1>2. op.at # "program"
  BY DEF Init, Off, Nothing
<1> QED
  BY <1>1, <1>2 DEF StoreInv, StillWriting

LEMMA StepHeads ==
  ASSUME IndexInv, StoreInv, [Next]_vars
  PROVE  HeadFirst(flash')
<1>1. /\ Inv /\ HomedIn(flash) /\ Written /\ HeadFirst(flash) /\ flash \in [Addrs -> Cell]
      /\ op.addr \in 0 .. AreaSize /\ AreaSize \in Nat
      /\ op.at \in {"erase", "wipe"} => IsSectorStart(op.addr)
      /\ op.at = "erase" => op.addr \in Addrs
  BY AreaPositive DEF StoreInv, IndexInv, Inv, StorageType, OpShape
<1>2. ASSUME op.at \in {"erase", "wipe"}, op.addr < AreaSize, Wipes(flash')
      PROVE  HeadFirst(flash')
  <2>1. op.addr \in Addrs
    BY <1>1, <1>2 DEF Addrs
  <2> QED
    BY <1>1, <1>2, <2>1, WipesHeads
<1>3. ASSUME op.at = "erase", Wipes(flash')
      PROVE  HeadFirst(flash')
  BY <1>1, <1>3, WipesHeads
<1>4. ASSUME op.at = "program", Programs(flash')
      PROVE  HeadFirst(flash')
  BY <1>1, <1>4, ProgramsHeads
<1>5. ASSUME flash' = flash \/ Torn(flash')
      PROVE  HeadFirst(flash')
  <2>1. CASE flash' = flash
    BY <1>1, <2>1
  <2>2. CASE op.at = "program" /\ TornProgram(flash')
    BY <1>1, <1>4, <2>2, ProgramsCells
  <2>3. CASE op.at = "erase" /\ TornErase(flash')
    BY <1>3, <2>3 DEF Wipes
  <2>4. CASE op.at = "wipe" /\ op.addr < AreaSize /\ TornErase(flash')
    BY <1>2, <2>4 DEF Wipes
  <2> QED
    BY <1>5, <2>1, <2>2, <2>3, <2>4 DEF Torn
<1>6. CASE EraseSector
  BY <1>3, <1>6 DEF EraseSector, Wipes
<1>7. CASE WipeSector
  BY <1>2, <1>7 DEF WipeSector, Wipes
<1>8. CASE ProgramPage
  <2>1. op.at = "program" /\ flash' = [a \in Addrs |-> IF a \in ChunkCells THEN Programmed(a) ELSE flash[a]]
    BY <1>8 DEF ProgramPage
  <2> QED
    BY <1>1, <1>4, <2>1, ProgramsCells
<1>9. CASE AppendFails \/ WipeFails \/ PowerLoss
  BY <1>5, <1>9 DEF AppendFails, WipeFails, PowerLoss
<1>10. CASE Boot \/ (\E n \in Lens : StartAppend(n)) \/ Verify \/ StartWipe \/ FinishWipe \/ UNCHANGED vars
  <2>1. flash' = flash
    BY <1>10 DEF Boot, StartAppend, BeginAppend, Verify, StartWipe, FinishWipe, EndWipe, vars
  <2> QED
    BY <1>5, <2>1
<1> QED
  BY <1>6, <1>7, <1>8, <1>9, <1>10 DEF Next

LEMMA AppendsNoFrame ==
  ASSUME OrderInv, NEW n \in Lens, StartAppend(n), op'.at = "program"
  PROVE  op'.addr = op'.start /\ op'.start \notin Frames(flash')
<1> DEFINE p == PlaceFor(n)
<1>1. /\ op.at = "idle" /\ flash' = flash
      /\ op' = [at |-> IF IsSectorStart(p) THEN "erase" ELSE "program",
                addr |-> p, start |-> p, len |-> n, seq |-> nextSeq]
  BY DEF StartAppend, BeginAppend
<1>2. p = index.write /\ ~IsSectorStart(p)
  <2>1. ~IsSectorStart(p) => p = index.write
    BY <1>1, PlaceKeepsOrder
  <2> QED
    BY <1>1, <2>1
<1> HIDE DEF p
<1>3. op'.start = p /\ op'.addr = p
  BY <1>1
<1>4. EndBefore(flash, Frames(flash), p)
  BY <1>1, <1>2 DEF OrderInv, RingInv, InOrder, Apart
<1>5. ASSUME p \in Frames(flash)
      PROVE  FALSE
  <2>1. p + flash[p].len <= p
    BY <1>4, <1>5 DEF EndBefore
  <2>2. p \in Nat /\ flash[p].len \in Nat /\ flash[p].len > 0
    BY <1>5, OrderTypes, FrameCells
  <2> QED
    BY <2>1, <2>2
<1> QED
  BY <1>1, <1>3, <1>5

LEMMA ProgramWrites ==
  ASSUME OrderInv, StoreInv, ProgramPage, op'.at = "program"
  PROVE  StillWriting'
<1>1. /\ Inv /\ HomedIn(flash) /\ flash \in [Addrs -> Cell] /\ op.start \in Addrs /\ op.start \in Nat
      /\ op.at = "program" /\ op.len \in Lens /\ op.seq \in Seqs /\ op.addr \in Nat
      /\ op.start <= op.addr /\ op.addr < op.start + op.len /\ op.len \in Nat
      /\ op \in [at : {"off", "idle", "erase", "program", "verify", "wipe"},
                 addr : 0 .. AreaSize, start : Addrs, len : Lens \cup {0}, seq : Seqs]
      /\ flash' = [a \in Addrs |-> IF a \in ChunkCells THEN Programmed(a) ELSE flash[a]]
      /\ op' = [op EXCEPT !.addr = @ + Chunk,
                          !.at = IF op.addr + Chunk = op.start + op.len THEN "verify" ELSE "program"]
  BY OrderTypes, LensNat, AreaPositive DEF ProgramPage, Inv, StorageType, OpShape
<1>2. /\ op'.addr = op.addr + Chunk /\ op'.start = op.start /\ op'.len = op.len /\ op'.seq = op.seq
      /\ op.addr + Chunk # op.start + op.len
  BY <1>1
<1>3. /\ Chunk \in Nat \ {0} /\ op.addr + Chunk <= op.start + op.len
  BY <1>1, ChunkFits
<1>4. op'.addr > op'.start
  BY <1>1, <1>2, <1>3
<1>5. op'.addr % PageSize = 0
  <2>1. /\ op.addr % PageSize \in 0 .. PageSize - 1 /\ PageSize \in Nat
        /\ (op.addr + (PageSize - (op.addr % PageSize))) % PageSize = 0
    BY <1>1, PageEnd, FlashAssumption
  <2> DEFINE r == op.start + op.len - op.addr
             q == PageSize - (op.addr % PageSize)
  <2>2. Chunk = IF r < q THEN r ELSE q
    BY DEF Chunk
  <2>3. r # Chunk
    BY <1>1, <1>2, <1>3
  <2>4. Chunk = q
    BY <2>2, <2>3
  <2> QED
    BY <1>2, <2>1, <2>4
<1>6. ASSUME flash'[op.start] = OwnByte(op.start), NEW a \in Addrs,
             op'.addr <= a, a < op.start + op.len, flash'[a] = OwnByte(a)
      PROVE  FALSE
  <2>1. a \in Nat /\ a \notin ChunkCells /\ op.addr <= a /\ op.start <= a
    BY <1>1, <1>2, <1>3, <1>6, AreaPositive DEF ChunkCells, Addrs
  <2>2. flash[a] = OwnByte(a)
    BY <1>1, <1>6, <2>1
  <2>3. CASE op.addr > op.start
    <3>1. op.start \notin ChunkCells
      BY <1>1, <2>3 DEF ChunkCells
    <3>2. flash[op.start] = OwnByte(op.start)
      BY <1>1, <1>6, <3>1
    <3> QED
      BY <1>1, <1>6, <2>1, <2>2, <2>3, <3>2 DEF StoreInv, StillWriting
  <2>4. CASE op.addr = op.start
    <3>1. op.start \in ChunkCells
      BY <1>1, <1>3, <2>4 DEF ChunkCells
    <3>2. flash'[op.start] = Programmed(op.start)
      BY <1>1, <3>1
    <3>3. OwnByte(op.start) # Garbage
      BY <1>1, CellKinds DEF OwnByte
    <3>4. flash[op.start] = Erased
      BY <1>6, <3>2, <3>3 DEF Programmed
    <3>5. flash[a].len > 0 /\ flash[a].off = a - op.start
      <4>1. flash[a].len = op.len /\ flash[a].off = a - op.start
        BY <2>2 DEF OwnByte, FrameByte
      <4> QED
        BY <1>1, <4>1, LensNat
    <3>6. a - flash[a].off = op.start
      BY <1>1, <2>1, <3>5
    <3>7. LaterPage(op.start, a)
      <4>1. op'.addr \in Addrs
        BY <1>1, <1>2, <1>3, <1>6, AreaPositive DEF Addrs
      <4> QED
        BY <1>2, <1>4, <1>5, <1>6, <4>1 DEF LaterPage
    <3> QED
      BY <3>4, <3>5, <3>6, <3>7 DEF StoreInv, HeadFirst
  <2> QED
    BY <1>1, <2>3, <2>4
<1>7. \A a \in Addrs : OwnByte(a)' = OwnByte(a)
  BY <1>2 DEF OwnByte
<1> QED
  BY <1>1, <1>2, <1>4, <1>5, <1>6, <1>7 DEF StillWriting

LEMMA StepStoreInv ==
  ASSUME OrderInv, StoreInv, [Next]_vars
  PROVE  StoreInv'
<1>1. HeadFirst(flash')
  BY StepHeads DEF OrderInv, CleanRingInv
<1>2. SUFFICES StillWriting'
  BY <1>1 DEF StoreInv, HeadFirst
<1>3. SUFFICES ASSUME op'.at = "program"
               PROVE  StillWriting'
  BY DEF StillWriting
<1>4. CASE \E n \in Lens : StartAppend(n)
  <2>1. op'.addr = op'.start /\ op'.start \notin Frames(flash') /\ op'.start \in Int
    <3>1. op'.addr = op'.start /\ op'.start \notin Frames(flash')
      BY <1>3, <1>4, AppendsNoFrame
    <3>2. PICK n \in Lens : StartAppend(n)
      BY <1>4
    <3>3. op'.start = PlaceFor(n)
      BY <3>2 DEF StartAppend, BeginAppend
    <3>4. PlaceFor(n) \in Addrs
      BY <3>2, PlaceKeepsOrder DEF StartAppend, BeginAppend
    <3> QED
      BY <3>1, <3>3, <3>4, AreaPositive DEF Addrs
  <2>2. ~(op'.addr > op'.start)
    BY <2>1
  <2> QED
    BY <2>1, <2>2 DEF StillWriting
<1>5. CASE EraseSector
  <2>1. /\ op.at = "erase" /\ op.addr = op.start /\ IsSectorStart(op.start) /\ op.start \in Addrs /\ op.start \in Nat
        /\ flash' = [a \in Addrs |-> IF a \in SectorCells(op.start) THEN Erased ELSE flash[a]]
        /\ op'.addr = op.start /\ op'.start = op.start
    BY <1>5, OrderTypes DEF EraseSector, Inv, StorageType, OpShape
  <2>2. Frames(flash') = Frames(flash) \ SectorCells(op.start)
    BY <2>1, OrderTypes, ErasedFrames
  <2>3. op.start \in SectorCells(op.start)
    BY <2>1, SectorInArea DEF SectorCells
  <2>4. op'.start \notin Frames(flash') /\ ~(op'.addr > op'.start)
    BY <2>1, <2>2, <2>3
  <2> QED
    BY <2>1, <2>4 DEF StillWriting
<1>6. CASE ProgramPage
  BY <1>3, <1>6, ProgramWrites
<1>7. CASE UNCHANGED vars
  <2>1. flash' = flash /\ op' = op
    BY <1>7 DEF vars
  <2>2. StillWriting
    BY DEF StoreInv
  <2> QED
    BY <2>1, <2>2 DEF StillWriting, OwnByte
<1>8. CASE Boot \/ Verify \/ StartWipe \/ WipeSector \/ FinishWipe \/ AppendFails \/ WipeFails \/ PowerLoss
  <2>1. op'.at # "program"
    BY <1>8 DEF Boot, Verify, StartWipe, WipeSector, FinishWipe, EndWipe, AppendFails, WipeFails,
                PowerLoss, Nothing, Off, OrderInv, CleanRingInv, IndexInv, Inv, StorageType
  <2> QED
    BY <1>3, <2>1
<1> QED
  BY <1>4, <1>5, <1>6, <1>7, <1>8 DEF Next

-----------------------------------------------------------------------------
(* Every step of the flash log is a step of LogStore or none.              *)

LEMMA WipesFrames ==
  ASSUME flash \in [Addrs -> Cell], HomedIn(flash),
         op.addr \in Addrs, IsSectorStart(op.addr), NEW gl \in [Addrs -> Cell], Wipes(gl)
  PROVE  /\ Frames(gl) \subseteq Frames(flash)
         /\ \A f \in Frames(gl) : gl[f].seq = flash[f].seq
         /\ Frames(flash) \ Frames(gl) \subseteq SectorCells(op.addr)
<1>1. \A a \in Addrs : \/ gl[a] = flash[a]
                       \/ a \in SectorCells(op.addr) /\ gl[a] \in {Erased, Garbage}
  BY DEF Wipes, TornErase
<1>2. Worn(flash, gl)
  BY <1>1 DEF Worn, Erased, Garbage
<1>3. Frames(gl) \subseteq Frames(flash) /\ \A f \in Frames(gl) : gl[f].seq = flash[f].seq
  BY <1>2, WornFrames
<1>4. ASSUME NEW f \in Frames(flash), f \notin SectorCells(op.addr)
      PROVE  f \in Frames(gl)
  <2>1. /\ f \in Addrs /\ f \in Nat
        /\ \A i \in 0 .. flash[f].len - 1 : /\ f + i \in Addrs
                                            /\ flash[f + i].len > 0 /\ flash[f + i].off = i
    BY FrameCells
  <2>2. ASSUME NEW i \in 0 .. flash[f].len - 1
        PROVE  gl[f + i] = flash[f + i]
    <3>1. f + i \in Addrs /\ flash[f + i].len > 0 /\ (f + i) - flash[f + i].off = f
      BY <2>1
    <3>2. SectorStart(f) = SectorStart(f + i)
      BY <3>1, HeadInSector
    <3>3. f + i \notin SectorCells(op.addr)
      <4>1. SUFFICES ASSUME f + i \in SectorCells(op.addr)
                     PROVE  FALSE
        OBVIOUS
      <4>2. SectorStart(f) = op.addr
        BY <3>2, <4>1, ErasedCellsInSector
      <4>3. SectorEnd(f) = SectorEnd(op.addr)
        BY <4>2, SectorInArea DEF SectorEnd
      <4>4. f \in SectorCells(op.addr)
        BY <2>1, <4>2, <4>3, SectorInArea DEF SectorCells
      <4> QED
        BY <1>4, <4>4
    <3> QED
      BY <1>1, <3>1, <3>3
  <2> QED
    BY <2>2, SameCellsSameFrame
<1> QED
  BY <1>3, <1>4

LEMMA ProgramsFrames ==
  ASSUME OrderInv, StoreInv, op.at = "program", NEW gl \in [Addrs -> Cell], Programs(gl)
  PROVE  /\ op.start \notin Frames(flash)
         /\ Frames(gl) \in {Frames(flash), Frames(flash) \cup {op.start}}
         /\ \A f \in Frames(flash) : gl[f].seq = flash[f].seq
         /\ op.start \in Frames(gl) => gl[op.start].seq = op.seq
<1>1. /\ Inv /\ HomedIn(flash) /\ flash \in [Addrs -> Cell] /\ op.start \in Addrs /\ op.start \in Nat
      /\ op.len \in Lens /\ op.seq \in Seqs /\ op.addr \in Nat /\ op.addr \in Int
      /\ op.start <= op.addr /\ op.addr < op.start + op.len /\ op.len \in Nat
  BY OrderTypes, LensNat, AreaPositive DEF Inv, StorageType, OpShape
<1>2. /\ EndBefore(flash, Frames(flash) \ {op.start}, op.start)
      /\ op.start \in Frames(flash) => /\ flash[op.start].seq = op.seq
                                       /\ flash[op.start].len = op.len
  BY DEF OrderInv, RingInv, Appending, AppendInOrder, Settled
<1>3. ASSUME op.start \in Frames(flash)
      PROVE  FALSE
  <2> DEFINE i == op.addr - op.start
  <2>1. op.addr > op.start /\ i \in 1 .. op.len - 1 /\ op.start + i = op.addr
    <3>1. op.addr # op.start
      BY <1>3 DEF StoreInv, StillWriting
    <3> QED
      BY <1>1, <3>1
  <2>2. flash[op.start] \in [seq : Seqs, len : Lens, off : 0 .. SectorSize - 1]
    <3>1. flash[op.start] \in Cell /\ flash[op.start].len > 0
      BY <1>1, <1>3, FrameCells
    <3> QED
      BY <3>1 DEF Cell, Erased, Garbage
  <2>3. flash[op.start].off = 0 /\ op.start - op.start = 0
    BY <1>1, <1>3, FrameCells
  <2>4. flash[op.start] = OwnByte(op.start)
    BY <1>2, <1>3, <2>2, <2>3 DEF OwnByte, FrameByte
  <2>5. flash[op.start + i] = [flash[op.start] EXCEPT !.off = i]
    BY <1>2, <1>3, <2>1 DEF Frames, ValidAt
  <2>6. flash[op.addr] = OwnByte(op.addr)
    BY <1>2, <1>3, <2>1, <2>2, <2>5 DEF OwnByte, FrameByte
  <2>7. op.addr \in Addrs
    BY <1>1, <1>3, <2>1, ChunkFits, AreaPositive DEF Addrs
  <2> QED
    BY <1>1, <2>1, <2>4, <2>6, <2>7 DEF StoreInv, StillWriting
<1>4. ASSUME NEW f \in Frames(flash)
      PROVE  f \in Frames(gl) /\ gl[f] = flash[f]
  <2>1. /\ f \in Addrs /\ f \in Nat /\ flash[f].len \in Nat /\ flash[f].len > 0 /\ f # op.start
        /\ \A i \in 0 .. flash[f].len - 1 : /\ f + i \in Addrs
                                            /\ flash[f + i].len > 0 /\ flash[f + i].off = i
    BY <1>1, <1>3, FrameCells
  <2>2. ASSUME NEW i \in 0 .. flash[f].len - 1
        PROVE  gl[f + i] = flash[f + i]
    <3>1. f + i \in Addrs /\ flash[f + i].len > 0 /\ (f + i) - flash[f + i].off = f
      BY <2>1
    <3>2. SectorStart(f) = SectorStart(f + i)
      BY <1>1, <3>1, HeadInSector
    <3>3. f + i \notin ChunkCells
      <4>1. SUFFICES ASSUME f + i \in ChunkCells
                     PROVE  FALSE
        OBVIOUS
      <4>2. SectorStart(f) = SectorStart(op.start) /\ op.addr <= f + i
        BY <1>1, <3>2, <4>1, ProgrammedCellsInSector DEF ChunkCells
      <4>3. f + flash[f].len <= op.start
        BY <1>2, <2>1, <4>2 DEF EndBefore
      <4> QED
        BY <1>1, <2>1, <4>2, <4>3
    <3> QED
      BY <3>1, <3>3 DEF Programs
  <2>3. f \in Frames(gl)
    BY <1>1, <2>2, SameCellsSameFrame
  <2>4. 0 \in 0 .. flash[f].len - 1 /\ f + 0 = f
    BY <2>1
  <2> QED
    BY <2>2, <2>3, <2>4
<1>5. /\ Frames(gl) \ {op.start} \subseteq Frames(flash) \ {op.start}
      /\ \A f \in Frames(gl) \ {op.start} : gl[f] = flash[f]
      /\ op.start \in Frames(gl) =>
           \/ op.start \in Frames(flash) /\ gl[op.start] = flash[op.start]
           \/ gl[op.start].seq = op.seq /\ gl[op.start].len = op.len
  <2>1. Filled(gl)
    BY DEF Programs, Filled, Garbage
  <2> QED
    BY <1>1, <2>1, FilledFrames
<1>6. Frames(gl) \in {Frames(flash), Frames(flash) \cup {op.start}}
  <2>1. CASE op.start \in Frames(gl)
    <3>1. Frames(gl) = Frames(flash) \cup {op.start}
      BY <1>4, <1>5, <2>1
    <3> QED
      BY <3>1
  <2>2. CASE op.start \notin Frames(gl)
    <3>1. Frames(gl) = Frames(flash)
      BY <1>4, <1>5, <2>2
    <3> QED
      BY <3>1
  <2> QED
    BY <2>1, <2>2
<1>7. op.start \in Frames(gl) => gl[op.start].seq = op.seq
  BY <1>3, <1>5
<1>8. \A f \in Frames(flash) : gl[f].seq = flash[f].seq
  BY <1>4
<1> QED
  BY <1>3, <1>6, <1>7, <1>8

LEMMA OrderedNumbered ==
  ASSUME NEW fl \in [Addrs -> Cell], NEW p \in Addrs, NEW c \in Seqs, Ordered(fl, Frames(fl), p, c)
  PROVE  Numbered(fl, c)
<1>1. \A a \in Frames(fl) : Diff(c, fl[a].seq) \in 1 .. Half
  BY DEF Ordered
<1> DEFINE S == Frames(fl)
<1>2. /\ S \in SUBSET Addrs /\ Ordered(fl, S, p, c)
      /\ fl \in [Addrs -> Cell] /\ p \in Addrs /\ c \in Seqs
  BY FramesFinite
<1> HIDE DEF S
<1>3. ASSUME NEW a \in S, NEW b \in S
      PROVE  a = b <=> fl[a].seq = fl[b].seq
  <2>1. /\ Ahead(a, p) < Ahead(b, p) <=> Diff(c, fl[b].seq) < Diff(c, fl[a].seq)
        /\ Ahead(a, p) <= Ahead(b, p) <=> Diff(c, fl[b].seq) <= Diff(c, fl[a].seq)
        /\ a = b <=> fl[a].seq = fl[b].seq
    BY ONLY <1>2, OrderedIff, a \in S, b \in S
  <2> QED
    BY ONLY <2>1
<1> QED
  BY <1>1, <1>3 DEF Numbered, S

(* The frames of the sector that append enters are the oldest.             *)
LEMMA ErasedAreOldest ==
  ASSUME OrderInv, op.at = "erase", NEW f \in Frames(flash), f \in SectorCells(op.start)
  PROVE  /\ Rank(Frames(flash), AgeKey(flash, nextSeq), f) + 1 <= MostFrames
         /\ MostFrames \in Nat
<1> DEFINE F == Frames(flash)
           key == AgeKey(flash, nextSeq)
           p == op.start
           D == F \cap SectorCells(p)
<1>1. /\ flash \in [Addrs -> Cell] /\ HomedIn(flash) /\ nextSeq \in Seqs /\ p \in Addrs /\ p \in Nat
      /\ IsSectorStart(p) /\ Ordered(flash, F, p, nextSeq) /\ F \in SUBSET Addrs
      /\ AreaSize \in Nat /\ SectorSize \in Nat
  BY OrderTypes, FramesFinite, AreaPositive
     DEF OrderInv, RingInv, Appending, AppendInOrder, Settled, Inv, OpShape
<1>2. SectorEnd(p) = p + SectorSize
  BY <1>1, SectorInArea
<1>3. IsFiniteSet(F) /\ IsFiniteSet(D) /\ f \in D
  BY FramesFinite, FS_Subset
<1>4. ASSUME NEW b \in Below(F, key, f)
      PROVE  b \in D /\ b # f
  <2>1. b \in F /\ b \in Addrs /\ f \in Addrs /\ b \in Nat /\ f \in Nat /\ key[b] < key[f]
    BY <1>1, AreaPositive DEF Below, Addrs
  <2>2. key[b] = SeqCount - Diff(nextSeq, flash[b].seq) /\ key[f] = SeqCount - Diff(nextSeq, flash[f].seq)
    BY <2>1 DEF AgeKey
  <2>3. Diff(nextSeq, flash[b].seq) \in 1 .. Half /\ Diff(nextSeq, flash[f].seq) \in 1 .. Half
    BY <1>1, <2>1 DEF Ordered
  <2>4. Diff(nextSeq, flash[f].seq) < Diff(nextSeq, flash[b].seq)
    <3> HIDE DEF key
    <3> QED
      BY <2>1, <2>2, <2>3, HalfBound
  <2>5. Ahead(b, p) < Ahead(f, p)
    BY <1>1, <2>1, <2>4, OrderedIff
  <2>6. p <= f /\ f < p + SectorSize
    BY <1>2 DEF SectorCells
  <2>7. p <= b /\ b < f
    BY <1>1, <2>1, <2>5, <2>6 DEF Ahead, Addrs
  <2> QED
    BY <1>1, <1>2, <2>1, <2>6, <2>7 DEF SectorCells
<1> HIDE DEF F, key, p, D
<1>5. Below(F, key, f) \in SUBSET (D \ {f})
  BY <1>4
<1>6. IsFiniteSet(D \ {f}) /\ Cardinality(D \ {f}) = Cardinality(D) - 1
  BY <1>3, FS_RemoveElement
<1>7. Cardinality(Below(F, key, f)) <= Cardinality(D \ {f}) /\ IsFiniteSet(Below(F, key, f))
  BY <1>5, <1>6, FS_Subset
<1>8. Cardinality(D) <= MostFrames /\ MostFrames \in Nat
  <2>1. D = Frames(flash) \cap SectorCells(p)
    BY DEF D, F
  <2> QED
    BY <1>1, <1>3, <2>1, SectorHolds
<1>9. Cardinality(D) \in Nat /\ Cardinality(Below(F, key, f)) \in Nat
  BY <1>3, <1>7, FS_CardinalityType
<1>10. Rank(F, key, f) + 1 <= MostFrames
  BY <1>6, <1>7, <1>8, <1>9 DEF Rank
<1> QED
  BY <1>8, <1>10 DEF F, key

LEMMA EraseMaps ==
  ASSUME OrderInv, op.at = "erase", op'.at # "wipe", flash' \in [Addrs -> Cell], Wipes(flash')
  PROVE  Store!Next \/ UNCHANGED Store!vars
<1> DEFINE F == Frames(flash)
           G == Frames(flash')
           key == AgeKey(flash, nextSeq)
           lost == Places(F, key, F \ G)
<1>1. /\ flash \in [Addrs -> Cell] /\ HomedIn(flash) /\ nextSeq \in Seqs /\ op.start \in Addrs
      /\ op.addr = op.start /\ IsSectorStart(op.start)
      /\ Ordered(flash, F, op.start, nextSeq)
  BY OrderTypes DEF OrderInv, RingInv, Appending, AppendInOrder, Settled, Inv, OpShape
<1>2. Numbered(flash, nextSeq)
  BY <1>1, OrderedNumbered
<1>3. /\ G \subseteq F /\ \A a \in G : flash'[a].seq = flash[a].seq
      /\ F \ G \subseteq SectorCells(op.start)
  BY <1>1, WipesFrames
<1>4. CASE F = G
  <2>1. LogOf(flash') = LogOf(flash)
    BY <1>1, <1>2, <1>3, <1>4, LogStays
  <2> QED
    BY <2>1, Resting
<1>5. CASE F # G
  <2>1. LogOf(flash') = Thinned(LogOf(flash), lost) /\ Len(LogOf(flash)) = Cardinality(F)
    BY <1>1, <1>2, <1>3, LogShrinks
  <2>2. IsFiniteSet(F) /\ key \in [F -> Int] /\ NoTies(F, key) /\ Cardinality(F) \in Nat
    BY <1>1, <1>2, AgeKeyType, FramesFinite
  <2>3. \A i \in lost : i <= MostFrames
    <3>1. ASSUME NEW f \in F \ G
          PROVE  Rank(F, key, f) + 1 <= MostFrames
      BY <1>3, ErasedAreOldest
    <3> QED
      BY <3>1 DEF Places
  <2>4. lost # {}
    <3>1. PICK f \in F \ G : TRUE
      BY <1>3, <1>5
    <3>2. Rank(F, key, f) + 1 \in lost
      BY DEF Places
    <3> QED
      BY <3>2
  <2> HIDE DEF key
  <2>5. lost \in SUBSET (1 .. Cardinality(F))
    <3>1. F \ G \in SUBSET F
      OBVIOUS
    <3> HIDE DEF F, G
    <3> QED
      BY <2>2, <3>1, PlacesInList
  <2> HIDE DEF lost, F, G
  <2> QED
    BY <2>1, <2>2, <2>3, <2>4, <2>5, Evicting
<1> QED
  BY <1>4, <1>5

LEMMA ProgramMaps ==
  ASSUME OrderInv, StoreInv, op.at = "program", op'.at # "wipe", flash' \in [Addrs -> Cell],
         Programs(flash')
  PROVE  Store!Next \/ UNCHANGED Store!vars
<1>1. /\ flash \in [Addrs -> Cell] /\ nextSeq \in Seqs /\ op.start \in Addrs /\ op.seq \in Seqs
      /\ nextSeq = (op.seq + 1) % SeqCount
      /\ \A a \in Frames(flash) \ {op.start} : Diff(nextSeq, flash[a].seq) >= 2
      /\ Ordered(flash, Frames(flash) \ {op.start}, op.start, nextSeq)
  BY OrderTypes DEF OrderInv, RingInv, Appending, AppendInOrder, Settled, Inv, StorageType
<1>2. /\ op.start \notin Frames(flash)
      /\ Frames(flash') \in {Frames(flash), Frames(flash) \cup {op.start}}
      /\ \A f \in Frames(flash) : flash'[f].seq = flash[f].seq
      /\ op.start \in Frames(flash') => flash'[op.start].seq = op.seq
  BY ProgramsFrames
<1>3. Frames(flash) \ {op.start} = Frames(flash)
  BY <1>2
<1>4. Numbered(flash, nextSeq)
  BY <1>1, <1>3, OrderedNumbered
<1>5. CASE Frames(flash') = Frames(flash)
  <2>1. LogOf(flash') = LogOf(flash)
    BY <1>1, <1>2, <1>4, <1>5, LogStays
  <2> QED
    BY <2>1, Resting
<1>6. CASE Frames(flash') = Frames(flash) \cup {op.start}
  <2>1. flash'[op.start].seq = op.seq
    BY <1>2, <1>6
  <2>2. Diff(nextSeq, op.seq) = 1
    <3>1. Diff(op.seq, op.seq) = 0
      BY <1>1, DiffType
    <3>2. Diff(op.seq, op.seq) + 1 < SeqCount
      BY <3>1, HalfBound
    <3>3. op.seq \in Seqs
      BY <1>1
    <3>4. Diff((op.seq + 1) % SeqCount, op.seq) = Diff(op.seq, op.seq) + 1
      BY ONLY <3>2, <3>3, DiffNext
    <3> QED
      BY <1>1, <3>1, <3>4
  <2>3. ASSUME NEW a \in Frames(flash)
        PROVE  /\ flash'[a].seq = flash[a].seq /\ Diff(nextSeq, flash[a].seq) \in 1 .. Half
               /\ Diff(nextSeq, flash'[op.start].seq) < Diff(nextSeq, flash[a].seq)
    <3>1. Diff(nextSeq, flash[a].seq) \in 1 .. Half /\ Diff(nextSeq, flash[a].seq) >= 2
      BY <1>1, <1>3, <1>4 DEF Numbered
    <3> QED
      BY <1>2, <2>1, <2>2, <3>1, HalfBound
  <2>4. 1 \in 1 .. Half
    BY HalfBound
  <2>5. Numbered(flash', nextSeq)
    <3>1. \A a \in Frames(flash') : Diff(nextSeq, flash'[a].seq) \in 1 .. Half
      BY <1>6, <2>1, <2>2, <2>3, <2>4
    <3>2. ASSUME NEW a \in Frames(flash') , NEW b \in Frames(flash'), flash'[a].seq = flash'[b].seq
          PROVE  a = b
      <4>1. CASE a \in Frames(flash) /\ b \in Frames(flash)
        BY <1>2, <1>4, <3>2, <4>1 DEF Numbered
      <4>2. CASE a = op.start /\ b = op.start
        BY <4>2
      <4>3. \A f \in Frames(flash) : flash'[f].seq # flash'[op.start].seq
        <5>1. ASSUME NEW f \in Frames(flash), flash'[f].seq = flash'[op.start].seq
              PROVE  FALSE
          <6>1. flash[f].seq = op.seq
            BY <1>2, <2>1, <5>1
          <6>2. Diff(nextSeq, flash[f].seq) >= 2
            BY <1>1, <1>3
          <6> QED
            BY <2>2, <6>1, <6>2
        <5> QED
          BY <5>1
      <4> QED
        BY <1>6, <3>2, <4>1, <4>2, <4>3
    <3> QED
      BY <3>1, <3>2 DEF Numbered
  <2>6. Extends(LogOf(flash), LogOf(flash'))
    BY <1>1, <1>2, <1>6, <2>3, <2>5, LogGrows
  <2> QED
    BY <2>6, Storing
<1> QED
  BY <1>2, <1>5, <1>6

LEMMA WipeMaps ==
  ASSUME OrderInv, op.at = "wipe", flash' \in [Addrs -> Cell],
         flash' = flash \/ (op.addr \in Addrs /\ Wipes(flash'))
  PROVE  Store!Next \/ UNCHANGED Store!vars
<1> DEFINE F == Frames(flash)
           G == Frames(flash')
           key == AgeKey(flash, nextSeq)
           lost == Places(F, key, F \ G)
<1>1. /\ flash \in [Addrs -> Cell] /\ HomedIn(flash) /\ nextSeq \in Seqs /\ index.write \in Addrs
      /\ IsSectorStart(op.addr)
      /\ Ordered(flash, F, index.write, nextSeq)
  BY OrderTypes DEF OrderInv, RingInv, InOrder, Inv, OpShape
<1>2. Numbered(flash, nextSeq)
  BY <1>1, OrderedNumbered
<1>3. G \subseteq F /\ \A a \in G : flash'[a].seq = flash[a].seq
  <2>1. CASE flash' = flash
    BY <2>1
  <2>2. CASE op.addr \in Addrs /\ Wipes(flash')
    BY <1>1, <2>2, WipesFrames
  <2> QED
    BY <2>1, <2>2
<1>4. CASE F = G /\ op'.at = "wipe"
  <2>1. LogOf(flash') = LogOf(flash)
    BY <1>1, <1>2, <1>3, <1>4, LogStays
  <2> QED
    BY <1>4, <2>1, Resting
<1>5. CASE F # G \/ op'.at # "wipe"
  <2>1. LogOf(flash') = Thinned(LogOf(flash), lost) /\ Len(LogOf(flash)) = Cardinality(F)
    BY <1>1, <1>2, <1>3, LogShrinks
  <2>2. IsFiniteSet(F) /\ key \in [F -> Int] /\ NoTies(F, key)
    BY <1>1, <1>2, AgeKeyType
  <2>3. F # G => lost # {}
    <3>1. SUFFICES ASSUME F # G
                   PROVE  lost # {}
      OBVIOUS
    <3>2. PICK f \in F \ G : TRUE
      BY <1>3, <3>1
    <3>3. Rank(F, key, f) + 1 \in lost
      BY DEF Places
    <3> QED
      BY <3>3
  <2> HIDE DEF key
  <2>4. lost \in SUBSET (1 .. Cardinality(F))
    <3>1. F \ G \in SUBSET F
      OBVIOUS
    <3> HIDE DEF F, G
    <3> QED
      BY <2>2, <3>1, PlacesInList
  <2> HIDE DEF lost, F, G
  <2> QED
    BY <1>5, <2>1, <2>3, <2>4, Losing
<1> QED
  BY <1>4, <1>5

LEMMA StepMaps ==
  ASSUME OrderInv, StoreInv, [Next]_vars, OrderInv'
  PROVE  Store!Next \/ UNCHANGED Store!vars
<1>1. /\ flash' \in [Addrs -> Cell] /\ AreaSize \in Nat /\ Inv
      /\ op.addr \in 0 .. AreaSize
  BY OrderTypes, AreaPositive
     DEF OrderInv, CleanRingInv, IndexInv, Inv, StorageType, OpShape
<1>2. op.addr < AreaSize => op.addr \in Addrs
  BY <1>1 DEF Addrs
<1>3. ASSUME flash' = flash, op.at = "wipe" <=> op'.at = "wipe"
      PROVE  UNCHANGED Store!vars
  BY <1>3, Resting
<1>4. CASE EraseSector \/ (op.at = "erase" /\ AppendFails) \/ (op.at = "erase" /\ PowerLoss)
  <2>1. op.at = "erase" /\ op'.at # "wipe" /\ Wipes(flash')
    BY <1>4 DEF EraseSector, AppendFails, PowerLoss, Torn, Wipes, Nothing, Off,
                OrderInv, CleanRingInv, IndexInv, Inv, StorageType
  <2> QED
    BY <1>1, <2>1, EraseMaps
<1>5. CASE ProgramPage \/ (op.at = "program" /\ AppendFails) \/ (op.at = "program" /\ PowerLoss)
  <2>1. op.at = "program" /\ op'.at # "wipe"
    BY <1>5, WorkingFrames DEF ProgramPage, AppendFails, PowerLoss, Nothing, Off
  <2>2. \/ flash' = flash \/ TornProgram(flash')
        \/ flash' = [a \in Addrs |-> IF a \in ChunkCells THEN Programmed(a) ELSE flash[a]]
    BY <1>5 DEF ProgramPage, AppendFails, PowerLoss, Torn
  <2>3. Programs(flash')
    BY <1>1, <2>1, <2>2, ProgramsCells
  <2> QED
    BY <1>1, <2>1, <2>3, ProgramMaps
<1>6. CASE WipeSector \/ FinishWipe \/ WipeFails \/ (op.at = "wipe" /\ PowerLoss)
  <2>1. op.at = "wipe"
    BY <1>6 DEF WipeSector, FinishWipe, EndWipe, WipeFails
  <2>2. flash' = flash \/ (op.addr \in Addrs /\ Wipes(flash'))
    BY <1>2, <1>6 DEF WipeSector, FinishWipe, EndWipe, WipeFails, PowerLoss, Torn, Wipes
  <2> QED
    BY <1>1, <2>1, <2>2, WipeMaps
<1>7. CASE StartWipe
  <2>1. flash' = flash /\ op.at # "wipe" /\ op'.at = "wipe"
    BY <1>7 DEF StartWipe, Nothing
  <2> QED
    BY <2>1, Starting
<1>8. CASE PowerLoss /\ op.at \in {"idle", "verify"}
  BY <1>3, <1>8 DEF PowerLoss, Torn, Off
<1>9. CASE Boot \/ Verify
  BY <1>3, <1>9 DEF Boot, Verify, Nothing
<1>10. CASE \E n \in Lens : StartAppend(n)
  <2>1. PICK n \in Lens : StartAppend(n)
    BY <1>10
  <2>2. flash' = flash /\ op.at = "idle" /\ op'.at # "wipe"
    BY <2>1 DEF StartAppend, BeginAppend
  <2> QED
    BY <1>3, <2>2
<1>11. CASE UNCHANGED vars
  BY <1>3, <1>11 DEF vars
<1>12. PowerLoss => op.at \in {"idle", "erase", "program", "verify", "wipe"}
  BY <1>1 DEF PowerLoss, Inv, StorageType
<1>13. AppendFails => op.at \in {"erase", "program"}
  BY DEF AppendFails
<1> QED
  BY <1>4, <1>5, <1>6, <1>7, <1>8, <1>9, <1>10, <1>11, <1>12, <1>13 DEF Next

LEMMA InitMaps == Init => Store!Init
<1> SUFFICES ASSUME Init
             PROVE  Store!Init
  OBVIOUS
<1>1. Frames(flash) = {} /\ (op.at = "wipe") = FALSE
  BY DEF Init, Off, Nothing, Frames, ValidAt, Erased
<1>2. Cardinality(Frames(flash)) = 0
  BY <1>1, FS_EmptySet
<1>3. ByAge = [i \in 1 .. 0 |-> CHOOSE a \in Frames(flash) :
                 Cardinality({b \in Frames(flash) : \/ Newer(flash[a].seq, flash[b].seq)
                                                    \/ flash[b].seq = flash[a].seq /\ b < a}) = i - 1]
  BY <1>2 DEF ByAge, Sorted
<1>4. DOMAIN ByAge = {}
  BY <1>3
<1>5. [i \in DOMAIN ByAge |-> flash[ByAge[i]].seq] = << >>
  BY <1>4
<1> QED
  BY <1>1, <1>5 DEF Store!Init

(* Whatever fails and whenever power goes, the flash log does nothing that *)
(* LogStore does not allow: it adds the frames at the young end, and what  *)
(* it loses without being wiped are its oldest frames, no more of them at  *)
(* a time than a sector holds.                                             *)
THEOREM LogStoreImplemented ==
  ASSUME NEW n \in Nat \ {0}, NumbersOutlast(n, MaxFaults)
  PROVE  Spec /\ []SectorsNotFilled => ImplementsLogStore
<1> DEFINE I == OrderInv /\ HealInv
<1>1. Spec /\ []SectorsNotFilled => []I
  BY OrderHolds
<1>2. I => OrderInv
  OBVIOUS
<1> HIDE DEF I
<1>3. OrderInv /\ StoreInv /\ [Next]_vars => StoreInv'
  BY StepStoreInv
<1>4. OrderInv /\ StoreInv /\ [Next]_vars /\ OrderInv' => [Store!Next]_(Store!vars)
  BY StepMaps
<1> QED
  BY <1>1, <1>2, <1>3, <1>4, InitStoreInv, InitMaps, PTL DEF Spec, ImplementsLogStore, Store!Spec

LEMMA NothingFails == ASSUME Faults = {} PROVE Spec => [](faults = 0)
<1>1. Init => faults = 0
  BY DEF Init
<1>2. ASSUME [Next]_vars
      PROVE  faults' = faults
  <2>1. ~Fault("command") /\ ~Fault("wipe") /\ ~Fault("power")
    BY DEF Fault
  <2>2. CASE Boot \/ (\E n \in Lens : StartAppend(n)) \/ UNCHANGED vars
    BY <2>2 DEF Boot, StartAppend, BeginAppend, vars
  <2>3. CASE EraseSector \/ ProgramPage \/ Verify
    BY <2>3 DEF EraseSector, ProgramPage, Verify
  <2>4. CASE StartWipe \/ WipeSector \/ FinishWipe
    BY <2>4 DEF StartWipe, WipeSector, FinishWipe, EndWipe
  <2>5. ~AppendFails /\ ~WipeFails /\ ~PowerLoss
    BY <2>1 DEF AppendFails, WipeFails, PowerLoss
  <2> QED
    BY <1>2, <2>2, <2>3, <2>4, <2>5 DEF Next
<1>3. faults = 0 /\ [Next]_vars => (faults = 0)'
  BY <1>2
<1> QED
  BY <1>1, <1>3, PTL DEF Spec

(* As long as nothing fails there is no condition on where frames end.     *)
THEOREM LogStoreWithoutFaults ==
  ASSUME NEW n \in Nat \ {0}, NumbersOutlast(n, 0), Faults = {}
  PROVE  Spec => ImplementsLogStore
<1>1. Spec => [](faults = 0 => OrderInv)
  BY OrderHoldsWithoutFaults
<1>2. Spec => [](faults = 0)
  BY NothingFails
<1>3. OrderInv /\ StoreInv /\ [Next]_vars => StoreInv'
  BY StepStoreInv
<1>4. OrderInv /\ StoreInv /\ [Next]_vars /\ OrderInv' => [Store!Next]_(Store!vars)
  BY StepMaps
<1> QED
  BY <1>1, <1>2, <1>3, <1>4, InitStoreInv, InitMaps, PTL DEF Spec, ImplementsLogStore, Store!Spec
=============================================================================
