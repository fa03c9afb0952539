--------------------------- MODULE MigrationsProofs ---------------------------
(***************************************************************************)
(* What is recorded of the migrations is done, and a migration that fails  *)
(* whenever it is run is one of Unguarded: for any releases, any number of *)
(* runs that die and of reverts, and any data that the migrations test.    *)
(*                                                                         *)
(* First, that a list that keeps the rules of MigrationRules has both      *)
(* properties, whatever is on it; then, that the list Migrations keeps     *)
(* them.                                                                   *)
(***************************************************************************)
EXTENDS MigrationRules, FiniteSetTheorems, SequenceTheorems, WellFoundedInduction, TLAPS

\* A fact holds once the first i statements of a path are through.
Holds(S, x, i, f) == Given(x, i, f) \/ (f \in S /\ Spared(x, i, f))

\* y is x but for its first statement.
Behind(x, y) ==
  \E n \in Nat : /\ Len(x) = n + 1 /\ DOMAIN x = 1..(n + 1)
                 /\ Len(y) = n /\ DOMAIN y = 1..n
                 /\ \A l \in 1..n : y[l] = x[l + 1]

\* What a statement makes of a schema.
After(S, s) == Without(S, s.minus) \cup s.plus

\* The table of the fact that table t is there is t.
LEMMA TableOfTable == \A t : T(t)[1] = t
BY DEF T

\* What holds along a path holds along the rest of it, from the schema that its
\* first statement leaves.
LEMMA HoldsShift ==
  ASSUME NEW S, NEW x, NEW y, Behind(x, y), NEW i \in Nat, i <= Len(y), NEW f
  PROVE  Holds(After(S, x[1]), y, i, f) <=> Holds(S, x, i + 1, f)
<1>0. PICK n \in Nat : /\ Len(x) = n + 1 /\ DOMAIN x = 1..(n + 1)
                       /\ Len(y) = n /\ DOMAIN y = 1..n
                       /\ \A l \in 1..n : y[l] = x[l + 1]
  BY DEF Behind
<1>1. Spared(y, i, f) <=> \A l \in 2..(i + 1) : ~Removes(x[l], f)
  <2>1. ASSUME Spared(y, i, f), NEW l \in 2..(i + 1)
        PROVE  ~Removes(x[l], f)
    <3>1. l - 1 \in 1..i /\ l - 1 \in 1..n /\ (l - 1) + 1 = l
      BY <1>0
    <3> QED  BY Zenon, <3>1, <2>1, <1>0 DEF Spared
  <2>2. ASSUME \A l \in 2..(i + 1) : ~Removes(x[l], f), NEW l \in 1..i
        PROVE  ~Removes(y[l], f)
    <3>1. l + 1 \in 2..(i + 1) /\ l \in 1..n
      BY <1>0
    <3> QED  BY <3>1, <2>2, <1>0
  <2> QED  BY <2>1, <2>2 DEF Spared
<1>2. Given(y, i, f) <=> \E j \in 2..(i + 1) : f \in x[j].plus /\ \A l \in j+1..(i + 1) : ~Removes(x[l], f)
  <2>1. ASSUME NEW j \in 1..i, f \in y[j].plus, \A l \in j+1..i : ~Removes(y[l], f)
        PROVE  \E k \in 2..(i + 1) : f \in x[k].plus /\ \A l \in k+1..(i + 1) : ~Removes(x[l], f)
    <3>1. j + 1 \in 2..(i + 1) /\ f \in x[j + 1].plus
      BY <2>1, <1>0
    <3>2. ASSUME NEW l \in (j + 1)+1..(i + 1)
          PROVE  ~Removes(x[l], f)
      <4>1. l - 1 \in j+1..i /\ l - 1 \in 1..n /\ (l - 1) + 1 = l
        BY <1>0
      <4> QED  BY Zenon, <4>1, <2>1, <1>0
    <3> QED  BY <3>1, <3>2
  <2>2. ASSUME NEW j \in 2..(i + 1), f \in x[j].plus, \A l \in j+1..(i + 1) : ~Removes(x[l], f)
        PROVE  \E k \in 1..i : f \in y[k].plus /\ \A l \in k+1..i : ~Removes(y[l], f)
    <3>1. j - 1 \in 1..i /\ j - 1 \in 1..n /\ (j - 1) + 1 = j
      BY <1>0
    <3>2. f \in y[j - 1].plus
      BY <3>1, <2>2, <1>0
    <3>3. ASSUME NEW l \in (j - 1)+1..i
          PROVE  ~Removes(y[l], f)
      <4>1. l + 1 \in j+1..(i + 1) /\ l \in 1..n
        BY <1>0
      <4> QED  BY <4>1, <2>2, <1>0
    <3> QED  BY <3>1, <3>2, <3>3
  <2> QED  BY Zenon, <2>1, <2>2 DEF Given
<1>3. f \in After(S, x[1]) <=> f \in x[1].plus \/ (f \in S /\ ~Removes(x[1], f))
  BY DEF After, Without, Removes
<1>4. Given(x, i + 1, f) <=>
        \/ f \in x[1].plus /\ \A l \in 2..(i + 1) : ~Removes(x[l], f)
        \/ \E j \in 2..(i + 1) : f \in x[j].plus /\ \A l \in j+1..(i + 1) : ~Removes(x[l], f)
  <2>1. 1..(i + 1) = {1} \cup 2..(i + 1) /\ 1+1..(i + 1) = 2..(i + 1)
    OBVIOUS
  <2> QED  BY <2>1 DEF Given
<1>5. Spared(x, i + 1, f) <=> ~Removes(x[1], f) /\ \A l \in 2..(i + 1) : ~Removes(x[l], f)
  <2>1. 1..(i + 1) = {1} \cup 2..(i + 1)
    OBVIOUS
  <2> QED  BY <2>1 DEF Spared
<1> QED  BY <1>1, <1>2, <1>3, <1>4, <1>5 DEF Holds

\* What the rules find out about a path is so.
LEMMA GivenHolds ==
  ASSUME NEW S, NEW x, NEW i \in Nat, NEW f
  PROVE  /\ Given(x, i, f) => Holds(S, x, i, f)
         /\ Gone(x, i, f) => ~Holds(S, x, i, f)
         /\ f \in S /\ Spared(x, i, f) => Holds(S, x, i, f)
         /\ f \notin S /\ Unadded(x, i, f) => ~Holds(S, x, i, f)
<1>1. ASSUME Gone(x, i, f), Holds(S, x, i, f)
      PROVE  FALSE
  <2>1. PICK j \in 1..i : Removes(x[j], f) /\ \A l \in j..i : f \notin x[l].plus
    BY <1>1 DEF Gone
  <2>2. PICK k \in 1..i : f \in x[k].plus /\ \A l \in k+1..i : ~Removes(x[l], f)
    BY <1>1, <2>1 DEF Holds, Given, Spared
  <2>3. k < j
    BY <2>1, <2>2
  <2>4. j \in k+1..i
    BY <2>3
  <2> QED  BY <2>1, <2>2, <2>4
<1>2. ASSUME f \notin S, Unadded(x, i, f)
      PROVE  ~Holds(S, x, i, f)
  BY <1>2 DEF Holds, Unadded, Given
<1> QED  BY <1>1, <1>2 DEF Holds

-----------------------------------------------------------------------------
\* What is known of the path ahead.
Allowed(S, x, i) ==
  /\ \A f \in x[i].need : Holds(S, x, i - 1, f)
  /\ \A f \in x[i].free : ~Holds(S, x, i - 1, f)
Clean(S, x) ==
  \A i \in DOMAIN x : IsIf(x[i]) \/
    /\ \A f \in x[i].free : ~Holds(S, x, i - 1, f)
    /\ x[i].need # {} => \A f \in x[i].minus : Holds(S, x, i - 1, f)
Easy(S, x) == \A i \in DOMAIN x : IsIf(x[i]) \/ Allowed(S, x, i)
Feasible(S, x) == \A i \in DOMAIN x : IsIf(x[i]) => Allowed(S, x, i)
AtEnd(S, x, f) == Holds(S, x, Len(x), f)

\* What is known of a path is known of the rest of it once its first statement
\* is through; a branch can only be taken by a schema it fits.
LEMMA PathShift ==
  ASSUME NEW S, NEW x, NEW y, Behind(x, y)
  PROVE  LET R == After(S, x[1]) IN
         /\ Clean(S, x) => Clean(R, y)
         /\ Easy(S, x) => Easy(R, y)
         /\ Feasible(R, y) /\ (IsIf(x[1]) => x[1].need \subseteq S /\ x[1].free \cap S = {}) => Feasible(S, x)
         /\ \A f : AtEnd(R, y, f) <=> AtEnd(S, x, f)
<1> DEFINE R == After(S, x[1])
<1>0. PICK n \in Nat : /\ Len(x) = n + 1 /\ DOMAIN x = 1..(n + 1)
                       /\ Len(y) = n /\ DOMAIN y = 1..n
                       /\ \A l \in 1..n : y[l] = x[l + 1]
  BY DEF Behind
<1>1. ASSUME NEW i \in 1..n, NEW f
      PROVE  Holds(R, y, i - 1, f) <=> Holds(S, x, (i + 1) - 1, f)
  <2>1. i - 1 \in Nat /\ i - 1 <= Len(y) /\ (i - 1) + 1 = (i + 1) - 1
    BY <1>0
  <2>2. Holds(R, y, i - 1, f) <=> Holds(S, x, (i - 1) + 1, f)
    BY <2>1, HoldsShift
  <2> QED  BY <2>1, <2>2
<1>2. \A i \in 1..n : i + 1 \in DOMAIN x /\ y[i] = x[i + 1]
  BY <1>0
<1>3. \A i \in DOMAIN x : i = 1 \/ \E l \in 1..n : i = l + 1
  <2> SUFFICES ASSUME NEW i \in 1..(n + 1), i # 1
               PROVE  \E l \in 1..n : i = l + 1
    BY <1>0
  <2>1. i - 1 \in 1..n /\ i = (i - 1) + 1
    OBVIOUS
  <2> QED  BY <2>1
<1>4. Clean(S, x) => Clean(R, y)
  <2> SUFFICES ASSUME Clean(S, x), NEW i \in 1..n, ~IsIf(y[i])
               PROVE  /\ \A f \in y[i].free : ~Holds(R, y, i - 1, f)
                      /\ y[i].need # {} => \A f \in y[i].minus : Holds(R, y, i - 1, f)
    BY Zenon, <1>0 DEF Clean
  <2>1. /\ \A f \in x[i + 1].free : ~Holds(S, x, (i + 1) - 1, f)
        /\ x[i + 1].need # {} => \A f \in x[i + 1].minus : Holds(S, x, (i + 1) - 1, f)
    BY <1>2 DEF Clean
  <2> QED  BY <2>1, <1>1, <1>2
<1>5. ASSUME NEW i \in 1..n
      PROVE  Allowed(R, y, i) <=> Allowed(S, x, i + 1)
  BY <1>1, <1>2 DEF Allowed
<1>6. Easy(S, x) => Easy(R, y)
  BY Zenon, <1>0, <1>2, <1>5 DEF Easy
<1>7. ASSUME Feasible(R, y), IsIf(x[1]) => x[1].need \subseteq S /\ x[1].free \cap S = {}
      PROVE  Feasible(S, x)
  <2>1. \A f : Holds(S, x, 1 - 1, f) <=> f \in S
    BY DEF Holds, Given, Spared
  <2>2. IsIf(x[1]) => Allowed(S, x, 1)
    BY <2>1, <1>7 DEF Allowed
  <2>3. ASSUME NEW l \in 1..n, IsIf(x[l + 1])
        PROVE  Allowed(S, x, l + 1)
    BY Zenon, <2>3, <1>7, <1>5, <1>2, <1>0 DEF Feasible
  <2> QED  BY <2>2, <2>3, <1>3 DEF Feasible
<1>8. ASSUME NEW f
      PROVE  AtEnd(R, y, f) <=> AtEnd(S, x, f)
  <2>1. Len(y) \in Nat /\ Len(y) <= Len(y) /\ Len(x) = Len(y) + 1
    BY <1>0
  <2> QED  BY <2>1, HoldsShift DEF AtEnd
<1> QED  BY <1>4, <1>6, <1>7, <1>8

-----------------------------------------------------------------------------
\* A list in which the p-th element is replaced by a list: its length and its
\* elements.
LEMMA Splices ==
  ASSUME NEW X, NEW L \in Seq(X), NEW p \in 1..Len(L), NEW B \in Seq(X)
  PROVE  /\ Splice(L, p, B) \in Seq(X)
         /\ Len(Splice(L, p, B)) = Len(L) - 1 + Len(B)
         /\ \A i \in 1..(Len(L) - 1 + Len(B)) :
              Splice(L, p, B)[i] = IF i < p THEN L[i]
                                   ELSE IF i < p + Len(B) THEN B[i - p + 1]
                                   ELSE L[i - Len(B) + 1]
<1> DEFINE U == SubSeq(L, 1, p - 1)  V == SubSeq(L, p + 1, Len(L))
<1>1. U \in Seq(X) /\ Len(U) = p - 1 /\ \A i \in 1..(p - 1) : U[i] = L[i]
  OBVIOUS
<1>2. V \in Seq(X) /\ Len(V) = Len(L) - p /\ \A i \in 1..(Len(L) - p) : V[i] = L[p + i]
  <2>1. CASE p = Len(L)
    BY <2>1
  <2>2. CASE p < Len(L)
    BY <2>2
  <2> QED  BY <2>1, <2>2
<1>3. (U \o B) \in Seq(X) /\ Len(U \o B) = p - 1 + Len(B)
      /\ \A i \in 1..(p - 1 + Len(B)) : (U \o B)[i] = IF i < p THEN L[i] ELSE B[i - p + 1]
  <2> HIDE DEF U
  <2>1. /\ (U \o B) \in Seq(X) /\ Len(U \o B) = Len(U) + Len(B)
        /\ \A i \in 1..(Len(U) + Len(B)) : (U \o B)[i] = IF i <= Len(U) THEN U[i] ELSE B[i - Len(U)]
    BY Zenon, <1>1, ConcatProperties
  <2>2. ASSUME NEW i \in 1..(p - 1 + Len(B))
        PROVE  (U \o B)[i] = IF i < p THEN L[i] ELSE B[i - p + 1]
    <3>1. i \in 1..(Len(U) + Len(B)) /\ i - Len(U) = i - p + 1
      BY <1>1
    <3> QED  BY <3>1, <2>1, <1>1
  <2> QED  BY Zenon, <1>1, <2>1, <2>2
<1> HIDE DEF U, V
<1> DEFINE W == U \o B
<1>4. W \in Seq(X) /\ Len(W) = p - 1 + Len(B)
  BY <1>3
<1>5. \A i \in 1..(Len(W) + Len(V)) : (W \o V)[i] = IF i <= Len(W) THEN W[i] ELSE V[i - Len(W)]
  <2> HIDE DEF W
  <2> QED  BY <1>4, <1>2, ConcatProperties
<1>6. (W \o V) \in Seq(X) /\ Len(W \o V) = Len(L) - 1 + Len(B)
  <2> HIDE DEF W
  <2>1. (W \o V) \in Seq(X) /\ Len(W \o V) = Len(W) + Len(V)
    BY Zenon, <1>4, <1>2, ConcatProperties
  <2>2. Len(L) \in Nat /\ Len(B) \in Nat /\ p \in Int
    OBVIOUS
  <2> QED  BY <2>1, <2>2, <1>4, <1>2
<1>7. ASSUME NEW i \in 1..(Len(L) - 1 + Len(B))
      PROVE  (W \o V)[i] = IF i < p THEN L[i] ELSE IF i < p + Len(B) THEN B[i - p + 1] ELSE L[i - Len(B) + 1]
  <2>1. i \in 1..(Len(W) + Len(V))
    BY <1>4, <1>2
  <2>2. CASE i <= Len(W)
    <3>1. i \in 1..(p - 1 + Len(B)) /\ i < p + Len(B)
      BY <2>2, <1>4
    <3> QED  BY Zenon, <3>1, <2>1, <2>2, <1>5, <1>3
  <2>3. CASE ~(i <= Len(W))
    <3>1. i - Len(W) \in 1..(Len(L) - p) /\ p + (i - Len(W)) = i - Len(B) + 1 /\ ~(i < p) /\ ~(i < p + Len(B))
      BY <2>3, <1>4, <2>1, <1>2
    <3>2. (W \o V)[i] = V[i - Len(W)]
      BY <2>1, <2>3, <1>5
    <3>3. V[i - Len(W)] = L[p + (i - Len(W))]
      BY Zenon, <3>1, <1>2
    <3> QED  BY Zenon, <3>1, <3>2, <3>3
  <2> QED  BY Zenon, <2>2, <2>3
<1> QED  BY Zenon, <1>6, <1>7 DEF Splice, U, V

\* Both branches of a guard give a path.
LEMMA PathIs ==
  ASSUME NEW L, NEW p \in DOMAIN L, IsIf(L[p])
  PROVE  /\ Splice(L, p, <<Yes(L[p])>> \o L[p].yes) \in Paths(L)
         /\ Splice(L, p, <<No(L[p])>> \o L[p].no) \in Paths(L)
<1> DEFINE E(q) == {Splice(L, q, <<Yes(L[q])>> \o L[q].yes), Splice(L, q, <<No(L[q])>> \o L[q].no)}
<1>1. ~Straight(L)
  BY DEF Straight
<1>2. Paths(L) = UNION {E(q) : q \in {r \in DOMAIN L : IsIf(L[r])}}
  BY <1>1 DEF Paths
<1>3. E(p) \subseteq Paths(L)
  <2> HIDE DEF E
  <2> QED  BY <1>2
<1> QED  BY <1>3

\* Before its guard, a path goes through the list itself.
LEMMA PathsOfTail ==
  ASSUME NEW A, \A s \in A : s.yes \in Seq(A) /\ s.no \in Seq(A),
         NEW L \in Seq(A), L # <<>>, ~IsIf(L[1]), NEW y \in Paths(Tail(L))
  PROVE  \E x \in Paths(L) : Behind(x, y) /\ x[1] = L[1]
<1> DEFINE X == A \cup {Yes(s) : s \in A} \cup {No(s) : s \in A}
<1>1. Len(L) \in Nat /\ Len(L) >= 1 /\ DOMAIN L = 1..Len(L) /\ L \in Seq(X)
  <2>1. Len(L) \in Nat /\ DOMAIN L = 1..Len(L) /\ \A i \in 1..Len(L) : L[i] \in A
    OBVIOUS
  <2>2. Len(L) # 0
    OBVIOUS
  <2>3. L \in Seq(X)
    BY <2>1, SeqDef DEF X
  <2> QED  BY <2>1, <2>2, <2>3
<1>2. /\ Tail(L) \in Seq(A) /\ Tail(L) \in Seq(X) /\ Len(Tail(L)) = Len(L) - 1
      /\ DOMAIN Tail(L) = 1..(Len(L) - 1)
      /\ \A i \in 1..(Len(L) - 1) : Tail(L)[i] = L[i + 1]
  BY <1>1
<1>3. CASE Straight(Tail(L))
  <2>1. y = Tail(L)
    BY <1>3 DEF Paths
  <2>2. Straight(L)
    <3> SUFFICES ASSUME NEW i \in 1..Len(L)
                 PROVE  ~IsIf(L[i])
      BY <1>1 DEF Straight
    <3>1. CASE i = 1
      BY <3>1
    <3>2. CASE i # 1
      <4>1. i - 1 \in 1..(Len(L) - 1) /\ (i - 1) + 1 = i
        BY <3>2
      <4> QED  BY Zenon, <4>1, <1>2, <1>3 DEF Straight
    <3> QED  BY <3>1, <3>2
  <2>3. L \in Paths(L)
    BY <2>2 DEF Paths
  <2>4. Behind(L, Tail(L))
    <3>1. Len(L) - 1 \in Nat /\ (Len(L) - 1) + 1 = Len(L)
      BY <1>1
    <3> QED  BY Zenon, <3>1, <1>1, <1>2 DEF Behind
  <2> QED  BY <2>1, <2>3, <2>4
<1>4. CASE ~Straight(Tail(L))
  <2>1. PICK p \in DOMAIN Tail(L) :
          /\ IsIf(Tail(L)[p])
          /\ \/ y = Splice(Tail(L), p, <<Yes(Tail(L)[p])>> \o Tail(L)[p].yes)
             \/ y = Splice(Tail(L), p, <<No(Tail(L)[p])>> \o Tail(L)[p].no)
    BY <1>4 DEF Paths
  <2>2. /\ p \in 1..(Len(L) - 1) /\ p + 1 \in 1..Len(L) /\ Tail(L)[p] = L[p + 1] /\ L[p + 1] \in A
        /\ IsIf(L[p + 1]) /\ ~Straight(L)
    BY <2>1, <1>1, <1>2 DEF Straight
  <2> DEFINE s == L[p + 1]
  <2>3. PICK B : /\ B = <<Yes(s)>> \o s.yes \/ B = <<No(s)>> \o s.no
                 /\ y = Splice(Tail(L), p, B)
    BY Zenon, <2>1, <2>2
  <2>4. B \in Seq(X)
    <3> HIDE DEF s
    <3>1. s \in A
      BY <2>2 DEF s
    <3>2. Yes(s) \in X /\ No(s) \in X
      BY <3>1
    <3>3. s.yes \in Seq(X) /\ s.no \in Seq(X)
      <4>1. s.yes \in Seq(A) /\ s.no \in Seq(A)
        BY <3>1
      <4>2. ASSUME NEW z \in Seq(A)
            PROVE  z \in Seq(X)
        <5> HIDE DEF X
        <5>1. A \subseteq X
          BY DEF X
        <5>2. Len(z) \in Nat /\ DOMAIN z = 1..Len(z) /\ \A i \in 1..Len(z) : z[i] \in X
          BY <5>1
        <5>3. z \in [1..Len(z) -> X]
          <6>1. z = [i \in DOMAIN z |-> z[i]]
            OBVIOUS
          <6> QED  BY <6>1, <5>2
        <5> QED  BY <5>2, <5>3, SeqDef
      <4> QED  BY <4>1, <4>2
    <3> HIDE DEF X
    <3>4. <<Yes(s)>> \in Seq(X) /\ <<No(s)>> \in Seq(X)
      BY <3>2
    <3>5. \A u, v \in Seq(X) : u \o v \in Seq(X)
      BY ConcatProperties
    <3> QED  BY Zenon, <2>3, <3>3, <3>4, <3>5
  <2> DEFINE x == Splice(L, p + 1, B)
  <2>5. x \in Paths(L)
    <3>1. p + 1 \in {q \in DOMAIN L : IsIf(L[q])}
      BY <2>2, <1>1
    <3>2. x = Splice(L, p + 1, <<Yes(L[p + 1])>> \o L[p + 1].yes) \/ x = Splice(L, p + 1, <<No(L[p + 1])>> \o L[p + 1].no)
      BY Zenon, <2>3
    <3> QED  BY <3>1, <3>2, <2>2, PathIs
  <2> HIDE DEF X, s
  <2>6. Len(B) \in Nat
    BY <2>4
  <2> HIDE DEF x
  <2>7. /\ x \in Seq(X) /\ Len(x) = Len(L) - 1 + Len(B)
        /\ \A i \in 1..(Len(L) - 1 + Len(B)) :
             x[i] = IF i < p + 1 THEN L[i] ELSE IF i < (p + 1) + Len(B) THEN B[i - (p + 1) + 1] ELSE L[i - Len(B) + 1]
    <3>1. PICK q : q = p + 1 /\ q \in 1..Len(L)
      BY <2>2
    <3>2. x = Splice(L, q, B) /\ L \in Seq(X) /\ B \in Seq(X)
      BY <3>1, <2>4, <1>1 DEF x
    <3>3. /\ x \in Seq(X) /\ Len(x) = Len(L) - 1 + Len(B)
          /\ \A i \in 1..(Len(L) - 1 + Len(B)) :
               x[i] = IF i < q THEN L[i] ELSE IF i < q + Len(B) THEN B[i - q + 1] ELSE L[i - Len(B) + 1]
      <4>1. PICK z : z = Splice(L, q, B)
        OBVIOUS
      <4>2. /\ z \in Seq(X) /\ Len(z) = Len(L) - 1 + Len(B)
            /\ \A i \in 1..(Len(L) - 1 + Len(B)) :
                 z[i] = IF i < q THEN L[i] ELSE IF i < q + Len(B) THEN B[i - q + 1] ELSE L[i - Len(B) + 1]
        <5>1. q \in 1..Len(L) /\ L \in Seq(X) /\ B \in Seq(X)
          BY <3>1, <3>2
        <5> QED  BY Zenon, <4>1, <5>1, Splices
      <4> QED  BY <4>1, <4>2, <3>2
    <3> QED  BY <3>1, <3>3
  <2>8. /\ y \in Seq(X) /\ Len(y) = (Len(L) - 1) - 1 + Len(B)
        /\ \A i \in 1..((Len(L) - 1) - 1 + Len(B)) :
             y[i] = IF i < p THEN Tail(L)[i] ELSE IF i < p + Len(B) THEN B[i - p + 1] ELSE Tail(L)[i - Len(B) + 1]
    <3>1. PICK M : M = Tail(L)
      BY Zenon
    <3>2. M \in Seq(X) /\ p \in 1..Len(M) /\ B \in Seq(X) /\ y = Splice(M, p, B) /\ Len(M) = Len(L) - 1
      BY <3>1, <1>2, <2>2, <2>3, <2>4
    <3>3. /\ y \in Seq(X) /\ Len(y) = Len(M) - 1 + Len(B)
          /\ \A i \in 1..(Len(M) - 1 + Len(B)) :
               y[i] = IF i < p THEN M[i] ELSE IF i < p + Len(B) THEN B[i - p + 1] ELSE M[i - Len(B) + 1]
      BY Zenon, <3>2, Splices
    <3> QED  BY Zenon, <3>1, <3>2, <3>3
  <2> DEFINE n == (Len(L) - 1) - 1 + Len(B)
  <2>9. n \in Nat /\ n + 1 = Len(L) - 1 + Len(B) /\ n + 1 >= 1
    BY <2>2, <2>6, <1>1
  <2>10. ASSUME NEW l \in 1..n
         PROVE  y[l] = x[l + 1]
    <3>0. l + 1 \in 1..(Len(L) - 1 + Len(B)) /\ l \in 1..((Len(L) - 1) - 1 + Len(B))
      BY <2>9, <1>1, <2>6
    <3>1. CASE l < p
      <4>1. l + 1 < p + 1 /\ l \in 1..(Len(L) - 1)
        BY <3>1, <2>2, <1>1
      <4>2. y[l] = Tail(L)[l] /\ x[l + 1] = L[l + 1]
        BY <4>1, <3>0, <3>1, <2>7, <2>8
      <4> QED  BY <4>1, <4>2, <1>2
    <3>2. CASE ~(l < p) /\ l < p + Len(B)
      <4>0. l \in Int /\ p \in Int /\ Len(B) \in Int
        BY <2>2, <2>6, <1>1
      <4>1. ~(l + 1 < p + 1) /\ l + 1 < (p + 1) + Len(B) /\ (l + 1) - (p + 1) + 1 = l - p + 1
        BY <3>2, <4>0
      <4>2. y[l] = B[l - p + 1] /\ x[l + 1] = B[(l + 1) - (p + 1) + 1]
        BY Zenon, <4>1, <3>0, <3>2, <2>7, <2>8
      <4> QED  BY Zenon, <4>1, <4>2
    <3>3. CASE ~(l < p) /\ ~(l < p + Len(B))
      <4>1. /\ ~(l + 1 < p + 1) /\ ~(l + 1 < (p + 1) + Len(B)) /\ l - Len(B) + 1 \in 1..(Len(L) - 1)
            /\ (l - Len(B) + 1) + 1 = (l + 1) - Len(B) + 1
        BY <3>0, <3>3, <2>2, <2>6, <1>1
      <4>2. y[l] = Tail(L)[l - Len(B) + 1] /\ x[l + 1] = L[(l + 1) - Len(B) + 1]
        BY <4>1, <3>0, <3>3, <2>7, <2>8
      <4> QED  BY Zenon, <4>1, <4>2, <1>2
    <3> QED  BY <3>1, <3>2, <3>3
  <2>11. DOMAIN x = 1..(n + 1) /\ DOMAIN y = 1..n
    BY <2>7, <2>8, <2>9
  <2>12. Behind(x, y)
    BY Zenon, <2>7, <2>8, <2>9, <2>10, <2>11 DEF Behind
  <2>13. x[1] = L[1]
    <3>1. 1 \in 1..(Len(L) - 1 + Len(B)) /\ 1 < p + 1
      BY <2>2, <2>9, <1>1, <2>6
    <3> QED  BY <3>1, <2>7
  <2> QED  BY <2>5, <2>12, <2>13 DEF x
<1> QED  BY <1>3, <1>4

\* At its guard, the path of the branch that is taken goes through a
\* statement that stands for the guard.
LEMMA PathsOfIf ==
  ASSUME NEW A, \A s \in A : s.yes \in Seq(A) /\ s.no \in Seq(A),
         NEW L \in Seq(A), L # <<>>, IsIf(L[1]), OneGuard(L)
  PROVE  /\ \A y \in Paths(L[1].yes \o Tail(L)) : \E x \in Paths(L) : Behind(x, y) /\ x[1] = Yes(L[1])
         /\ \A y \in Paths(L[1].no \o Tail(L)) : \E x \in Paths(L) : Behind(x, y) /\ x[1] = No(L[1])
<1> SUFFICES ASSUME NEW P, NEW b, (P = Yes(L[1]) /\ b = L[1].yes) \/ (P = No(L[1]) /\ b = L[1].no),
                    NEW y \in Paths(b \o Tail(L))
             PROVE  \E x \in Paths(L) : Behind(x, y) /\ x[1] = P
  BY Zenon
<1> DEFINE X == A \cup {P}
<1>1. Len(L) \in Nat /\ Len(L) >= 1 /\ DOMAIN L = 1..Len(L) /\ L[1] \in A /\ 1 \in 1..Len(L)
  <2>1. Len(L) # 0
    OBVIOUS
  <2> QED  BY <2>1
<1>2. /\ Tail(L) \in Seq(A) /\ Len(Tail(L)) = Len(L) - 1
      /\ DOMAIN Tail(L) = 1..(Len(L) - 1)
      /\ \A i \in 1..(Len(L) - 1) : Tail(L)[i] = L[i + 1]
  BY <1>1
<1>3. b \in Seq(A) /\ Len(b) \in Nat /\ DOMAIN b = 1..Len(b) /\ Straight(b)
  BY <1>1 DEF OneGuard
<1>4. ASSUME NEW z \in Seq(A)
      PROVE  z \in Seq(X)
  <2> HIDE DEF X
  <2>1. A \subseteq X
    BY DEF X
  <2>2. Len(z) \in Nat /\ DOMAIN z = 1..Len(z) /\ \A i \in 1..Len(z) : z[i] \in X
    BY <2>1
  <2>3. z \in [1..Len(z) -> X]
    <3>1. z = [i \in DOMAIN z |-> z[i]]
      OBVIOUS
    <3> QED  BY <3>1, <2>2
  <2> QED  BY <2>2, <2>3, SeqDef
<1>5. /\ (b \o Tail(L)) \in Seq(A) /\ Len(b \o Tail(L)) = Len(b) + (Len(L) - 1)
      /\ DOMAIN (b \o Tail(L)) = 1..(Len(b) + (Len(L) - 1))
      /\ \A i \in 1..(Len(b) + (Len(L) - 1)) :
           (b \o Tail(L))[i] = IF i <= Len(b) THEN b[i] ELSE L[(i - Len(b)) + 1]
  <2> DEFINE W == Tail(L)
  <2>1. W \in Seq(A) /\ Len(W) = Len(L) - 1 /\ \A i \in 1..(Len(L) - 1) : W[i] = L[i + 1]
    BY <1>2
  <2> HIDE DEF W
  <2>2. /\ (b \o W) \in Seq(A) /\ Len(b \o W) = Len(b) + Len(W)
        /\ \A i \in 1..(Len(b) + Len(W)) : (b \o W)[i] = IF i <= Len(b) THEN b[i] ELSE W[i - Len(b)]
    BY Zenon, <2>1, <1>3, ConcatProperties
  <2>3. ASSUME NEW i \in 1..(Len(b) + (Len(L) - 1))
        PROVE  (b \o W)[i] = IF i <= Len(b) THEN b[i] ELSE L[(i - Len(b)) + 1]
    <3>1. i \in 1..(Len(b) + Len(W))
      BY <2>1
    <3>2. ~(i <= Len(b)) => i - Len(b) \in 1..(Len(L) - 1)
      BY <1>3, <1>1
    <3> QED  BY Zenon, <3>1, <3>2, <2>1, <2>2
  <2>4. DOMAIN (b \o W) = 1..Len(b \o W)
    BY <2>2
  <2> QED  BY <2>1, <2>2, <2>3, <2>4 DEF W
<1>6. Straight(b \o Tail(L))
  <2> SUFFICES ASSUME NEW i \in 1..(Len(b) + (Len(L) - 1))
               PROVE  ~IsIf((b \o Tail(L))[i])
    BY Zenon, <1>5 DEF Straight
  <2>1. CASE i <= Len(b)
    <3>1. i \in DOMAIN b
      BY <2>1, <1>3
    <3> QED  BY <3>1, <2>1, <1>5, <1>3 DEF Straight
  <2>2. CASE ~(i <= Len(b))
    <3>1. (i - Len(b)) + 1 \in DOMAIN L /\ (i - Len(b)) + 1 # 1 /\ 1 \in DOMAIN L
      BY <2>2, <1>1, <1>3
    <3>2. ~IsIf(L[(i - Len(b)) + 1])
      BY <3>1 DEF OneGuard
    <3> QED  BY <3>2, <2>2, <1>5
  <2> QED  BY <2>1, <2>2
<1>7. y = b \o Tail(L)
  BY <1>6 DEF Paths
<1> DEFINE B == <<P>> \o b
           x == Splice(L, 1, B)
<1>8. L \in Seq(X) /\ b \in Seq(X) /\ <<P>> \in Seq(X)
  BY <1>3, <1>4
<1>9. x \in Paths(L)
  <2>1. 1 \in {q \in DOMAIN L : IsIf(L[q])} /\ ~Straight(L)
    BY <1>1 DEF Straight
  <2>2. x = Splice(L, 1, <<Yes(L[1])>> \o L[1].yes) \/ x = Splice(L, 1, <<No(L[1])>> \o L[1].no)
    BY Zenon
  <2> QED  BY <2>1, <2>2, PathIs
<1> HIDE DEF X
<1>10. /\ B \in Seq(X) /\ Len(B) = Len(b) + 1 /\ B[1] = P
       /\ \A i \in 1..Len(b) : B[i + 1] = b[i]
  BY <1>8, <1>3
<1> HIDE DEF B, x
<1>11. /\ x \in Seq(X) /\ Len(x) = Len(L) - 1 + Len(B)
       /\ \A i \in 1..(Len(L) - 1 + Len(B)) :
            x[i] = IF i < 1 THEN L[i] ELSE IF i < 1 + Len(B) THEN B[i - 1 + 1] ELSE L[i - Len(B) + 1]
  <2>1. PICK q : q = 1 /\ q \in 1..Len(L)
    BY <1>1
  <2>2. x = Splice(L, q, B) /\ L \in Seq(X) /\ B \in Seq(X)
    BY <2>1, <1>8, <1>10 DEF x
  <2>3. /\ x \in Seq(X) /\ Len(x) = Len(L) - 1 + Len(B)
        /\ \A i \in 1..(Len(L) - 1 + Len(B)) :
             x[i] = IF i < q THEN L[i] ELSE IF i < q + Len(B) THEN B[i - q + 1] ELSE L[i - Len(B) + 1]
    BY <2>1, <2>2, Splices
  <2> QED  BY <2>1, <2>3
<1> DEFINE n == Len(b) + (Len(L) - 1)
<1>12. n \in Nat /\ n + 1 = Len(L) - 1 + Len(B)
  BY <1>1, <1>3, <1>10
<1>13. ASSUME NEW l \in 1..n
       PROVE  y[l] = x[l + 1]
  <2>0. l + 1 \in 1..(Len(L) - 1 + Len(B)) /\ ~(l + 1 < 1) /\ (l + 1) - 1 + 1 = l + 1
    BY <1>12, <1>1, <1>3
  <2>1. CASE l <= Len(b)
    <3>1. l + 1 < 1 + Len(B) /\ l \in 1..Len(b)
      BY <2>1, <1>10, <1>3
    <3>2. x[l + 1] = B[l + 1]
      BY <3>1, <2>0, <1>11
    <3> QED  BY <3>1, <3>2, <2>1, <1>10, <1>5, <1>7
  <2>2. CASE ~(l <= Len(b))
    <3>1. ~(l + 1 < 1 + Len(B)) /\ (l + 1) - Len(B) + 1 = (l - Len(b)) + 1
      BY <2>2, <1>10, <1>3
    <3>2. x[l + 1] = L[(l - Len(b)) + 1]
      BY <3>1, <2>0, <1>11
    <3> QED  BY <3>2, <2>2, <1>5, <1>7
  <2> QED  BY <2>1, <2>2
<1>14. DOMAIN x = 1..(n + 1) /\ DOMAIN y = 1..n /\ Len(y) = n
  BY <1>5, <1>7, <1>11, <1>12
<1>15. Behind(x, y)
  BY <1>11, <1>12, <1>13, <1>14 DEF Behind
<1>16. x[1] = P
  <2>1. 1 \in 1..(Len(L) - 1 + Len(B)) /\ ~(1 < 1) /\ 1 < 1 + Len(B) /\ 1 - 1 + 1 = 1
    BY <1>1, <1>3, <1>10
  <2> QED  BY <2>1, <1>10, <1>11
<1> QED  BY <1>9, <1>15, <1>16

-----------------------------------------------------------------------------
\* There are 55 migrations, numbered from 1; what comes before one of the first
\* of them is one of the first.
LEMMA Numbering ==
  /\ DOMAIN Migrations = 1..55 /\ \A m \in DOMAIN Migrations : m # 0 /\ m \in Nat
  /\ \A last \in 1..55 : \A m \in 1..last, n \in 1..55 : n < m => n \in 1..last
<1>1. DOMAIN Migrations = 1..55
  BY DEF Migrations
<1>2. \A m \in 1..55 : m # 0 /\ m \in Nat
  OBVIOUS
<1>3. \A last \in 1..55 : \A m \in 1..last, n \in 1..55 : n < m => n \in 1..last
  OBVIOUS
<1> QED  BY <1>1, <1>2, <1>3

\* Every path is a list.
LEMMA PathsAreLists ==
  ASSUME NEW A, \A s \in A : s.yes \in Seq(A) /\ s.no \in Seq(A), NEW L \in Seq(A), NEW x \in Paths(L)
  PROVE  Len(x) \in Nat /\ DOMAIN x = 1..Len(x)
<1> DEFINE X == A \cup {Yes(s) : s \in A} \cup {No(s) : s \in A}
<1>1. CASE Straight(L)
  BY <1>1 DEF Paths
<1>2. CASE ~Straight(L)
  <2>1. PICK p \in DOMAIN L : \/ x = Splice(L, p, <<Yes(L[p])>> \o L[p].yes)
                              \/ x = Splice(L, p, <<No(L[p])>> \o L[p].no)
    BY Zenon, <1>2 DEF Paths
  <2>2. ASSUME NEW z \in Seq(A)
        PROVE  z \in Seq(X)
    <3>1. A \subseteq X
      OBVIOUS
    <3> HIDE DEF X
    <3>2. Len(z) \in Nat /\ DOMAIN z = 1..Len(z) /\ \A i \in 1..Len(z) : z[i] \in X
      BY <3>1
    <3>3. z \in [1..Len(z) -> X]
      <4>1. z = [i \in DOMAIN z |-> z[i]]
        OBVIOUS
      <4> QED  BY <4>1, <3>2
    <3> QED  BY <3>2, <3>3, SeqDef
  <2>3. p \in 1..Len(L) /\ L[p] \in A
    OBVIOUS
  <2>4. <<Yes(L[p])>> \in Seq(X) /\ <<No(L[p])>> \in Seq(X) /\ L[p].yes \in Seq(X) /\ L[p].no \in Seq(X) /\ L \in Seq(X)
    <3>1. L[p].yes \in Seq(A) /\ L[p].no \in Seq(A)
      BY <2>3
    <3>2. Yes(L[p]) \in X /\ No(L[p]) \in X
      BY <2>3
    <3> HIDE DEF X
    <3> QED  BY <3>1, <3>2, <2>2
  <2> HIDE DEF X
  <2>5. \A u, v \in Seq(X) : u \o v \in Seq(X)
    BY ConcatProperties
  <2>6. PICK B \in Seq(X) : x = Splice(L, p, B)
    BY Zenon, <2>1, <2>4, <2>5
  <2>7. x \in Seq(X)
    BY <2>3, <2>4, <2>6, Splices
  <2> QED  BY <2>7
<1> QED  BY <1>1, <1>2

\* A set of numbers that is not empty has its least one.
LEMMA Least ==
  ASSUME NEW N, N \subseteq Nat, N # {}
  PROVE  Min(N) \in N /\ \A n \in N : Min(N) <= n
<1>1. PICK x \in N : \A y \in N : ~(<<y, x>> \in OpToRel(<, Nat))
  BY Zenon, WFMin, NatLessThanWellFounded
<1>2. ASSUME NEW y \in N
      PROVE  x <= y
  <2>1. ~(y < x)
    BY Zenon, <1>1 DEF OpToRel
  <2> QED  BY <2>1
<1> QED  BY Zenon, <1>2 DEF Min

\* The lists that are run have all that comes before what they have.
Listed(list) ==
  /\ list \subseteq DOMAIN Migrations
  /\ \A m \in list, n \in DOMAIN Migrations : Precedes(n, m) => n \in list

\* A release, and the SEO migrations alone, have whatever comes before what they
\* have.
LEMMA ListsAreListed ==
  ASSUME MigrationsAssumption, NEW list \in {1..last : last \in Releases} \cup {Seo}
  PROVE  Listed(list)
<1>1. CASE list = Seo
  BY <1>1 DEF Listed, Precedes, Seo
<1>2. ASSUME NEW last \in Releases, list = 1..last
      PROVE  Listed(list)
  <2>1. last \in 1..55
    BY Numbering DEF MigrationsAssumption
  <2>2. list \subseteq DOMAIN Migrations
    BY <2>1, <1>2, Numbering
  <2>3. ASSUME NEW m \in list, NEW n \in DOMAIN Migrations, Precedes(n, m)
        PROVE  n \in list
    <3>1. n < m /\ n \in 1..55 /\ m \in 1..last
      BY <2>3, <1>2, Numbering DEF Precedes
    <3> QED  BY Zenon, <3>1, <2>1, <1>2, Numbering
  <2> QED  BY <2>2, <2>3 DEF Listed
<1> QED  BY <1>1, <1>2

-----------------------------------------------------------------------------
\* May be recorded next.
Pendable(m) ==
  /\ m \in DOMAIN Migrations /\ m \notin ToSet(recorded)
  /\ \A n \in DOMAIN Migrations : Precedes(n, m) => n \in ToSet(recorded)

\* Migrations are recorded once, each after those before it.
Order ==
  /\ run.dir \in {"idle", "up", "down"}
  /\ run = [dir |-> run.dir, m |-> run.m, todo |-> run.todo, list |-> run.list]
  /\ run.dir = "idle" => run = NoRun
  /\ crashes \in Nat /\ reverts \in Nat
  /\ recorded \in Seq(DOMAIN Migrations)
  /\ \A i, j \in 1..Len(recorded) : recorded[i] = recorded[j] => i = j
  /\ \A i \in 1..Len(recorded) : \A n \in DOMAIN Migrations :
       Precedes(n, recorded[i]) => \E j \in 1..(i - 1) : recorded[j] = n
  /\ run.dir = "up" => Pendable(run.m) /\ Listed(run.list) /\ run.m \in run.list
  /\ run.dir = "down" => recorded # <<>> /\ run.m = Last(recorded) /\ run.m \in half /\ reverts >= 1
  /\ crashes = 0 => half \subseteq IF run.dir = "down" THEN {run.m} ELSE {}

\* What is left to do is of the migration, with one guard at most.
Way ==
  run.dir # "idle" =>
    /\ run.todo \in Seq(Statements(Body(run.dir, run.m)))
    /\ OneGuard(run.todo)

\* Nothing holds of a table that is not there.
Tabled == Stays \subseteq schema /\ \A f \in schema : T(f[1]) \in schema

\* What the migrations that cannot be repeated, and those that decide, find
\* before they start is as it was at first.
Apart ==
  /\ crashes = 0 => \A m \in Fragile : run.m # m =>
       /\ m \notin ToSet(recorded) => /\ Plus(Migrations[m].up) \cap schema = {}
                                      /\ Minus(Migrations[m].up) \subseteq schema
       /\ m \in ToSet(recorded) => Minus(Migrations[m].up) \cap schema = {}
  /\ crashes = 0 /\ reverts = 0 => \A m \in Deciding :
       run.m # m /\ m \notin ToSet(recorded) => Tests(m) \cap schema = Tests(m) \cap Base

\* Whatever way a run goes on, nothing is in its way, and all is done at its end.
OnPath(S, c, r, d, m, x) ==
  /\ <<d, Migrations[m]>> \notin Unguarded => Clean(S, x)
  /\ d = "up" => \A f \in Sure(m) : AtEnd(S, x, f)
  /\ d = "up" /\ c = 0 /\ r = 0 /\ Feasible(S, x) => \A f \in Lasting[m] : AtEnd(S, x, f)
  /\ c = 0 /\ (d = "down" \/ m \in Fragile \cup Deciding) => Easy(S, x)
  /\ c = 0 /\ m \in Fragile /\ d = "up" => \A f \in Minus(Migrations[m].up) : ~AtEnd(S, x, f)
  /\ c = 0 /\ m \in Fragile /\ d = "down" =>
       /\ \A f \in Plus(Migrations[m].up) : ~AtEnd(S, x, f)
       /\ \A f \in Minus(Migrations[m].up) : AtEnd(S, x, f)

OnPaths ==
  run.dir # "idle" => \A x \in Paths(run.todo) : OnPath(schema, crashes, reverts, run.dir, run.m, x)

Sound == Order /\ Way /\ Tabled /\ RecordedIsDone /\ Apart /\ OnPaths /\ StuckOnlyUnguarded

\* What a migration surely leaves is what it owes, whatever has happened.
LEMMA SureLasts == \A m : Sure(m) \subseteq Lasting[m] \ (IF crashes + reverts = 0 THEN {} ELSE Losable)
BY DEF Sure

\* The statements of a list are statements of it.
LEMMA Bodies ==
  ASSUME MigrationRules, NEW d \in Directions, NEW m \in DOMAIN Migrations
  PROVE  LET S == Statements(Body(d, m)) IN
         /\ Body(d, m) \in Seq(S) /\ OneGuard(Body(d, m))
         /\ \A s \in S : s.yes \in Seq(S) /\ s.no \in Seq(S)
         /\ \A s \in S : ~IsIf(s) => s \in Changes(d, m) /\ Grounded(s)
BY DEF MigrationRules, WellFormed, Changes

\* What a run finds when it starts, and what follows for its path.
LEMMA UpStarts ==
  ASSUME MigrationRules, NEW m \in DOMAIN Migrations, NEW S, NEW c, NEW r, Stays \subseteq S,
         c = 0 => Preceding(m) \subseteq S,
         c = 0 /\ m \in Fragile => Plus(Migrations[m].up) \cap S = {} /\ Minus(Migrations[m].up) \subseteq S,
         c = 0 /\ r = 0 /\ m \in Deciding => Tests(m) \cap S = Tests(m) \cap Base,
         NEW x \in Paths(Body("up", m))
  PROVE  OnPath(S, c, r, "up", m, x)
<1>0. "up" \in Directions /\ Body("up", m) = Migrations[m].up
  BY DEF Directions, Body
<1>1. Len(x) \in Nat /\ DOMAIN x = 1..Len(x) /\ \A i \in DOMAIN x : i - 1 \in Nat
  <2>1. Len(x) \in Nat /\ DOMAIN x = 1..Len(x)
    BY <1>0, Bodies, PathsAreLists
  <2> QED  BY <2>1
<1>2. <<"up", Migrations[m]>> \notin Unguarded => Clean(S, x)
  <2>1. <<"up", Migrations[m]>> \notin Unguarded => Guarded(x)
    BY <1>0 DEF MigrationRules, GuardedUnlessListed
  <2> QED  BY <2>1, <1>1, GivenHolds DEF Guarded, Clean
<1>3. \A f \in Sure(m) : AtEnd(S, x, f)
  <2>1. \A f \in Sure(m) : Given(x, Len(x), f)
    BY <1>0 DEF MigrationRules, LeavesAll
  <2> QED  BY <2>1, <1>1, GivenHolds DEF AtEnd
<1>4. ASSUME c = 0, r = 0, Feasible(S, x)
      PROVE  \A f \in Lasting[m] : AtEnd(S, x, f)
  <2>1. CASE m \notin Deciding
    <3>1. Sure(m) = Lasting[m]
      BY <2>1, <1>0 DEF Deciding, Sure
    <3> QED  BY <3>1, <1>3
  <2>2. CASE m \in Deciding
    <3>1. Tests(m) \cap S = Tests(m) \cap Base
      BY <2>2, <1>4
    <3>2. \/ \A f \in Lasting[m] : Given(x, Len(x), f)
          \/ \E i \in DOMAIN x, f \in Tests(m) :
              /\ IsIf(x[i])
              /\ \/ f \in x[i].need /\ f \notin Base /\ Unadded(x, i - 1, f)
                 \/ f \in x[i].free /\ f \in Base /\ Spared(x, i - 1, f)
      BY <2>2, <1>0 DEF MigrationRules, DecidingApart
    <3>3. ASSUME NEW i \in DOMAIN x, NEW f \in Tests(m), IsIf(x[i]),
                 \/ f \in x[i].need /\ f \notin Base /\ Unadded(x, i - 1, f)
                 \/ f \in x[i].free /\ f \in Base /\ Spared(x, i - 1, f)
          PROVE  FALSE
      <4>1. Allowed(S, x, i) /\ i - 1 \in Nat
        BY <3>3, <1>4, <1>1 DEF Feasible
      <4>2. f \in S <=> f \in Base
        BY <3>1
      <4> QED  BY <3>3, <4>1, <4>2, GivenHolds DEF Allowed
    <3>4. \A f \in Lasting[m] : Given(x, Len(x), f)
      BY <3>2, <3>3
    <3> QED  BY <3>4, <1>1, GivenHolds DEF AtEnd
  <2> QED  BY <2>1, <2>2
<1>5. ASSUME c = 0, m \in Fragile \cup Deciding
      PROVE  Easy(S, x)
  <2>1. Found("up", m) \subseteq S
    BY <1>5 DEF Found, Replaced
  <2>2. Missing("up", m) \cap S = {}
    BY <1>5 DEF Missing
  <2>3. Smooth("up", m)
    BY <1>5, <1>0 DEF MigrationRules, NothingFails
  <2>4. ASSUME NEW i \in DOMAIN x, ~IsIf(x[i])
        PROVE  Allowed(S, x, i)
    <3>1. /\ \A f \in x[i].need : Given(x, i - 1, f) \/ (f \in Found("up", m) /\ Spared(x, i - 1, f))
          /\ \A f \in x[i].free : Gone(x, i - 1, f) \/ (f \in Missing("up", m) /\ Unadded(x, i - 1, f))
      BY <2>3, <2>4 DEF Smooth
    <3> QED  BY <3>1, <2>1, <2>2, <1>1, GivenHolds DEF Allowed
  <2> QED  BY <2>4 DEF Easy
<1>6. ASSUME m \in Fragile
      PROVE  \A f \in Minus(Migrations[m].up) : ~AtEnd(S, x, f)
  <2>1. \A f \in Minus(Migrations[m].up) : Gone(x, Len(x), f)
    BY <1>0, <1>6 DEF MigrationRules, FragileApart
  <2> QED  BY <2>1, <1>1, GivenHolds DEF AtEnd
<1> QED  BY <1>2, <1>3, <1>4, <1>5, <1>6 DEF OnPath

\* A revert that starts finds what it needs: its way is clear, unless something
\* has died.
LEMMA DownStarts ==
  ASSUME MigrationRules, NEW m \in DOMAIN Migrations, NEW S, NEW c, NEW r, Stays \subseteq S,
         c = 0 => Sure(m) \subseteq S,
         c = 0 /\ m \in Fragile => Minus(Migrations[m].up) \cap S = {},
         NEW x \in Paths(Body("down", m))
  PROVE  OnPath(S, c, r, "down", m, x)
<1>0. "down" \in Directions /\ Body("down", m) = Migrations[m].down
  BY DEF Directions, Body
<1>1. Len(x) \in Nat /\ DOMAIN x = 1..Len(x) /\ \A i \in DOMAIN x : i - 1 \in Nat
  <2>1. Len(x) \in Nat /\ DOMAIN x = 1..Len(x)
    BY <1>0, Bodies, PathsAreLists
  <2> QED  BY <2>1
<1>2. <<"down", Migrations[m]>> \notin Unguarded => Clean(S, x)
  <2>1. <<"down", Migrations[m]>> \notin Unguarded => Guarded(x)
    BY <1>0 DEF MigrationRules, GuardedUnlessListed
  <2> QED  BY <2>1, <1>1, GivenHolds DEF Guarded, Clean
<1>3. ASSUME c = 0
      PROVE  Easy(S, x)
  <2>1. Found("down", m) \subseteq S
    BY <1>3 DEF Found
  <2>2. Missing("down", m) \cap S = {}
    BY <1>3 DEF Missing, Replaced
  <2>3. Smooth("down", m)
    BY <1>0 DEF MigrationRules, NothingFails
  <2>4. ASSUME NEW i \in DOMAIN x, ~IsIf(x[i])
        PROVE  Allowed(S, x, i)
    <3>1. /\ \A f \in x[i].need : Given(x, i - 1, f) \/ (f \in Found("down", m) /\ Spared(x, i - 1, f))
          /\ \A f \in x[i].free : Gone(x, i - 1, f) \/ (f \in Missing("down", m) /\ Unadded(x, i - 1, f))
      BY <2>3, <2>4 DEF Smooth
    <3> QED  BY <3>1, <2>1, <2>2, <1>1, GivenHolds DEF Allowed
  <2> QED  BY <2>4 DEF Easy
<1>4. ASSUME m \in Fragile
      PROVE  /\ \A f \in Plus(Migrations[m].up) : ~AtEnd(S, x, f)
             /\ \A f \in Minus(Migrations[m].up) : AtEnd(S, x, f)
  <2>1. /\ \A f \in Plus(Migrations[m].up) : Gone(x, Len(x), f)
        /\ \A f \in Minus(Migrations[m].up) : Given(x, Len(x), f)
    BY <1>0, <1>4 DEF MigrationRules, FragileApart
  <2> QED  BY <2>1, <1>1, GivenHolds DEF AtEnd
<1> QED  BY <1>2, <1>3, <1>4 DEF OnPath

-----------------------------------------------------------------------------
\* What is recorded is a list of migrations without repetition, and only a
\* recorded one is reverted.
LEMMA Running ==
  ASSUME Order
  PROVE  /\ run.dir # "idle" => run.dir \in Directions /\ run.m \in DOMAIN Migrations
         /\ run.dir = "idle" => run = NoRun
         /\ recorded # <<>> => /\ Len(recorded) \in 1..Len(recorded)
                               /\ Last(recorded) = recorded[Len(recorded)]
                               /\ Last(recorded) \in DOMAIN Migrations
         /\ \A n : n \in ToSet(recorded) <=> \E i \in 1..Len(recorded) : recorded[i] = n
         /\ run.dir = "down" => run.m \in ToSet(recorded)
<1>1. recorded # <<>> => /\ Len(recorded) \in 1..Len(recorded)
                         /\ Last(recorded) = recorded[Len(recorded)]
                         /\ Last(recorded) \in DOMAIN Migrations
  <2> SUFFICES ASSUME recorded # <<>>
               PROVE  /\ Len(recorded) \in 1..Len(recorded)
                      /\ Last(recorded) = recorded[Len(recorded)]
                      /\ Last(recorded) \in DOMAIN Migrations
    OBVIOUS
  <2>1. recorded \in Seq(DOMAIN Migrations)
    BY DEF Order
  <2>2. Len(recorded) \in 1..Len(recorded)
    BY <2>1
  <2> QED  BY <2>1, <2>2 DEF Last
<1>2. \A n : n \in ToSet(recorded) <=> \E i \in 1..Len(recorded) : recorded[i] = n
  <2>1. DOMAIN recorded = 1..Len(recorded)
    BY DEF Order
  <2> QED  BY <2>1 DEF ToSet
<1>3. run.dir # "idle" => run.dir \in Directions /\ run.m \in DOMAIN Migrations
  BY <1>1 DEF Order, Directions, Pendable
<1>4. run.dir = "down" => run.m \in ToSet(recorded)
  BY <1>1, <1>2 DEF Order
<1> QED  BY <1>1, <1>2, <1>3, <1>4 DEF Order

\* A guard that is passed changes nothing.
LEMMA Guards ==
  ASSUME NEW s, \E f \in s.minus : s.minus = {f}, Tabled
  PROVE  /\ IsIf(Yes(s)) /\ IsIf(No(s))
         /\ s.minus \subseteq schema =>
              /\ After(schema, Yes(s)) = schema /\ Yes(s).need \subseteq schema /\ Yes(s).free = {}
         /\ ~(s.minus \subseteq schema) =>
              /\ After(schema, No(s)) = schema /\ No(s).need = {} /\ No(s).free \cap schema = {}
<1>1. /\ Yes(s).need = s.minus /\ Yes(s).free = {} /\ Yes(s).minus = {}
      /\ Yes(s).plus = s.minus \cup Tables(s.minus) /\ Yes(s).yes = <<s>>
      /\ No(s).need = {} /\ No(s).free = s.minus /\ No(s).minus = s.minus /\ No(s).plus = {} /\ No(s).yes = <<s>>
  BY DEF Yes, No, Stmt
<1>2. IsIf(Yes(s)) /\ IsIf(No(s))
  BY <1>1 DEF IsIf
<1>3. ASSUME s.minus \subseteq schema
      PROVE  After(schema, Yes(s)) = schema
  <2>1. Tables(s.minus) \subseteq schema
    BY <1>3 DEF Tables, Tabled
  <2> QED  BY <2>1, <1>1, <1>3 DEF After, Without
<1>4. ASSUME ~(s.minus \subseteq schema)
      PROVE  After(schema, No(s)) = schema /\ s.minus \cap schema = {}
  <2>1. s.minus \cap schema = {}
    BY <1>4
  <2>2. \A f \in schema : f \notin s.minus /\ T(f[1]) \notin s.minus
    BY <2>1 DEF Tabled
  <2> QED  BY <2>1, <2>2, <1>1 DEF After, Without
<1> QED  BY <1>1, <1>2, <1>3, <1>4

\* A statement that is run changes the schema as it says, and every path of what
\* is left to do is the rest of a path of what was left before, which the schema
\* had allowed.
LEMMA StepGoes ==
  ASSUME MigrationRules, Order, Way, Tabled, Step
  PROVE  \E s :
    /\ run.dir # "idle" /\ run' = [dir |-> run.dir, m |-> run.m, todo |-> run'.todo, list |-> run.list]
    /\ run'.dir = run.dir /\ run'.m = run.m /\ run'.list = run.list
    /\ \/ IsIf(s) /\ schema' = schema
       \/ s \in Changes(run.dir, run.m) /\ Grounded(s) /\ s.need \subseteq schema /\ schema' = After(schema, s)
    /\ Way'
    /\ \A y \in Paths(run'.todo) : \E x \in Paths(run.todo) :
         /\ Behind(x, y) /\ schema' = After(schema, x[1])
         /\ IsIf(x[1]) => x[1].need \subseteq schema /\ x[1].free \cap schema = {}
<1>1. run.dir # "idle" /\ run.todo # <<>>
  BY DEF Step, Order, NoRun
<1>2. run.dir \in Directions /\ run.m \in DOMAIN Migrations
  BY <1>1, Running
<1> DEFINE A == Statements(Body(run.dir, run.m))
           L == run.todo
           s == L[1]
<1>3. /\ \A t \in A : t.yes \in Seq(A) /\ t.no \in Seq(A)
      /\ \A t \in A : ~IsIf(t) => t \in Changes(run.dir, run.m) /\ Grounded(t)
  BY <1>2, Bodies
<1>4. L \in Seq(A) /\ OneGuard(L)
  BY <1>1 DEF Way
<1> HIDE DEF A
<1>5. /\ Len(L) \in Nat /\ 1 \in 1..Len(L) /\ DOMAIN L = 1..Len(L) /\ Head(L) = s /\ s \in A
      /\ Tail(L) \in Seq(A) /\ Len(Tail(L)) = Len(L) - 1 /\ DOMAIN Tail(L) = 1..(Len(L) - 1)
      /\ \A i \in 1..(Len(L) - 1) : Tail(L)[i] = L[i + 1]
  <2>1. Len(L) # 0
    BY <1>1, <1>4
  <2> QED  BY <1>1, <1>4, <2>1
<1>6. ASSUME NEW t, run' = [run EXCEPT !.todo = t]
      PROVE  /\ run' = [dir |-> run.dir, m |-> run.m, todo |-> run'.todo, list |-> run.list]
             /\ run'.dir = run.dir /\ run'.m = run.m /\ run'.list = run.list /\ run'.todo = t
  <2>1. run = [dir |-> run.dir, m |-> run.m, todo |-> run.todo, list |-> run.list]
    BY DEF Order
  <2> QED  BY <2>1, <1>6
<1>7. CASE IsIf(s)
  <2>1. /\ run' = [run EXCEPT !.todo = (IF s.minus \subseteq schema THEN s.yes ELSE s.no) \o Tail(L)]
        /\ schema' = schema
    BY Zenon, <1>5, <1>7 DEF Step
  <2> DEFINE b == IF s.minus \subseteq schema THEN s.yes ELSE s.no
             P == IF s.minus \subseteq schema THEN Yes(s) ELSE No(s)
  <2>2. run'.todo = b \o Tail(L)
    BY Zenon, <2>1, <1>6
  <2>3. /\ Straight(s.yes) /\ Straight(s.no)
        /\ \E f \in s.minus : s.minus = {f}
    BY <1>4, <1>5, <1>7 DEF OneGuard
  <2>4. /\ IsIf(P) /\ schema' = After(schema, P) /\ P.need \subseteq schema /\ P.free \cap schema = {}
    BY <2>1, <2>3, Guards
  <2>5. (P = Yes(L[1]) /\ b = L[1].yes) \/ (P = No(L[1]) /\ b = L[1].no)
    OBVIOUS
  <2> HIDE DEF b, P
  <2>6. \A y \in Paths(run'.todo) : \E x \in Paths(run.todo) :
         /\ Behind(x, y) /\ schema' = After(schema, x[1])
         /\ IsIf(x[1]) => x[1].need \subseteq schema /\ x[1].free \cap schema = {}
    <3> SUFFICES ASSUME NEW y \in Paths(b \o Tail(L))
                 PROVE  \E x \in Paths(L) :
                          /\ Behind(x, y) /\ schema' = After(schema, x[1])
                          /\ IsIf(x[1]) => x[1].need \subseteq schema /\ x[1].free \cap schema = {}
      BY <2>2
    <3>1. \E x \in Paths(L) : Behind(x, y) /\ x[1] = P
      <4>1. /\ \A z \in Paths(s.yes \o Tail(L)) : \E x \in Paths(L) : Behind(x, z) /\ x[1] = Yes(s)
            /\ \A z \in Paths(s.no \o Tail(L)) : \E x \in Paths(L) : Behind(x, z) /\ x[1] = No(s)
        BY Zenon, <1>1, <1>3, <1>4, <1>7, PathsOfIf
      <4> QED  BY <4>1, <2>5
    <3> QED  BY <3>1, <2>4
  <2>7. Way'
    <3>1. b \in Seq(A) /\ Straight(b)
      BY <1>3, <1>5, <2>3 DEF b
    <3>2. b \o Tail(L) \in Seq(A) /\ Len(b \o Tail(L)) = Len(b) + (Len(L) - 1)
          /\ \A i \in 1..(Len(b) + Len(Tail(L))) :
               (b \o Tail(L))[i] = IF i <= Len(b) THEN b[i] ELSE Tail(L)[i - Len(b)]
      BY <1>5, <3>1, ConcatProperties
    <3>3. Straight(b \o Tail(L))
      <4> SUFFICES ASSUME NEW i \in 1..(Len(b) + (Len(L) - 1))
                   PROVE  ~IsIf((b \o Tail(L))[i])
        BY <3>2 DEF Straight
      <4>1. Len(b) \in Nat /\ DOMAIN b = 1..Len(b)
        BY <3>1
      <4>2. CASE i <= Len(b)
        <5>1. (b \o Tail(L))[i] = b[i] /\ i \in DOMAIN b
          BY <4>1, <4>2, <3>2, <1>5
        <5> QED  BY <5>1, <3>1 DEF Straight
      <4>3. CASE ~(i <= Len(b))
        <5>1. i - Len(b) \in 1..(Len(L) - 1) /\ (i - Len(b)) + 1 \in 1..Len(L) /\ (i - Len(b)) + 1 # 1
          BY <4>1, <4>3, <1>5
        <5>2. (b \o Tail(L))[i] = L[(i - Len(b)) + 1]
          BY <5>1, <4>3, <3>2, <1>5
        <5> QED  BY Zenon, <5>1, <5>2, <1>4, <1>5, <1>7 DEF OneGuard
      <4> QED  BY <4>2, <4>3
    <3>4. OneGuard(b \o Tail(L))
      BY Zenon, <3>3 DEF Straight, OneGuard
    <3> QED  BY Zenon, <3>2, <3>4, <2>1, <2>2, <1>6 DEF Way, A
  <2> QED  BY Zenon, <1>1, <1>6, <1>7, <2>1, <2>6, <2>7
<1>8. CASE ~IsIf(s)
  <2>1. /\ run' = [run EXCEPT !.todo = Tail(L)] /\ s.need \subseteq schema
        /\ schema' = After(schema, s)
    BY Zenon, <1>5, <1>8 DEF Step, Runs, After
  <2>2. run'.todo = Tail(L)
    BY <2>1, <1>6
  <2>3. s \in Changes(run.dir, run.m) /\ Grounded(s)
    BY <1>3, <1>5, <1>8
  <2>4. \A y \in Paths(run'.todo) : \E x \in Paths(run.todo) :
         /\ Behind(x, y) /\ schema' = After(schema, x[1])
         /\ IsIf(x[1]) => x[1].need \subseteq schema /\ x[1].free \cap schema = {}
    <3> SUFFICES ASSUME NEW y \in Paths(Tail(L))
                 PROVE  \E x \in Paths(L) :
                          /\ Behind(x, y) /\ schema' = After(schema, x[1])
                          /\ IsIf(x[1]) => x[1].need \subseteq schema /\ x[1].free \cap schema = {}
      BY <2>2
    <3>1. \E x \in Paths(L) : Behind(x, y) /\ x[1] = s
      BY Zenon, <1>1, <1>3, <1>4, <1>8, PathsOfTail
    <3> QED  BY <3>1, <2>1, <1>8
  <2>5. Way'
    <3>1. OneGuard(Tail(L))
      <4>1. \A i \in DOMAIN Tail(L) : i + 1 \in DOMAIN L /\ Tail(L)[i] = L[i + 1]
        BY <1>5
      <4>2. ASSUME NEW i \in DOMAIN Tail(L), NEW j \in DOMAIN Tail(L), IsIf(Tail(L)[i]), IsIf(Tail(L)[j])
            PROVE  i = j
        <5>1. i + 1 = j + 1
          BY <4>1, <4>2, <1>4 DEF OneGuard
        <5>2. i \in Nat /\ j \in Nat
          BY <1>5
        <5> QED  BY <5>1, <5>2
      <4> QED  BY Zenon, <4>1, <4>2, <1>4 DEF OneGuard
    <3> QED  BY <3>1, <2>1, <2>2, <1>5, <1>6 DEF Way, A
  <2> QED  BY Zenon, <1>1, <1>6, <2>1, <2>3, <2>4, <2>5
<1> QED  BY <1>7, <1>8

-----------------------------------------------------------------------------
\* The next migration of a list is the least that is not recorded, and all that
\* come before it are.
LEMMA NextOfList ==
  ASSUME NEW list, Listed(list), NEW R, list \ R # {}
  PROVE  LET m == Min(list \ R) IN
         /\ m \in DOMAIN Migrations /\ m \in list /\ m \notin R
         /\ \A n \in DOMAIN Migrations : Precedes(n, m) => n \in R
<1> DEFINE N == list \ R
<1>1. N \subseteq DOMAIN Migrations
  BY DEF Listed
<1>2. Min(N) \in N /\ \A n \in N : Min(N) <= n
  <2>1. N \subseteq Nat
    BY <1>1, Numbering
  <2> HIDE DEF N
  <2> QED  BY <2>1, Least DEF N
<1>3. ASSUME NEW n \in DOMAIN Migrations, Precedes(n, Min(N)), n \notin R
      PROVE  FALSE
  <2>1. n \in N
    BY <1>2, <1>3 DEF Listed
  <2>2. n < Min(N) /\ Min(N) <= n
    BY <2>1, <1>2, <1>3 DEF Precedes
  <2>3. n \in Nat /\ Min(N) \in Nat
    BY <1>1, <1>2, Numbering
  <2> QED  BY <2>2, <2>3
<1> QED  BY <1>1, <1>2, <1>3

\* Nothing left to do has one path, which ends where it starts.
LEMMA EmptyPath ==
  /\ Paths(<<>>) = {<<>>}
  /\ \A S, f : AtEnd(S, <<>>, f) <=> f \in S
<1>1. Straight(<<>>)
  BY DEF Straight
<1>2. Len(<<>>) = 0
  OBVIOUS
<1>3. 1..0 = {}
  OBVIOUS
<1>4. \A S, f : AtEnd(S, <<>>, f) <=> f \in S
  BY <1>2, <1>3 DEF AtEnd, Holds, Given, Spared
<1> QED  BY <1>1, <1>4 DEF Paths

\* Whatever is left to do, there is a path through it.
LEMMA SomePath == \A L : Paths(L) # {}
<1> SUFFICES ASSUME NEW L
             PROVE  Paths(L) # {}
  OBVIOUS
<1>1. CASE Straight(L)
  BY <1>1 DEF Paths
<1>2. CASE ~Straight(L)
  BY Zenon, <1>2, PathIs DEF Straight
<1> QED  BY <1>1, <1>2

\* A statement that fails is one that is not guarded, and none fails that
\* matters as long as nothing has died.
LEMMA Failures ==
  ASSUME MigrationRules, Sound, Fail
  PROVE  /\ run.dir # "idle"
         /\ crashes = 0 => run.dir = "up" /\ run.m \notin Fragile \cup Deciding
         /\ StuckOnlyUnguarded'
<1>1. run.dir # "idle" /\ run.todo # <<>>
  BY DEF Fail, Sound, Order, NoRun
<1>2. run.dir \in Directions /\ run.m \in DOMAIN Migrations
  BY <1>1, Running DEF Sound
<1> DEFINE A == Statements(Body(run.dir, run.m))
           L == run.todo
           s == L[1]
<1>3. \A t \in A : t.yes \in Seq(A) /\ t.no \in Seq(A)
  BY <1>2, Bodies
<1>4. L \in Seq(A)
  BY <1>1 DEF Sound, Way
<1> HIDE DEF A
<1>5. Head(L) = s
  BY <1>1, <1>4
<1>6. /\ ~IsIf(s) /\ ~Runs(s) /\ crashes' = crashes
      /\ dead' = IF s.free \cap schema # {} \/ ~(s.minus \subseteq schema)
                 THEN dead \cup {<<run.dir, run.m>>} ELSE dead
  BY <1>5 DEF Fail
<1>7. PICK x \in Paths(L) : 1 \in DOMAIN x /\ x[1] = s
  <2>1. PICK y : y \in Paths(Tail(L))
    BY SomePath
  <2>2. PICK x \in Paths(L) : Behind(x, y) /\ x[1] = s
    BY <1>1, <1>3, <1>4, <1>6, <2>1, PathsOfTail
  <2>3. 1 \in DOMAIN x
    BY <2>2 DEF Behind
  <2> QED  BY <2>2, <2>3
<1>8. OnPath(schema, crashes, reverts, run.dir, run.m, x)
  BY <1>1, <1>7 DEF Sound, OnPaths
<1>9. \A f : Holds(schema, x, 1 - 1, f) <=> f \in schema
  BY DEF Holds, Given, Spared
<1>10. ~Easy(schema, x)
  <2>1. Easy(schema, x) => Allowed(schema, x, 1)
    BY <1>6, <1>7 DEF Easy
  <2>2. Allowed(schema, x, 1) => Runs(s)
    BY <1>7, <1>9 DEF Allowed, Runs
  <2> QED  BY <2>1, <2>2, <1>6
<1>11. crashes = 0 => run.dir = "up" /\ run.m \notin Fragile \cup Deciding
  BY <1>2, <1>8, <1>10 DEF OnPath, Directions
<1>12. Clean(schema, x) => dead' = dead
  <2> SUFFICES ASSUME Clean(schema, x)
               PROVE  dead' = dead
    OBVIOUS
  <2>1. /\ \A f \in s.free : f \notin schema
        /\ s.need # {} => \A f \in s.minus : f \in schema
    BY <1>6, <1>7, <1>9 DEF Clean
  <2>2. s.need # {}
    BY <2>1, <1>6 DEF Runs
  <2> QED  BY <2>1, <2>2, <1>6
<1>13. dead' # dead => <<run.dir, Migrations[run.m]>> \in Unguarded
  BY <1>8, <1>12 DEF OnPath
<1>14. \A d \in dead' : <<d[1], Migrations[d[2]]>> \in Unguarded
  <2>1. \A d \in dead : <<d[1], Migrations[d[2]]>> \in Unguarded
    BY DEF Sound, StuckOnlyUnguarded
  <2>2. CASE dead' = dead
    BY <2>1, <2>2
  <2>3. CASE dead' # dead
    <3>1. ASSUME NEW d, d = <<run.dir, run.m>>
          PROVE  <<d[1], Migrations[d[2]]>> \in Unguarded
      <4>1. d[1] = run.dir /\ d[2] = run.m
        BY <3>1
      <4> QED  BY <4>1, <2>3, <1>13
    <3>2. \A d \in dead' : d \in dead \/ d = <<run.dir, run.m>>
      BY <1>6
    <3> QED  BY <3>1, <3>2, <2>1
  <2> QED  BY <2>2, <2>3
<1>15. crashes = 0 => dead' = {}
  <2> SUFFICES ASSUME crashes = 0
               PROVE  dead' = {}
    OBVIOUS
  <2>1. dead = {}
    BY DEF Sound, StuckOnlyUnguarded
  <2>2. <<run.dir, Migrations[run.m]>> \notin Unguarded
    BY <1>2, <1>11 DEF Fragile
  <2> QED  BY <2>1, <2>2, <1>13
<1>16. StuckOnlyUnguarded'
  BY <1>6, <1>14, <1>15 DEF StuckOnlyUnguarded
<1> QED  BY <1>1, <1>11, <1>16

-----------------------------------------------------------------------------
\* What recording a migration makes of the recorded ones.
LEMMA Appended ==
  ASSUME NEW R \in Seq(DOMAIN Migrations), NEW m \in DOMAIN Migrations
  PROVE  /\ Append(R, m) \in Seq(DOMAIN Migrations) /\ Len(Append(R, m)) = Len(R) + 1
         /\ \A i \in 1..Len(R) : Append(R, m)[i] = R[i]
         /\ Append(R, m)[Len(R) + 1] = m /\ Len(R) \in Nat
         /\ ToSet(Append(R, m)) = ToSet(R) \cup {m}
<1>1. /\ Append(R, m) \in Seq(DOMAIN Migrations) /\ Len(Append(R, m)) = Len(R) + 1
      /\ \A i \in 1..Len(R) : Append(R, m)[i] = R[i]
      /\ Append(R, m)[Len(R) + 1] = m /\ Len(R) \in Nat
  OBVIOUS
<1>2. DOMAIN Append(R, m) = 1..(Len(R) + 1) /\ DOMAIN R = 1..Len(R)
  BY <1>1
<1>3. 1..(Len(R) + 1) = 1..Len(R) \cup {Len(R) + 1}
  BY <1>1
<1> QED  BY <1>1, <1>2, <1>3 DEF ToSet

\* What the first elements of a list are.
LEMMA FrontOf ==
  ASSUME NEW X, NEW R \in Seq(X), NEW p \in 1..Len(R)
  PROVE  /\ SubSeq(R, 1, p - 1) \in Seq(X) /\ Len(SubSeq(R, 1, p - 1)) = p - 1
         /\ \A i \in 1..(p - 1) : SubSeq(R, 1, p - 1)[i] = R[i] /\ i \in 1..Len(R)
OBVIOUS

\* What striking out the last record leaves.
LEMMA Fronts ==
  ASSUME Order, recorded # <<>>
  PROVE  /\ Front(recorded) \in Seq(DOMAIN Migrations) /\ Len(Front(recorded)) = Len(recorded) - 1
         /\ \A i \in 1..(Len(recorded) - 1) : Front(recorded)[i] = recorded[i] /\ i \in 1..Len(recorded)
         /\ \A m : m \in ToSet(Front(recorded)) <=> m \in ToSet(recorded) /\ m # Last(recorded)
<1>0. recorded \in Seq(DOMAIN Migrations) /\ Len(recorded) \in Nat /\ Len(recorded) >= 1
  <2>1. recorded \in Seq(DOMAIN Migrations)
    BY DEF Order
  <2>2. Len(recorded) # 0
    BY <2>1
  <2> QED  BY <2>1, <2>2
<1>1. /\ Front(recorded) \in Seq(DOMAIN Migrations) /\ Len(Front(recorded)) = Len(recorded) - 1
      /\ \A i \in 1..(Len(recorded) - 1) : Front(recorded)[i] = recorded[i] /\ i \in 1..Len(recorded)
  <2>1. Front(recorded) = SubSeq(recorded, 1, Len(recorded) - 1)
    BY DEF Front
  <2>2. PICK p \in 1..Len(recorded) : p = Len(recorded)
    BY <1>0
  <2> QED  BY <2>1, <2>2, <1>0, FrontOf
<1>2. /\ Len(recorded) \in 1..Len(recorded) /\ Last(recorded) = recorded[Len(recorded)]
      /\ \A n : n \in ToSet(recorded) <=> \E i \in 1..Len(recorded) : recorded[i] = n
  BY Running
<1>3. \A m : m \in ToSet(Front(recorded)) <=> \E i \in 1..(Len(recorded) - 1) : recorded[i] = m
  <2>1. DOMAIN Front(recorded) = 1..(Len(recorded) - 1)
    BY <1>1
  <2> QED  BY Zenon, <2>1, <1>1 DEF ToSet
<1>4. \A i \in 1..Len(recorded) : i \in 1..(Len(recorded) - 1) \/ i = Len(recorded)
  BY <1>0
<1>5. \A i \in 1..(Len(recorded) - 1) : i # Len(recorded) /\ i \in 1..Len(recorded)
  BY <1>0
<1>6. \A i, j \in 1..Len(recorded) : recorded[i] = recorded[j] => i = j
  BY DEF Order
<1>7. ASSUME NEW m
      PROVE  m \in ToSet(Front(recorded)) <=> m \in ToSet(recorded) /\ m # Last(recorded)
  BY Zenon, <1>2, <1>3, <1>4, <1>5, <1>6
<1> QED  BY <1>1, <1>7

\* Every step records migrations once, each after those before it.
LEMMA StepOrder ==
  ASSUME MigrationsAssumption, MigrationRules, Sound, SchemaNext
  PROVE  Order'
<1>0. /\ crashes \in Nat /\ reverts \in Nat /\ recorded \in Seq(DOMAIN Migrations)
      /\ Order /\ Tabled /\ Way
  BY DEF Sound, Order
<1>1. ASSUME Start
      PROVE  Order'
  <2>1. PICK list \in {1..last : last \in Releases} \cup {Seo} : Pending(list) # {} /\ run' = Up(Min(Pending(list)), list)
    BY <1>1 DEF Start
  <2>2. Listed(list)
    BY ListsAreListed
  <2> DEFINE m == Min(Pending(list))
  <2>3. /\ m \in DOMAIN Migrations /\ m \in list /\ m \notin ToSet(recorded)
        /\ \A n \in DOMAIN Migrations : Precedes(n, m) => n \in ToSet(recorded)
    BY Zenon, <2>1, <2>2, NextOfList DEF Pending
  <2> HIDE DEF m
  <2>4. run'.dir = "up" /\ run'.m = m /\ run'.list = list
        /\ run' = [dir |-> run'.dir, m |-> run'.m, todo |-> run'.todo, list |-> run'.list]
    BY <2>1 DEF Up, m
  <2>5. recorded' = recorded /\ half' = half /\ crashes' = crashes /\ reverts' = reverts /\ run.dir = "idle"
    BY <1>1 DEF Start, NoRun
  <2>6. Pendable(run.m)'
    BY <2>3, <2>4, <2>5 DEF Pendable
  <2> QED  BY <2>2, <2>3, <2>4, <2>5, <2>6, <1>0 DEF Order
<1>2. ASSUME Revert
      PROVE  Order'
  <2>1. /\ run'.dir = "down" /\ run'.m = Last(recorded)
        /\ run' = [dir |-> run'.dir, m |-> run'.m, todo |-> run'.todo, list |-> run'.list]
        /\ run.dir = "idle" /\ recorded # <<>>
    BY <1>2 DEF Revert, NoRun
  <2>2. recorded' = recorded /\ half' = half \cup {Last(recorded)} /\ crashes' = crashes /\ reverts' = reverts + 1
    BY <1>2 DEF Revert
  <2>3. reverts' \in Nat /\ reverts' >= 1
    BY <2>2, <1>0
  <2> QED  BY <2>1, <2>2, <2>3, <1>0 DEF Order
<1>3. ASSUME Step
      PROVE  Order'
  <2>1. /\ run.dir # "idle" /\ run' = [dir |-> run.dir, m |-> run.m, todo |-> run'.todo, list |-> run.list]
        /\ run'.dir = run.dir /\ run'.m = run.m /\ run'.list = run.list
    BY <1>3, <1>0, StepGoes
  <2>2. recorded' = recorded /\ half' = half /\ crashes' = crashes /\ reverts' = reverts
    BY <1>3 DEF Step
  <2>3. Pendable(run.m)' <=> Pendable(run.m)
    BY <2>1, <2>2 DEF Pendable
  <2> QED  BY <2>1, <2>2, <2>3, <1>0 DEF Order
<1>4. ASSUME Fail
      PROVE  Order'
  <2>1. run' = NoRun /\ recorded' = recorded /\ half' = half /\ crashes' = crashes /\ reverts' = reverts
    BY <1>4 DEF Fail, Stopped
  <2>2. crashes = 0 => run.dir = "up"
    BY <1>4, Failures
  <2> QED  BY <2>1, <2>2, <1>0 DEF Order, NoRun
<1>5. ASSUME Crash
      PROVE  Order'
  <2>1. run' = NoRun /\ recorded' = recorded /\ half' = half /\ crashes' = crashes + 1 /\ reverts' = reverts
    BY <1>5 DEF Crash, Stopped
  <2>2. crashes' \in Nat /\ crashes' # 0
    BY <2>1, <1>0
  <2> QED  BY <2>1, <2>2, <1>0 DEF Order, NoRun
<1>6. ASSUME Record
      PROVE  Order'
  <2>1. /\ run.dir = "up" /\ recorded' = Append(recorded, run.m)
        /\ half' = half /\ crashes' = crashes /\ reverts' = reverts
    BY <1>6 DEF Record
  <2>2. Pendable(run.m) /\ Listed(run.list) /\ run.m \in run.list /\ run.m \in DOMAIN Migrations
    BY <2>1, <1>0 DEF Order, Pendable
  <2>3. /\ recorded' \in Seq(DOMAIN Migrations) /\ Len(recorded') = Len(recorded) + 1
        /\ \A i \in 1..Len(recorded) : recorded'[i] = recorded[i]
        /\ recorded'[Len(recorded) + 1] = run.m /\ Len(recorded) \in Nat
    BY <2>1, <2>2, <1>0, Appended
  <2>4. ToSet(recorded') = ToSet(recorded) \cup {run.m}
    BY <2>1, <2>2, <1>0, Appended
  <2>5. \A i \in 1..Len(recorded') : i \in 1..Len(recorded) \/ i = Len(recorded) + 1
    BY <2>3
  <2>6. \A i, j \in 1..Len(recorded') : recorded'[i] = recorded'[j] => i = j
    <3>1. \A i \in 1..Len(recorded) : recorded[i] # run.m
      BY <2>2, <1>0, Running DEF Pendable
    <3> QED  BY <3>1, <2>3, <2>5, <1>0 DEF Order
  <2>7. ASSUME NEW i \in 1..Len(recorded'), NEW n \in DOMAIN Migrations, Precedes(n, recorded'[i])
        PROVE  \E j \in 1..(i - 1) : recorded'[j] = n
    <3>1. CASE i \in 1..Len(recorded)
      <4>1. PICK j \in 1..(i - 1) : recorded[j] = n
        BY <3>1, <2>3, <2>7, <1>0 DEF Order
      <4>2. j \in 1..Len(recorded)
        BY <3>1, <2>3
      <4> QED  BY <4>1, <4>2, <2>3
    <3>2. CASE i = Len(recorded) + 1
      <4>1. n \in ToSet(recorded)
        BY <3>2, <2>2, <2>3, <2>7 DEF Pendable
      <4>2. PICK j \in 1..Len(recorded) : recorded[j] = n
        BY <4>1, <1>0, Running
      <4>3. j \in 1..(i - 1)
        BY <3>2, <2>3
      <4> QED  BY <4>2, <4>3, <2>3
    <3> QED  BY <3>1, <3>2, <2>5
  <2>8. CASE Pending(run.list) = {run.m}
    <3>1. run' = NoRun
      BY <2>8, <1>6 DEF Record
    <3> QED  BY <3>1, <2>1, <2>3, <2>6, <2>7, <1>0 DEF Order, NoRun
  <2>9. CASE Pending(run.list) # {run.m}
    <3> DEFINE m == Min(Pending(run.list) \ {run.m})
    <3>1. run' = Up(m, run.list)
      BY <2>9, <1>6 DEF Record
    <3>2. Pending(run.list) \ {run.m} = run.list \ ToSet(recorded') /\ Pending(run.list) \ {run.m} # {}
      BY <2>2, <2>4, <2>9 DEF Pending, Pendable
    <3>3. /\ m \in DOMAIN Migrations /\ m \in run.list /\ m \notin ToSet(recorded')
          /\ \A n \in DOMAIN Migrations : Precedes(n, m) => n \in ToSet(recorded')
      BY Zenon, <2>2, <3>2, NextOfList
    <3> HIDE DEF m
    <3>4. run'.dir = "up" /\ run'.m = m /\ run'.list = run.list
          /\ run' = [dir |-> run'.dir, m |-> run'.m, todo |-> run'.todo, list |-> run'.list]
      BY <3>1 DEF Up
    <3>5. Pendable(run.m)'
      BY <3>3, <3>4 DEF Pendable
    <3> QED  BY <3>3, <3>4, <3>5, <2>1, <2>2, <2>3, <2>6, <2>7, <1>0 DEF Order
  <2> QED  BY <2>8, <2>9
<1>7. ASSUME Unrecord
      PROVE  Order'
  <2>1. /\ run.dir = "down" /\ recorded' = Front(recorded) /\ run' = NoRun
        /\ half' = half \ {run.m} /\ crashes' = crashes /\ reverts' = reverts
    BY <1>7 DEF Unrecord
  <2>2. recorded # <<>>
    BY <2>1, <1>0 DEF Order
  <2>3. /\ recorded' \in Seq(DOMAIN Migrations) /\ Len(recorded') = Len(recorded) - 1
        /\ \A i \in 1..(Len(recorded) - 1) : recorded'[i] = recorded[i] /\ i \in 1..Len(recorded)
    BY <2>1, <2>2, <1>0, Fronts
  <2>4. \A i \in 1..Len(recorded') : \A n \in DOMAIN Migrations :
          Precedes(n, recorded'[i]) => \E j \in 1..(i - 1) : recorded'[j] = n
    <3> SUFFICES ASSUME NEW i \in 1..Len(recorded'), NEW n \in DOMAIN Migrations, Precedes(n, recorded'[i])
                 PROVE  \E j \in 1..(i - 1) : recorded'[j] = n
      OBVIOUS
    <3>1. PICK j \in 1..(i - 1) : recorded[j] = n
      BY <2>3, <1>0 DEF Order
    <3>2. j \in 1..(Len(recorded) - 1)
      BY <2>3
    <3> QED  BY Zenon, <3>1, <3>2, <2>3
  <2> QED  BY <2>1, <2>3, <2>4, <1>0 DEF Order, NoRun
<1> QED  BY <1>1, <1>2, <1>3, <1>4, <1>5, <1>6, <1>7 DEF SchemaNext

\* Every step leaves as statements to run some of the migration under way, with
\* one guard at most.
LEMMA StepWay ==
  ASSUME MigrationsAssumption, MigrationRules, Sound, SchemaNext, Order'
  PROVE  Way'
<1>1. CASE Step
  BY <1>1, StepGoes DEF Sound
<1>2. CASE run'.dir = "idle"
  BY <1>2 DEF Way
<1>3. ASSUME run'.dir # "idle", run'.todo = Body(run'.dir, run'.m)
      PROVE  Way'
  <2>1. run'.dir \in Directions /\ run'.m \in DOMAIN Migrations
    <3>1. (run.dir # "idle" => run.dir \in Directions /\ run.m \in DOMAIN Migrations)'
      BY Running, PTL
    <3> QED  BY <3>1, <1>3
  <2> QED  BY <2>1, <1>3, Bodies DEF Way
<1>4. ASSUME Start
      PROVE  Way'
  <2>1. PICK m, list : run' = Up(m, list)
    BY <1>4 DEF Start
  <2>2. run'.dir = "up" /\ run'.todo = Body(run'.dir, run'.m)
    BY <2>1 DEF Up, Body
  <2> QED  BY <2>2, <1>3
<1>5. ASSUME Revert
      PROVE  Way'
  <2>2. run'.dir = "down" /\ run'.todo = Body(run'.dir, run'.m)
    BY <1>5 DEF Revert, Body
  <2> QED  BY <2>2, <1>3
<1>6. ASSUME Record
      PROVE  Way'
  <2>1. CASE run' = NoRun
    BY <2>1, <1>2 DEF NoRun
  <2>2. CASE run' # NoRun
    <3>1. PICK m, list : run' = Up(m, list)
      BY <1>6, <2>2 DEF Record
    <3>2. run'.dir = "up" /\ run'.todo = Body(run'.dir, run'.m)
      BY <3>1 DEF Up, Body
    <3> QED  BY <3>2, <1>3
  <2> QED  BY <2>1, <2>2
<1>7. ASSUME Fail \/ Crash \/ Unrecord
      PROVE  Way'
  <2>1. run' = NoRun
    BY <1>7 DEF Fail, Crash, Stopped, Unrecord
  <2> QED  BY <2>1, <1>2 DEF NoRun
<1> QED  BY <1>1, <1>4, <1>5, <1>6, <1>7 DEF SchemaNext

\* No step leaves a fact of a table that is not there.
LEMMA StepTabled ==
  ASSUME MigrationRules, Sound, SchemaNext
  PROVE  Tabled'
<1>0. Order /\ Way /\ Tabled
  BY DEF Sound
<1>1. CASE Step
  <2>1. PICK s : /\ run.dir # "idle"
                 /\ \/ schema' = schema
                    \/ s \in Changes(run.dir, run.m) /\ Grounded(s) /\ s.need \subseteq schema /\ schema' = After(schema, s)
    BY <1>0, <1>1, StepGoes
  <2>2. CASE schema' = schema
    BY <2>2, <1>0 DEF Tabled
  <2>3. CASE s \in Changes(run.dir, run.m) /\ Grounded(s) /\ s.need \subseteq schema /\ schema' = After(schema, s)
    <3>1. \A f \in Stays : f \in schema'
      <4>1. \A f \in Stays : ~Removes(s, f)
        BY <2>1, <2>3, <1>0, Running DEF Stays
      <4> QED  BY <4>1, <2>3, <1>0 DEF After, Without, Removes, Tabled
    <3>2. ASSUME NEW f \in schema'
          PROVE  T(f[1]) \in schema'
      <4>1. T(T(f[1])[1]) = T(f[1])
        BY TableOfTable
      <4>2. CASE f \in s.plus
        <5>1. T(f[1]) \in s.plus \/ (T(f[1]) \in schema /\ T(f[1]) \notin s.minus)
          BY <4>2, <2>3 DEF Grounded
        <5> QED  BY <5>1, <4>1, <2>3 DEF After, Without
      <4>3. CASE f \notin s.plus
        <5>1. f \in schema /\ T(f[1]) \notin s.minus
          BY <4>3, <3>2, <2>3 DEF After, Without
        <5>2. T(f[1]) \in schema
          BY <5>1, <1>0 DEF Tabled
        <5> QED  BY <5>1, <5>2, <4>1, <2>3 DEF After, Without
      <4> QED  BY <4>2, <4>3
    <3> QED  BY <3>1, <3>2 DEF Tabled
  <2> QED  BY <2>1, <2>2, <2>3
<1>2. CASE ~Step
  <2>1. schema' = schema
    BY <1>2 DEF SchemaNext, Start, Revert, Fail, Crash, Stopped, Record, Unrecord
  <2> QED  BY <2>1, <1>0 DEF Tabled
<1> QED  BY <1>1, <1>2

\* What is owed by a recorded migration.
Owed(m) == Lasting[m] \ (IF crashes + reverts = 0 THEN {} ELSE Losable)

\* Whatever a step records is done, and no step undoes what stays recorded.
LEMMA StepDone ==
  ASSUME MigrationRules, Sound, SchemaNext, Order'
  PROVE  RecordedIsDone'
<1>0. /\ crashes \in Nat /\ reverts \in Nat /\ Order /\ Way /\ Tabled
      /\ \A m \in ToSet(recorded) \ half : Owed(m) \subseteq schema
  BY DEF Sound, Order, RecordedIsDone, Owed
<1>1. SUFFICES ASSUME NEW m \in ToSet(recorded') \ half', NEW f \in Owed(m)'
               PROVE  f \in schema'
  BY DEF RecordedIsDone, Owed
<1>2. \A k : crashes' + reverts' >= crashes + reverts => Owed(k)' \subseteq Owed(k)
  BY <1>0 DEF Owed
<1>3. ASSUME Step
      PROVE  f \in schema'
  <2>1. recorded' = recorded /\ half' = half /\ crashes' = crashes /\ reverts' = reverts
    BY <1>3 DEF Step
  <2>2. f \in schema /\ m \in ToSet(recorded) \ half /\ f \in Lasting[m]
    BY <2>1, <1>0, <1>1 DEF Owed
  <2>3. PICK s : /\ run.dir # "idle"
                 /\ \/ schema' = schema
                    \/ s \in Changes(run.dir, run.m) /\ schema' = After(schema, s)
    BY <1>0, <1>3, StepGoes
  <2>4. CASE schema' = schema
    BY <2>2, <2>4
  <2>5. CASE s \in Changes(run.dir, run.m) /\ schema' = After(schema, s)
    <3>1. run.dir \in Directions /\ run.m \in DOMAIN Migrations
      BY <2>3, <1>0, Running
    <3>2. PICK i \in 1..Len(recorded) : recorded[i] = m
      BY <2>2, <1>0, Running
    <3>3. m \in DOMAIN Migrations
      BY <3>2, <1>0 DEF Order
    <3>4. Removes(s, f) => run.m = m \/ Precedes(run.m, m)
      BY <2>2, <2>5, <3>1, <3>3 DEF MigrationRules, NobodyElseRemoves
    <3>5. run.m # m
      <4>1. CASE run.dir = "up"
        BY <4>1, <2>2, <1>0 DEF Order, Pendable
      <4>2. CASE run.dir = "down"
        BY <4>2, <2>2, <1>0 DEF Order
      <4> QED  BY <4>1, <4>2, <3>1 DEF Directions
    <3>6. ASSUME Precedes(run.m, m)
          PROVE  FALSE
      <4>1. PICK j \in 1..(i - 1) : recorded[j] = run.m
        BY <3>1, <3>2, <3>6, <1>0 DEF Order
      <4>2. Len(recorded) \in Nat /\ j \in 1..Len(recorded) /\ j # Len(recorded)
        BY <3>2, <4>1, <1>0 DEF Order
      <4>3. CASE run.dir = "up"
        BY <4>1, <4>2, <4>3, <1>0, Running DEF Order, Pendable
      <4>4. CASE run.dir = "down"
        <5>1. recorded # <<>> /\ run.m = Last(recorded)
          BY <4>4, <1>0 DEF Order
        <5>2. run.m = recorded[Len(recorded)] /\ Len(recorded) \in 1..Len(recorded)
          BY <5>1, <1>0, Running
        <5> QED  BY <5>2, <4>1, <4>2, <1>0 DEF Order
      <4> QED  BY <4>3, <4>4, <3>1 DEF Directions
    <3> QED  BY <3>4, <3>5, <3>6, <2>2, <2>5 DEF After, Without, Removes
  <2> QED  BY <2>3, <2>4, <2>5
<1>4. ASSUME Start \/ Revert \/ Fail \/ Crash
      PROVE  f \in schema'
  <2>1. recorded' = recorded /\ half \subseteq half' /\ schema' = schema
    BY <1>4 DEF Start, Revert, Fail, Crash, Stopped
  <2>2. crashes' + reverts' >= crashes + reverts
    <3>1. /\ crashes' = crashes \/ crashes' = crashes + 1
          /\ reverts' = reverts \/ reverts' = reverts + 1
      BY <1>4 DEF Start, Revert, Fail, Crash, Stopped
    <3> QED  BY <3>1, <1>0
  <2> QED  BY <2>1, <2>2, <1>0, <1>1, <1>2
<1>5. ASSUME Record
      PROVE  f \in schema'
  <2>1. /\ run.dir = "up" /\ run.todo = <<>> /\ recorded' = Append(recorded, run.m) /\ schema' = schema
        /\ half' = half /\ crashes' = crashes /\ reverts' = reverts
    BY <1>5 DEF Record
  <2>2. CASE m \in ToSet(recorded)
    BY <2>1, <2>2, <1>0, <1>1, <1>2
  <2>3. CASE m \notin ToSet(recorded)
    <3>1. m = run.m
      <4>1. /\ Len(recorded') = Len(recorded) + 1 /\ Len(recorded) \in Nat
            /\ \A i \in 1..Len(recorded) : recorded'[i] = recorded[i]
            /\ recorded'[Len(recorded) + 1] = run.m
        <5>1. run.m \in DOMAIN Migrations /\ recorded \in Seq(DOMAIN Migrations)
          BY <2>1, <1>0 DEF Order, Pendable
        <5> QED  BY <5>1, <2>1, Appended
      <4>2. PICK i \in 1..Len(recorded') : recorded'[i] = m
        <5>1. DOMAIN recorded' = 1..Len(recorded')
          BY DEF Order
        <5> QED  BY <5>1, <1>1 DEF ToSet
      <4>3. i \in 1..Len(recorded) \/ i = Len(recorded) + 1
        BY <4>1
      <4>4. i \notin 1..Len(recorded)
        <5>1. \A l \in 1..Len(recorded) : recorded[l] \in ToSet(recorded)
          BY <1>0, Running
        <5> QED  BY <5>1, <4>1, <4>2, <2>3
      <4>5. i = Len(recorded) + 1
        BY <4>3, <4>4
      <4>6. recorded'[i] = run.m
        BY <4>1, <4>5
      <4> QED  BY <4>2, <4>6
    <3>2. <<>> \in Paths(run.todo)
      BY <2>1, EmptyPath
    <3>3. OnPath(schema, crashes, reverts, "up", m, <<>>)
      BY <2>1, <3>1, <3>2 DEF Sound, OnPaths
    <3>4. \A g \in Sure(m) : g \in schema
      BY <3>3, EmptyPath DEF OnPath
    <3>5. crashes = 0 /\ reverts = 0 => \A g \in Lasting[m] : g \in schema
      <4>1. Feasible(schema, <<>>)
        BY DEF Feasible
      <4> QED  BY <4>1, <3>3, EmptyPath DEF OnPath
    <3>6. f \in Lasting[m] /\ (crashes + reverts = 0 \/ f \in Sure(m))
      BY <2>1, <1>1 DEF Owed, Sure
    <3>7. crashes + reverts = 0 => crashes = 0 /\ reverts = 0
      BY <1>0
    <3> QED  BY <3>4, <3>5, <3>6, <3>7, <2>1
  <2> QED  BY <2>2, <2>3
<1>6. ASSUME Unrecord
      PROVE  f \in schema'
  <2>1. /\ run.dir = "down" /\ recorded' = Front(recorded) /\ schema' = schema
        /\ half' = half \ {run.m} /\ crashes' = crashes /\ reverts' = reverts
    BY <1>6 DEF Unrecord
  <2>2. recorded # <<>> /\ run.m = Last(recorded)
    BY <2>1, <1>0 DEF Order
  <2>3. m \in ToSet(recorded) /\ m # run.m
    BY <2>1, <2>2, <1>0, <1>1, Fronts
  <2> QED  BY <2>1, <2>3, <1>0, <1>1, <1>2
<1> QED  BY <1>3, <1>4, <1>5, <1>6 DEF SchemaNext

\* No step touches what a migration that cannot be repeated, or one that decides
\* once, is yet to find.
LEMMA StepApart ==
  ASSUME MigrationRules, Sound, SchemaNext
  PROVE  Apart'
<1>0. crashes \in Nat /\ reverts \in Nat /\ Order /\ Way /\ Tabled /\ Apart
  BY DEF Sound, Order
<1>1. ASSUME Start \/ Revert
      PROVE  Apart'
  <2>1. /\ run.m = 0 /\ recorded' = recorded /\ schema' = schema /\ crashes' = crashes
        /\ reverts' = 0 => reverts = 0
    <3>1. reverts + 1 # 0
      BY <1>0
    <3> QED  BY <3>1, <1>1 DEF Start, Revert, NoRun
  <2>2. \A m \in DOMAIN Migrations : run.m # m
    BY <2>1, Numbering
  <2> QED  BY <2>1, <2>2, <1>0 DEF Apart, Fragile, Deciding
<1>2. ASSUME Step
      PROVE  Apart'
  <2>1. recorded' = recorded /\ crashes' = crashes /\ reverts' = reverts
    BY <1>2 DEF Step
  <2>2. PICK s : /\ run.dir # "idle" /\ run'.m = run.m
                 /\ \/ schema' = schema
                    \/ s \in Changes(run.dir, run.m) /\ schema' = After(schema, s)
    BY <1>0, <1>2, StepGoes
  <2>3. run.dir \in Directions /\ run.m \in DOMAIN Migrations
    BY <2>2, <1>0, Running
  <2>4. ASSUME NEW m \in Fragile, run.m # m
        PROVE  \A f \in Plus(Migrations[m].up) \cup Minus(Migrations[m].up) : f \in schema' <=> f \in schema
    <3>1. run.m \in DOMAIN Migrations \ {m}
      BY <2>3, <2>4
    <3>2. s \in Changes(run.dir, run.m) =>
            \A f \in Plus(Migrations[m].up) \cup Minus(Migrations[m].up) : f \notin s.plus /\ ~Removes(s, f)
      BY <3>1, <2>3 DEF MigrationRules, FragileApart
    <3> QED  BY <3>2, <2>2 DEF After, Without, Removes
  <2>5. ASSUME NEW m \in Deciding, run.m # m, reverts = 0
        PROVE  \A f \in Tests(m) : f \in schema' <=> f \in schema
    <3>1. run.m \in DOMAIN Migrations \ {m} /\ run.dir = "up"
      BY <2>3, <2>5, <1>0 DEF Order, Directions
    <3>2. s \in Changes(run.dir, run.m) =>
            \A f \in Tests(m) : f \notin s.plus /\ ~Removes(s, f)
      BY <3>1 DEF MigrationRules, DecidingApart
    <3> QED  BY <3>2, <2>2 DEF After, Without, Removes
  <2>6. ASSUME crashes = 0, NEW m \in Fragile, run.m # m
        PROVE  /\ m \notin ToSet(recorded) => /\ Plus(Migrations[m].up) \cap schema' = {}
                                              /\ Minus(Migrations[m].up) \subseteq schema'
               /\ m \in ToSet(recorded) => Minus(Migrations[m].up) \cap schema' = {}
    <3>1. /\ m \notin ToSet(recorded) => /\ Plus(Migrations[m].up) \cap schema = {}
                                         /\ Minus(Migrations[m].up) \subseteq schema
          /\ m \in ToSet(recorded) => Minus(Migrations[m].up) \cap schema = {}
      BY <2>6, <1>0 DEF Apart
    <3> QED  BY <3>1, <2>4, <2>6
  <2>7. ASSUME crashes = 0, reverts = 0, NEW m \in Deciding, run.m # m, m \notin ToSet(recorded)
        PROVE  Tests(m) \cap schema' = Tests(m) \cap Base
    <3>1. Tests(m) \cap schema = Tests(m) \cap Base
      BY <2>7, <1>0 DEF Apart
    <3> QED  BY <3>1, <2>5, <2>7
  <2> QED  BY <2>1, <2>2, <2>6, <2>7 DEF Apart
<1>3. ASSUME Fail
      PROVE  Apart'
  <2>1. recorded' = recorded /\ schema' = schema /\ crashes' = crashes /\ reverts' = reverts
    BY <1>3 DEF Fail, Stopped
  <2>2. crashes = 0 => run.m \notin Fragile \cup Deciding
    BY <1>3, Failures
  <2> QED  BY <2>1, <2>2, <1>0 DEF Apart
<1>4. ASSUME Crash
      PROVE  Apart'
  <2>1. crashes' # 0
    BY <1>0, <1>4 DEF Crash
  <2> QED  BY <2>1 DEF Apart
<1>5. ASSUME Record
      PROVE  Apart'
  <2>1. /\ run.dir = "up" /\ run.todo = <<>> /\ recorded' = Append(recorded, run.m) /\ schema' = schema
        /\ crashes' = crashes /\ reverts' = reverts
    BY <1>5 DEF Record
  <2>2. ToSet(recorded') = ToSet(recorded) \cup {run.m}
    BY <2>1, <1>0, Appended DEF Order, Pendable
  <2>3. OnPath(schema, crashes, reverts, "up", run.m, <<>>)
    BY <2>1, EmptyPath DEF Sound, OnPaths
  <2>4. crashes = 0 /\ run.m \in Fragile => Minus(Migrations[run.m].up) \cap schema = {}
    BY <2>3, EmptyPath DEF OnPath
  <2>5. ASSUME crashes = 0, NEW m \in Fragile
        PROVE  /\ m \notin ToSet(recorded') => /\ Plus(Migrations[m].up) \cap schema = {}
                                               /\ Minus(Migrations[m].up) \subseteq schema
               /\ m \in ToSet(recorded') => Minus(Migrations[m].up) \cap schema = {}
    <3>1. CASE m = run.m
      BY <3>1, <2>2, <2>4, <2>5
    <3>2. CASE m # run.m
      BY <3>2, <2>2, <2>5, <1>0 DEF Apart
    <3> QED  BY <3>1, <3>2
  <2>6. ASSUME crashes = 0, reverts = 0, NEW m \in Deciding, m \notin ToSet(recorded')
        PROVE  Tests(m) \cap schema = Tests(m) \cap Base
    BY <2>2, <2>6, <1>0 DEF Apart
  <2> QED  BY <2>1, <2>5, <2>6 DEF Apart
<1>6. ASSUME Unrecord
      PROVE  Apart'
  <2>1. /\ run.dir = "down" /\ run.todo = <<>> /\ recorded' = Front(recorded) /\ schema' = schema
        /\ crashes' = crashes /\ reverts' = reverts
    BY <1>6 DEF Unrecord
  <2>2. recorded # <<>> /\ run.m = Last(recorded) /\ reverts # 0
    <3>1. recorded # <<>> /\ run.m = Last(recorded) /\ reverts >= 1
      BY <2>1, <1>0 DEF Order
    <3> QED  BY <3>1, <1>0
  <2>3. \A m : m \in ToSet(recorded') <=> m \in ToSet(recorded) /\ m # run.m
    BY <2>1, <2>2, <1>0, Fronts
  <2>4. OnPath(schema, crashes, reverts, "down", run.m, <<>>)
    BY <2>1, EmptyPath DEF Sound, OnPaths
  <2>5. crashes = 0 /\ run.m \in Fragile =>
          Plus(Migrations[run.m].up) \cap schema = {} /\ Minus(Migrations[run.m].up) \subseteq schema
    BY <2>4, EmptyPath DEF OnPath
  <2>6. ASSUME crashes = 0, NEW m \in Fragile
        PROVE  /\ m \notin ToSet(recorded') => /\ Plus(Migrations[m].up) \cap schema = {}
                                               /\ Minus(Migrations[m].up) \subseteq schema
               /\ m \in ToSet(recorded') => Minus(Migrations[m].up) \cap schema = {}
    <3>1. CASE m = run.m
      BY <3>1, <2>3, <2>5, <2>6
    <3>2. CASE m # run.m
      BY <3>2, <2>3, <2>6, <1>0 DEF Apart
    <3> QED  BY <3>1, <3>2
  <2> QED  BY <2>1, <2>2, <2>6 DEF Apart
<1> QED  BY <1>1, <1>2, <1>3, <1>4, <1>5, <1>6 DEF SchemaNext

\* After every step, each way the run may go on is clear and ends with all done.
LEMMA StepOnPaths ==
  ASSUME MigrationsAssumption, MigrationRules, Sound, SchemaNext, Order', RecordedIsDone'
  PROVE  OnPaths'
<1>0. crashes \in Nat /\ reverts \in Nat /\ Order /\ Way /\ Tabled /\ Apart /\ OnPaths /\ Stays \subseteq schema
  BY DEF Sound, Order, Tabled
\* A run up that starts in what the last step leaves.
<1>1. ASSUME NEW m, NEW list, run' = Up(m, list), schema' = schema, run.m # m, m \notin ToSet(recorded)
      PROVE  OnPaths'
  <2>1. run'.dir = "up" /\ run'.m = m /\ run'.todo = Body("up", m)
    BY <1>1 DEF Up, Body
  <2>2. (run.dir = "up" => Pendable(run.m))'
    BY DEF Order
  <2>3. /\ m \in DOMAIN Migrations
        /\ \A n \in DOMAIN Migrations : Precedes(n, m) => n \in ToSet(recorded')
    BY <2>1, <2>2 DEF Pendable
  <2>4. crashes' = 0 => half' = {}
    BY <2>1 DEF Order
  <2>5. \A k : Sure(k) \subseteq Lasting[k] \ (IF crashes' + reverts' = 0 THEN {} ELSE Losable)
    BY DEF Sure
  <2>6. crashes' = 0 => Preceding(m) \subseteq schema
    <3> SUFFICES ASSUME crashes' = 0, NEW k \in {n \in DOMAIN Migrations : Precedes(n, m)}
                 PROVE  Sure(k) \subseteq schema
      BY DEF Preceding
    <3>1. k \in ToSet(recorded') \ half'
      BY <2>3, <2>4
    <3> QED  BY <3>1, <2>5, <1>1 DEF RecordedIsDone
  <2>7. crashes' = crashes /\ (reverts' = 0 => reverts = 0)
    <3>1. /\ crashes' = crashes \/ (crashes' = crashes + 1 /\ run' = NoRun)
          /\ reverts' = reverts \/ reverts' = reverts + 1
      BY Zenon DEF SchemaNext, Start, Revert, Step, Fail, Crash, Record, Unrecord, Stopped
    <3>2. run' # NoRun
      BY <2>1 DEF NoRun
    <3>3. reverts + 1 # 0
      BY <1>0
    <3> QED  BY <3>1, <3>2, <3>3
  <2>8. crashes = 0 /\ m \in Fragile => Plus(Migrations[m].up) \cap schema = {} /\ Minus(Migrations[m].up) \subseteq schema
    BY <1>0, <1>1 DEF Apart
  <2>9. crashes = 0 /\ reverts = 0 /\ m \in Deciding => Tests(m) \cap schema = Tests(m) \cap Base
    BY <1>0, <1>1 DEF Apart
  <2>10. \A x \in Paths(Body("up", m)) : OnPath(schema', crashes', reverts', "up", m, x)
    <3> SUFFICES ASSUME NEW x \in Paths(Body("up", m))
                 PROVE  OnPath(schema, crashes', reverts', "up", m, x)
      BY <1>1
    <3> QED  BY <1>0, <2>3, <2>6, <2>7, <2>8, <2>9, UpStarts
  <2> QED  BY <2>1, <2>10 DEF OnPaths
<1>2. ASSUME Start
      PROVE  OnPaths'
  <2>1. PICK list \in {1..last : last \in Releases} \cup {Seo} : Pending(list) # {} /\ run' = Up(Min(Pending(list)), list)
    BY <1>2 DEF Start
  <2>2. Listed(list)
    BY ListsAreListed
  <2> DEFINE m == Min(Pending(list))
  <2>3. m \in DOMAIN Migrations /\ m \notin ToSet(recorded)
    BY <2>1, <2>2, NextOfList DEF Pending
  <2> HIDE DEF m
  <2>4. run.m = 0 /\ m # 0 /\ schema' = schema
    BY Zenon, <2>3, <1>2, Numbering DEF Start, NoRun
  <2> QED  BY <2>1, <2>3, <2>4, <1>1 DEF m
<1>3. ASSUME Revert
      PROVE  OnPaths'
  <2>1. /\ run.dir = "idle" /\ run.m = 0 /\ recorded # <<>> /\ run'.dir = "down" /\ run'.m = Last(recorded)
        /\ run'.todo = Body("down", Last(recorded))
        /\ schema' = schema /\ crashes' = crashes
    BY <1>3 DEF Revert, NoRun, Body
  <2> DEFINE m == Last(recorded)
  <2>2. m \in DOMAIN Migrations /\ m \in ToSet(recorded) /\ run.m # m
    <3>1. m \in DOMAIN Migrations /\ m = recorded[Len(recorded)] /\ Len(recorded) \in 1..Len(recorded)
      BY <2>1, <1>0, Running
    <3>2. m \in ToSet(recorded)
      BY <3>1, <1>0, Running
    <3> QED  BY Zenon, <3>1, <3>2, <2>1, Numbering
  <2> HIDE DEF m
  <2>3. crashes = 0 => Sure(m) \subseteq schema
    <3> SUFFICES ASSUME crashes = 0
                 PROVE  Sure(m) \subseteq schema
      OBVIOUS
    <3>1. m \in ToSet(recorded) \ half
      BY <2>1, <2>2, <1>0 DEF Order
    <3> QED  BY <3>1, SureLasts DEF Sound, RecordedIsDone
  <2>4. crashes = 0 /\ m \in Fragile => Minus(Migrations[m].up) \cap schema = {}
    BY <2>2, <1>0 DEF Apart
  <2>5. \A x \in Paths(Body("down", m)) : OnPath(schema, crashes, reverts', "down", m, x)
    BY <2>2, <2>3, <2>4, <1>0, DownStarts
  <2> QED  BY <2>1, <2>5 DEF OnPaths, m
<1>4. ASSUME Step
      PROVE  OnPaths'
  <2>1. crashes' = crashes /\ reverts' = reverts
    BY <1>4 DEF Step
  <2>2. /\ run.dir # "idle" /\ run'.dir = run.dir /\ run'.m = run.m
        /\ \A y \in Paths(run'.todo) : \E x \in Paths(run.todo) :
             /\ Behind(x, y) /\ schema' = After(schema, x[1])
             /\ IsIf(x[1]) => x[1].need \subseteq schema /\ x[1].free \cap schema = {}
    BY <1>0, <1>4, StepGoes
  <2>3. ASSUME NEW y \in Paths(run'.todo)
        PROVE  OnPath(schema', crashes, reverts, run.dir, run.m, y)
    <3>1. PICK x \in Paths(run.todo) :
             /\ Behind(x, y) /\ schema' = After(schema, x[1])
             /\ IsIf(x[1]) => x[1].need \subseteq schema /\ x[1].free \cap schema = {}
      BY <2>2
    <3>2. /\ Clean(schema, x) => Clean(schema', y)
          /\ Easy(schema, x) => Easy(schema', y)
          /\ Feasible(schema', y) => Feasible(schema, x)
          /\ \A f : AtEnd(schema', y, f) <=> AtEnd(schema, x, f)
      BY <3>1, PathShift
    <3>3. OnPath(schema, crashes, reverts, run.dir, run.m, x)
      BY <2>2, <1>0 DEF OnPaths
    <3> QED  BY <3>2, <3>3 DEF OnPath
  <2> QED  BY <2>1, <2>2, <2>3 DEF OnPaths
<1>5. ASSUME Fail \/ Crash \/ Unrecord
      PROVE  OnPaths'
  <2>1. run' = NoRun
    BY <1>5 DEF Fail, Crash, Stopped, Unrecord
  <2> QED  BY <2>1 DEF OnPaths, NoRun
<1>6. ASSUME Record
      PROVE  OnPaths'
  <2>1. run.dir = "up" /\ schema' = schema
    BY <1>6 DEF Record
  <2>2. CASE Pending(run.list) = {run.m}
    <3>1. run' = NoRun
      BY <1>6, <2>2 DEF Record
    <3> QED  BY <3>1 DEF OnPaths, NoRun
  <2>3. CASE Pending(run.list) # {run.m}
    <3> DEFINE m == Min(Pending(run.list) \ {run.m})
    <3>1. run' = Up(m, run.list)
      BY <1>6, <2>3 DEF Record
    <3>2. /\ Pending(run.list) \ {run.m} = run.list \ (ToSet(recorded) \cup {run.m})
          /\ Pending(run.list) \ {run.m} # {} /\ Listed(run.list)
      <4>1. Pendable(run.m) /\ run.m \in run.list /\ Listed(run.list)
        BY <2>1, <1>0 DEF Order
      <4> QED  BY <4>1, <2>3 DEF Pending, Pendable
    <3>3. m \notin ToSet(recorded) \cup {run.m}
      <4> DEFINE R == ToSet(recorded) \cup {run.m}
      <4>1. m = Min(run.list \ R) /\ run.list \ R # {}
        BY <3>2
      <4> HIDE DEF R, m
      <4>2. Min(run.list \ R) \notin R
        BY <4>1, <3>2, NextOfList
      <4> QED  BY <4>1, <4>2 DEF R
    <3> HIDE DEF m
    <3> QED  BY <3>1, <3>3, <2>1, <1>1
  <2> QED  BY <2>2, <2>3
<1> QED  BY <1>2, <1>3, <1>4, <1>5, <1>6 DEF SchemaNext

\* The invariant holds of the unified schema with nothing recorded.
LEMMA StartIsSound ==
  ASSUME MigrationsAssumption, MigrationRules, SchemaInit
  PROVE  Sound
<1>1. PICK F \in SUBSET Varying : schema = Base \cup F
  BY Zenon DEF SchemaInit
<1>2. recorded = <<>> /\ run = NoRun /\ dead = {} /\ half = {} /\ crashes = 0 /\ reverts = 0
  BY DEF SchemaInit
<1>3. run.dir = "idle" /\ ToSet(recorded) = {} /\ Len(recorded) = 0
  BY <1>2 DEF NoRun, ToSet
<1>4. Order
  BY <1>2, <1>3 DEF Order, NoRun
<1>5. Way /\ OnPaths
  BY <1>3 DEF Way, OnPaths
<1>6. Tabled
  <2>1. \A f \in Base : T(f[1]) \in Base
    BY DEF MigrationRules, BaseTabled
  <2>2. \A f \in Varying : T(f[1]) \in Base
    BY DEF MigrationsAssumption
  <2> QED  BY <2>1, <2>2, <1>1 DEF Tabled, Stays
<1>7. RecordedIsDone /\ StuckOnlyUnguarded
  BY <1>2, <1>3 DEF RecordedIsDone, StuckOnlyUnguarded
<1>8. Apart
  <2>1. ASSUME NEW m \in Fragile
        PROVE  Plus(Migrations[m].up) \cap schema = {} /\ Minus(Migrations[m].up) \subseteq schema
    <3>1. /\ Plus(Migrations[m].up) \cap Base = {} /\ PropertyKey \notin Plus(Migrations[m].up)
          /\ Minus(Migrations[m].up) \subseteq Base
      BY <2>1 DEF MigrationRules, FragileApart
    <3>2. Plus(Migrations[m].up) \cap Varying \subseteq {PropertyKey}
      BY <2>1 DEF MigrationsAssumption, Fragile
    <3> QED  BY <3>1, <3>2, <1>1
  <2>2. ASSUME NEW m \in Deciding
        PROVE  Tests(m) \cap schema = Tests(m) \cap Base
    <3>1. Tests(m) \ Base \subseteq Plus(Migrations[m].up) \ {PropertyKey}
      BY <2>2 DEF MigrationRules, DecidingApart
    <3>2. Plus(Migrations[m].up) \cap Varying \subseteq {PropertyKey}
      BY <2>2 DEF MigrationsAssumption, Deciding
    <3> QED  BY <3>1, <3>2, <1>1
  <2> QED  BY <2>1, <2>2, <1>3 DEF Apart
<1> QED  BY <1>4, <1>5, <1>6, <1>7, <1>8 DEF Sound

\* Every step keeps the invariant.
LEMMA StaysSound ==
  ASSUME MigrationsAssumption, MigrationRules, Sound, [SchemaNext]_schemaVars
  PROVE  Sound'
<1>1. CASE SchemaNext
  <2>1. Order'
    BY <1>1, StepOrder
  <2>2. Way' /\ Tabled' /\ RecordedIsDone' /\ Apart'
    BY <1>1, <2>1, StepWay, StepTabled, StepDone, StepApart
  <2>3. OnPaths'
    BY <1>1, <2>1, <2>2, StepOnPaths
  <2>4. StuckOnlyUnguarded'
    <3>1. CASE Fail
      BY <3>1, Failures
    <3>2. CASE ~Fail
      <4>1. dead' = dead /\ (crashes' = crashes \/ crashes' = crashes + 1)
        BY Zenon, <1>1, <3>2 DEF SchemaNext, Start, Revert, Step, Crash, Record, Unrecord, Stopped
      <4>2. crashes' = 0 => crashes = 0
        BY <4>1 DEF Sound, Order
      <4> QED  BY <4>1, <4>2 DEF Sound, StuckOnlyUnguarded
    <3> QED  BY <3>1, <3>2
  <2> QED  BY <2>1, <2>2, <2>3, <2>4 DEF Sound
<1>2. CASE UNCHANGED schemaVars
  BY <1>2 DEF schemaVars, Sound, Order, Way, Tabled, RecordedIsDone, Apart, OnPaths, StuckOnlyUnguarded, Pendable
<1> QED  BY <1>1, <1>2

\* With a list that keeps the rules, whatever stops, is repeated or is reverted,
\* what is recorded is done, and a migration that fails for good is one that is
\* listed as such, or something has died.
LEMMA RulesSuffice ==
  ASSUME MigrationsAssumption, MigrationRules
  PROVE  SchemaSpec => [](RecordedIsDone /\ StuckOnlyUnguarded)
<1>1. SchemaInit => Sound
  BY StartIsSound
<1>2. Sound /\ [SchemaNext]_schemaVars => Sound'
  BY StaysSound
<1>3. Sound => RecordedIsDone /\ StuckOnlyUnguarded
  BY DEF Sound
<1> QED  BY <1>1, <1>2, <1>3, PTL DEF SchemaSpec

-----------------------------------------------------------------------------
(***************************************************************************)
(* What the list has: whose facts its statements add and remove.  The lists *)
(* are read once, migration by migration, into kinds of statements; what   *)
(* follows is about the kinds.                                             *)
(***************************************************************************)

\* The migration a fact is of; 0 for the unified schema.
Number(f) ==
  LET t == f[1]  c == f[2] IN
  IF t = "listing_page_seo" THEN 1
  ELSE IF t = "properties" THEN
       IF c \in {"property_code, slug", "slugs", "idx_properties_slug"} THEN 2
       ELSE IF c = "slugs of titles" THEN 3
       ELSE IF c \in {"meta_title", "meta_description", "meta_keywords", "metadata"} THEN 6
       ELSE IF c = "CRM fields" THEN 7
       ELSE IF c \in {"legacy source", "uq_properties_legacy_source"} THEN 22
       ELSE IF c = "source" THEN 26
       ELSE IF c \in {"archived", "archived rows"} THEN 42
       ELSE IF c = "an unsafe slug" THEN 44
       ELSE IF c = "investment_property" THEN 46
       ELSE IF c = "pg_service_apartment" THEN 47
       ELSE IF c = "price_per_sqft" THEN 48
       ELSE IF c \in {"farm_house", "exact rates"} THEN 50
       ELSE IF c = "contact_details" THEN 52
       ELSE IF c \in {"uploaded_by_crm_user_id", "idx_properties_uploaded_date", "idx_properties_upload_date"} THEN 55
       ELSE 0
  ELSE IF t = "users" THEN IF c = "admin and staff" THEN 4 ELSE 0
  ELSE IF t = "sublocations" /\ c = "sublocation" THEN 0
  ELSE IF t \in {"cities", "sublocations", "sublocations_legacy_before_city_mapping", "property_locations"} THEN 5
  ELSE IF t = "property_seo" THEN 6
  ELSE IF t = "property_details" THEN
       IF c = "CRM fields" THEN 7
       ELSE IF c = "parking_type, floor_facing" THEN 11
       ELSE IF c = "furnished NULL" THEN 12
       ELSE IF c = "industrial fields" THEN 22
       ELSE IF c = "commercial fields" THEN 23
       ELSE IF c = "specifications" THEN 49
       ELSE IF c \in {"texts", "industrial land"} THEN 50
       ELSE IF c = "special_purpose" THEN 51
       ELSE IF c = "curation_details" THEN 52
       ELSE IF c = "commercial areas" THEN 53
       ELSE IF c = "individual bathrooms" THEN 54
       ELSE 0
  ELSE IF t = "projects" THEN
       IF c \in {"project_code", "codes"} THEN 8
       ELSE IF c = "root slugs" THEN 9
       ELSE IF c = "slugs with codes" THEN 10
       ELSE IF c = "apartment and villa details" THEN 15
       ELSE IF c = "booked, new_launch, plot" THEN 16
       ELSE IF c \in {"short codes", "slugs with short codes"} THEN 18
       ELSE IF c = "mobile_cover_image_url" THEN 19
       ELSE IF c = "video_urls" THEN 20
       ELSE IF c \in {"builder_id", "fk_projects_builder"} THEN 21
       ELSE IF c \in {"videos", "videos of the urls"} THEN 24
       ELSE IF c = "revision" THEN 28
       ELSE IF c = "field_revisions" THEN 33
       ELSE 0
  ELSE IF t = "project_units" THEN
       IF c = "villa details" THEN 15
       ELSE IF c = "booked" THEN 16
       ELSE IF c = "bareshell" THEN 17
       ELSE IF c = "floor_no varchar" THEN 25
       ELSE IF c = "higher types" THEN 27
       ELSE IF c = "floor_plans" THEN 29
       ELSE 0
  ELSE IF t = "property_units" THEN
       IF c = "booked" THEN 16
       ELSE IF c = "bareshell" THEN 17
       ELSE IF c = "higher types" THEN 27
       ELSE 0
  ELSE IF t \in {"furnishing_items", "property_furnishings"} THEN 13
  ELSE IF t = "utilities" THEN 14
  ELSE IF t \in {"project_unit_furnishings", "project_amenities"} THEN 15
  ELSE IF t = "project_faqs" THEN IF c = "section" THEN 31 ELSE 15
  ELSE IF t = "builders" THEN 21
  ELSE IF t = "property_drafts" THEN 26
  ELSE IF t = "ads" THEN IF c \in {"offers, mega_menu", "mobile_image_key NULL", "audience"} THEN 30 ELSE 0
  ELSE IF t = "leads" THEN
       IF c \in {"property_id NULL", "fk_leads_property", "project_id", "idx_leads_project_id", "fk_leads_project"} THEN 32
       ELSE 0
  ELSE IF t = "showcase_items" THEN 34
  ELSE IF t = "saved_listings" THEN 35
  ELSE IF t = "seo_configs" THEN
       IF c = "sale and rent" THEN 37
       ELSE IF c \in {"default sections", "nri-services"} THEN 38
       ELSE IF c \in {"canonical_type", "custom canonicals"} THEN 39
       ELSE IF c = "templates of types" THEN 40
       ELSE IF c \in {"repairs", "calculators"} THEN 41
       ELSE IF c = "sanitised path" THEN 44
       ELSE 36
  ELSE IF t = "seo_listing_pages" THEN
       IF c \in {"merged rules", "buy, rent"} THEN 37
       ELSE IF c \in {"show_live_market_snapshot", "chk_listing_inventory"} THEN 38
       ELSE 36
  ELSE IF t = "seo_redirects" THEN
       IF c = "of merged rules" THEN 37
       ELSE IF c \in {"to the sanitised path", "from the unsafe path"} THEN 44
       ELSE 36
  ELSE IF t = "seo_config_versions" THEN 41
  ELSE IF t = "blog_posts" THEN IF c = "meta_keywords" THEN 45 ELSE 43
  ELSE 0

\* The migration that drops the table of a fact.
Dropper(f) == Number(T(f[1]))

SeoNumbers == {36, 37, 38, 39, 40, 41, 44}
\* The numbers of migrations that any list has before m, if it has m.
Below(n, m) == n < m /\ (m \in SeoNumbers => n \in SeoNumbers)

\* Facts a migration may add or take away.
IsOf(f, k) ==
  /\ Number(f) = k \/ (f = Inventory /\ k \in {36, 37})
  /\ Dropper(f) = 0 \/ Dropper(f) = k \/ Below(Dropper(f), k)

\* Statements without branches, and those of migration k: what they add goes to
\* tables that are there.
OwnOf(s, k) ==
  /\ s.yes = <<>> /\ s.no = <<>>
  /\ \A f \in s.minus \union s.plus : IsOf(f, k)
  /\ \A f \in s.plus : T(f[1]) \in s.plus \union (s.need \ s.minus)
PutOf(s, k) == OwnOf(s, k) /\ s.free = {} /\ s.minus = {}
ClearOf(s, k) == OwnOf(s, k) /\ s.free = {} /\ s.need = {}

Own(L, k) == L \in Seq(ToSet(L)) /\ \A s \in ToSet(L) : OwnOf(s, k)
Puts(L, k) == L \in Seq(ToSet(L)) /\ \A s \in ToSet(L) : PutOf(s, k)
Clears(L, k) == L \in Seq(ToSet(L)) /\ \A s \in ToSet(L) : ClearOf(s, k)

Fits(x, k) == Puts(x.up, k) /\ Clears(x.down, k)

\* The elements of a list that is written out, up to five of them.
LEMMA Sets ==
  /\ ToSet(<<>>) = {}
  /\ \A a : ToSet(<<a>>) = {a}
  /\ \A a, b : ToSet(<<a, b>>) = {a, b}
  /\ \A a, b, c : ToSet(<<a, b, c>>) = {a, b, c}
  /\ \A a, b, c, d : ToSet(<<a, b, c, d>>) = {a, b, c, d}
  /\ \A a, b, c, d, e : ToSet(<<a, b, c, d, e>>) = {a, b, c, d, e}
BY DEF ToSet

\* Statements about facts of a migration are statements of it.
LEMMA StatementsOf ==
  ASSUME NEW k, NEW F, \A f \in F : IsOf(f, k)
  PROVE  /\ PutOf(Put(F), k) /\ ClearOf(Clear(F), k) /\ OwnOf(Add(F), k) /\ OwnOf(Drop(F), k)
         /\ \A S : PutOf(From(S, Put(F)), k) /\ OwnOf(From(S, Add(F)), k)
<1>1. PutOf(Put(F), k) /\ ClearOf(Clear(F), k) /\ OwnOf(Add(F), k) /\ OwnOf(Drop(F), k)
  BY DEF PutOf, ClearOf, OwnOf, Put, Clear, Add, Drop, Stmt, Tables
<1>2. ASSUME NEW S
      PROVE  PutOf(From(S, Put(F)), k) /\ OwnOf(From(S, Add(F)), k)
  BY DEF PutOf, OwnOf, Put, Add, From, Stmt, Tables
<1> QED  BY <1>1, <1>2

\* A list, written out, of statements of a migration.
LEMMA OwnLists ==
  ASSUME NEW k
  PROVE  /\ Own(<<>>, k)
         /\ \A a : OwnOf(a, k) => Own(<<a>>, k)
         /\ \A a, b : OwnOf(a, k) /\ OwnOf(b, k) => Own(<<a, b>>, k)
         /\ \A a, b, c : OwnOf(a, k) /\ OwnOf(b, k) /\ OwnOf(c, k) => Own(<<a, b, c>>, k)
         /\ \A a, b, c, d : OwnOf(a, k) /\ OwnOf(b, k) /\ OwnOf(c, k) /\ OwnOf(d, k) => Own(<<a, b, c, d>>, k)
         /\ \A a, b, c, d, e : OwnOf(a, k) /\ OwnOf(b, k) /\ OwnOf(c, k) /\ OwnOf(d, k) /\ OwnOf(e, k)
              => Own(<<a, b, c, d, e>>, k)
BY Sets DEF Own

\* A list, written out, of statements that put facts of a migration.
LEMMA PutLists ==
  ASSUME NEW k
  PROVE  /\ \A a : PutOf(a, k) => Puts(<<a>>, k)
         /\ \A a, b : PutOf(a, k) /\ PutOf(b, k) => Puts(<<a, b>>, k)
         /\ \A a, b, c : PutOf(a, k) /\ PutOf(b, k) /\ PutOf(c, k) => Puts(<<a, b, c>>, k)
         /\ \A a, b, c, d : PutOf(a, k) /\ PutOf(b, k) /\ PutOf(c, k) /\ PutOf(d, k) => Puts(<<a, b, c, d>>, k)
BY Sets DEF Puts

\* A list, written out, of statements that clear facts of a migration.
LEMMA ClearLists ==
  ASSUME NEW k
  PROVE  /\ Clears(<<>>, k)
         /\ \A a : ClearOf(a, k) => Clears(<<a>>, k)
         /\ \A a, b : ClearOf(a, k) /\ ClearOf(b, k) => Clears(<<a, b>>, k)
         /\ \A a, b, c : ClearOf(a, k) /\ ClearOf(b, k) /\ ClearOf(c, k) => Clears(<<a, b, c>>, k)
         /\ \A a, b, c, d : ClearOf(a, k) /\ ClearOf(b, k) /\ ClearOf(c, k) /\ ClearOf(d, k) => Clears(<<a, b, c, d>>, k)
BY Sets DEF Clears

\* A migration that puts a column and clears it again.
LEMMA ColumnFits == ASSUME NEW k, NEW f, IsOf(f, k) PROVE Fits(Column(f), k)
<1>1. PutOf(Put({f}), k) /\ ClearOf(Clear({f}), k)
  BY StatementsOf
<1>2. Column(f).up = <<Put({f})>> /\ Column(f).down = <<Clear({f})>>
  BY DEF Column, Both
<1> QED BY Zenon, <1>1, <1>2, PutLists, ClearLists DEF Fits

\* A migration that puts facts and leaves them when it is reverted.
LEMMA KeptFits == ASSUME NEW k, NEW F, \A f \in F : IsOf(f, k) PROVE Fits(Kept(F), k)
<1>1. PutOf(Put(F), k)
  BY StatementsOf
<1>2. Kept(F).up = <<Put(F)>> /\ Kept(F).down = <<>>
  BY DEF Kept, Both
<1> QED BY <1>1, <1>2, PutLists, ClearLists DEF Fits

GuardedNumbers == {2, 3, 4, 9, 10, 12, 13, 14, 16, 17, 18, 21, 25, 27, 28, 29, 30, 31, 33, 34, 35, 40, 41, 42, 43, 45, 46, 47, 48, 49, 50, 51, 52, 53, 54, 55}

\* The migrations whose statements all have guards, or may be repeated.
LEMMA GuardedMigrations ==
  ASSUME NEW m \in GuardedNumbers
  PROVE  Fits(Migrations[m], m)
<1>2. Fits(AddPropertySeoSlugColumns, 2)
  <2>1. /\ IsOf(<<"properties", "property_code, slug">>, 2)
        /\ IsOf(<<"properties", "slugs">>, 2)
        /\ IsOf(<<"properties", "idx_properties_slug">>, 2)
    BY Zenon DEF IsOf, Number, Dropper, T
  <2> QED  BY Zenon, <2>1, StatementsOf, PutLists, ClearLists DEF AddPropertySeoSlugColumns, Both, Fits
<1>3. Fits(UpdatePropertySeoSlugs, 3)
  <2>1. IsOf(<<"properties", "slugs of titles">>, 3)
    BY DEF IsOf, Number, Dropper, T
  <2> QED  BY Zenon, <2>1, KeptFits DEF UpdatePropertySeoSlugs
<1>4. Fits(SeedAdminUser, 4)
  <2>1. IsOf(<<"users", "admin and staff">>, 4)
    BY DEF IsOf, Number, Dropper, T
  <2> QED  BY Zenon, <2>1, ColumnFits DEF SeedAdminUser
<1>9. Fits(ProjectRootCustomSlug, 9)
  <2>1. IsOf(<<"projects", "root slugs">>, 9)
    BY DEF IsOf, Number, Dropper, T
  <2> QED  BY Zenon, <2>1, ColumnFits DEF ProjectRootCustomSlug
<1>10. Fits(AddProjectCodeToCanonicalSlug, 10)
  <2>1. IsOf(<<"projects", "slugs with codes">>, 10)
    BY DEF IsOf, Number, Dropper, T
  <2> QED  BY Zenon, <2>1, ColumnFits DEF AddProjectCodeToCanonicalSlug
<1>12. Fits(MakeFurnishedNullable, 12)
  <2>1. IsOf(<<"property_details", "furnished NULL">>, 12)
    BY DEF IsOf, Number, Dropper, T
  <2> QED  BY Zenon, <2>1, ColumnFits DEF MakeFurnishedNullable
<1>13. Fits(CreateFurnishingItems, 13)
  <2>1. /\ IsOf(T("furnishing_items"), 13)
        /\ IsOf(T("property_furnishings"), 13)
    BY DEF IsOf, Number, Dropper, T
  <2> QED  BY Zenon, <2>1, StatementsOf, PutLists, ClearLists DEF CreateFurnishingItems, Both, Fits
<1>14. Fits(CreateUtilities, 14)
  <2>1. IsOf(T("utilities"), 14)
    BY DEF IsOf, Number, Dropper, T
  <2> QED  BY <2>1, ColumnFits DEF CreateUtilities
<1>16. Fits(AddProjectBookedNewLaunchAndAvailability, 16)
  <2>1. /\ IsOf(<<"project_units", "booked">>, 16)
        /\ IsOf(<<"property_units", "booked">>, 16)
        /\ IsOf(<<"projects", "booked, new_launch, plot">>, 16)
    BY Zenon DEF IsOf, Number, Dropper, T
  <2> QED  BY Zenon, <2>1, StatementsOf, PutLists, ClearLists DEF AddProjectBookedNewLaunchAndAvailability, Both, Fits
<1>17. Fits(AddBareshellFurnishedStatus, 17)
  <2>1. /\ IsOf(<<"project_units", "bareshell">>, 17)
        /\ IsOf(<<"property_units", "bareshell">>, 17)
    BY DEF IsOf, Number, Dropper, T
  <2> QED  BY Zenon, <2>1, StatementsOf, PutLists, ClearLists DEF AddBareshellFurnishedStatus, Both, Fits
<1>18. Fits(UpdateProjectCodeScheme, 18)
  <2>1. /\ IsOf(<<"projects", "short codes">>, 18)
        /\ IsOf(<<"projects", "slugs with short codes">>, 18)
    BY DEF IsOf, Number, Dropper, T
  <2> QED  BY Zenon, <2>1, StatementsOf, PutLists, ClearLists DEF UpdateProjectCodeScheme, Both, Fits
<1>21. Fits(CreateBuildersTable, 21)
  <2>1. /\ IsOf(T("builders"), 21)
        /\ IsOf(<<"projects", "builder_id">>, 21)
        /\ IsOf(<<"projects", "fk_projects_builder">>, 21)
    BY Zenon DEF IsOf, Number, Dropper, T
  <2> QED  BY Zenon, <2>1, StatementsOf, PutLists, ClearLists DEF CreateBuildersTable, Both, Fits
<1>25. Fits(ChangeProjectUnitFloorNoToVarchar, 25)
  <2>1. IsOf(<<"project_units", "floor_no varchar">>, 25)
    BY DEF IsOf, Number, Dropper, T
  <2> QED  BY Zenon, <2>1, ColumnFits DEF ChangeProjectUnitFloorNoToVarchar
<1>27. Fits(AddHigherBhkUnitTypes, 27)
  <2>1. /\ IsOf(<<"project_units", "higher types">>, 27)
        /\ IsOf(<<"property_units", "higher types">>, 27)
    BY DEF IsOf, Number, Dropper, T
  <2> QED  BY Zenon, <2>1, StatementsOf, PutLists, ClearLists DEF AddHigherBhkUnitTypes, Both, Fits
<1>28. Fits(AddProjectRevision, 28)
  <2>1. IsOf(<<"projects", "revision">>, 28)
    BY DEF IsOf, Number, Dropper, T
  <2> QED  BY <2>1, ColumnFits DEF AddProjectRevision
<1>29. Fits(AddProjectUnitFloorPlans, 29)
  <2>1. IsOf(<<"project_units", "floor_plans">>, 29)
    BY DEF IsOf, Number, Dropper, T
  <2> QED  BY <2>1, ColumnFits DEF AddProjectUnitFloorPlans
<1>30. Fits(ExtendAdPlacements, 30)
  <2>1. /\ IsOf(<<"ads", "offers, mega_menu">>, 30)
        /\ IsOf(<<"ads", "mobile_image_key NULL">>, 30)
        /\ IsOf(<<"ads", "audience">>, 30)
    BY Zenon DEF IsOf, Number, Dropper, T
  <2> QED  BY Zenon, <2>1, StatementsOf, PutLists, ClearLists DEF ExtendAdPlacements, Both, Fits
<1>31. Fits(AddProjectFaqSection, 31)
  <2>1. IsOf(<<"project_faqs", "section">>, 31)
    BY DEF IsOf, Number, Dropper, T, Below, SeoNumbers
  <2> QED  BY <2>1, ColumnFits DEF AddProjectFaqSection
<1>33. Fits(AddProjectFieldRevisions, 33)
  <2>1. IsOf(<<"projects", "field_revisions">>, 33)
    BY DEF IsOf, Number, Dropper, T
  <2> QED  BY <2>1, ColumnFits DEF AddProjectFieldRevisions
<1>34. Fits(CreateShowcaseItems, 34)
  <2>1. IsOf(T("showcase_items"), 34)
    BY DEF IsOf, Number, Dropper, T
  <2> QED  BY <2>1, ColumnFits DEF CreateShowcaseItems
<1>35. Fits(CreateSavedListings, 35)
  <2>1. IsOf(T("saved_listings"), 35)
    BY DEF IsOf, Number, Dropper, T
  <2> QED  BY <2>1, ColumnFits DEF CreateSavedListings
<1>40. Fits(PropertyTypeSeoTemplates, 40)
  <2>1. IsOf(<<"seo_configs", "templates of types">>, 40)
    BY DEF IsOf, Number, Dropper, T, Below, SeoNumbers
  <2> QED  BY Zenon, <2>1, KeptFits DEF PropertyTypeSeoTemplates
<1>41. Fits(SeoAuditRemediation, 41)
  <2>1. IsOf(T("seo_config_versions"), 41)
    BY DEF IsOf, Number, Dropper, T
  <2>2. IsOf(<<"seo_configs", "repairs">>, 41)
    BY DEF IsOf, Number, Dropper, T, Below, SeoNumbers
  <2>3. IsOf(<<"seo_configs", "calculators">>, 41)
    BY DEF IsOf, Number, Dropper, T, Below, SeoNumbers
  <2> QED  BY <2>1, <2>2, <2>3, StatementsOf, PutLists, ClearLists DEF SeoAuditRemediation, Both, Fits
<1>42. Fits(AddArchivedPropertyStatus, 42)
  <2>1. /\ IsOf(<<"properties", "archived">>, 42)
        /\ IsOf(<<"properties", "archived rows">>, 42)
    BY DEF IsOf, Number, Dropper, T
  <2> QED  BY Zenon, <2>1, StatementsOf, PutLists, ClearLists DEF AddArchivedPropertyStatus, Both, Fits
<1>43. Fits(CreateBlogPosts, 43)
  <2>1. IsOf(T("blog_posts"), 43)
    BY DEF IsOf, Number, Dropper, T
  <2> QED  BY <2>1, KeptFits DEF CreateBlogPosts
<1>45. Fits(AddBlogKeywords, 45)
  <2>1. IsOf(<<"blog_posts", "meta_keywords">>, 45)
    BY DEF IsOf, Number, Dropper, T, Below, SeoNumbers
  <2> QED  BY <2>1, KeptFits DEF AddBlogKeywords
<1>46. Fits(AddInvestmentPropertyType, 46)
  <2>1. IsOf(<<"properties", "investment_property">>, 46)
    BY DEF IsOf, Number, Dropper, T
  <2> QED  BY <2>1, ColumnFits DEF AddInvestmentPropertyType
<1>47. Fits(AddPgServiceApartmentType, 47)
  <2>1. IsOf(<<"properties", "pg_service_apartment">>, 47)
    BY DEF IsOf, Number, Dropper, T
  <2> QED  BY <2>1, ColumnFits DEF AddPgServiceApartmentType
<1>48. Fits(AddPropertyPricePerSqft, 48)
  <2>1. IsOf(<<"properties", "price_per_sqft">>, 48)
    BY DEF IsOf, Number, Dropper, T
  <2> QED  BY <2>1, KeptFits DEF AddPropertyPricePerSqft
<1>49. Fits(PropertySpecificationRefinements, 49)
  <2>1. IsOf(<<"property_details", "specifications">>, 49)
    BY DEF IsOf, Number, Dropper, T
  <2> QED  BY <2>1, KeptFits DEF PropertySpecificationRefinements
<1>50. Fits(IndustrialLandAndFarmHouse, 50)
  <2>1. /\ IsOf(<<"properties", "farm_house">>, 50)
        /\ IsOf(<<"properties", "exact rates">>, 50)
        /\ IsOf(<<"property_details", "texts">>, 50)
        /\ IsOf(<<"property_details", "industrial land">>, 50)
    BY Zenon DEF IsOf, Number, Dropper, T
  <2> QED  BY Zenon, <2>1, StatementsOf, PutLists, ClearLists DEF IndustrialLandAndFarmHouse, Both, Fits
<1>51. Fits(CommercialRentalSpecialPurpose, 51)
  <2>1. IsOf(<<"property_details", "special_purpose">>, 51)
    BY DEF IsOf, Number, Dropper, T
  <2> QED  BY <2>1, KeptFits DEF CommercialRentalSpecialPurpose
<1>52. Fits(PropertyCurationTwo, 52)
  <2>1. /\ IsOf(<<"properties", "contact_details">>, 52)
        /\ IsOf(<<"property_details", "curation_details">>, 52)
    BY DEF IsOf, Number, Dropper, T
  <2> QED  BY <2>1, StatementsOf, PutLists, ClearLists DEF PropertyCurationTwo, Both, Fits
<1>53. Fits(CommercialGeneralAreaMapping, 53)
  <2>1. IsOf(<<"property_details", "commercial areas">>, 53)
    BY DEF IsOf, Number, Dropper, T
  <2> QED  BY Zenon, <2>1, KeptFits DEF CommercialGeneralAreaMapping
<1>54. Fits(LegacyIndividualBathrooms, 54)
  <2>1. IsOf(<<"property_details", "individual bathrooms">>, 54)
    BY DEF IsOf, Number, Dropper, T
  <2> QED  BY Zenon, <2>1, KeptFits DEF LegacyIndividualBathrooms
<1>55. Fits(PropertyUploadAttribution, 55)
  <2>1. /\ IsOf(<<"properties", "uploaded_by_crm_user_id">>, 55)
        /\ IsOf(<<"properties", "idx_properties_uploaded_date">>, 55)
        /\ IsOf(<<"properties", "idx_properties_upload_date">>, 55)
    BY Zenon DEF IsOf, Number, Dropper, T
  <2> QED  BY <2>1, StatementsOf, PutLists, ClearLists DEF PropertyUploadAttribution, Both, Fits
<1> QED
  BY <1>2, <1>3, <1>4, <1>9, <1>10, <1>12, <1>13, <1>14, <1>16, <1>17, <1>18, <1>21, <1>25, <1>27, <1>28, <1>29, <1>30, <1>31, <1>33, <1>34, <1>35, <1>40, <1>41, <1>42, <1>43, <1>45, <1>46, <1>47, <1>48, <1>49, <1>50, <1>51, <1>52, <1>53, <1>54, <1>55
  DEF Migrations, GuardedNumbers

-----------------------------------------------------------------------------
(***************************************************************************)
(* Migrations without a branch.                                            *)
(***************************************************************************)

\* A guard, its branches without guards.
ForkOf(s, k) ==
  /\ IsIf(s) /\ s.plus = {} /\ \E f \in s.minus : s.minus = {f}
  /\ Own(s.yes, k) /\ Own(s.no, k)

\* A list with one guard at most.
Listing(L, k) ==
  /\ L \in Seq(ToSet(L))
  /\ \A s \in ToSet(L) : OwnOf(s, k) \/ ForkOf(s, k)
  /\ \A i, j \in DOMAIN L : IsIf(L[i]) /\ IsIf(L[j]) => i = j

AddOf(s, k) == OwnOf(s, k) /\ s.minus = {}
DropOf(s, k) == OwnOf(s, k) /\ s.plus = {}
Adds(L, k) == L \in Seq(ToSet(L)) /\ \A s \in ToSet(L) : AddOf(s, k)
Drops(L, k) == L \in Seq(ToSet(L)) /\ \A s \in ToSet(L) : DropOf(s, k)

\* What each kind of statement needs, forbids, removes and adds.
LEMMA Fields ==
  /\ \A F : LET s == Put(F) IN /\ s.need = Tables(F) /\ s.free = {} /\ s.minus = {} /\ s.plus = F
                               /\ s.yes = <<>> /\ s.no = <<>>
  /\ \A F : LET s == Add(F) IN /\ s.need = Tables(F) /\ s.free = F /\ s.minus = {} /\ s.plus = F
                               /\ s.yes = <<>> /\ s.no = <<>>
  /\ \A F : LET s == Drop(F) IN /\ s.need = F /\ s.free = {} /\ s.minus = F /\ s.plus = {}
                                /\ s.yes = <<>> /\ s.no = <<>>
  /\ \A F : LET s == Clear(F) IN /\ s.need = {} /\ s.free = {} /\ s.minus = F /\ s.plus = {}
                                 /\ s.yes = <<>> /\ s.no = <<>>
  /\ \A F, yes, no : LET s == If(F, yes, no) IN /\ s.need = {} /\ s.free = {} /\ s.minus = F /\ s.plus = {}
                                                /\ s.yes = yes /\ s.no = no
BY DEF Put, Add, Drop, Clear, If, Stmt

\* The same of a statement that copies from other tables.
LEMMA FieldsFrom ==
  ASSUME NEW S, NEW F
  PROVE  /\ LET s == From(S, Put(F)) IN /\ s.need = Tables(F) \union {T(t) : t \in S} /\ s.free = {}
                                        /\ s.minus = {} /\ s.plus = F /\ s.yes = <<>> /\ s.no = <<>>
         /\ LET s == From(S, Add(F)) IN /\ s.need = Tables(F) \union {T(t) : t \in S} /\ s.free = F
                                        /\ s.minus = {} /\ s.plus = F /\ s.yes = <<>> /\ s.no = <<>>
BY DEF Put, Add, From, Stmt

\* A list, written out, of statements that add facts of a migration.
LEMMA AddLists ==
  ASSUME NEW k
  PROVE  /\ \A a : AddOf(a, k) => Adds(<<a>>, k)
         /\ \A a, b : AddOf(a, k) /\ AddOf(b, k) => Adds(<<a, b>>, k)
         /\ \A a, b, c : AddOf(a, k) /\ AddOf(b, k) /\ AddOf(c, k) => Adds(<<a, b, c>>, k)
         /\ \A a, b, c, d, e : AddOf(a, k) /\ AddOf(b, k) /\ AddOf(c, k) /\ AddOf(d, k) /\ AddOf(e, k) => Adds(<<a, b, c, d, e>>, k)
BY Sets DEF Adds

\* A list, written out, of statements that drop facts of a migration.
LEMMA DropLists ==
  ASSUME NEW k
  PROVE  /\ \A a : DropOf(a, k) => Drops(<<a>>, k)
         /\ \A a, b : DropOf(a, k) /\ DropOf(b, k) => Drops(<<a, b>>, k)
         /\ \A a, b, c : DropOf(a, k) /\ DropOf(b, k) /\ DropOf(c, k) => Drops(<<a, b, c>>, k)
         /\ \A a, b, c, d, e : DropOf(a, k) /\ DropOf(b, k) /\ DropOf(c, k) /\ DropOf(d, k) /\ DropOf(e, k) => Drops(<<a, b, c, d, e>>, k)
BY Sets DEF Drops

PlainNumbers == {1, 7, 8, 11, 15, 19, 20, 22, 23, 24, 26}

\* The migrations that add, and drop again.
LEMMA PlainMigrations ==
  ASSUME NEW m \in PlainNumbers
  PROVE  /\ Adds(Migrations[m].up, m) /\ Drops(Migrations[m].down, m)
         /\ m \in {19, 20, 22, 23, 24, 26} => Puts(Migrations[m].up, m)
<1> DEFINE Suits(x, k) == Adds(x.up, k) /\ Drops(x.down, k)
           Swaps(x, k) == Puts(x.up, k) /\ Drops(x.down, k)
<1>0. ASSUME NEW k, NEW F, \A f \in F : IsOf(f, k)
      PROVE  /\ PutOf(Put(F), k) /\ AddOf(Put(F), k) /\ AddOf(Add(F), k) /\ DropOf(Clear(F), k) /\ DropOf(Drop(F), k)
             /\ \A S : AddOf(From(S, Add(F)), k)
  <2>1. PutOf(Put(F), k) /\ ClearOf(Clear(F), k) /\ OwnOf(Add(F), k) /\ OwnOf(Drop(F), k)
        /\ \A S : OwnOf(From(S, Add(F)), k)
    BY Zenon, <1>0, StatementsOf
  <2> QED  BY <2>1, Fields, FieldsFrom DEF PutOf, ClearOf, AddOf, DropOf
<1>1. Suits(AddListingPageSeoTable, 1)
  <2>1. IsOf(T("listing_page_seo"), 1)
    BY DEF IsOf, Number, Dropper, T
  <2> QED  BY <2>1, <1>0, AddLists, DropLists DEF AddListingPageSeoTable, Both
<1>7. Suits(AddCrmOnlyPropertyFields, 7)
  <2>1. IsOf(<<"properties", "CRM fields">>, 7) /\ IsOf(<<"property_details", "CRM fields">>, 7)
    BY DEF IsOf, Number, Dropper, T
  <2> QED  BY Zenon, <2>1, <1>0, AddLists, DropLists DEF AddCrmOnlyPropertyFields, Both
<1>8. Suits(AddProjectCodeColumn, 8)
  <2>1. IsOf(<<"projects", "project_code">>, 8) /\ IsOf(<<"projects", "codes">>, 8)
    BY DEF IsOf, Number, Dropper, T
  <2> QED  BY <2>1, <1>0, AddLists, DropLists DEF AddProjectCodeColumn, Both
<1>11. Suits(AddParkingTypeAndFloorFacing, 11)
  <2>1. IsOf(<<"property_details", "parking_type, floor_facing">>, 11)
    BY DEF IsOf, Number, Dropper, T
  <2> QED  BY Zenon, <2>1, <1>0, AddLists, DropLists DEF AddParkingTypeAndFloorFacing, Both
<1>15. Suits(AddProjectApartmentVillaDetails, 15)
  <2>1. IsOf(<<"projects", "apartment and villa details">>, 15)
    BY DEF IsOf, Number, Dropper, T
  <2>2. IsOf(<<"project_units", "villa details">>, 15)
    BY DEF IsOf, Number, Dropper, T
  <2>3. IsOf(T("project_faqs"), 15)
    BY DEF IsOf, Number, Dropper, T
  <2>4. IsOf(T("project_unit_furnishings"), 15)
    BY DEF IsOf, Number, Dropper, T
  <2>5. IsOf(T("project_amenities"), 15)
    BY DEF IsOf, Number, Dropper, T
  <2> DEFINE p == <<"projects", "apartment and villa details">>
             u == <<"project_units", "villa details">>
  <2> HIDE DEF p, u
  <2>6. /\ AddProjectApartmentVillaDetails.up =
             <<Add({p}), Add({T("project_faqs")}), From({"furnishing_items"}, Add({T("project_unit_furnishings")})),
               Add({T("project_amenities")}), Add({u})>>
        /\ AddProjectApartmentVillaDetails.down =
             <<Drop({u}), Drop({T("project_unit_furnishings")}), Drop({T("project_faqs")}),
               Drop({T("project_amenities")}), Drop({p})>>
    BY Zenon DEF AddProjectApartmentVillaDetails, Both, p, u
  <2>7. IsOf(p, 15) /\ IsOf(u, 15)
    BY Zenon, <2>1, <2>2 DEF p, u
  <2>8. Adds(AddProjectApartmentVillaDetails.up, 15)
    <3>1. AddOf(Add({p}), 15) /\ AddOf(Add({u}), 15)
      BY <2>7, <1>0
    <3>2. AddOf(Add({T("project_faqs")}), 15) /\ AddOf(Add({T("project_amenities")}), 15)
      BY <2>3, <2>5, <1>0
    <3>3. AddOf(From({"furnishing_items"}, Add({T("project_unit_furnishings")})), 15)
      BY Zenon, <2>4, <1>0
    <3> QED  BY <3>1, <3>2, <3>3, <2>6, AddLists
  <2>9. Drops(AddProjectApartmentVillaDetails.down, 15)
    <3>1. DropOf(Drop({p}), 15) /\ DropOf(Drop({u}), 15)
      BY <2>7, <1>0
    <3>2. DropOf(Drop({T("project_faqs")}), 15) /\ DropOf(Drop({T("project_amenities")}), 15)
      BY <2>3, <2>5, <1>0
    <3>3. DropOf(Drop({T("project_unit_furnishings")}), 15)
      BY <2>4, <1>0
    <3> QED  BY <3>1, <3>2, <3>3, <2>6, DropLists
  <2> QED  BY <2>8, <2>9
<1>19. Swaps(AddMobileCoverImage, 19)
  <2>1. IsOf(<<"projects", "mobile_cover_image_url">>, 19)
    BY DEF IsOf, Number, Dropper, T
  <2> QED  BY <2>1, <1>0, PutLists, DropLists DEF AddMobileCoverImage, Both
<1>20. Swaps(AddProjectVideoUrls, 20)
  <2>1. IsOf(<<"projects", "video_urls">>, 20)
    BY DEF IsOf, Number, Dropper, T
  <2> QED  BY <2>1, <1>0, PutLists, DropLists DEF AddProjectVideoUrls, Both
<1>22. Swaps(AddIndustrialPortingFields, 22)
  <2>1. IsOf(<<"properties", "legacy source">>, 22)
    BY DEF IsOf, Number, Dropper, T
  <2>2. IsOf(<<"properties", "uq_properties_legacy_source">>, 22)
    BY DEF IsOf, Number, Dropper, T
  <2>3. IsOf(<<"property_details", "industrial fields">>, 22)
    BY DEF IsOf, Number, Dropper, T
  <2>4. /\ PutOf(Put({<<"properties", "legacy source">>}), 22)
        /\ PutOf(Put({<<"properties", "uq_properties_legacy_source">>}), 22)
        /\ PutOf(Put({<<"property_details", "industrial fields">>}), 22)
    BY Zenon, <2>1, <2>2, <2>3, <1>0
  <2>5. /\ DropOf(Drop({<<"properties", "legacy source">>}), 22)
        /\ DropOf(Drop({<<"properties", "uq_properties_legacy_source">>}), 22)
        /\ DropOf(Drop({<<"property_details", "industrial fields">>}), 22)
    BY Zenon, <2>1, <2>2, <2>3, <1>0
  <2>6. Puts(AddIndustrialPortingFields.up, 22)
    BY Zenon, <2>4, PutLists DEF AddIndustrialPortingFields, Both
  <2>7. Drops(AddIndustrialPortingFields.down, 22)
    BY Zenon, <2>5, DropLists DEF AddIndustrialPortingFields, Both
  <2> QED  BY <2>6, <2>7
<1>23. Swaps(AddCommercialPortingFields, 23)
  <2>1. IsOf(<<"property_details", "commercial fields">>, 23)
    BY DEF IsOf, Number, Dropper, T
  <2> QED  BY Zenon, <2>1, <1>0, PutLists, DropLists DEF AddCommercialPortingFields, Both
<1>24. Swaps(AddProjectVideos, 24)
  <2>1. IsOf(<<"projects", "videos">>, 24) /\ IsOf(<<"projects", "videos of the urls">>, 24)
    BY Zenon DEF IsOf, Number, Dropper, T
  <2> QED  BY Zenon, <2>1, <1>0, PutLists, DropLists DEF AddProjectVideos, Both
<1>26. Swaps(OwnerPostIntake, 26)
  <2>1. IsOf(<<"properties", "source">>, 26) /\ IsOf(T("property_drafts"), 26)
    BY DEF IsOf, Number, Dropper, T
  <2> QED  BY <2>1, <1>0, PutLists, DropLists DEF OwnerPostIntake, Both
<1>2. \A x, k : Swaps(x, k) => Suits(x, k)
  BY DEF Puts, PutOf, Adds, AddOf
<1> QED
  BY <1>1, <1>7, <1>8, <1>11, <1>15, <1>19, <1>20, <1>22, <1>23, <1>24, <1>26, <1>2 DEF Migrations, PlainNumbers

-----------------------------------------------------------------------------
(***************************************************************************)
(* Migrations with one.                                                    *)
(***************************************************************************)

\* A list of statements of a migration of which one is a guard.
LEMMA Forked ==
  ASSUME NEW k, NEW L, L \in Seq(ToSet(L)), NEW p \in DOMAIN L, ForkOf(L[p], k),
         \A i \in DOMAIN L : i # p => OwnOf(L[i], k)
  PROVE  Listing(L, k)
<1>1. \A i \in DOMAIN L : i # p => ~IsIf(L[i])
  BY DEF OwnOf, IsIf
<1>2. \A s \in ToSet(L) : \E i \in DOMAIN L : L[i] = s
  BY DEF ToSet
<1> QED  BY Zenon, <1>1, <1>2 DEF Listing

\* The length and the elements of a list that is written out, for the lengths in
\* use.
LEMMA Tuples ==
  /\ \A a : LET L == <<a>> IN L \in Seq(ToSet(L)) /\ DOMAIN L = 1..1 /\ Len(L) = 1 /\ L[1] = a
  /\ \A a, b : LET L == <<a, b>> IN
       L \in Seq(ToSet(L)) /\ DOMAIN L = 1..2 /\ Len(L) = 2 /\ L[1] = a /\ L[2] = b
  /\ \A a, b, c, d : LET L == <<a, b, c, d>> IN
       /\ L \in Seq(ToSet(L)) /\ DOMAIN L = 1..4 /\ Len(L) = 4
       /\ L[1] = a /\ L[2] = b /\ L[3] = c /\ L[4] = d
  /\ \A a, b, c, d, e : LET L == <<a, b, c, d, e>> IN
       /\ L \in Seq(ToSet(L)) /\ DOMAIN L = 1..5 /\ Len(L) = 5
       /\ L[1] = a /\ L[2] = b /\ L[3] = c /\ L[4] = d /\ L[5] = e
  /\ \A a, b, c, d, e, f : LET L == <<a, b, c, d, e, f>> IN
       /\ L \in Seq(ToSet(L)) /\ DOMAIN L = 1..6 /\ Len(L) = 6
       /\ L[1] = a /\ L[2] = b /\ L[3] = c /\ L[4] = d /\ L[5] = e /\ L[6] = f
  /\ \A a, b, c, d, e, f, g, h : LET L == <<a, b, c, d, e, f, g, h>> IN
       /\ L \in Seq(ToSet(L)) /\ DOMAIN L = 1..8 /\ Len(L) = 8
       /\ L[1] = a /\ L[2] = b /\ L[3] = c /\ L[4] = d /\ L[5] = e /\ L[6] = f /\ L[7] = g /\ L[8] = h
BY DEF ToSet

\* A guard on one fact, both branches of which are of the migration.
LEMMA Forks ==
  ASSUME NEW k, NEW f, NEW yes, NEW no, Own(yes, k), Own(no, k), yes # <<>> \/ no # <<>>
  PROVE  ForkOf(If({f}, yes, no), k)
<1> DEFINE s == If({f}, yes, no)
<1>1. s.plus = {} /\ s.minus = {f} /\ s.yes = yes /\ s.no = no
  BY Fields
<1> QED  BY Zenon, <1>1 DEF ForkOf, IsIf

\* Statements about one fact of a migration.
LEMMA Ones ==
  ASSUME NEW k, NEW f, IsOf(f, k)
  PROVE  /\ OwnOf(Put({f}), k) /\ OwnOf(Add({f}), k) /\ OwnOf(Clear({f}), k) /\ OwnOf(Drop({f}), k)
         /\ PutOf(Put({f}), k) /\ ClearOf(Clear({f}), k)
         /\ \A S : OwnOf(From(S, Put({f})), k) /\ OwnOf(From(S, Add({f})), k)
<1>1. \A g \in {f} : IsOf(g, k)
  OBVIOUS
<1> QED  BY Zenon, <1>1, StatementsOf DEF PutOf, ClearOf

\* Facts of migration 5, AddManagedCitiesAndSublocations.
LEMMA FactsOfFive ==
  /\ IsOf(T("cities"), 5) /\ IsOf(Coimbatore, 5) /\ IsOf(OldSublocations, 5) /\ IsOf(T("sublocations"), 5)
  /\ IsOf(Copied, 5) /\ IsOf(T("property_locations"), 5) /\ IsOf(<<"cities", "uq_cities_name_state_country">>, 5)
<1>1. IsOf(T("cities"), 5)
  BY DEF IsOf, Number, Dropper, T
<1>2. IsOf(Coimbatore, 5)
  BY DEF IsOf, Number, Dropper, T, Coimbatore
<1>3. IsOf(OldSublocations, 5)
  BY DEF IsOf, Number, Dropper, T, OldSublocations
<1>4. IsOf(T("sublocations"), 5)
  BY DEF IsOf, Number, Dropper, T
<1>5. IsOf(Copied, 5)
  BY DEF IsOf, Number, Dropper, T, Copied
<1>6. IsOf(T("property_locations"), 5)
  BY DEF IsOf, Number, Dropper, T
<1>7. IsOf(<<"cities", "uq_cities_name_state_country">>, 5)
  BY DEF IsOf, Number, Dropper, T
<1> QED  BY <1>1, <1>2, <1>3, <1>4, <1>5, <1>6, <1>7

\* Migration 5 is a list of statements of its own with a guard, and clears what
\* it has put.
LEMMA Five ==
  LET x == AddManagedCitiesAndSublocations IN Listing(x.up, 5) /\ Clears(x.down, 5)
<1> DEFINE rename == Stmt({LegacyNames}, {}, {T("sublocations")}, {OldSublocations})
           copy == From({OldSublocations[1]}, Put({Copied}))
           yes == <<Put({Coimbatore}), Clear({OldSublocations}), rename, Put({T("sublocations")}), copy,
                    Drop({OldSublocations})>>
           no == <<Put({T("sublocations")})>>
           key == <<"cities", "uq_cities_name_state_country">>
           L == <<Put({T("cities")}), If({LegacyNames}, yes, no), Put({T("property_locations")}), Put({key})>>
<1>1. \A f : IsOf(f, 5) => OwnOf(Put({f}), 5) /\ OwnOf(Clear({f}), 5) /\ OwnOf(Drop({f}), 5) /\ ClearOf(Clear({f}), 5)
                           /\ \A S : OwnOf(From(S, Put({f})), 5)
  BY Zenon, Ones
<1>2. OwnOf(rename, 5)
  <2>1. T(OldSublocations[1]) = OldSublocations
    BY DEF OldSublocations, T
  <2>2. /\ rename.yes = <<>> /\ rename.no = <<>> /\ rename.minus = {T("sublocations")}
        /\ rename.plus = {OldSublocations}
    BY DEF Stmt
  <2> QED  BY Zenon, <2>1, <2>2, FactsOfFive DEF OwnOf
<1>3. Own(no, 5)
  BY Zenon, <1>1, FactsOfFive, OwnLists
<1>4. Own(yes, 5)
  <2>1. /\ OwnOf(Put({Coimbatore}), 5) /\ OwnOf(Clear({OldSublocations}), 5) /\ OwnOf(Put({T("sublocations")}), 5)
        /\ OwnOf(copy, 5) /\ OwnOf(Drop({OldSublocations}), 5)
    BY Zenon, <1>1, FactsOfFive
  <2> DEFINE a == Put({Coimbatore})
             b == Clear({OldSublocations})
             c == Put({T("sublocations")})
             d == Drop({OldSublocations})
  <2>6. yes = <<a, b, rename, c, copy, d>>
    OBVIOUS
  <2> HIDE DEF rename, copy, yes, a, b, c, d
  <2>2. yes \in Seq(ToSet(yes)) /\ DOMAIN yes = 1..6 /\ Len(yes) = 6
        /\ yes[1] = a /\ yes[2] = b /\ yes[3] = rename /\ yes[4] = c /\ yes[5] = copy /\ yes[6] = d
    BY <2>6, Tuples
  <2>3. \A i \in 1..6 : OwnOf(yes[i], 5)
    BY <1>2, <2>1, <2>2 DEF a, b, c, d
  <2> QED  BY <2>2, <2>3 DEF Own, ToSet
<1>5. yes # <<>>
  BY Tuples
<1>6. ForkOf(If({LegacyNames}, yes, no), 5)
  <2> HIDE DEF yes, no
  <2> QED  BY Zenon, <1>3, <1>4, <1>5, Forks
<1>7. Listing(L, 5)
  <2>1. OwnOf(Put({T("cities")}), 5) /\ OwnOf(Put({T("property_locations")}), 5) /\ OwnOf(Put({key}), 5)
    BY <1>1, FactsOfFive
  <2> HIDE DEF yes, no, key
  <2>2. /\ L \in Seq(ToSet(L)) /\ DOMAIN L = 1..4 /\ L[1] = Put({T("cities")}) /\ L[2] = If({LegacyNames}, yes, no)
        /\ L[3] = Put({T("property_locations")}) /\ L[4] = Put({key})
    BY Tuples
  <2> HIDE DEF L
  <2>3. \A i \in DOMAIN L : i # 2 => OwnOf(L[i], 5)
    BY <2>1, <2>2
  <2>4. 2 \in DOMAIN L /\ ForkOf(L[2], 5)
    BY <1>6, <2>2
  <2> QED  BY <2>2, <2>3, <2>4, Forked
<1>8. Clears(AddManagedCitiesAndSublocations.down, 5)
  <2>1. ClearOf(Clear({T("property_locations")}), 5) /\ ClearOf(Clear({T("sublocations")}), 5) /\ ClearOf(Clear({T("cities")}), 5)
    BY Zenon, <1>1, FactsOfFive
  <2> QED  BY Zenon, <2>1, ClearLists DEF AddManagedCitiesAndSublocations, Both
<1>9. AddManagedCitiesAndSublocations.up = L
  BY DEF AddManagedCitiesAndSublocations, Both
<1> QED  BY <1>7, <1>8, <1>9

\* Migration 6 is a list of statements of its own, either way.
LEMMA Six ==
  LET x == AddPropertySeoTable IN Own(x.up, 6) /\ Own(x.down, 6)
<1>1. IsOf(T("property_seo"), 6)
  BY DEF IsOf, Number, Dropper, T
<1>2. IsOf(<<"property_seo", "rows">>, 6)
  BY DEF IsOf, Number, Dropper, T
<1>3. IsOf(Meta("meta_title"), 6)
  BY DEF IsOf, Number, Dropper, T, Meta
<1>4. IsOf(Meta("meta_description"), 6)
  BY DEF IsOf, Number, Dropper, T, Meta
<1>5. IsOf(Meta("meta_keywords"), 6)
  BY DEF IsOf, Number, Dropper, T, Meta
<1>6. IsOf(Meta("metadata"), 6)
  BY DEF IsOf, Number, Dropper, T, Meta
<1>7. Own(AddPropertySeoTable.up, 6)
  <2>1. OwnOf(Add({T("property_seo")}), 6) /\ OwnOf(Add({<<"property_seo", "rows">>}), 6)
    BY Zenon, <1>1, <1>2, Ones
  <2>2. OwnOf(Drop({Meta("meta_title")}), 6) /\ OwnOf(Drop({Meta("meta_description")}), 6)
        /\ OwnOf(Drop({Meta("meta_keywords")}), 6)
    BY Zenon, <1>3, <1>4, <1>5, Ones
  <2> QED  BY Zenon, <2>1, <2>2, OwnLists DEF AddPropertySeoTable, Both
<1>8. Own(AddPropertySeoTable.down, 6)
  <2>1. OwnOf(Clear({T("property_seo")}), 6) /\ OwnOf(From({"property_seo"}, Put({Meta("metadata")})), 6)
    BY Zenon, <1>1, <1>6, Ones
  <2>2. OwnOf(Add({Meta("meta_title")}), 6) /\ OwnOf(Add({Meta("meta_description")}), 6)
        /\ OwnOf(Add({Meta("meta_keywords")}), 6)
    BY Zenon, <1>3, <1>4, <1>5, Ones
  <2> QED  BY Zenon, <2>1, <2>2, OwnLists DEF AddPropertySeoTable, Both
<1> QED  BY <1>7, <1>8

\* Migration 32 is a list of statements of its own with a guard, and clears what
\* it has put.
LEMMA ThirtyTwo ==
  LET x == AddProjectEnquiryToLeads IN Listing(x.up, 32) /\ Clears(x.down, 32)
<1> DEFINE column == <<"leads", "project_id">>
           index == <<"leads", "idx_leads_project_id">>
           key == <<"leads", "fk_leads_project">>
           no == <<Clear({PropertyKey}), Put({Nullable}), Add({PropertyKey})>>
           a == Put({column})
           b == If({Nullable}, <<>>, no)
           c == Put({index})
           d == Put({key})
           L == <<a, b, c, d>>
<1>1. IsOf(column, 32)
  BY DEF IsOf, Number, Dropper, T
<1>2. IsOf(index, 32)
  BY DEF IsOf, Number, Dropper, T
<1>3. IsOf(key, 32)
  BY DEF IsOf, Number, Dropper, T
<1>4. IsOf(Nullable, 32)
  BY DEF IsOf, Number, Dropper, T, Nullable
<1>5. IsOf(PropertyKey, 32)
  BY DEF IsOf, Number, Dropper, T, PropertyKey
<1>6. AddProjectEnquiryToLeads.up = L /\ AddProjectEnquiryToLeads.down = <<Clear({key}), Clear({index}), Clear({column})>>
  BY DEF AddProjectEnquiryToLeads, Both
<1> HIDE DEF column, index, key
<1>7. Own(no, 32) /\ Own(<<>>, 32) /\ no # <<>>
  BY Zenon, <1>4, <1>5, Ones, OwnLists
<1>8. ForkOf(b, 32)
  <2> HIDE DEF no
  <2> QED  BY Zenon, <1>7, Forks
<1>9. Listing(L, 32)
  <2>1. OwnOf(a, 32) /\ OwnOf(c, 32) /\ OwnOf(d, 32)
    BY Zenon, <1>1, <1>2, <1>3, Ones
  <2> HIDE DEF a, b, c, d
  <2>2. L \in Seq(ToSet(L)) /\ DOMAIN L = 1..4 /\ L[1] = a /\ L[2] = b /\ L[3] = c /\ L[4] = d
    BY Tuples
  <2> HIDE DEF L
  <2>3. \A i \in DOMAIN L : i # 2 => OwnOf(L[i], 32)
    BY <2>1, <2>2
  <2>4. 2 \in DOMAIN L /\ ForkOf(L[2], 32)
    BY <1>8, <2>2
  <2> QED  BY <2>2, <2>3, <2>4, Forked
<1>10. Clears(AddProjectEnquiryToLeads.down, 32)
  <2>1. ClearOf(Clear({column}), 32) /\ ClearOf(Clear({index}), 32) /\ ClearOf(Clear({key}), 32)
    BY Zenon, <1>1, <1>2, <1>3, Ones
  <2> QED  BY Zenon, <2>1, <1>6, ClearLists
<1> QED  BY <1>6, <1>9, <1>10

\* Migration 36 is a list of statements of its own with a guard, and clears what
\* it has put.
LEMMA ThirtySix ==
  LET x == SeoCommandCenter IN Listing(x.up, 36) /\ Clears(x.down, 36)
<1> DEFINE pages == T("seo_listing_pages")
           no == <<From({"seo_configs", "cities", "sublocations"}, Add({pages, Inventory}))>>
           b == If({pages}, <<>>, no)
           a == Put({T("seo_configs")})
           c == Put({T("seo_redirects")})
           d == From({"property_seo", "project_seo"}, Put({<<"seo_configs", "sections">>}))
           e == From({"listing_page_seo"}, Put({<<"seo_configs", "listings">>}))
           f == From({"seo_metadata"}, Put({<<"seo_configs", "metadata">>}))
           g == Put({<<"seo_configs", "paths of properties and projects">>})
           h == Put({<<"seo_configs", "templates, pages and site">>})
           L == <<a, b, c, d, e, f, g, h>>
<1>1. IsOf(T("seo_configs"), 36)
  BY DEF IsOf, Number, Dropper, T
<1>2. IsOf(T("seo_redirects"), 36)
  BY DEF IsOf, Number, Dropper, T
<1>3. IsOf(pages, 36)
  BY DEF IsOf, Number, Dropper, T
<1>4. IsOf(Inventory, 36)
  BY DEF IsOf, Number, Dropper, T, Inventory
<1>5. IsOf(<<"seo_configs", "sections">>, 36)
  BY DEF IsOf, Number, Dropper, T
<1>6. IsOf(<<"seo_configs", "listings">>, 36)
  BY DEF IsOf, Number, Dropper, T
<1>7. IsOf(<<"seo_configs", "metadata">>, 36)
  BY DEF IsOf, Number, Dropper, T
<1>8. IsOf(<<"seo_configs", "paths of properties and projects">>, 36)
  BY DEF IsOf, Number, Dropper, T
<1>9. IsOf(<<"seo_configs", "templates, pages and site">>, 36)
  BY DEF IsOf, Number, Dropper, T
<1>10. SeoCommandCenter.up = L /\ SeoCommandCenter.down = <<Clear({T("seo_redirects")}), Clear({pages}), Clear({T("seo_configs")})>>
  BY Zenon DEF SeoCommandCenter, Both
<1>11. /\ OwnOf(a, 36) /\ OwnOf(c, 36) /\ OwnOf(d, 36) /\ OwnOf(e, 36) /\ OwnOf(f, 36) /\ OwnOf(g, 36) /\ OwnOf(h, 36)
  BY Zenon, <1>1, <1>2, <1>5, <1>6, <1>7, <1>8, <1>9, Ones
<1>12. Clears(SeoCommandCenter.down, 36)
  <2>1. ClearOf(Clear({T("seo_redirects")}), 36) /\ ClearOf(Clear({pages}), 36) /\ ClearOf(Clear({T("seo_configs")}), 36)
    BY Zenon, <1>1, <1>2, <1>3, Ones
  <2> QED  BY Zenon, <2>1, <1>10, ClearLists
<1> HIDE DEF pages
<1>13. Own(no, 36) /\ Own(<<>>, 36) /\ no # <<>>
  <2>1. \A x \in {pages, Inventory} : IsOf(x, 36)
    BY <1>3, <1>4
  <2>2. OwnOf(From({"seo_configs", "cities", "sublocations"}, Add({pages, Inventory})), 36)
    BY Zenon, <2>1, StatementsOf
  <2> QED  BY Zenon, <2>2, OwnLists
<1> HIDE DEF a, c, d, e, f, g, h, no
<1>14. ForkOf(b, 36)
  BY Zenon, <1>13, Forks
<1> HIDE DEF b
<1>15. Listing(L, 36)
  <2>2. /\ L \in Seq(ToSet(L)) /\ DOMAIN L = 1..8 /\ L[1] = a /\ L[2] = b /\ L[3] = c /\ L[4] = d
        /\ L[5] = e /\ L[6] = f /\ L[7] = g /\ L[8] = h
    BY Tuples
  <2> HIDE DEF L
  <2>3. \A i \in DOMAIN L : i # 2 => OwnOf(L[i], 36)
    BY <1>11, <2>2
  <2>4. 2 \in DOMAIN L /\ ForkOf(L[2], 36)
    BY <1>14, <2>2
  <2> QED  BY Zenon, <2>2, <2>3, <2>4, Forked
<1> QED  BY <1>10, <1>12, <1>15

\* Migration 37 is a list of statements of its own with a guard, and clears what
\* it has put.
LEMMA ThirtySeven ==
  LET x == SeoSaleRentTemplates IN Listing(x.up, 37) /\ Clears(x.down, 37)
<1> DEFINE a == Put({<<"seo_redirects", "of merged rules">>})
           b == Put({<<"seo_listing_pages", "merged rules">>})
           d == Put({<<"seo_listing_pages", "buy, rent">>})
           e == Add({Inventory})
           f == Put({<<"seo_configs", "sale and rent">>})
           L == <<a, b, DropCheck, d, e, f>>
<1>1. IsOf(<<"seo_redirects", "of merged rules">>, 37)
  BY DEF IsOf, Number, Dropper, T, Below, SeoNumbers
<1>2. IsOf(<<"seo_listing_pages", "merged rules">>, 37)
  BY DEF IsOf, Number, Dropper, T, Below, SeoNumbers
<1>3. IsOf(<<"seo_listing_pages", "buy, rent">>, 37)
  BY DEF IsOf, Number, Dropper, T, Below, SeoNumbers
<1>4. IsOf(Inventory, 37)
  BY DEF IsOf, Number, Dropper, T, Inventory, Below, SeoNumbers
<1>5. IsOf(<<"seo_configs", "sale and rent">>, 37)
  BY DEF IsOf, Number, Dropper, T, Below, SeoNumbers
<1>6. SeoSaleRentTemplates.up = L /\ SeoSaleRentTemplates.down = <<>>
  BY Zenon DEF SeoSaleRentTemplates, Both
<1>7. OwnOf(a, 37) /\ OwnOf(b, 37) /\ OwnOf(d, 37) /\ OwnOf(e, 37) /\ OwnOf(f, 37)
  BY Zenon, <1>1, <1>2, <1>3, <1>4, <1>5, Ones
<1>8. ForkOf(DropCheck, 37)
  <2>1. Own(<<Drop({Inventory})>>, 37) /\ Own(<<>>, 37)
    BY Zenon, <1>4, Ones, OwnLists
  <2> QED  BY Zenon, <2>1, Forks DEF DropCheck
<1> HIDE DEF a, b, d, e, f
<1>9. Listing(L, 37)
  <2>2. /\ L \in Seq(ToSet(L)) /\ DOMAIN L = 1..6 /\ L[1] = a /\ L[2] = b /\ L[3] = DropCheck /\ L[4] = d
        /\ L[5] = e /\ L[6] = f
    BY Tuples
  <2> HIDE DEF L
  <2>3. \A i \in DOMAIN L : i # 3 => OwnOf(L[i], 37)
    BY <1>7, <2>2
  <2>4. 3 \in DOMAIN L /\ ForkOf(L[3], 37)
    BY <1>8, <2>2
  <2> QED  BY Zenon, <2>2, <2>3, <2>4, Forked
<1> QED  BY <1>6, <1>9, ClearLists

\* Migration 38 is a list of statements of its own with a guard, and clears what
\* it has put.
LEMMA ThirtyEight ==
  LET x == SeoFieldProvisioning IN Listing(x.up, 38) /\ Clears(x.down, 38)
<1> DEFINE s == <<"seo_listing_pages", "show_live_market_snapshot">>
           a == Put({s})
           c == Add({Inventory})
           d == Put({<<"seo_configs", "default sections">>})
           e == Put({<<"seo_configs", "nri-services">>})
           L == <<a, DropCheck, c, d, e>>
<1>1. IsOf(s, 38)
  BY DEF IsOf, Number, Dropper, T, Below, SeoNumbers
<1>2. IsOf(Inventory, 38)
  BY DEF IsOf, Number, Dropper, T, Inventory, Below, SeoNumbers
<1>3. IsOf(<<"seo_configs", "default sections">>, 38)
  BY DEF IsOf, Number, Dropper, T, Below, SeoNumbers
<1>4. IsOf(<<"seo_configs", "nri-services">>, 38)
  BY DEF IsOf, Number, Dropper, T, Below, SeoNumbers
<1>6. SeoFieldProvisioning.up = L /\ SeoFieldProvisioning.down = <<Clear({s})>>
  BY Zenon DEF SeoFieldProvisioning, Both
<1>7. OwnOf(a, 38) /\ OwnOf(c, 38) /\ OwnOf(d, 38) /\ OwnOf(e, 38) /\ ClearOf(Clear({s}), 38)
  BY Zenon, <1>1, <1>2, <1>3, <1>4, Ones
<1>8. ForkOf(DropCheck, 38)
  <2>1. Own(<<Drop({Inventory})>>, 38) /\ Own(<<>>, 38)
    BY Zenon, <1>2, Ones, OwnLists
  <2> QED  BY Zenon, <2>1, Forks DEF DropCheck
<1> HIDE DEF a, c, d, e, s
<1>9. Listing(L, 38)
  <2>2. /\ L \in Seq(ToSet(L)) /\ DOMAIN L = 1..5 /\ L[1] = a /\ L[2] = DropCheck /\ L[3] = c /\ L[4] = d
        /\ L[5] = e
    BY Tuples
  <2> HIDE DEF L
  <2>3. \A i \in DOMAIN L : i # 2 => OwnOf(L[i], 38)
    BY <1>7, <2>2
  <2>4. 2 \in DOMAIN L /\ ForkOf(L[2], 38)
    BY <1>8, <2>2
  <2> QED  BY Zenon, <2>2, <2>3, <2>4, Forked
<1> QED  BY Zenon, <1>6, <1>7, <1>9, ClearLists

\* Migration 39 is a list of statements of its own with a guard, and clears what
\* it has put.
LEMMA ThirtyNine ==
  LET x == SeoCanonicalType IN Listing(x.up, 39) /\ Clears(x.down, 39)
<1> DEFINE no == <<Add({CanonicalType}), Put({Customs})>>
           b == If({CanonicalType}, <<>>, no)
           L == <<b>>
<1>1. IsOf(CanonicalType, 39)
  BY DEF IsOf, Number, Dropper, T, CanonicalType, Below, SeoNumbers
<1>2. IsOf(Customs, 39)
  BY DEF IsOf, Number, Dropper, T, Customs, Below, SeoNumbers
<1>6. SeoCanonicalType.up = L /\ SeoCanonicalType.down = <<Clear({CanonicalType, Customs})>>
  BY DEF SeoCanonicalType, Both
<1>7. Own(no, 39) /\ Own(<<>>, 39) /\ no # <<>>
  BY Zenon, <1>1, <1>2, Ones, OwnLists
<1>8. ForkOf(b, 39)
  <2> HIDE DEF no
  <2> QED  BY Zenon, <1>7, Forks
<1>9. Listing(L, 39)
  <2> HIDE DEF b
  <2>2. L \in Seq(ToSet(L)) /\ DOMAIN L = 1..1 /\ L[1] = b
    BY Tuples
  <2> HIDE DEF L
  <2> QED  BY <1>8, <2>2, Forked
<1>10. Clears(SeoCanonicalType.down, 39)
  <2>1. \A f \in {CanonicalType, Customs} : IsOf(f, 39)
    BY <1>1, <1>2
  <2>2. ClearOf(Clear({CanonicalType, Customs}), 39)
    BY <2>1, StatementsOf
  <2> QED  BY Zenon, <2>2, <1>6, ClearLists
<1> QED  BY <1>6, <1>9, <1>10

\* Migration 44 is a list of statements of its own with a guard, either way.
LEMMA FortyFour ==
  LET x == SanitizePropertySlugs IN Listing(x.up, 44) /\ Listing(x.down, 44)
<1> DEFINE d == <<"seo_redirects", "to the sanitised path">>
           yes == <<Clear({Unsafe}), Put({NewPath}), Put({d}), Put({OldPath})>>
           back == <<Put({Unsafe}), Clear({NewPath}), Clear({d})>>
           a == If({Unsafe}, yes, <<>>)
           b == If({OldPath}, back, <<>>)
           c == Clear({OldPath})
           L == <<a>>
           M == <<b, c>>
<1>1. IsOf(Unsafe, 44)
  BY DEF IsOf, Number, Dropper, T, Unsafe
<1>2. IsOf(NewPath, 44)
  BY DEF IsOf, Number, Dropper, T, NewPath, Below, SeoNumbers
<1>3. IsOf(OldPath, 44)
  BY DEF IsOf, Number, Dropper, T, OldPath, Below, SeoNumbers
<1>4. IsOf(d, 44)
  BY DEF IsOf, Number, Dropper, T, Below, SeoNumbers
<1>5. SanitizePropertySlugs.up = L /\ SanitizePropertySlugs.down = M
  BY Zenon DEF SanitizePropertySlugs, Both
<1> HIDE DEF d
<1>6. Own(yes, 44) /\ Own(<<>>, 44) /\ Own(back, 44) /\ yes # <<>> /\ back # <<>>
  <2>1. /\ OwnOf(Clear({Unsafe}), 44) /\ OwnOf(Put({NewPath}), 44) /\ OwnOf(Put({d}), 44) /\ OwnOf(Put({OldPath}), 44)
        /\ OwnOf(Put({Unsafe}), 44) /\ OwnOf(Clear({NewPath}), 44) /\ OwnOf(Clear({d}), 44)
    BY Zenon, <1>1, <1>2, <1>3, <1>4, Ones
  <2> QED  BY Zenon, <2>1, OwnLists
<1>7. ForkOf(a, 44) /\ ForkOf(b, 44)
  <2> HIDE DEF yes, back
  <2> QED  BY Zenon, <1>6, Forks
<1>8. OwnOf(c, 44)
  BY Zenon, <1>3, Ones
<1> HIDE DEF a, b, c
<1>9. Listing(L, 44)
  <2>1. L \in Seq(ToSet(L)) /\ DOMAIN L = 1..1 /\ L[1] = a
    BY Tuples
  <2> HIDE DEF L
  <2> QED  BY <1>7, <2>1, Forked
<1>10. Listing(M, 44)
  <2>1. M \in Seq(ToSet(M)) /\ DOMAIN M = 1..2 /\ M[1] = b /\ M[2] = c
    BY Tuples
  <2> HIDE DEF M
  <2>2. \A i \in DOMAIN M : i # 1 => OwnOf(M[i], 44)
    BY <2>1, <1>8
  <2>3. 1 \in DOMAIN M /\ ForkOf(M[1], 44)
    BY <2>1, <1>7
  <2> QED  BY <2>1, <2>2, <2>3, Forked
<1> QED  BY <1>5, <1>9, <1>10

-----------------------------------------------------------------------------
(***************************************************************************)
(* All of them.                                                            *)
(***************************************************************************)

\* Lists that put, add, clear or drop are lists of statements of the migration.
LEMMA Kinds ==
  ASSUME NEW L, NEW k
  PROVE  /\ Puts(L, k) => Adds(L, k) /\ Own(L, k)
         /\ Adds(L, k) => Own(L, k)
         /\ Clears(L, k) => Own(L, k)
         /\ Drops(L, k) => Own(L, k)
BY DEF Puts, PutOf, Adds, AddOf, Clears, ClearOf, Drops, DropOf, Own

\* A list of statements without a guard has one path, itself.
LEMMA OwnListing ==
  ASSUME NEW L, NEW k, Own(L, k)
  PROVE  Listing(L, k) /\ Straight(L) /\ Paths(L) = {L} /\ Statements(L) = ToSet(L)
<1>1. \A s \in ToSet(L) : ~IsIf(s) /\ s.yes = <<>> /\ s.no = <<>>
  BY DEF Own, OwnOf, IsIf
<1>2. \A i \in DOMAIN L : L[i] \in ToSet(L)
  BY DEF ToSet
<1>3. Straight(L)
  BY <1>1, <1>2 DEF Straight
<1>4. Paths(L) = {L}
  BY <1>3 DEF Paths
<1>5. Listing(L, k)
  BY <1>3 DEF Listing, Straight, Own
<1>6. Statements(L) = ToSet(L)
  BY <1>1, Sets DEF Statements
<1> QED  BY <1>3, <1>4, <1>5, <1>6

\* What the lists of branches and guards are made of.
LEMMA OfListing ==
  ASSUME NEW L, NEW k, Listing(L, k)
  PROVE  LET S == Statements(L) IN
         /\ L \in Seq(S) /\ OneGuard(L)
         /\ \A s \in S : s.yes \in Seq(S) /\ s.no \in Seq(S)
         /\ \A s \in S : ~IsIf(s) => OwnOf(s, k)
         /\ \A s \in S : IsIf(s) => ForkOf(s, k) /\ s \in ToSet(L)
<1> DEFINE S == Statements(L)
<1>1. ToSet(L) \subseteq S /\ \A s \in ToSet(L) : ToSet(s.yes) \subseteq S /\ ToSet(s.no) \subseteq S
  BY DEF Statements
<1>2. \A s : OwnOf(s, k) => ~IsIf(s)
  BY DEF OwnOf, IsIf
<1>3. \A s \in ToSet(L) : OwnOf(s, k) \/ ForkOf(s, k)
  BY DEF Listing
<1>4. \A s : ForkOf(s, k) => \A t \in ToSet(s.yes) \cup ToSet(s.no) : OwnOf(t, k)
  BY DEF ForkOf, Own
<1>5. \A s : OwnOf(s, k) => ToSet(s.yes) = {} /\ ToSet(s.no) = {}
  BY Sets DEF OwnOf
<1>6. \A s \in S : s \in ToSet(L) \/ OwnOf(s, k)
  BY <1>3, <1>4, <1>5 DEF Statements
<1>7. L \in Seq(S)
  <2>1. L \in Seq(ToSet(L))
    BY DEF Listing
  <2> HIDE DEF S
  <2> QED  BY <1>1, <2>1
<1>8. ASSUME NEW s \in S
      PROVE  s.yes \in Seq(S) /\ s.no \in Seq(S)
  <2>1. CASE OwnOf(s, k)
    <3>1. s.yes = <<>> /\ s.no = <<>>
      BY <2>1 DEF OwnOf
    <3> HIDE DEF S
    <3> QED  BY <3>1
  <2>2. CASE s \in ToSet(L) /\ ForkOf(s, k)
    <3>1. s.yes \in Seq(ToSet(s.yes)) /\ s.no \in Seq(ToSet(s.no))
      BY <2>2 DEF ForkOf, Own
    <3>2. ToSet(s.yes) \subseteq S /\ ToSet(s.no) \subseteq S
      BY <2>2, <1>1
    <3> HIDE DEF S
    <3> QED  BY <3>1, <3>2
  <2> QED  BY <2>1, <2>2, <1>3, <1>6
<1>9. OneGuard(L)
  <2>1. \A i \in DOMAIN L : L[i] \in ToSet(L)
    BY DEF ToSet
  <2>2. ASSUME NEW i \in DOMAIN L, IsIf(L[i])
        PROVE  /\ Straight(L[i].yes) /\ Straight(L[i].no)
               /\ \E f \in L[i].minus : L[i].minus = {f}
    <3>1. ForkOf(L[i], k)
      BY <2>1, <2>2, <1>2, <1>3
    <3> QED  BY <3>1, OwnListing DEF ForkOf
  <2> QED  BY <2>2 DEF OneGuard, Listing
<1>10. \A s \in S : (~IsIf(s) => OwnOf(s, k)) /\ (IsIf(s) => ForkOf(s, k) /\ s \in ToSet(L))
  <2> HIDE DEF S
  <2>1. \A s : ForkOf(s, k) => IsIf(s)
    BY DEF ForkOf
  <2> QED  BY <1>2, <1>3, <1>6, <2>1
<1> HIDE DEF S
<1>11. L \in Seq(S) /\ OneGuard(L) /\ \A s \in S : s.yes \in Seq(S) /\ s.no \in Seq(S)
  BY <1>7, <1>8, <1>9
<1> QED  BY <1>10, <1>11 DEF S

\* Every migration is of one of three kinds: it only puts and clears, it adds
\* and drops, or it is treated by itself.
LEMMA Kindred ==
  /\ DOMAIN Migrations = 1..55
  /\ \A m \in 1..55 : m \in GuardedNumbers \cup PlainNumbers \cup {5, 6, 32, 36, 37, 38, 39, 44}
BY DEF Migrations, GuardedNumbers, PlainNumbers

\* The migrations that are called by their names below, by their numbers.
LEMMA Special ==
  /\ Migrations[1] = AddListingPageSeoTable /\ Migrations[6] = AddPropertySeoTable
  /\ Migrations[7] = AddCrmOnlyPropertyFields /\ Migrations[8] = AddProjectCodeColumn
  /\ Migrations[11] = AddParkingTypeAndFloorFacing /\ Migrations[15] = AddProjectApartmentVillaDetails
  /\ Migrations[19] = AddMobileCoverImage /\ Migrations[20] = AddProjectVideoUrls
  /\ Migrations[22] = AddIndustrialPortingFields /\ Migrations[23] = AddCommercialPortingFields
  /\ Migrations[24] = AddProjectVideos /\ Migrations[26] = OwnerPostIntake
  /\ Migrations[5] = AddManagedCitiesAndSublocations /\ Migrations[32] = AddProjectEnquiryToLeads
  /\ Migrations[36] = SeoCommandCenter /\ Migrations[37] = SeoSaleRentTemplates
  /\ Migrations[38] = SeoFieldProvisioning /\ Migrations[39] = SeoCanonicalType
  /\ Migrations[44] = SanitizePropertySlugs
  /\ Migrations[40] = PropertyTypeSeoTemplates /\ Migrations[41] = SeoAuditRemediation
BY DEF Migrations

\* Every migration, either way, is a list of statements of its own with one
\* guard at most.
LEMMA Listings ==
  ASSUME NEW m \in DOMAIN Migrations
  PROVE  Listing(Migrations[m].up, m) /\ Listing(Migrations[m].down, m)
<1>1. CASE m \in GuardedNumbers
  BY <1>1, GuardedMigrations, Kinds, OwnListing DEF Fits
<1>2. CASE m \in PlainNumbers
  BY <1>2, PlainMigrations, Kinds, OwnListing
<1>3. CASE m \in {5, 6, 32, 36, 37, 38, 39, 44}
  BY <1>3, Special, Five, Six, ThirtyTwo, ThirtySix, ThirtySeven, ThirtyEight, ThirtyNine, FortyFour, Kinds, OwnListing
<1> QED  BY <1>1, <1>2, <1>3, Kindred

\* What a migration changes are facts of its own.
LEMMA FactsAre ==
  ASSUME NEW m \in DOMAIN Migrations
  PROVE  /\ \A d : Listing(Body(d, m), m)
         /\ \A d : \A s \in Changes(d, m) : OwnOf(s, m) /\ \A f \in s.minus \cup s.plus : IsOf(f, m)
         /\ \A f \in Plus(Migrations[m].up) : IsOf(f, m)
         /\ \A f \in Minus(Migrations[m].up) : IsOf(f, m)
<1>1. \A d : Listing(Body(d, m), m)
  BY Listings DEF Body
<1>2. ASSUME NEW d, NEW s \in Changes(d, m)
      PROVE  OwnOf(s, m) /\ \A f \in s.minus \cup s.plus : IsOf(f, m)
  <2>1. s \in Statements(Body(d, m)) /\ ~IsIf(s)
    BY DEF Changes
  <2>2. OwnOf(s, m)
    BY <1>1, <2>1, OfListing
  <2> QED  BY <2>2 DEF OwnOf
<1>3. \A s \in Statements(Migrations[m].up) : IsIf(s) => s.plus = {}
  BY Listings, OfListing DEF ForkOf
<1>4. \A s \in Statements(Migrations[m].up) : ~IsIf(s) => s \in Changes("up", m)
  BY DEF Changes, Body
<1>5. \A f \in Plus(Migrations[m].up) : IsOf(f, m)
  BY <1>2, <1>3, <1>4 DEF Plus
<1>6. \A f \in Minus(Migrations[m].up) : IsOf(f, m)
  BY <1>2, <1>4 DEF Minus
<1> QED  BY <1>1, <1>2, <1>5, <1>6

\* The first rule: the migrations are lists with one guard at most, and add only
\* to tables that are there.
LEMMA IsWellFormed == WellFormed
<1> SUFFICES ASSUME NEW d \in Directions, NEW m \in DOMAIN Migrations
             PROVE  LET L == Body(d, m) S == Statements(L) IN
                    /\ L \in Seq(S) /\ \A s \in S : s.yes \in Seq(S) /\ s.no \in Seq(S)
                    /\ OneGuard(L)
                    /\ \A s \in Changes(d, m) : Grounded(s)
  BY DEF WellFormed
<1>1. \A s \in Changes(d, m) : Grounded(s)
  BY FactsAre DEF OwnOf, Grounded
<1> QED  BY <1>1, FactsAre, OfListing

\* The unified schema has the tables its facts are of.
LEMMA IsBaseTabled == BaseTabled
<1>1. \A t : T(T(t)[1]) = T(t)
  BY DEF T
<1>2. /\ T(Meta("meta_title")[1]) = T("properties") /\ T(Meta("meta_description")[1]) = T("properties")
      /\ T(Meta("meta_keywords")[1]) = T("properties") /\ T(LegacyNames[1]) = T("sublocations")
      /\ T(Unsafe[1]) = T("properties")
  BY DEF T, Meta, LegacyNames, Unsafe
<1>3. T("properties") \in Base /\ T("sublocations") \in Base
  BY DEF Base
<1>4. \A f \in Base : \/ \E t : f = T(t)
                      \/ f \in {Meta("meta_title"), Meta("meta_description"), Meta("meta_keywords"), LegacyNames, Unsafe}
  BY DEF Base
<1> QED  BY <1>1, <1>2, <1>3, <1>4 DEF BaseTabled

-----------------------------------------------------------------------------
(***************************************************************************)
(* Which migrations cannot be repeated, and which are the SEO ones.        *)
(***************************************************************************)

\* What a statement, or one in a branch, adds is among what the list adds.
LEMMA InPlus ==
  ASSUME NEW L, NEW i \in DOMAIN L
  PROVE  /\ L[i].plus \subseteq Plus(L)
         /\ \A j \in DOMAIN L[i].yes : L[i].yes[j].plus \subseteq Plus(L)
         /\ \A j \in DOMAIN L[i].no : L[i].no[j].plus \subseteq Plus(L)
<1>1. L[i] \in ToSet(L)
  BY DEF ToSet
<1>2. /\ \A j \in DOMAIN L[i].yes : L[i].yes[j] \in ToSet(L[i].yes)
      /\ \A j \in DOMAIN L[i].no : L[i].no[j] \in ToSet(L[i].no)
  BY DEF ToSet
<1> QED  BY <1>1, <1>2 DEF Plus, Statements

\* A fact by which a migration differs from the others.
Mark(f, k) == f \in Plus(Migrations[k].up) /\ Number(f) = k /\ f # Inventory

FragileNumbers == {1, 6, 7, 8, 11, 15}

\* A statement that puts or adds one fact adds it.
LEMMA OneFact == \A f : f \in Put({f}).plus /\ f \in Add({f}).plus
BY DEF Put, Add, Stmt

\* Each migration that cannot be repeated, and each of the SEO ones, adds a fact
\* that is of no other.
LEMMA Marks == \A k \in FragileNumbers \cup SeoNumbers : \E f : Mark(f, k)
<1>1. \E f : Mark(f, 1)
  <2>1. Number(T("listing_page_seo")) = 1 /\ T("listing_page_seo") # Inventory
    BY DEF Number, T, Inventory
  <2>2. 1 \in DOMAIN AddListingPageSeoTable.up /\ AddListingPageSeoTable.up[1] = Add({T("listing_page_seo")})
    BY DEF AddListingPageSeoTable, Both
  <2>3. T("listing_page_seo") \in Add({T("listing_page_seo")}).plus
    BY OneFact
  <2>4. Migrations[1] = AddListingPageSeoTable
    BY Special
  <2> QED  BY <2>1, <2>2, <2>3, <2>4, InPlus DEF Mark
<1>6. \E f : Mark(f, 6)
  <2>1. Number(T("property_seo")) = 6 /\ T("property_seo") # Inventory
    BY DEF Number, T, Inventory
  <2>2. 1 \in DOMAIN AddPropertySeoTable.up /\ AddPropertySeoTable.up[1] = Add({T("property_seo")})
    BY DEF AddPropertySeoTable, Both
  <2>3. T("property_seo") \in Add({T("property_seo")}).plus
    BY OneFact
  <2>4. Migrations[6] = AddPropertySeoTable
    BY Special
  <2> QED  BY <2>1, <2>2, <2>3, <2>4, InPlus DEF Mark
<1>7. \E f : Mark(f, 7)
  <2>1. Number(<<"properties", "CRM fields">>) = 7 /\ <<"properties", "CRM fields">> # Inventory
    BY DEF Number, T, Inventory
  <2>2. 1 \in DOMAIN AddCrmOnlyPropertyFields.up /\ AddCrmOnlyPropertyFields.up[1] = Add({<<"properties", "CRM fields">>})
    BY DEF AddCrmOnlyPropertyFields, Both
  <2>3. <<"properties", "CRM fields">> \in Add({<<"properties", "CRM fields">>}).plus
    BY Zenon, OneFact
  <2>4. Migrations[7] = AddCrmOnlyPropertyFields
    BY Special
  <2> QED  BY Zenon, <2>1, <2>2, <2>3, <2>4, InPlus DEF Mark
<1>8. \E f : Mark(f, 8)
  <2>1. Number(<<"projects", "project_code">>) = 8 /\ <<"projects", "project_code">> # Inventory
    BY DEF Number, T, Inventory
  <2>2. 1 \in DOMAIN AddProjectCodeColumn.up /\ AddProjectCodeColumn.up[1] = Add({<<"projects", "project_code">>})
    BY DEF AddProjectCodeColumn, Both
  <2>3. <<"projects", "project_code">> \in Add({<<"projects", "project_code">>}).plus
    BY OneFact
  <2>4. Migrations[8] = AddProjectCodeColumn
    BY Special
  <2> QED  BY <2>1, <2>2, <2>3, <2>4, InPlus DEF Mark
<1>11. \E f : Mark(f, 11)
  <2>1. Number(<<"property_details", "parking_type, floor_facing">>) = 11 /\ <<"property_details", "parking_type, floor_facing">> # Inventory
    BY DEF Number, T, Inventory
  <2>2. 1 \in DOMAIN AddParkingTypeAndFloorFacing.up /\ AddParkingTypeAndFloorFacing.up[1] = Add({<<"property_details", "parking_type, floor_facing">>})
    BY DEF AddParkingTypeAndFloorFacing, Both
  <2>3. <<"property_details", "parking_type, floor_facing">> \in Add({<<"property_details", "parking_type, floor_facing">>}).plus
    BY Zenon, OneFact
  <2>4. Migrations[11] = AddParkingTypeAndFloorFacing
    BY Special
  <2> QED  BY Zenon, <2>1, <2>2, <2>3, <2>4, InPlus DEF Mark
<1>15. \E f : Mark(f, 15)
  <2>1. Number(<<"projects", "apartment and villa details">>) = 15 /\ <<"projects", "apartment and villa details">> # Inventory
    BY DEF Number, T, Inventory
  <2>2. 1 \in DOMAIN AddProjectApartmentVillaDetails.up /\ AddProjectApartmentVillaDetails.up[1] = Add({<<"projects", "apartment and villa details">>})
    BY DEF AddProjectApartmentVillaDetails, Both
  <2>3. <<"projects", "apartment and villa details">> \in Add({<<"projects", "apartment and villa details">>}).plus
    BY Zenon, OneFact
  <2>4. Migrations[15] = AddProjectApartmentVillaDetails
    BY Special
  <2> QED  BY Zenon, <2>1, <2>2, <2>3, <2>4, InPlus DEF Mark
<1>36. \E f : Mark(f, 36)
  <2>1. Number(T("seo_configs")) = 36 /\ T("seo_configs") # Inventory
    BY DEF Number, T, Inventory
  <2>2. 1 \in DOMAIN SeoCommandCenter.up /\ SeoCommandCenter.up[1] = Put({T("seo_configs")})
    BY DEF SeoCommandCenter, Both
  <2>3. T("seo_configs") \in Put({T("seo_configs")}).plus
    BY OneFact
  <2>4. Migrations[36] = SeoCommandCenter
    BY Special
  <2> QED  BY <2>1, <2>2, <2>3, <2>4, InPlus DEF Mark
<1>37. \E f : Mark(f, 37)
  <2>1. Number(<<"seo_redirects", "of merged rules">>) = 37 /\ <<"seo_redirects", "of merged rules">> # Inventory
    BY DEF Number, T, Inventory
  <2>2. 1 \in DOMAIN SeoSaleRentTemplates.up /\ SeoSaleRentTemplates.up[1] = Put({<<"seo_redirects", "of merged rules">>})
    BY DEF SeoSaleRentTemplates, Both
  <2>3. <<"seo_redirects", "of merged rules">> \in Put({<<"seo_redirects", "of merged rules">>}).plus
    BY Zenon, OneFact
  <2>4. Migrations[37] = SeoSaleRentTemplates
    BY Special
  <2> QED  BY Zenon, <2>1, <2>2, <2>3, <2>4, InPlus DEF Mark
<1>38. \E f : Mark(f, 38)
  <2>1. Number(<<"seo_listing_pages", "show_live_market_snapshot">>) = 38 /\ <<"seo_listing_pages", "show_live_market_snapshot">> # Inventory
    BY DEF Number, T, Inventory
  <2>2. 1 \in DOMAIN SeoFieldProvisioning.up /\ SeoFieldProvisioning.up[1] = Put({<<"seo_listing_pages", "show_live_market_snapshot">>})
    BY DEF SeoFieldProvisioning, Both
  <2>3. <<"seo_listing_pages", "show_live_market_snapshot">> \in Put({<<"seo_listing_pages", "show_live_market_snapshot">>}).plus
    BY OneFact
  <2>4. Migrations[38] = SeoFieldProvisioning
    BY Special
  <2> QED  BY <2>1, <2>2, <2>3, <2>4, InPlus DEF Mark
<1>39. \E f : Mark(f, 39)
  <2>1. Number(CanonicalType) = 39 /\ CanonicalType # Inventory
    BY DEF Number, T, Inventory, CanonicalType
  <2>2. /\ 1 \in DOMAIN SeoCanonicalType.up /\ 1 \in DOMAIN SeoCanonicalType.up[1].no
        /\ SeoCanonicalType.up[1].no[1] = Add({CanonicalType})
    <3> DEFINE branch == <<Add({CanonicalType}), Put({Customs})>>
    <3>1. SeoCanonicalType.up = <<If({CanonicalType}, <<>>, branch)>>
      BY DEF SeoCanonicalType, Both
    <3>2. 1 \in DOMAIN branch /\ branch[1] = Add({CanonicalType})
      OBVIOUS
    <3> HIDE DEF branch
    <3>3. 1 \in DOMAIN SeoCanonicalType.up /\ SeoCanonicalType.up[1] = If({CanonicalType}, <<>>, branch)
      BY <3>1
    <3>4. If({CanonicalType}, <<>>, branch).no = branch
      BY DEF If, Stmt
    <3> QED  BY <3>2, <3>3, <3>4
  <2>3. CanonicalType \in Add({CanonicalType}).plus
    BY OneFact
  <2>4. Migrations[39] = SeoCanonicalType
    BY Special
  <2> QED  BY <2>1, <2>2, <2>3, <2>4, InPlus DEF Mark
<1>40. \E f : Mark(f, 40)
  <2>1. Number(<<"seo_configs", "templates of types">>) = 40 /\ <<"seo_configs", "templates of types">> # Inventory
    BY DEF Number, T, Inventory
  <2>2. 1 \in DOMAIN PropertyTypeSeoTemplates.up /\ PropertyTypeSeoTemplates.up[1] = Put({<<"seo_configs", "templates of types">>})
    BY DEF PropertyTypeSeoTemplates, Kept, Both
  <2>3. <<"seo_configs", "templates of types">> \in Put({<<"seo_configs", "templates of types">>}).plus
    BY Zenon, OneFact
  <2>4. Migrations[40] = PropertyTypeSeoTemplates
    BY Special
  <2> QED  BY Zenon, <2>1, <2>2, <2>3, <2>4, InPlus DEF Mark
<1>41. \E f : Mark(f, 41)
  <2>1. Number(<<"seo_configs", "repairs">>) = 41 /\ <<"seo_configs", "repairs">> # Inventory
    BY DEF Number, T, Inventory
  <2>2. 2 \in DOMAIN SeoAuditRemediation.up /\ SeoAuditRemediation.up[2] = Put({<<"seo_configs", "repairs">>})
    BY DEF SeoAuditRemediation, Both
  <2>3. <<"seo_configs", "repairs">> \in Put({<<"seo_configs", "repairs">>}).plus
    BY OneFact
  <2>4. Migrations[41] = SeoAuditRemediation
    BY Special
  <2> QED  BY <2>1, <2>2, <2>3, <2>4, InPlus DEF Mark
<1>44. \E f : Mark(f, 44)
  <2>1. Number(NewPath) = 44 /\ NewPath # Inventory
    BY DEF Number, T, Inventory, NewPath
  <2>2. /\ 1 \in DOMAIN SanitizePropertySlugs.up /\ 2 \in DOMAIN SanitizePropertySlugs.up[1].yes
        /\ SanitizePropertySlugs.up[1].yes[2] = Put({NewPath})
    <3> DEFINE branch == <<Clear({Unsafe}), Put({NewPath}), Put({<<"seo_redirects", "to the sanitised path">>}), Put({OldPath})>>
    <3>1. SanitizePropertySlugs.up = <<If({Unsafe}, branch, <<>>)>>
      BY Zenon DEF SanitizePropertySlugs, Both
    <3>2. 2 \in DOMAIN branch /\ branch[2] = Put({NewPath})
      OBVIOUS
    <3> HIDE DEF branch
    <3>3. 1 \in DOMAIN SanitizePropertySlugs.up /\ SanitizePropertySlugs.up[1] = If({Unsafe}, branch, <<>>)
      BY <3>1
    <3>4. If({Unsafe}, branch, <<>>).yes = branch
      BY DEF If, Stmt
    <3> QED  BY <3>2, <3>3, <3>4
  <2>3. NewPath \in Put({NewPath}).plus
    BY OneFact
  <2>4. Migrations[44] = SanitizePropertySlugs
    BY Special
  <2> QED  BY <2>1, <2>2, <2>3, <2>4, InPlus DEF Mark
<1> QED
  BY <1>1, <1>6, <1>7, <1>8, <1>11, <1>15, <1>36, <1>37, <1>38, <1>39, <1>40, <1>41, <1>44 DEF FragileNumbers, SeoNumbers

\* No two of these are the same.
LEMMA Unlike ==
  ASSUME NEW m \in DOMAIN Migrations, NEW k \in FragileNumbers \cup SeoNumbers, Migrations[m] = Migrations[k]
  PROVE  m = k
<1>1. PICK f : Mark(f, k)
  BY Marks
<1>2. IsOf(f, m)
  BY <1>1, FactsAre DEF Mark
<1> QED  BY <1>1, <1>2 DEF IsOf, Mark

\* The numbers of the migrations that fail when they are repeated.
LEMMA FragileAre == Fragile = FragileNumbers
<1>1. \A m \in FragileNumbers : m \in DOMAIN Migrations /\ <<"up", Migrations[m]>> \in Unguarded
  BY Special, Kindred DEF FragileNumbers, Unguarded
<1>2. ASSUME NEW m \in Fragile
      PROVE  m \in FragileNumbers
  <2>1. \E k \in FragileNumbers : Migrations[m] = Migrations[k]
    BY Special DEF FragileNumbers, Fragile, Unguarded
  <2> QED  BY <2>1, Unlike DEF Fragile
<1> QED  BY <1>1, <1>2 DEF Fragile

\* The numbers of the SEO migrations.
LEMMA SeoAre == Seo = SeoNumbers
<1>1. \A m \in SeoNumbers : m \in DOMAIN Migrations /\ m \in Seo
  BY Special, Kindred DEF SeoNumbers, Seo
<1>2. ASSUME NEW m \in Seo
      PROVE  m \in SeoNumbers
  <2>1. \E k \in SeoNumbers : Migrations[m] = Migrations[k]
    BY Special DEF SeoNumbers, Seo
  <2> QED  BY <2>1, Unlike DEF Seo
<1> QED  BY <1>1, <1>2

\* What comes before a migration in every list that has it, by the numbers.
LEMMA PrecedesIsBelow == \A n, m : Precedes(n, m) <=> Below(n, m)
BY SeoAre DEF Precedes, Below

-----------------------------------------------------------------------------
(***************************************************************************)
(* What a migration leaves, and that no other takes it away.               *)
(***************************************************************************)

DecidingNumbers == {5, 32, 39, 44}

\* What may be lost when something dies is of four migrations.
LEMMA LosableAre == \A f \in Losable : Number(f) \in DecidingNumbers
<1>1. Number(Copied) = 5
  BY DEF Number, Copied
<1>2. Number(Coimbatore) = 5
  BY DEF Number, Coimbatore
<1>3. Number(PropertyKey) = 32
  BY DEF Number, PropertyKey
<1>4. Number(Customs) = 39
  BY DEF Number, Customs
<1>5. \A f \in Plus(SanitizePropertySlugs.up) : Number(f) = 44
  <2>1. Migrations[44] = SanitizePropertySlugs /\ 44 \in DOMAIN Migrations
    BY Special, Kindred
  <2> QED  BY <2>1, FactsAre DEF IsOf
<1> QED  BY <1>1, <1>2, <1>3, <1>4, <1>5 DEF Losable, DecidingNumbers

\* Migration 38 drops the check of the inventory.
LEMMA CheckDropped == Inventory \in Minus(Migrations[38].up) /\ Number(Inventory) = 38
<1>1. Number(Inventory) = 38
  BY DEF Number, Inventory
<1>2. 2 \in DOMAIN SeoFieldProvisioning.up /\ SeoFieldProvisioning.up[2] = DropCheck
  BY DEF SeoFieldProvisioning, Both
<1>3. DropCheck \in ToSet(SeoFieldProvisioning.up)
  BY <1>2 DEF ToSet
<1>4. DropCheck.yes = <<Drop({Inventory})>>
  BY DEF DropCheck, If, Stmt
<1>5. Drop({Inventory}) \in ToSet(DropCheck.yes)
  BY Zenon, <1>4, Sets
<1>6. Drop({Inventory}) \in Statements(SeoFieldProvisioning.up)
  BY <1>3, <1>5 DEF Statements
<1>7. ~IsIf(Drop({Inventory})) /\ Drop({Inventory}).minus = {Inventory}
  BY DEF Drop, Stmt, IsIf
<1> QED  BY <1>1, <1>6, <1>7, Special DEF Minus

\* What a migration owes is among what it adds, and its own.
LEMMA LastingAre ==
  ASSUME NEW m \in DOMAIN Migrations, NEW f \in Lasting[m]
  PROVE  f \in Plus(Migrations[m].up) /\ IsOf(f, m) /\ Number(f) = m /\ f # OldSublocations
         /\ (f = Inventory => m = 38)
<1>1. /\ f \in Plus(Migrations[m].up) /\ f # OldSublocations
      /\ \A n \in DOMAIN Migrations : n > m => f \notin Minus(Migrations[n].up)
  BY DEF Lasting
<1>2. IsOf(f, m)
  BY <1>1, FactsAre
<1>3. f = Inventory => ~(m \in {36, 37})
  <2>1. 38 \in DOMAIN Migrations /\ 38 > 36 /\ 38 > 37
    BY Kindred
  <2> QED  BY <1>1, <2>1, CheckDropped
<1> QED  BY <1>1, <1>2, <1>3, CheckDropped DEF IsOf

\* The numbers of the migrations a guard of which decides whether all is done.
LEMMA DecidingAre == Deciding \subseteq DecidingNumbers
BY LastingAre, LosableAre DEF Deciding

\* What a migration adds of its own it surely leaves, unless its guard decides.
LEMMA SureHas ==
  ASSUME NEW m \in DOMAIN Migrations, m \notin DecidingNumbers, NEW f \in Plus(Migrations[m].up), Number(f) = m
  PROVE  f \in Sure(m)
<1>1. f # OldSublocations
  <2>1. Number(OldSublocations) = 5
    BY Zenon DEF Number, OldSublocations, T
  <2> QED  BY <2>1 DEF DecidingNumbers
<1>2. \A n \in DOMAIN Migrations : n > m => f \notin Minus(Migrations[n].up)
  <2> SUFFICES ASSUME NEW n \in DOMAIN Migrations, n > m, f \in Minus(Migrations[n].up)
               PROVE  FALSE
    OBVIOUS
  <2>1. IsOf(f, n)
    BY FactsAre
  <2>2. m \in 1..55 /\ n \in 1..55
    BY Kindred
  <2> QED  BY <2>1, <2>2, CheckDropped DEF IsOf
<1>3. f \in Lasting[m]
  BY <1>1, <1>2 DEF Lasting
<1> QED  BY <1>3, LosableAre DEF Sure

\* Nothing takes away what another migration leaves.
LEMMA IsNobodyElseRemoves == NobodyElseRemoves
<1> SUFFICES ASSUME NEW m \in DOMAIN Migrations, NEW n \in DOMAIN Migrations, NEW d \in Directions,
                    NEW s \in Changes(d, n), NEW f \in Lasting[m], Removes(s, f)
             PROVE  n = m \/ Below(n, m)
  BY PrecedesIsBelow DEF NobodyElseRemoves
<1>1. IsOf(f, m) /\ Number(f) = m
  BY LastingAre
<1>2. m \in 1..55 /\ n \in 1..55
  BY Kindred
<1>3. CASE f \in s.minus
  <2>1. IsOf(f, n)
    BY <1>3, FactsAre
  <2>2. CASE f = Inventory
    <3>1. n \in {36, 37, 38} /\ m = 38
      BY <2>1, <2>2, <1>1, CheckDropped DEF IsOf
    <3> QED  BY <3>1 DEF Below, SeoNumbers
  <2> QED  BY <2>1, <2>2, <1>1 DEF IsOf
<1>4. CASE T(f[1]) \in s.minus
  <2>1. IsOf(T(f[1]), n)
    BY <1>4, FactsAre
  <2>2. T(f[1]) # Inventory
    BY DEF T, Inventory
  <2>3. Dropper(f) = n
    BY <2>1, <2>2 DEF IsOf, Dropper
  <2> QED  BY <1>1, <1>2, <2>3 DEF IsOf
<1> QED  BY <1>3, <1>4 DEF Removes

\* The facts of the unified schema no migration is about.
LEMMA Staying ==
  ASSUME NEW f \in Base, Number(f) = 0, Dropper(f) = 0
  PROVE  f \in Stays
<1> SUFFICES ASSUME NEW n \in DOMAIN Migrations, NEW d \in Directions, NEW s \in Changes(d, n), Removes(s, f)
             PROVE  FALSE
  BY DEF Stays
<1>1. n # 0
  BY Kindred
<1>2. f # Inventory /\ T(f[1]) # Inventory
  BY CheckDropped DEF T, Inventory
<1>3. f \in s.minus => IsOf(f, n)
  BY FactsAre
<1>4. T(f[1]) \in s.minus => IsOf(T(f[1]), n)
  BY FactsAre
<1> QED  BY <1>1, <1>2, <1>3, <1>4 DEF Removes, IsOf, Dropper

\* The tables that stay.
LEMMA Tabling ==
  ASSUME NEW t \in {"properties", "property_details", "projects", "project_units", "leads"}
  PROVE  T(t) \in Stays
<1>1. T(t) \in Base
  BY DEF Base
<1>2. Number(T(t)) = 0
  BY DEF Number, T
<1>3. Dropper(T(t)) = 0
  BY DEF Number, Dropper, T
<1> QED  BY <1>1, <1>2, <1>3, Staying

-----------------------------------------------------------------------------
(***************************************************************************)
(* The way of a migration that only puts and clears.                       *)
(***************************************************************************)

\* Smooth, for one path.
Eased(d, m, x) ==
  \A i \in DOMAIN x : IsIf(x[i]) \/
    /\ \A f \in x[i].need : Given(x, i - 1, f) \/ (f \in Found(d, m) /\ Spared(x, i - 1, f))
    /\ \A f \in x[i].free : Gone(x, i - 1, f) \/ (f \in Missing(d, m) /\ Unadded(x, i - 1, f))

\* On a path of the branch that is not taken a guard fails that nothing before
\* it decides.
Barred(m, x) ==
  \E i \in DOMAIN x, f \in Tests(m) :
    /\ IsIf(x[i])
    /\ \/ f \in x[i].need /\ f \notin Base /\ Unadded(x, i - 1, f)
       \/ f \in x[i].free /\ f \in Base /\ Spared(x, i - 1, f)

UpPath(m, x) ==
  /\ m \notin FragileNumbers => Guarded(x)
  /\ \A f \in Sure(m) : Given(x, Len(x), f)
  /\ m \in FragileNumbers => \A f \in Minus(Migrations[m].up) : Gone(x, Len(x), f)
  /\ m \in DecidingNumbers => (\A f \in Lasting[m] : Given(x, Len(x), f)) \/ Barred(m, x)
  /\ m \in FragileNumbers \cup DecidingNumbers => Eased("up", m, x)

Dropping == {6, 7, 8, 11, 15, 19, 20, 22, 23, 24, 26}

DownPath(m, x) ==
  /\ m \notin Dropping => Guarded(x)
  /\ m \in FragileNumbers =>
       /\ \A f \in Plus(Migrations[m].up) : Gone(x, Len(x), f)
       /\ \A f \in Minus(Migrations[m].up) : Given(x, Len(x), f)
  /\ Eased("down", m, x)

\* A list of the elements it has is a sequence of them.
LEMMA Elements ==
  ASSUME NEW L, L \in Seq(ToSet(L))
  PROVE  Len(L) \in Nat /\ DOMAIN L = 1..Len(L) /\ \A i \in DOMAIN L : L[i] \in ToSet(L)
BY DEF ToSet

\* A list that only adds leaves all it adds, and removes nothing.
LEMMA AddsLeave ==
  ASSUME NEW L, NEW k, Adds(L, k)
  PROVE  (\A f \in Plus(L) : Given(L, Len(L), f)) /\ Minus(L) = {}
<1>1. Statements(L) = ToSet(L)
  BY Kinds, OwnListing
<1>2. Len(L) \in Nat /\ DOMAIN L = 1..Len(L) /\ \A i \in DOMAIN L : L[i].minus = {}
  BY Elements DEF Adds, AddOf
<1>3. ASSUME NEW f \in Plus(L)
      PROVE  Given(L, Len(L), f)
  <2>1. PICK i \in DOMAIN L : f \in L[i].plus
    BY <1>1 DEF Plus, ToSet
  <2>2. \A l \in i+1..Len(L) : ~Removes(L[l], f)
    <3>1. \A l \in i+1..Len(L) : l \in DOMAIN L
      BY <1>2
    <3> QED  BY <3>1, <1>2 DEF Removes
  <2> QED  BY <1>2, <2>1, <2>2 DEF Given
<1>4. Minus(L) = {}
  BY <1>1 DEF Minus, Adds, AddOf
<1> QED  BY <1>3, <1>4

\* A list that only puts can be repeated.
LEMMA PutsGuarded ==
  ASSUME NEW L, NEW k, Puts(L, k)
  PROVE  Guarded(L)
<1>1. \A i \in DOMAIN L : L[i].free = {} /\ L[i].minus = {}
  BY Elements DEF Puts, PutOf
<1> QED  BY <1>1 DEF Guarded

\* A list that only clears can be repeated, and nothing is in its way.
LEMMA ClearsGuarded ==
  ASSUME NEW L, NEW k, Clears(L, k)
  PROVE  Guarded(L) /\ \A d, m : Eased(d, m, L)
<1>1. \A i \in DOMAIN L : L[i].free = {} /\ L[i].need = {}
  BY Elements DEF Clears, ClearOf
<1> QED  BY <1>1 DEF Guarded, Eased

\* What a list that only drops removes is gone at its end.
LEMMA DropsGone ==
  ASSUME NEW L, NEW k, Drops(L, k), NEW f, NEW s \in ToSet(L), Removes(s, f)
  PROVE  Gone(L, Len(L), f)
<1>1. Len(L) \in Nat /\ DOMAIN L = 1..Len(L) /\ \A i \in DOMAIN L : L[i].plus = {}
  BY Elements DEF Drops, DropOf
<1>2. PICK i \in DOMAIN L : L[i] = s
  BY DEF ToSet
<1>3. \A l \in i..Len(L) : f \notin L[l].plus
  <2>1. \A l \in i..Len(L) : l \in DOMAIN L
    BY <1>1
  <2> QED  BY <2>1, <1>1
<1> QED  BY <1>1, <1>2, <1>3 DEF Gone

\* Those that put and clear.
LEMMA GuardedPaths ==
  ASSUME NEW m \in GuardedNumbers
  PROVE  /\ \A x \in Paths(Migrations[m].up) : UpPath(m, x)
         /\ \A x \in Paths(Migrations[m].down) : DownPath(m, x)
<1> DEFINE U == Migrations[m].up
           D == Migrations[m].down
<1>1. Puts(U, m) /\ Clears(D, m)
  BY GuardedMigrations DEF Fits
<1>2. Paths(U) = {U} /\ Paths(D) = {D}
  BY <1>1, Kinds, OwnListing
<1>3. m \notin FragileNumbers /\ m \notin DecidingNumbers /\ m \in DOMAIN Migrations
  BY Kindred DEF GuardedNumbers, FragileNumbers, DecidingNumbers
<1>4. \A f \in Sure(m) : Given(U, Len(U), f)
  <2>1. Sure(m) \subseteq Plus(U)
    BY <1>3, LastingAre DEF Sure
  <2> QED  BY <1>1, <2>1, Kinds, AddsLeave
<1>5. UpPath(m, U)
  BY <1>1, <1>3, <1>4, PutsGuarded DEF UpPath
<1>6. DownPath(m, D)
  BY <1>1, <1>3, ClearsGuarded DEF DownPath
<1> QED  BY <1>2, <1>5, <1>6

\* Those that clear again.
LEMMA ClearedPaths ==
  ASSUME NEW m \in {5, 32, 36, 37, 38, 39}
  PROVE  \A x \in Paths(Migrations[m].down) : DownPath(m, x)
<1>1. Clears(Migrations[m].down, m)
  BY Special, Five, ThirtyTwo, ThirtySix, ThirtySeven, ThirtyEight, ThirtyNine
<1>2. Paths(Migrations[m].down) = {Migrations[m].down}
  BY <1>1, Kinds, OwnListing
<1>3. m \notin FragileNumbers
  BY DEF FragileNumbers
<1> QED  BY <1>1, <1>2, <1>3, ClearsGuarded DEF DownPath

-----------------------------------------------------------------------------
(***************************************************************************)
(* The way of a migration that adds and drops.                             *)
(***************************************************************************)

\* The tables that a single fact needs.
LEMMA TablesOf == \A f : Tables({f}) = {T(f[1])} \ {f}
BY DEF Tables

\* The length and the elements of a list of three that is written out.
LEMMA Triples ==
  \A a, b, c : LET L == <<a, b, c>> IN
    L \in Seq(ToSet(L)) /\ DOMAIN L = 1..3 /\ Len(L) = 3 /\ L[1] = a /\ L[2] = b /\ L[3] = c
BY DEF ToSet

\* A list that adds has a clear way if it needs what is surely there and forbids
\* only what it adds itself, once.
LEMMA AddsEased ==
  ASSUME NEW m \in FragileNumbers, NEW U, U = Migrations[m].up, Adds(U, m),
         \A i \in DOMAIN U : U[i].free \subseteq U[i].plus /\ U[i].need \subseteq Stays \cup Preceding(m),
         \A i, j \in DOMAIN U : j < i => U[i].free \cap U[j].plus = {}
  PROVE  Eased("up", m, U)
<1>1. Len(U) \in Nat /\ DOMAIN U = 1..Len(U) /\ \A i \in DOMAIN U : U[i].minus = {}
  BY Elements DEF Adds, AddOf
<1>2. \A i \in DOMAIN U : \A j \in 1..(i - 1) : j \in DOMAIN U /\ j < i
  BY <1>1
<1>3. \A i \in DOMAIN U : \A f : Spared(U, i - 1, f)
  BY <1>1, <1>2 DEF Spared, Removes
<1>4. Missing("up", m) = Plus(U) /\ Stays \cup Preceding(m) \subseteq Found("up", m)
  BY FragileAre DEF Missing, Found
<1>5. ASSUME NEW i \in DOMAIN U, NEW f \in U[i].free
      PROVE  f \in Missing("up", m) /\ Unadded(U, i - 1, f)
  <2>1. f \in Plus(U)
    BY <1>5, InPlus
  <2> QED  BY <1>2, <1>4, <2>1 DEF Unadded
<1> QED  BY <1>3, <1>4, <1>5 DEF Eased

\* A list that drops has a clear way if it needs only what the migration has
\* added and it has not dropped yet.
LEMMA DropsEased ==
  ASSUME NEW m \in PlainNumbers, NEW U, U = Migrations[m].up, NEW D, Drops(D, m),
         \A i \in DOMAIN D : D[i].free = {} /\ \A f \in D[i].need : Number(f) = m /\ \E j \in DOMAIN U : f \in U[j].plus,
         \A i, j \in DOMAIN D : j < i => \A f \in D[i].need : ~Removes(D[j], f)
  PROVE  Eased("down", m, D)
<1>1. Len(D) \in Nat /\ DOMAIN D = 1..Len(D)
  BY Elements DEF Drops
<1>2. \A i \in DOMAIN D : \A j \in 1..(i - 1) : j \in DOMAIN D /\ j < i
  BY <1>1
<1>3. m \in DOMAIN Migrations /\ m \notin DecidingNumbers
  BY Kindred DEF PlainNumbers, DecidingNumbers
<1>4. ASSUME NEW i \in DOMAIN D, NEW f \in D[i].need
      PROVE  f \in Found("down", m) /\ Spared(D, i - 1, f)
  <2>1. f \in Plus(U) /\ Number(f) = m
    BY <1>4, InPlus
  <2>2. f \in Sure(m)
    BY <1>3, <2>1, SureHas
  <2> QED  BY <1>2, <2>2 DEF Found, Spared
<1> QED  BY <1>4 DEF Eased

\* A list that drops all that another has added leaves none of it.
LEMMA PlainGone ==
  ASSUME NEW m, NEW U, Adds(U, m), NEW D, Drops(D, m),
         \A i \in DOMAIN U : \A f \in U[i].plus : \E j \in DOMAIN D : Removes(D[j], f)
  PROVE  \A f \in Plus(U) : Gone(D, Len(D), f)
<1> SUFFICES ASSUME NEW f \in Plus(U)
             PROVE  Gone(D, Len(D), f)
  OBVIOUS
<1>1. PICK i \in DOMAIN U : f \in U[i].plus
  BY Kinds, OwnListing DEF Plus, ToSet
<1>2. PICK j \in DOMAIN D : Removes(D[j], f)
  BY <1>1
<1>3. D[j] \in ToSet(D)
  BY DEF ToSet
<1> QED  BY <1>2, <1>3, DropsGone

\* What is left to show of those that add and drop again.
LEMMA PlainPaths ==
  ASSUME NEW m \in PlainNumbers, NEW U, U = Migrations[m].up, NEW D, D = Migrations[m].down,
         m \in FragileNumbers => Eased("up", m, U) /\ \A i \in DOMAIN U : \A f \in U[i].plus : \E j \in DOMAIN D : Removes(D[j], f),
         m \notin Dropping => Guarded(D),
         Eased("down", m, D)
  PROVE  /\ \A x \in Paths(U) : UpPath(m, x)
         /\ \A x \in Paths(D) : DownPath(m, x)
<1>1. Adds(U, m) /\ Drops(D, m)
  BY PlainMigrations
<1>2. Paths(U) = {U} /\ Paths(D) = {D}
  BY <1>1, Kinds, OwnListing
<1>3. m \notin DecidingNumbers /\ m \in DOMAIN Migrations
  BY Kindred DEF PlainNumbers, DecidingNumbers
<1>4. \A f \in Sure(m) : Given(U, Len(U), f)
  <2>1. Sure(m) \subseteq Plus(U)
    BY <1>3, LastingAre DEF Sure
  <2> QED  BY <1>1, <2>1, AddsLeave
<1>5. m \notin FragileNumbers => Guarded(U)
  <2>1. m \notin FragileNumbers => Puts(U, m)
    BY PlainMigrations DEF PlainNumbers, FragileNumbers
  <2> QED  BY <2>1, PutsGuarded
<1>6. Minus(U) = {}
  BY <1>1, AddsLeave
<1>7. UpPath(m, U)
  BY <1>3, <1>4, <1>5, <1>6 DEF UpPath
<1>8. DownPath(m, D)
  BY <1>1, <1>6, PlainGone DEF DownPath
<1> QED  BY <1>2, <1>7, <1>8

\* Migration 1, AddListingPageSeoTable, keeps the rules.
LEMMA One ==
  /\ \A x \in Paths(Migrations[1].up) : UpPath(1, x)
  /\ \A x \in Paths(Migrations[1].down) : DownPath(1, x)
<1> DEFINE U == Migrations[1].up
           D == Migrations[1].down
           t == T("listing_page_seo")
<1>1. AddListingPageSeoTable.up = <<Add({t})>>
  BY DEF AddListingPageSeoTable, Both
<1>2. AddListingPageSeoTable.down = <<Clear({t})>>
  BY DEF AddListingPageSeoTable, Both
<1>3. Migrations[1] = AddListingPageSeoTable /\ 1 \in PlainNumbers
  BY Special DEF PlainNumbers
<1>4. Tables({t}) = {} /\ Number(t) = 1
  <2>1. T(t[1]) = t
    BY DEF T
  <2>2. Number(t) = 1
    BY DEF Number, T
  <2> HIDE DEF t
  <2> QED  BY <2>1, <2>2, TablesOf
<1> HIDE DEF t
<1>10. DOMAIN U = 1..1 /\ U[1] = Add({t})
  BY <1>1, <1>3, Tuples, Triples
<1>11. DOMAIN D = 1..1 /\ D[1] = Clear({t})
  BY <1>2, <1>3, Tuples, Triples
<1>12. Adds(U, 1) /\ Drops(D, 1)
  BY <1>3, PlainMigrations
<1> HIDE DEF U, D
<1>13. (\A i \in DOMAIN U : i = 1) /\ (\A i \in DOMAIN D : i = 1)
  <2>1. DOMAIN U = 1..1 /\ DOMAIN D = 1..1
    BY <1>10, <1>11
  <2> QED  BY <2>1
<1>21. 1 \in DOMAIN U /\ U[1].need = {} /\ U[1].free = {t} /\ U[1].minus = {} /\ U[1].plus = {t}
  <2>1. 1 \in DOMAIN U /\ U[1] = Add({t})
    BY <1>10
  <2>2. Add({t}).need = Tables({t}) /\ Add({t}).free = {t} /\ Add({t}).minus = {} /\ Add({t}).plus = {t}
    BY DEF Add, Stmt
  <2> QED  BY <2>1, <2>2, <1>4
<1>41. 1 \in DOMAIN D /\ D[1].need = {} /\ D[1].free = {} /\ D[1].minus = {t} /\ D[1].plus = {}
  <2>1. 1 \in DOMAIN D /\ D[1] = Clear({t})
    BY <1>11
  <2> QED  BY <2>1 DEF Clear, Stmt
<1>14. Eased("down", 1, D)
  <2>1. \A i \in DOMAIN D : D[i].free = {} /\ \A f \in D[i].need : Number(f) = 1 /\ \E j \in DOMAIN U : f \in U[j].plus
    <3>1. D[1].free = {} /\ \A f \in D[1].need : Number(f) = 1 /\ \E j \in DOMAIN U : f \in U[j].plus
      BY <1>41
    <3> QED  BY <1>13, <3>1
  <2>2. \A i, j \in DOMAIN D : j < i => \A f \in D[i].need : ~Removes(D[j], f)
    BY <1>13
  <2> QED  BY Zenon, <1>3, <1>12, <2>1, <2>2, DropsEased DEF U
<1>15. 1 \in FragileNumbers => Eased("up", 1, U) /\ \A i \in DOMAIN U : \A f \in U[i].plus : \E j \in DOMAIN D : Removes(D[j], f)
  <2>1. \A i \in DOMAIN U : U[i].free \subseteq U[i].plus /\ U[i].need \subseteq Stays \cup Preceding(1)
    <3>1. U[1].free \subseteq U[1].plus /\ U[1].need \subseteq Stays \cup Preceding(1)
      BY <1>21
    <3> QED  BY <1>13, <3>1
  <2>2. \A i, j \in DOMAIN U : j < i => U[i].free \cap U[j].plus = {}
    BY <1>13
  <2>3. \A i \in DOMAIN U : \A f \in U[i].plus : \E j \in DOMAIN D : Removes(D[j], f)
    <3>1. \A f \in U[1].plus : \E j \in DOMAIN D : Removes(D[j], f)
      BY <1>21, <1>41 DEF Removes
    <3> QED  BY <1>13, <3>1
  <2> QED  BY <1>12, <2>1, <2>2, <2>3, AddsEased DEF U
<1>16. Guarded(D)
  BY <1>13, <1>41 DEF Guarded
<1> QED  BY <1>3, <1>14, <1>15, <1>16, PlainPaths DEF U, D

\* Migration 7, AddCrmOnlyPropertyFields, keeps the rules.
LEMMA Seven ==
  /\ \A x \in Paths(Migrations[7].up) : UpPath(7, x)
  /\ \A x \in Paths(Migrations[7].down) : DownPath(7, x)
<1> DEFINE U == Migrations[7].up
           D == Migrations[7].down
           p == <<"properties", "CRM fields">>
           d == <<"property_details", "CRM fields">>
<1>1. AddCrmOnlyPropertyFields.up = <<Add({p}), Add({d})>>
  BY Zenon DEF AddCrmOnlyPropertyFields, Both
<1>2. AddCrmOnlyPropertyFields.down = <<Drop({d}), Drop({p})>>
  BY Zenon DEF AddCrmOnlyPropertyFields, Both
<1>3. Migrations[7] = AddCrmOnlyPropertyFields /\ 7 \in PlainNumbers
  BY Special DEF PlainNumbers
<1>4. Tables({p}) = {T("properties")} /\ Number(p) = 7
  <2>1. T(p[1]) = T("properties") /\ T("properties") # p
    BY DEF T
  <2>2. Number(p) = 7
    BY DEF Number, T
  <2> HIDE DEF p
  <2> QED  BY <2>1, <2>2, TablesOf
<1>5. Tables({d}) = {T("property_details")} /\ Number(d) = 7
  <2>1. T(d[1]) = T("property_details") /\ T("property_details") # d
    BY DEF T
  <2>2. Number(d) = 7
    BY DEF Number, T
  <2> HIDE DEF d
  <2> QED  BY <2>1, <2>2, TablesOf
<1>9. /\ p # d /\ T(p[1]) # d
      /\ d # p /\ T(d[1]) # p
  BY DEF T
<1> HIDE DEF p, d
<1>10. DOMAIN U = 1..2 /\ U[1] = Add({p}) /\ U[2] = Add({d})
  BY <1>1, <1>3, Tuples, Triples
<1>11. DOMAIN D = 1..2 /\ D[1] = Drop({d}) /\ D[2] = Drop({p})
  BY <1>2, <1>3, Tuples, Triples
<1>12. Adds(U, 7) /\ Drops(D, 7)
  BY <1>3, PlainMigrations
<1> HIDE DEF U, D
<1>13. (\A i \in DOMAIN U : i = 1 \/ i = 2) /\ (\A i \in DOMAIN D : i = 1 \/ i = 2)
  <2>1. DOMAIN U = 1..2 /\ DOMAIN D = 1..2
    BY <1>10, <1>11
  <2> QED  BY <2>1
<1>21. 1 \in DOMAIN U /\ U[1].need = {T("properties")} /\ U[1].free = {p} /\ U[1].minus = {} /\ U[1].plus = {p}
  <2>1. 1 \in DOMAIN U /\ U[1] = Add({p})
    BY <1>10
  <2>2. Add({p}).need = Tables({p}) /\ Add({p}).free = {p} /\ Add({p}).minus = {} /\ Add({p}).plus = {p}
    BY DEF Add, Stmt
  <2> QED  BY <2>1, <2>2, <1>4
<1>22. 2 \in DOMAIN U /\ U[2].need = {T("property_details")} /\ U[2].free = {d} /\ U[2].minus = {} /\ U[2].plus = {d}
  <2>1. 2 \in DOMAIN U /\ U[2] = Add({d})
    BY <1>10
  <2>2. Add({d}).need = Tables({d}) /\ Add({d}).free = {d} /\ Add({d}).minus = {} /\ Add({d}).plus = {d}
    BY DEF Add, Stmt
  <2> QED  BY Zenon, <2>1, <2>2, <1>5
<1>41. 1 \in DOMAIN D /\ D[1].need = {d} /\ D[1].free = {} /\ D[1].minus = {d} /\ D[1].plus = {}
  <2>1. 1 \in DOMAIN D /\ D[1] = Drop({d})
    BY <1>11
  <2> QED  BY <2>1 DEF Drop, Stmt
<1>42. 2 \in DOMAIN D /\ D[2].need = {p} /\ D[2].free = {} /\ D[2].minus = {p} /\ D[2].plus = {}
  <2>1. 2 \in DOMAIN D /\ D[2] = Drop({p})
    BY <1>11
  <2> QED  BY <2>1 DEF Drop, Stmt
<1>14. Eased("down", 7, D)
  <2>1. \A i \in DOMAIN D : D[i].free = {} /\ \A f \in D[i].need : Number(f) = 7 /\ \E j \in DOMAIN U : f \in U[j].plus
    <3>1. D[1].free = {} /\ \A f \in D[1].need : Number(f) = 7 /\ \E j \in DOMAIN U : f \in U[j].plus
      <4>1. Number(d) = 7 /\ \E j \in DOMAIN U : d \in U[j].plus
        BY <1>5, <1>22
      <4> QED  BY <1>41, <4>1
    <3>2. D[2].free = {} /\ \A f \in D[2].need : Number(f) = 7 /\ \E j \in DOMAIN U : f \in U[j].plus
      <4>1. Number(p) = 7 /\ \E j \in DOMAIN U : p \in U[j].plus
        BY <1>4, <1>21
      <4> QED  BY <1>42, <4>1
    <3> QED  BY <1>13, <3>1, <3>2
  <2>2. \A i, j \in DOMAIN D : j < i => \A f \in D[i].need : ~Removes(D[j], f)
    <3>1. \A f \in D[2].need : ~Removes(D[1], f)
      BY <1>9, <1>42, <1>41 DEF Removes
    <3>2. \A i, j \in DOMAIN D : j < i => (i = 2 /\ j = 1)
      BY <1>13
    <3> QED  BY <3>1, <3>2
  <2> QED  BY <1>3, <1>12, <2>1, <2>2, DropsEased DEF U
<1>15. 7 \in FragileNumbers => Eased("up", 7, U) /\ \A i \in DOMAIN U : \A f \in U[i].plus : \E j \in DOMAIN D : Removes(D[j], f)
  <2>1. \A i \in DOMAIN U : U[i].free \subseteq U[i].plus /\ U[i].need \subseteq Stays \cup Preceding(7)
    <3>1. U[1].free \subseteq U[1].plus /\ U[1].need \subseteq Stays \cup Preceding(7)
      BY <1>21, Tabling
    <3>2. U[2].free \subseteq U[2].plus /\ U[2].need \subseteq Stays \cup Preceding(7)
      BY <1>22, Tabling
    <3> QED  BY <1>13, <3>1, <3>2
  <2>2. \A i, j \in DOMAIN U : j < i => U[i].free \cap U[j].plus = {}
    <3>1. U[2].free \cap U[1].plus = {}
      BY <1>9, <1>22, <1>21
    <3>2. \A i, j \in DOMAIN U : j < i => (i = 2 /\ j = 1)
      BY <1>13
    <3> QED  BY <3>1, <3>2
  <2>3. \A i \in DOMAIN U : \A f \in U[i].plus : \E j \in DOMAIN D : Removes(D[j], f)
    <3>1. \A f \in U[1].plus : \E j \in DOMAIN D : Removes(D[j], f)
      BY <1>21, <1>42 DEF Removes
    <3>2. \A f \in U[2].plus : \E j \in DOMAIN D : Removes(D[j], f)
      BY <1>22, <1>41 DEF Removes
    <3> QED  BY <1>13, <3>1, <3>2
  <2> QED  BY <1>12, <2>1, <2>2, <2>3, AddsEased DEF U
<1>16. 7 \in Dropping
  BY DEF Dropping
<1> QED  BY <1>3, <1>14, <1>15, <1>16, PlainPaths DEF U, D

\* Migration 8, AddProjectCodeColumn, keeps the rules.
LEMMA Eight ==
  /\ \A x \in Paths(Migrations[8].up) : UpPath(8, x)
  /\ \A x \in Paths(Migrations[8].down) : DownPath(8, x)
<1> DEFINE U == Migrations[8].up
           D == Migrations[8].down
           c == <<"projects", "project_code">>
           r == <<"projects", "codes">>
<1>1. AddProjectCodeColumn.up = <<Add({c}), Put({r})>>
  BY DEF AddProjectCodeColumn, Both
<1>2. AddProjectCodeColumn.down = <<Drop({c, r})>>
  BY DEF AddProjectCodeColumn, Both
<1>3. Migrations[8] = AddProjectCodeColumn /\ 8 \in PlainNumbers
  BY Special DEF PlainNumbers
<1>4. Tables({c}) = {T("projects")} /\ Number(c) = 8
  <2>1. T(c[1]) = T("projects") /\ T("projects") # c
    BY DEF T
  <2>2. Number(c) = 8
    BY DEF Number, T
  <2> HIDE DEF c
  <2> QED  BY <2>1, <2>2, TablesOf
<1>5. Tables({r}) = {T("projects")} /\ Number(r) = 8
  <2>1. T(r[1]) = T("projects") /\ T("projects") # r
    BY DEF T
  <2>2. Number(r) = 8
    BY DEF Number, T
  <2> HIDE DEF r
  <2> QED  BY <2>1, <2>2, TablesOf
<1>9. /\ c # r /\ T(c[1]) # r
      /\ r # c /\ T(r[1]) # c
  BY DEF T
<1> HIDE DEF c, r
<1>10. DOMAIN U = 1..2 /\ U[1] = Add({c}) /\ U[2] = Put({r})
  BY <1>1, <1>3, Tuples, Triples
<1>11. DOMAIN D = 1..1 /\ D[1] = Drop({c, r})
  BY <1>2, <1>3, Tuples, Triples
<1>12. Adds(U, 8) /\ Drops(D, 8)
  BY <1>3, PlainMigrations
<1> HIDE DEF U, D
<1>13. (\A i \in DOMAIN U : i = 1 \/ i = 2) /\ (\A i \in DOMAIN D : i = 1)
  <2>1. DOMAIN U = 1..2 /\ DOMAIN D = 1..1
    BY <1>10, <1>11
  <2> QED  BY <2>1
<1>21. 1 \in DOMAIN U /\ U[1].need = {T("projects")} /\ U[1].free = {c} /\ U[1].minus = {} /\ U[1].plus = {c}
  <2>1. 1 \in DOMAIN U /\ U[1] = Add({c})
    BY <1>10
  <2>2. Add({c}).need = Tables({c}) /\ Add({c}).free = {c} /\ Add({c}).minus = {} /\ Add({c}).plus = {c}
    BY DEF Add, Stmt
  <2> QED  BY Zenon, <2>1, <2>2, <1>4
<1>22. 2 \in DOMAIN U /\ U[2].need = {T("projects")} /\ U[2].free = {} /\ U[2].minus = {} /\ U[2].plus = {r}
  <2>1. 2 \in DOMAIN U /\ U[2] = Put({r})
    BY <1>10
  <2>2. Put({r}).need = Tables({r}) /\ Put({r}).free = {} /\ Put({r}).minus = {} /\ Put({r}).plus = {r}
    BY DEF Put, Stmt
  <2> QED  BY Zenon, <2>1, <2>2, <1>5
<1>41. 1 \in DOMAIN D /\ D[1].need = {c, r} /\ D[1].free = {} /\ D[1].minus = {c, r} /\ D[1].plus = {}
  <2>1. 1 \in DOMAIN D /\ D[1] = Drop({c, r})
    BY <1>11
  <2> QED  BY <2>1 DEF Drop, Stmt
<1>14. Eased("down", 8, D)
  <2>1. \A i \in DOMAIN D : D[i].free = {} /\ \A f \in D[i].need : Number(f) = 8 /\ \E j \in DOMAIN U : f \in U[j].plus
    <3>1. D[1].free = {} /\ \A f \in D[1].need : Number(f) = 8 /\ \E j \in DOMAIN U : f \in U[j].plus
      <4>1. Number(c) = 8 /\ \E j \in DOMAIN U : c \in U[j].plus
        BY <1>4, <1>21
      <4>2. Number(r) = 8 /\ \E j \in DOMAIN U : r \in U[j].plus
        BY <1>5, <1>22
      <4> QED  BY <1>41, <4>1, <4>2
    <3> QED  BY <1>13, <3>1
  <2>2. \A i, j \in DOMAIN D : j < i => \A f \in D[i].need : ~Removes(D[j], f)
    BY <1>13
  <2> QED  BY Zenon, <1>3, <1>12, <2>1, <2>2, DropsEased DEF U
<1>15. 8 \in FragileNumbers => Eased("up", 8, U) /\ \A i \in DOMAIN U : \A f \in U[i].plus : \E j \in DOMAIN D : Removes(D[j], f)
  <2>1. \A i \in DOMAIN U : U[i].free \subseteq U[i].plus /\ U[i].need \subseteq Stays \cup Preceding(8)
    <3>1. U[1].free \subseteq U[1].plus /\ U[1].need \subseteq Stays \cup Preceding(8)
      BY <1>21, Tabling
    <3>2. U[2].free \subseteq U[2].plus /\ U[2].need \subseteq Stays \cup Preceding(8)
      BY <1>22, Tabling
    <3> QED  BY <1>13, <3>1, <3>2
  <2>2. \A i, j \in DOMAIN U : j < i => U[i].free \cap U[j].plus = {}
    <3>1. U[2].free \cap U[1].plus = {}
      BY <1>9, <1>22, <1>21
    <3>2. \A i, j \in DOMAIN U : j < i => (i = 2 /\ j = 1)
      BY <1>13
    <3> QED  BY <3>1, <3>2
  <2>3. \A i \in DOMAIN U : \A f \in U[i].plus : \E j \in DOMAIN D : Removes(D[j], f)
    <3>1. \A f \in U[1].plus : \E j \in DOMAIN D : Removes(D[j], f)
      BY <1>21, <1>41 DEF Removes
    <3>2. \A f \in U[2].plus : \E j \in DOMAIN D : Removes(D[j], f)
      BY <1>22, <1>41 DEF Removes
    <3> QED  BY <1>13, <3>1, <3>2
  <2> QED  BY <1>12, <2>1, <2>2, <2>3, AddsEased DEF U
<1>16. 8 \in Dropping
  BY DEF Dropping
<1> QED  BY <1>3, <1>14, <1>15, <1>16, PlainPaths DEF U, D

\* Migration 11, AddParkingTypeAndFloorFacing, keeps the rules.
LEMMA Eleven ==
  /\ \A x \in Paths(Migrations[11].up) : UpPath(11, x)
  /\ \A x \in Paths(Migrations[11].down) : DownPath(11, x)
<1> DEFINE U == Migrations[11].up
           D == Migrations[11].down
           c == <<"property_details", "parking_type, floor_facing">>
<1>1. AddParkingTypeAndFloorFacing.up = <<Add({c})>>
  BY Zenon DEF AddParkingTypeAndFloorFacing, Both
<1>2. AddParkingTypeAndFloorFacing.down = <<Drop({c})>>
  BY Zenon DEF AddParkingTypeAndFloorFacing, Both
<1>3. Migrations[11] = AddParkingTypeAndFloorFacing /\ 11 \in PlainNumbers
  BY Special DEF PlainNumbers
<1>4. Tables({c}) = {T("property_details")} /\ Number(c) = 11
  <2>1. T(c[1]) = T("property_details") /\ T("property_details") # c
    BY DEF T
  <2>2. Number(c) = 11
    BY DEF Number, T
  <2> HIDE DEF c
  <2> QED  BY <2>1, <2>2, TablesOf
<1> HIDE DEF c
<1>10. DOMAIN U = 1..1 /\ U[1] = Add({c})
  BY <1>1, <1>3, Tuples, Triples
<1>11. DOMAIN D = 1..1 /\ D[1] = Drop({c})
  BY <1>2, <1>3, Tuples, Triples
<1>12. Adds(U, 11) /\ Drops(D, 11)
  BY <1>3, PlainMigrations
<1> HIDE DEF U, D
<1>13. (\A i \in DOMAIN U : i = 1) /\ (\A i \in DOMAIN D : i = 1)
  <2>1. DOMAIN U = 1..1 /\ DOMAIN D = 1..1
    BY <1>10, <1>11
  <2> QED  BY <2>1
<1>21. 1 \in DOMAIN U /\ U[1].need = {T("property_details")} /\ U[1].free = {c} /\ U[1].minus = {} /\ U[1].plus = {c}
  <2>1. 1 \in DOMAIN U /\ U[1] = Add({c})
    BY <1>10
  <2>2. Add({c}).need = Tables({c}) /\ Add({c}).free = {c} /\ Add({c}).minus = {} /\ Add({c}).plus = {c}
    BY DEF Add, Stmt
  <2> QED  BY Zenon, <2>1, <2>2, <1>4
<1>41. 1 \in DOMAIN D /\ D[1].need = {c} /\ D[1].free = {} /\ D[1].minus = {c} /\ D[1].plus = {}
  <2>1. 1 \in DOMAIN D /\ D[1] = Drop({c})
    BY <1>11
  <2> QED  BY <2>1 DEF Drop, Stmt
<1>14. Eased("down", 11, D)
  <2>1. \A i \in DOMAIN D : D[i].free = {} /\ \A f \in D[i].need : Number(f) = 11 /\ \E j \in DOMAIN U : f \in U[j].plus
    <3>1. D[1].free = {} /\ \A f \in D[1].need : Number(f) = 11 /\ \E j \in DOMAIN U : f \in U[j].plus
      <4>1. Number(c) = 11 /\ \E j \in DOMAIN U : c \in U[j].plus
        BY <1>4, <1>21
      <4> QED  BY <1>41, <4>1
    <3> QED  BY <1>13, <3>1
  <2>2. \A i, j \in DOMAIN D : j < i => \A f \in D[i].need : ~Removes(D[j], f)
    BY <1>13
  <2> QED  BY <1>3, <1>12, <2>1, <2>2, DropsEased DEF U
<1>15. 11 \in FragileNumbers => Eased("up", 11, U) /\ \A i \in DOMAIN U : \A f \in U[i].plus : \E j \in DOMAIN D : Removes(D[j], f)
  <2>1. \A i \in DOMAIN U : U[i].free \subseteq U[i].plus /\ U[i].need \subseteq Stays \cup Preceding(11)
    <3>1. U[1].free \subseteq U[1].plus /\ U[1].need \subseteq Stays \cup Preceding(11)
      BY <1>21, Tabling
    <3> QED  BY <1>13, <3>1
  <2>2. \A i, j \in DOMAIN U : j < i => U[i].free \cap U[j].plus = {}
    BY <1>13
  <2>3. \A i \in DOMAIN U : \A f \in U[i].plus : \E j \in DOMAIN D : Removes(D[j], f)
    <3>1. \A f \in U[1].plus : \E j \in DOMAIN D : Removes(D[j], f)
      BY <1>21, <1>41 DEF Removes
    <3> QED  BY <1>13, <3>1
  <2> QED  BY <1>12, <2>1, <2>2, <2>3, AddsEased DEF U
<1>16. 11 \in Dropping
  BY DEF Dropping
<1> QED  BY <1>3, <1>14, <1>15, <1>16, PlainPaths DEF U, D

\* The table of furnishings is there when migration 15 starts.
LEMMA Furnishings == T("furnishing_items") \in Preceding(15)
<1>1. Migrations[13].up = <<Put({T("furnishing_items")}), From({"furnishing_items"}, Put({T("property_furnishings")}))>>
  <2>1. Migrations[13] = CreateFurnishingItems
    BY DEF Migrations
  <2> QED  BY <2>1 DEF CreateFurnishingItems, Both
<1>2. 1 \in DOMAIN Migrations[13].up /\ Migrations[13].up[1] = Put({T("furnishing_items")})
  BY <1>1
<1>3. T("furnishing_items") \in Plus(Migrations[13].up)
  BY <1>2, OneFact, InPlus
<1>4. Number(T("furnishing_items")) = 13
  BY DEF Number, T
<1>5. 13 \in DOMAIN Migrations /\ 13 \notin DecidingNumbers /\ Precedes(13, 15)
  BY Kindred, PrecedesIsBelow DEF DecidingNumbers, Below, SeoNumbers
<1>6. T("furnishing_items") \in Sure(13)
  BY <1>3, <1>4, <1>5, SureHas
<1> QED  BY <1>5, <1>6 DEF Preceding

\* Migration 15, AddProjectApartmentVillaDetails, keeps the rules.
LEMMA Fifteen ==
  /\ \A x \in Paths(Migrations[15].up) : UpPath(15, x)
  /\ \A x \in Paths(Migrations[15].down) : DownPath(15, x)
<1> DEFINE U == Migrations[15].up
           D == Migrations[15].down
           p == <<"projects", "apartment and villa details">>
           u == <<"project_units", "villa details">>
           q == T("project_faqs")
           g == T("project_unit_furnishings")
           a == T("project_amenities")
<1>1. AddProjectApartmentVillaDetails.up = <<Add({p}), Add({q}), From({"furnishing_items"}, Add({g})), Add({a}), Add({u})>>
  BY Zenon DEF AddProjectApartmentVillaDetails, Both
<1>2. AddProjectApartmentVillaDetails.down = <<Drop({u}), Drop({g}), Drop({q}), Drop({a}), Drop({p})>>
  BY Zenon DEF AddProjectApartmentVillaDetails, Both
<1>3. Migrations[15] = AddProjectApartmentVillaDetails /\ 15 \in PlainNumbers
  BY Special DEF PlainNumbers
<1>4. Tables({p}) = {T("projects")} /\ Number(p) = 15
  <2>1. T(p[1]) = T("projects") /\ T("projects") # p
    BY DEF T
  <2>2. Number(p) = 15
    BY DEF Number, T
  <2> HIDE DEF p
  <2> QED  BY <2>1, <2>2, TablesOf
<1>5. Tables({u}) = {T("project_units")} /\ Number(u) = 15
  <2>1. T(u[1]) = T("project_units") /\ T("project_units") # u
    BY DEF T
  <2>2. Number(u) = 15
    BY DEF Number, T
  <2> HIDE DEF u
  <2> QED  BY <2>1, <2>2, TablesOf
<1>6. Tables({q}) = {} /\ Number(q) = 15
  <2>1. T(q[1]) = q
    BY DEF T
  <2>2. Number(q) = 15
    BY DEF Number, T
  <2> HIDE DEF q
  <2> QED  BY <2>1, <2>2, TablesOf
<1>7. Tables({g}) = {} /\ Number(g) = 15
  <2>1. T(g[1]) = g
    BY DEF T
  <2>2. Number(g) = 15
    BY DEF Number, T
  <2> HIDE DEF g
  <2> QED  BY <2>1, <2>2, TablesOf
<1>8. Tables({a}) = {} /\ Number(a) = 15
  <2>1. T(a[1]) = a
    BY DEF T
  <2>2. Number(a) = 15
    BY DEF Number, T
  <2> HIDE DEF a
  <2> QED  BY <2>1, <2>2, TablesOf
<1>9. /\ p # u /\ T(p[1]) # u
      /\ p # q /\ T(p[1]) # q
      /\ p # g /\ T(p[1]) # g
      /\ p # a /\ T(p[1]) # a
      /\ u # p /\ T(u[1]) # p
      /\ u # q /\ T(u[1]) # q
      /\ u # g /\ T(u[1]) # g
      /\ u # a /\ T(u[1]) # a
      /\ q # p /\ T(q[1]) # p
      /\ q # u /\ T(q[1]) # u
      /\ q # g /\ T(q[1]) # g
      /\ q # a /\ T(q[1]) # a
      /\ g # p /\ T(g[1]) # p
      /\ g # u /\ T(g[1]) # u
      /\ g # q /\ T(g[1]) # q
      /\ g # a /\ T(g[1]) # a
      /\ a # p /\ T(a[1]) # p
      /\ a # u /\ T(a[1]) # u
      /\ a # q /\ T(a[1]) # q
      /\ a # g /\ T(a[1]) # g
  BY DEF T
<1> HIDE DEF p, u, q, g, a
<1>10. DOMAIN U = 1..5 /\ U[1] = Add({p}) /\ U[2] = Add({q}) /\ U[3] = From({"furnishing_items"}, Add({g})) /\ U[4] = Add({a}) /\ U[5] = Add({u})
  BY <1>1, <1>3, Tuples, Triples
<1>11. DOMAIN D = 1..5 /\ D[1] = Drop({u}) /\ D[2] = Drop({g}) /\ D[3] = Drop({q}) /\ D[4] = Drop({a}) /\ D[5] = Drop({p})
  BY <1>2, <1>3, Tuples, Triples
<1>12. Adds(U, 15) /\ Drops(D, 15)
  BY <1>3, PlainMigrations
<1> HIDE DEF U, D
<1>13. (\A i \in DOMAIN U : i = 1 \/ i = 2 \/ i = 3 \/ i = 4 \/ i = 5) /\ (\A i \in DOMAIN D : i = 1 \/ i = 2 \/ i = 3 \/ i = 4 \/ i = 5)
  <2>1. DOMAIN U = 1..5 /\ DOMAIN D = 1..5
    BY <1>10, <1>11
  <2> QED  BY <2>1
<1>21. 1 \in DOMAIN U /\ U[1].need = {T("projects")} /\ U[1].free = {p} /\ U[1].minus = {} /\ U[1].plus = {p}
  <2>1. 1 \in DOMAIN U /\ U[1] = Add({p})
    BY <1>10
  <2>2. Add({p}).need = Tables({p}) /\ Add({p}).free = {p} /\ Add({p}).minus = {} /\ Add({p}).plus = {p}
    BY DEF Add, Stmt
  <2> QED  BY Zenon, <2>1, <2>2, <1>4
<1>22. 2 \in DOMAIN U /\ U[2].need = {} /\ U[2].free = {q} /\ U[2].minus = {} /\ U[2].plus = {q}
  <2>1. 2 \in DOMAIN U /\ U[2] = Add({q})
    BY <1>10
  <2>2. Add({q}).need = Tables({q}) /\ Add({q}).free = {q} /\ Add({q}).minus = {} /\ Add({q}).plus = {q}
    BY DEF Add, Stmt
  <2> QED  BY Zenon, <2>1, <2>2, <1>6
<1>23. 3 \in DOMAIN U /\ U[3].need = {T("furnishing_items")} /\ U[3].free = {g} /\ U[3].minus = {} /\ U[3].plus = {g}
  <2>1. 3 \in DOMAIN U /\ U[3] = From({"furnishing_items"}, Add({g}))
    BY <1>10
  <2>2. \A F : From({"furnishing_items"}, Add(F)).need = Tables(F) \union {T("furnishing_items")}
    BY DEF From, Add, Stmt
  <2>3. From({"furnishing_items"}, Add({g})).free = {g} /\ From({"furnishing_items"}, Add({g})).minus = {} /\ From({"furnishing_items"}, Add({g})).plus = {g}
    BY DEF From, Add, Stmt
  <2>4. From({"furnishing_items"}, Add({g})).need = {T("furnishing_items")}
    BY <2>2, <1>7
  <2> QED  BY Zenon, <2>1, <2>3, <2>4
<1>24. 4 \in DOMAIN U /\ U[4].need = {} /\ U[4].free = {a} /\ U[4].minus = {} /\ U[4].plus = {a}
  <2>1. 4 \in DOMAIN U /\ U[4] = Add({a})
    BY <1>10
  <2>2. Add({a}).need = Tables({a}) /\ Add({a}).free = {a} /\ Add({a}).minus = {} /\ Add({a}).plus = {a}
    BY DEF Add, Stmt
  <2> QED  BY <2>1, <2>2, <1>8
<1>25. 5 \in DOMAIN U /\ U[5].need = {T("project_units")} /\ U[5].free = {u} /\ U[5].minus = {} /\ U[5].plus = {u}
  <2>1. 5 \in DOMAIN U /\ U[5] = Add({u})
    BY <1>10
  <2>2. Add({u}).need = Tables({u}) /\ Add({u}).free = {u} /\ Add({u}).minus = {} /\ Add({u}).plus = {u}
    BY DEF Add, Stmt
  <2> QED  BY Zenon, <2>1, <2>2, <1>5
<1>41. 1 \in DOMAIN D /\ D[1].need = {u} /\ D[1].free = {} /\ D[1].minus = {u} /\ D[1].plus = {}
  <2>1. 1 \in DOMAIN D /\ D[1] = Drop({u})
    BY <1>11
  <2> QED  BY <2>1 DEF Drop, Stmt
<1>42. 2 \in DOMAIN D /\ D[2].need = {g} /\ D[2].free = {} /\ D[2].minus = {g} /\ D[2].plus = {}
  <2>1. 2 \in DOMAIN D /\ D[2] = Drop({g})
    BY <1>11
  <2> QED  BY <2>1 DEF Drop, Stmt
<1>43. 3 \in DOMAIN D /\ D[3].need = {q} /\ D[3].free = {} /\ D[3].minus = {q} /\ D[3].plus = {}
  <2>1. 3 \in DOMAIN D /\ D[3] = Drop({q})
    BY <1>11
  <2> QED  BY <2>1 DEF Drop, Stmt
<1>44. 4 \in DOMAIN D /\ D[4].need = {a} /\ D[4].free = {} /\ D[4].minus = {a} /\ D[4].plus = {}
  <2>1. 4 \in DOMAIN D /\ D[4] = Drop({a})
    BY <1>11
  <2> QED  BY <2>1 DEF Drop, Stmt
<1>45. 5 \in DOMAIN D /\ D[5].need = {p} /\ D[5].free = {} /\ D[5].minus = {p} /\ D[5].plus = {}
  <2>1. 5 \in DOMAIN D /\ D[5] = Drop({p})
    BY <1>11
  <2> QED  BY <2>1 DEF Drop, Stmt
<1>14. Eased("down", 15, D)
  <2>1. \A i \in DOMAIN D : D[i].free = {} /\ \A f \in D[i].need : Number(f) = 15 /\ \E j \in DOMAIN U : f \in U[j].plus
    <3>1. D[1].free = {} /\ \A f \in D[1].need : Number(f) = 15 /\ \E j \in DOMAIN U : f \in U[j].plus
      <4>1. Number(u) = 15 /\ \E j \in DOMAIN U : u \in U[j].plus
        BY <1>5, <1>25
      <4> QED  BY <1>41, <4>1
    <3>2. D[2].free = {} /\ \A f \in D[2].need : Number(f) = 15 /\ \E j \in DOMAIN U : f \in U[j].plus
      <4>1. Number(g) = 15 /\ \E j \in DOMAIN U : g \in U[j].plus
        BY <1>7, <1>23
      <4> QED  BY <1>42, <4>1
    <3>3. D[3].free = {} /\ \A f \in D[3].need : Number(f) = 15 /\ \E j \in DOMAIN U : f \in U[j].plus
      <4>1. Number(q) = 15 /\ \E j \in DOMAIN U : q \in U[j].plus
        BY <1>6, <1>22
      <4> QED  BY <1>43, <4>1
    <3>4. D[4].free = {} /\ \A f \in D[4].need : Number(f) = 15 /\ \E j \in DOMAIN U : f \in U[j].plus
      <4>1. Number(a) = 15 /\ \E j \in DOMAIN U : a \in U[j].plus
        BY <1>8, <1>24
      <4> QED  BY <1>44, <4>1
    <3>5. D[5].free = {} /\ \A f \in D[5].need : Number(f) = 15 /\ \E j \in DOMAIN U : f \in U[j].plus
      <4>1. Number(p) = 15 /\ \E j \in DOMAIN U : p \in U[j].plus
        BY <1>4, <1>21
      <4> QED  BY <1>45, <4>1
    <3> QED  BY <1>13, <3>1, <3>2, <3>3, <3>4, <3>5
  <2>2. \A i, j \in DOMAIN D : j < i => \A f \in D[i].need : ~Removes(D[j], f)
    <3>1. \A f \in D[2].need : ~Removes(D[1], f)
      BY <1>9, <1>42, <1>41 DEF Removes
    <3>2. /\ \A f \in D[3].need : ~Removes(D[1], f)
          /\ \A f \in D[3].need : ~Removes(D[2], f)
      BY <1>9, <1>43, <1>41, <1>42 DEF Removes
    <3>3. /\ \A f \in D[4].need : ~Removes(D[1], f)
          /\ \A f \in D[4].need : ~Removes(D[2], f)
          /\ \A f \in D[4].need : ~Removes(D[3], f)
      BY <1>9, <1>44, <1>41, <1>42, <1>43 DEF Removes
    <3>4. /\ \A f \in D[5].need : ~Removes(D[1], f)
          /\ \A f \in D[5].need : ~Removes(D[2], f)
          /\ \A f \in D[5].need : ~Removes(D[3], f)
          /\ \A f \in D[5].need : ~Removes(D[4], f)
      BY <1>9, <1>45, <1>41, <1>42, <1>43, <1>44 DEF Removes
    <3>5. \A i, j \in DOMAIN D : j < i => (i = 2 /\ (j = 1)) \/ (i = 3 /\ (j = 1 \/ j = 2)) \/ (i = 4 /\ (j = 1 \/ j = 2 \/ j = 3)) \/ (i = 5 /\ (j = 1 \/ j = 2 \/ j = 3 \/ j = 4))
      BY <1>13
    <3> QED  BY <3>1, <3>2, <3>3, <3>4, <3>5
  <2> QED  BY <1>3, <1>12, <2>1, <2>2, DropsEased DEF U
<1>15. 15 \in FragileNumbers => Eased("up", 15, U) /\ \A i \in DOMAIN U : \A f \in U[i].plus : \E j \in DOMAIN D : Removes(D[j], f)
  <2>1. \A i \in DOMAIN U : U[i].free \subseteq U[i].plus /\ U[i].need \subseteq Stays \cup Preceding(15)
    <3>1. U[1].free \subseteq U[1].plus /\ U[1].need \subseteq Stays \cup Preceding(15)
      BY <1>21, Tabling
    <3>2. U[2].free \subseteq U[2].plus /\ U[2].need \subseteq Stays \cup Preceding(15)
      BY <1>22
    <3>3. U[3].free \subseteq U[3].plus /\ U[3].need \subseteq Stays \cup Preceding(15)
      BY <1>23, Furnishings
    <3>4. U[4].free \subseteq U[4].plus /\ U[4].need \subseteq Stays \cup Preceding(15)
      BY <1>24
    <3>5. U[5].free \subseteq U[5].plus /\ U[5].need \subseteq Stays \cup Preceding(15)
      BY <1>25, Tabling
    <3> QED  BY <1>13, <3>1, <3>2, <3>3, <3>4, <3>5
  <2>2. \A i, j \in DOMAIN U : j < i => U[i].free \cap U[j].plus = {}
    <3>1. U[2].free \cap U[1].plus = {}
      BY <1>9, <1>22, <1>21
    <3>2. /\ U[3].free \cap U[1].plus = {}
          /\ U[3].free \cap U[2].plus = {}
      BY <1>9, <1>23, <1>21, <1>22
    <3>3. /\ U[4].free \cap U[1].plus = {}
          /\ U[4].free \cap U[2].plus = {}
          /\ U[4].free \cap U[3].plus = {}
      BY <1>9, <1>24, <1>21, <1>22, <1>23
    <3>4. /\ U[5].free \cap U[1].plus = {}
          /\ U[5].free \cap U[2].plus = {}
          /\ U[5].free \cap U[3].plus = {}
          /\ U[5].free \cap U[4].plus = {}
      BY <1>9, <1>25, <1>21, <1>22, <1>23, <1>24
    <3>5. \A i, j \in DOMAIN U : j < i => (i = 2 /\ (j = 1)) \/ (i = 3 /\ (j = 1 \/ j = 2)) \/ (i = 4 /\ (j = 1 \/ j = 2 \/ j = 3)) \/ (i = 5 /\ (j = 1 \/ j = 2 \/ j = 3 \/ j = 4))
      BY <1>13
    <3> QED  BY <3>1, <3>2, <3>3, <3>4, <3>5
  <2>3. \A i \in DOMAIN U : \A f \in U[i].plus : \E j \in DOMAIN D : Removes(D[j], f)
    <3>1. \A f \in U[1].plus : \E j \in DOMAIN D : Removes(D[j], f)
      BY <1>21, <1>45 DEF Removes
    <3>2. \A f \in U[2].plus : \E j \in DOMAIN D : Removes(D[j], f)
      BY <1>22, <1>43 DEF Removes
    <3>3. \A f \in U[3].plus : \E j \in DOMAIN D : Removes(D[j], f)
      BY <1>23, <1>42 DEF Removes
    <3>4. \A f \in U[4].plus : \E j \in DOMAIN D : Removes(D[j], f)
      BY <1>24, <1>44 DEF Removes
    <3>5. \A f \in U[5].plus : \E j \in DOMAIN D : Removes(D[j], f)
      BY <1>25, <1>41 DEF Removes
    <3> QED  BY <1>13, <3>1, <3>2, <3>3, <3>4, <3>5
  <2> QED  BY <1>12, <2>1, <2>2, <2>3, AddsEased DEF U
<1>16. 15 \in Dropping
  BY DEF Dropping
<1> QED  BY <1>3, <1>14, <1>15, <1>16, PlainPaths DEF U, D

\* Migration 19, AddMobileCoverImage, keeps the rules.
LEMMA Nineteen ==
  /\ \A x \in Paths(Migrations[19].up) : UpPath(19, x)
  /\ \A x \in Paths(Migrations[19].down) : DownPath(19, x)
<1> DEFINE U == Migrations[19].up
           D == Migrations[19].down
           c == <<"projects", "mobile_cover_image_url">>
<1>1. AddMobileCoverImage.up = <<Put({c})>>
  BY DEF AddMobileCoverImage, Both
<1>2. AddMobileCoverImage.down = <<Drop({c})>>
  BY DEF AddMobileCoverImage, Both
<1>3. Migrations[19] = AddMobileCoverImage /\ 19 \in PlainNumbers
  BY Special DEF PlainNumbers
<1>4. Tables({c}) = {T("projects")} /\ Number(c) = 19
  <2>1. T(c[1]) = T("projects") /\ T("projects") # c
    BY DEF T
  <2>2. Number(c) = 19
    BY DEF Number, T
  <2> HIDE DEF c
  <2> QED  BY <2>1, <2>2, TablesOf
<1> HIDE DEF c
<1>10. DOMAIN U = 1..1 /\ U[1] = Put({c})
  BY <1>1, <1>3, Tuples, Triples
<1>11. DOMAIN D = 1..1 /\ D[1] = Drop({c})
  BY <1>2, <1>3, Tuples, Triples
<1>12. Adds(U, 19) /\ Drops(D, 19)
  BY <1>3, PlainMigrations
<1> HIDE DEF U, D
<1>13. (\A i \in DOMAIN U : i = 1) /\ (\A i \in DOMAIN D : i = 1)
  <2>1. DOMAIN U = 1..1 /\ DOMAIN D = 1..1
    BY <1>10, <1>11
  <2> QED  BY <2>1
<1>21. 1 \in DOMAIN U /\ U[1].need = {T("projects")} /\ U[1].free = {} /\ U[1].minus = {} /\ U[1].plus = {c}
  <2>1. 1 \in DOMAIN U /\ U[1] = Put({c})
    BY <1>10
  <2>2. Put({c}).need = Tables({c}) /\ Put({c}).free = {} /\ Put({c}).minus = {} /\ Put({c}).plus = {c}
    BY DEF Put, Stmt
  <2> QED  BY <2>1, <2>2, <1>4
<1>41. 1 \in DOMAIN D /\ D[1].need = {c} /\ D[1].free = {} /\ D[1].minus = {c} /\ D[1].plus = {}
  <2>1. 1 \in DOMAIN D /\ D[1] = Drop({c})
    BY <1>11
  <2> QED  BY <2>1 DEF Drop, Stmt
<1>14. Eased("down", 19, D)
  <2>1. \A i \in DOMAIN D : D[i].free = {} /\ \A f \in D[i].need : Number(f) = 19 /\ \E j \in DOMAIN U : f \in U[j].plus
    <3>1. D[1].free = {} /\ \A f \in D[1].need : Number(f) = 19 /\ \E j \in DOMAIN U : f \in U[j].plus
      <4>1. Number(c) = 19 /\ \E j \in DOMAIN U : c \in U[j].plus
        BY <1>4, <1>21
      <4> QED  BY <1>41, <4>1
    <3> QED  BY <1>13, <3>1
  <2>2. \A i, j \in DOMAIN D : j < i => \A f \in D[i].need : ~Removes(D[j], f)
    BY <1>13
  <2> QED  BY <1>3, <1>12, <2>1, <2>2, DropsEased DEF U
<1>15. 19 \notin FragileNumbers
  BY DEF FragileNumbers
<1>16. 19 \in Dropping
  BY DEF Dropping
<1> QED  BY <1>3, <1>14, <1>15, <1>16, PlainPaths DEF U, D

\* Migration 20, AddProjectVideoUrls, keeps the rules.
LEMMA Twenty ==
  /\ \A x \in Paths(Migrations[20].up) : UpPath(20, x)
  /\ \A x \in Paths(Migrations[20].down) : DownPath(20, x)
<1> DEFINE U == Migrations[20].up
           D == Migrations[20].down
           c == <<"projects", "video_urls">>
<1>1. AddProjectVideoUrls.up = <<Put({c})>>
  BY DEF AddProjectVideoUrls, Both
<1>2. AddProjectVideoUrls.down = <<Drop({c})>>
  BY DEF AddProjectVideoUrls, Both
<1>3. Migrations[20] = AddProjectVideoUrls /\ 20 \in PlainNumbers
  BY Special DEF PlainNumbers
<1>4. Tables({c}) = {T("projects")} /\ Number(c) = 20
  <2>1. T(c[1]) = T("projects") /\ T("projects") # c
    BY DEF T
  <2>2. Number(c) = 20
    BY DEF Number, T
  <2> HIDE DEF c
  <2> QED  BY <2>1, <2>2, TablesOf
<1> HIDE DEF c
<1>10. DOMAIN U = 1..1 /\ U[1] = Put({c})
  BY <1>1, <1>3, Tuples, Triples
<1>11. DOMAIN D = 1..1 /\ D[1] = Drop({c})
  BY <1>2, <1>3, Tuples, Triples
<1>12. Adds(U, 20) /\ Drops(D, 20)
  BY <1>3, PlainMigrations
<1> HIDE DEF U, D
<1>13. (\A i \in DOMAIN U : i = 1) /\ (\A i \in DOMAIN D : i = 1)
  <2>1. DOMAIN U = 1..1 /\ DOMAIN D = 1..1
    BY <1>10, <1>11
  <2> QED  BY <2>1
<1>21. 1 \in DOMAIN U /\ U[1].need = {T("projects")} /\ U[1].free = {} /\ U[1].minus = {} /\ U[1].plus = {c}
  <2>1. 1 \in DOMAIN U /\ U[1] = Put({c})
    BY <1>10
  <2>2. Put({c}).need = Tables({c}) /\ Put({c}).free = {} /\ Put({c}).minus = {} /\ Put({c}).plus = {c}
    BY DEF Put, Stmt
  <2> QED  BY Zenon, <2>1, <2>2, <1>4
<1>41. 1 \in DOMAIN D /\ D[1].need = {c} /\ D[1].free = {} /\ D[1].minus = {c} /\ D[1].plus = {}
  <2>1. 1 \in DOMAIN D /\ D[1] = Drop({c})
    BY <1>11
  <2> QED  BY <2>1 DEF Drop, Stmt
<1>14. Eased("down", 20, D)
  <2>1. \A i \in DOMAIN D : D[i].free = {} /\ \A f \in D[i].need : Number(f) = 20 /\ \E j \in DOMAIN U : f \in U[j].plus
    <3>1. D[1].free = {} /\ \A f \in D[1].need : Number(f) = 20 /\ \E j \in DOMAIN U : f \in U[j].plus
      <4>1. Number(c) = 20 /\ \E j \in DOMAIN U : c \in U[j].plus
        BY <1>4, <1>21
      <4> QED  BY <1>41, <4>1
    <3> QED  BY <1>13, <3>1
  <2>2. \A i, j \in DOMAIN D : j < i => \A f \in D[i].need : ~Removes(D[j], f)
    BY <1>13
  <2> QED  BY <1>3, <1>12, <2>1, <2>2, DropsEased DEF U
<1>15. 20 \notin FragileNumbers
  BY DEF FragileNumbers
<1>16. 20 \in Dropping
  BY DEF Dropping
<1> QED  BY <1>3, <1>14, <1>15, <1>16, PlainPaths DEF U, D

\* Migration 22, AddIndustrialPortingFields, keeps the rules.
LEMMA TwentyTwo ==
  /\ \A x \in Paths(Migrations[22].up) : UpPath(22, x)
  /\ \A x \in Paths(Migrations[22].down) : DownPath(22, x)
<1> DEFINE U == Migrations[22].up
           D == Migrations[22].down
           p == <<"properties", "legacy source">>
           q == <<"properties", "uq_properties_legacy_source">>
           d == <<"property_details", "industrial fields">>
<1>1. AddIndustrialPortingFields.up = <<Put({p}), Put({q}), Put({d})>>
  BY Zenon DEF AddIndustrialPortingFields, Both
<1>2. AddIndustrialPortingFields.down = <<Drop({q}), Drop({d}), Drop({p})>>
  BY Zenon DEF AddIndustrialPortingFields, Both
<1>3. Migrations[22] = AddIndustrialPortingFields /\ 22 \in PlainNumbers
  BY Special DEF PlainNumbers
<1>4. Tables({p}) = {T("properties")} /\ Number(p) = 22
  <2>1. T(p[1]) = T("properties") /\ T("properties") # p
    BY DEF T
  <2>2. Number(p) = 22
    BY DEF Number, T
  <2> HIDE DEF p
  <2> QED  BY <2>1, <2>2, TablesOf
<1>5. Tables({q}) = {T("properties")} /\ Number(q) = 22
  <2>1. T(q[1]) = T("properties") /\ T("properties") # q
    BY DEF T
  <2>2. Number(q) = 22
    BY DEF Number, T
  <2> HIDE DEF q
  <2> QED  BY <2>1, <2>2, TablesOf
<1>6. Tables({d}) = {T("property_details")} /\ Number(d) = 22
  <2>1. T(d[1]) = T("property_details") /\ T("property_details") # d
    BY DEF T
  <2>2. Number(d) = 22
    BY DEF Number, T
  <2> HIDE DEF d
  <2> QED  BY <2>1, <2>2, TablesOf
<1>9. /\ p # q /\ T(p[1]) # q
      /\ p # d /\ T(p[1]) # d
      /\ q # p /\ T(q[1]) # p
      /\ q # d /\ T(q[1]) # d
      /\ d # p /\ T(d[1]) # p
      /\ d # q /\ T(d[1]) # q
  BY DEF T
<1> HIDE DEF p, q, d
<1>10. DOMAIN U = 1..3 /\ U[1] = Put({p}) /\ U[2] = Put({q}) /\ U[3] = Put({d})
  BY <1>1, <1>3, Tuples, Triples
<1>11. DOMAIN D = 1..3 /\ D[1] = Drop({q}) /\ D[2] = Drop({d}) /\ D[3] = Drop({p})
  BY <1>2, <1>3, Tuples, Triples
<1>12. Adds(U, 22) /\ Drops(D, 22)
  BY <1>3, PlainMigrations
<1> HIDE DEF U, D
<1>13. (\A i \in DOMAIN U : i = 1 \/ i = 2 \/ i = 3) /\ (\A i \in DOMAIN D : i = 1 \/ i = 2 \/ i = 3)
  <2>1. DOMAIN U = 1..3 /\ DOMAIN D = 1..3
    BY <1>10, <1>11
  <2> QED  BY <2>1
<1>21. 1 \in DOMAIN U /\ U[1].need = {T("properties")} /\ U[1].free = {} /\ U[1].minus = {} /\ U[1].plus = {p}
  <2>1. 1 \in DOMAIN U /\ U[1] = Put({p})
    BY <1>10
  <2>2. Put({p}).need = Tables({p}) /\ Put({p}).free = {} /\ Put({p}).minus = {} /\ Put({p}).plus = {p}
    BY DEF Put, Stmt
  <2> QED  BY <2>1, <2>2, <1>4
<1>22. 2 \in DOMAIN U /\ U[2].need = {T("properties")} /\ U[2].free = {} /\ U[2].minus = {} /\ U[2].plus = {q}
  <2>1. 2 \in DOMAIN U /\ U[2] = Put({q})
    BY <1>10
  <2>2. Put({q}).need = Tables({q}) /\ Put({q}).free = {} /\ Put({q}).minus = {} /\ Put({q}).plus = {q}
    BY DEF Put, Stmt
  <2> QED  BY Zenon, <2>1, <2>2, <1>5
<1>23. 3 \in DOMAIN U /\ U[3].need = {T("property_details")} /\ U[3].free = {} /\ U[3].minus = {} /\ U[3].plus = {d}
  <2>1. 3 \in DOMAIN U /\ U[3] = Put({d})
    BY <1>10
  <2>2. Put({d}).need = Tables({d}) /\ Put({d}).free = {} /\ Put({d}).minus = {} /\ Put({d}).plus = {d}
    BY DEF Put, Stmt
  <2> QED  BY <2>1, <2>2, <1>6
<1>41. 1 \in DOMAIN D /\ D[1].need = {q} /\ D[1].free = {} /\ D[1].minus = {q} /\ D[1].plus = {}
  <2>1. 1 \in DOMAIN D /\ D[1] = Drop({q})
    BY <1>11
  <2> QED  BY <2>1 DEF Drop, Stmt
<1>42. 2 \in DOMAIN D /\ D[2].need = {d} /\ D[2].free = {} /\ D[2].minus = {d} /\ D[2].plus = {}
  <2>1. 2 \in DOMAIN D /\ D[2] = Drop({d})
    BY <1>11
  <2> QED  BY <2>1 DEF Drop, Stmt
<1>43. 3 \in DOMAIN D /\ D[3].need = {p} /\ D[3].free = {} /\ D[3].minus = {p} /\ D[3].plus = {}
  <2>1. 3 \in DOMAIN D /\ D[3] = Drop({p})
    BY <1>11
  <2> QED  BY <2>1 DEF Drop, Stmt
<1>14. Eased("down", 22, D)
  <2>1. \A i \in DOMAIN D : D[i].free = {} /\ \A f \in D[i].need : Number(f) = 22 /\ \E j \in DOMAIN U : f \in U[j].plus
    <3>1. D[1].free = {} /\ \A f \in D[1].need : Number(f) = 22 /\ \E j \in DOMAIN U : f \in U[j].plus
      <4>1. Number(q) = 22 /\ \E j \in DOMAIN U : q \in U[j].plus
        BY <1>5, <1>22
      <4> QED  BY <1>41, <4>1
    <3>2. D[2].free = {} /\ \A f \in D[2].need : Number(f) = 22 /\ \E j \in DOMAIN U : f \in U[j].plus
      <4>1. Number(d) = 22 /\ \E j \in DOMAIN U : d \in U[j].plus
        BY <1>6, <1>23
      <4> QED  BY <1>42, <4>1
    <3>3. D[3].free = {} /\ \A f \in D[3].need : Number(f) = 22 /\ \E j \in DOMAIN U : f \in U[j].plus
      <4>1. Number(p) = 22 /\ \E j \in DOMAIN U : p \in U[j].plus
        BY <1>4, <1>21
      <4> QED  BY <1>43, <4>1
    <3> QED  BY <1>13, <3>1, <3>2, <3>3
  <2>2. \A i, j \in DOMAIN D : j < i => \A f \in D[i].need : ~Removes(D[j], f)
    <3>1. \A f \in D[2].need : ~Removes(D[1], f)
      BY <1>9, <1>42, <1>41 DEF Removes
    <3>2. /\ \A f \in D[3].need : ~Removes(D[1], f)
          /\ \A f \in D[3].need : ~Removes(D[2], f)
      BY <1>9, <1>43, <1>41, <1>42 DEF Removes
    <3>3. \A i, j \in DOMAIN D : j < i => (i = 2 /\ j = 1) \/ (i = 3 /\ j = 1) \/ (i = 3 /\ j = 2)
      BY <1>13
    <3> QED  BY <3>1, <3>2, <3>3
  <2> QED  BY <1>3, <1>12, <2>1, <2>2, DropsEased DEF U
<1>15. 22 \notin FragileNumbers
  BY DEF FragileNumbers
<1>16. 22 \in Dropping
  BY DEF Dropping
<1> QED  BY <1>3, <1>14, <1>15, <1>16, PlainPaths DEF U, D

\* Migration 23, AddCommercialPortingFields, keeps the rules.
LEMMA TwentyThree ==
  /\ \A x \in Paths(Migrations[23].up) : UpPath(23, x)
  /\ \A x \in Paths(Migrations[23].down) : DownPath(23, x)
<1> DEFINE U == Migrations[23].up
           D == Migrations[23].down
           d == <<"property_details", "commercial fields">>
<1>1. AddCommercialPortingFields.up = <<Put({d})>>
  BY Zenon DEF AddCommercialPortingFields, Both
<1>2. AddCommercialPortingFields.down = <<Drop({d})>>
  BY Zenon DEF AddCommercialPortingFields, Both
<1>3. Migrations[23] = AddCommercialPortingFields /\ 23 \in PlainNumbers
  BY Special DEF PlainNumbers
<1>4. Tables({d}) = {T("property_details")} /\ Number(d) = 23
  <2>1. T(d[1]) = T("property_details") /\ T("property_details") # d
    BY DEF T
  <2>2. Number(d) = 23
    BY DEF Number, T
  <2> HIDE DEF d
  <2> QED  BY <2>1, <2>2, TablesOf
<1> HIDE DEF d
<1>10. DOMAIN U = 1..1 /\ U[1] = Put({d})
  BY <1>1, <1>3, Tuples, Triples
<1>11. DOMAIN D = 1..1 /\ D[1] = Drop({d})
  BY <1>2, <1>3, Tuples, Triples
<1>12. Adds(U, 23) /\ Drops(D, 23)
  BY <1>3, PlainMigrations
<1> HIDE DEF U, D
<1>13. (\A i \in DOMAIN U : i = 1) /\ (\A i \in DOMAIN D : i = 1)
  <2>1. DOMAIN U = 1..1 /\ DOMAIN D = 1..1
    BY <1>10, <1>11
  <2> QED  BY <2>1
<1>21. 1 \in DOMAIN U /\ U[1].need = {T("property_details")} /\ U[1].free = {} /\ U[1].minus = {} /\ U[1].plus = {d}
  <2>1. 1 \in DOMAIN U /\ U[1] = Put({d})
    BY <1>10
  <2>2. Put({d}).need = Tables({d}) /\ Put({d}).free = {} /\ Put({d}).minus = {} /\ Put({d}).plus = {d}
    BY DEF Put, Stmt
  <2> QED  BY <2>1, <2>2, <1>4
<1>41. 1 \in DOMAIN D /\ D[1].need = {d} /\ D[1].free = {} /\ D[1].minus = {d} /\ D[1].plus = {}
  <2>1. 1 \in DOMAIN D /\ D[1] = Drop({d})
    BY <1>11
  <2> QED  BY <2>1 DEF Drop, Stmt
<1>14. Eased("down", 23, D)
  <2>1. \A i \in DOMAIN D : D[i].free = {} /\ \A f \in D[i].need : Number(f) = 23 /\ \E j \in DOMAIN U : f \in U[j].plus
    <3>1. D[1].free = {} /\ \A f \in D[1].need : Number(f) = 23 /\ \E j \in DOMAIN U : f \in U[j].plus
      <4>1. Number(d) = 23 /\ \E j \in DOMAIN U : d \in U[j].plus
        BY <1>4, <1>21
      <4> QED  BY <1>41, <4>1
    <3> QED  BY <1>13, <3>1
  <2>2. \A i, j \in DOMAIN D : j < i => \A f \in D[i].need : ~Removes(D[j], f)
    BY <1>13
  <2> QED  BY Zenon, <1>3, <1>12, <2>1, <2>2, DropsEased DEF U
<1>15. 23 \notin FragileNumbers
  BY DEF FragileNumbers
<1>16. 23 \in Dropping
  BY DEF Dropping
<1> QED  BY <1>3, <1>14, <1>15, <1>16, PlainPaths DEF U, D

\* Migration 24, AddProjectVideos, keeps the rules.
LEMMA TwentyFour ==
  /\ \A x \in Paths(Migrations[24].up) : UpPath(24, x)
  /\ \A x \in Paths(Migrations[24].down) : DownPath(24, x)
<1> DEFINE U == Migrations[24].up
           D == Migrations[24].down
           c == <<"projects", "videos">>
           r == <<"projects", "videos of the urls">>
<1>1. AddProjectVideos.up = <<Put({c}), Put({r})>>
  BY Zenon DEF AddProjectVideos, Both
<1>2. AddProjectVideos.down = <<Drop({c, r})>>
  BY Zenon DEF AddProjectVideos, Both
<1>3. Migrations[24] = AddProjectVideos /\ 24 \in PlainNumbers
  BY Special DEF PlainNumbers
<1>4. Tables({c}) = {T("projects")} /\ Number(c) = 24
  <2>1. T(c[1]) = T("projects") /\ T("projects") # c
    BY DEF T
  <2>2. Number(c) = 24
    BY DEF Number, T
  <2> HIDE DEF c
  <2> QED  BY <2>1, <2>2, TablesOf
<1>5. Tables({r}) = {T("projects")} /\ Number(r) = 24
  <2>1. T(r[1]) = T("projects") /\ T("projects") # r
    BY DEF T
  <2>2. Number(r) = 24
    BY DEF Number, T
  <2> HIDE DEF r
  <2> QED  BY <2>1, <2>2, TablesOf
<1>9. /\ c # r /\ T(c[1]) # r
      /\ r # c /\ T(r[1]) # c
  BY DEF T
<1> HIDE DEF c, r
<1>10. DOMAIN U = 1..2 /\ U[1] = Put({c}) /\ U[2] = Put({r})
  BY <1>1, <1>3, Tuples, Triples
<1>11. DOMAIN D = 1..1 /\ D[1] = Drop({c, r})
  BY <1>2, <1>3, Tuples, Triples
<1>12. Adds(U, 24) /\ Drops(D, 24)
  BY <1>3, PlainMigrations
<1> HIDE DEF U, D
<1>13. (\A i \in DOMAIN U : i = 1 \/ i = 2) /\ (\A i \in DOMAIN D : i = 1)
  <2>1. DOMAIN U = 1..2 /\ DOMAIN D = 1..1
    BY <1>10, <1>11
  <2> QED  BY <2>1
<1>21. 1 \in DOMAIN U /\ U[1].need = {T("projects")} /\ U[1].free = {} /\ U[1].minus = {} /\ U[1].plus = {c}
  <2>1. 1 \in DOMAIN U /\ U[1] = Put({c})
    BY <1>10
  <2>2. Put({c}).need = Tables({c}) /\ Put({c}).free = {} /\ Put({c}).minus = {} /\ Put({c}).plus = {c}
    BY DEF Put, Stmt
  <2> QED  BY Zenon, <2>1, <2>2, <1>4
<1>22. 2 \in DOMAIN U /\ U[2].need = {T("projects")} /\ U[2].free = {} /\ U[2].minus = {} /\ U[2].plus = {r}
  <2>1. 2 \in DOMAIN U /\ U[2] = Put({r})
    BY <1>10
  <2>2. Put({r}).need = Tables({r}) /\ Put({r}).free = {} /\ Put({r}).minus = {} /\ Put({r}).plus = {r}
    BY DEF Put, Stmt
  <2> QED  BY Zenon, <2>1, <2>2, <1>5
<1>41. 1 \in DOMAIN D /\ D[1].need = {c, r} /\ D[1].free = {} /\ D[1].minus = {c, r} /\ D[1].plus = {}
  <2>1. 1 \in DOMAIN D /\ D[1] = Drop({c, r})
    BY <1>11
  <2> QED  BY <2>1 DEF Drop, Stmt
<1>14. Eased("down", 24, D)
  <2>1. \A i \in DOMAIN D : D[i].free = {} /\ \A f \in D[i].need : Number(f) = 24 /\ \E j \in DOMAIN U : f \in U[j].plus
    <3>1. D[1].free = {} /\ \A f \in D[1].need : Number(f) = 24 /\ \E j \in DOMAIN U : f \in U[j].plus
      <4>1. Number(c) = 24 /\ \E j \in DOMAIN U : c \in U[j].plus
        BY <1>4, <1>21
      <4>2. Number(r) = 24 /\ \E j \in DOMAIN U : r \in U[j].plus
        BY <1>5, <1>22
      <4> QED  BY <1>41, <4>1, <4>2
    <3> QED  BY <1>13, <3>1
  <2>2. \A i, j \in DOMAIN D : j < i => \A f \in D[i].need : ~Removes(D[j], f)
    BY <1>13
  <2> QED  BY <1>3, <1>12, <2>1, <2>2, DropsEased DEF U
<1>15. 24 \notin FragileNumbers
  BY DEF FragileNumbers
<1>16. 24 \in Dropping
  BY DEF Dropping
<1> QED  BY <1>3, <1>14, <1>15, <1>16, PlainPaths DEF U, D

\* Migration 26, OwnerPostIntake, keeps the rules.
LEMMA TwentySix ==
  /\ \A x \in Paths(Migrations[26].up) : UpPath(26, x)
  /\ \A x \in Paths(Migrations[26].down) : DownPath(26, x)
<1> DEFINE U == Migrations[26].up
           D == Migrations[26].down
           s == <<"properties", "source">>
           t == T("property_drafts")
<1>1. OwnerPostIntake.up = <<Put({t}), Put({s})>>
  BY DEF OwnerPostIntake, Both
<1>2. OwnerPostIntake.down = <<Drop({s}), Clear({t})>>
  BY DEF OwnerPostIntake, Both
<1>3. Migrations[26] = OwnerPostIntake /\ 26 \in PlainNumbers
  BY Special DEF PlainNumbers
<1>4. Tables({s}) = {T("properties")} /\ Number(s) = 26
  <2>1. T(s[1]) = T("properties") /\ T("properties") # s
    BY DEF T
  <2>2. Number(s) = 26
    BY DEF Number, T
  <2> HIDE DEF s
  <2> QED  BY <2>1, <2>2, TablesOf
<1>5. Tables({t}) = {} /\ Number(t) = 26
  <2>1. T(t[1]) = t
    BY DEF T
  <2>2. Number(t) = 26
    BY DEF Number, T
  <2> HIDE DEF t
  <2> QED  BY <2>1, <2>2, TablesOf
<1>9. /\ s # t /\ T(s[1]) # t
      /\ t # s /\ T(t[1]) # s
  BY DEF T
<1> HIDE DEF s, t
<1>10. DOMAIN U = 1..2 /\ U[1] = Put({t}) /\ U[2] = Put({s})
  BY <1>1, <1>3, Tuples, Triples
<1>11. DOMAIN D = 1..2 /\ D[1] = Drop({s}) /\ D[2] = Clear({t})
  BY <1>2, <1>3, Tuples, Triples
<1>12. Adds(U, 26) /\ Drops(D, 26)
  BY <1>3, PlainMigrations
<1> HIDE DEF U, D
<1>13. (\A i \in DOMAIN U : i = 1 \/ i = 2) /\ (\A i \in DOMAIN D : i = 1 \/ i = 2)
  <2>1. DOMAIN U = 1..2 /\ DOMAIN D = 1..2
    BY <1>10, <1>11
  <2> QED  BY <2>1
<1>21. 1 \in DOMAIN U /\ U[1].need = {} /\ U[1].free = {} /\ U[1].minus = {} /\ U[1].plus = {t}
  <2>1. 1 \in DOMAIN U /\ U[1] = Put({t})
    BY <1>10
  <2>2. Put({t}).need = Tables({t}) /\ Put({t}).free = {} /\ Put({t}).minus = {} /\ Put({t}).plus = {t}
    BY DEF Put, Stmt
  <2> QED  BY <2>1, <2>2, <1>5
<1>22. 2 \in DOMAIN U /\ U[2].need = {T("properties")} /\ U[2].free = {} /\ U[2].minus = {} /\ U[2].plus = {s}
  <2>1. 2 \in DOMAIN U /\ U[2] = Put({s})
    BY <1>10
  <2>2. Put({s}).need = Tables({s}) /\ Put({s}).free = {} /\ Put({s}).minus = {} /\ Put({s}).plus = {s}
    BY DEF Put, Stmt
  <2> QED  BY Zenon, <2>1, <2>2, <1>4
<1>41. 1 \in DOMAIN D /\ D[1].need = {s} /\ D[1].free = {} /\ D[1].minus = {s} /\ D[1].plus = {}
  <2>1. 1 \in DOMAIN D /\ D[1] = Drop({s})
    BY <1>11
  <2> QED  BY <2>1 DEF Drop, Stmt
<1>42. 2 \in DOMAIN D /\ D[2].need = {} /\ D[2].free = {} /\ D[2].minus = {t} /\ D[2].plus = {}
  <2>1. 2 \in DOMAIN D /\ D[2] = Clear({t})
    BY <1>11
  <2> QED  BY <2>1 DEF Clear, Stmt
<1>14. Eased("down", 26, D)
  <2>1. \A i \in DOMAIN D : D[i].free = {} /\ \A f \in D[i].need : Number(f) = 26 /\ \E j \in DOMAIN U : f \in U[j].plus
    <3>1. D[1].free = {} /\ \A f \in D[1].need : Number(f) = 26 /\ \E j \in DOMAIN U : f \in U[j].plus
      <4>1. Number(s) = 26 /\ \E j \in DOMAIN U : s \in U[j].plus
        BY <1>4, <1>22
      <4> QED  BY <1>41, <4>1
    <3>2. D[2].free = {} /\ \A f \in D[2].need : Number(f) = 26 /\ \E j \in DOMAIN U : f \in U[j].plus
      BY <1>42
    <3> QED  BY <1>13, <3>1, <3>2
  <2>2. \A i, j \in DOMAIN D : j < i => \A f \in D[i].need : ~Removes(D[j], f)
    <3>1. \A f \in D[2].need : ~Removes(D[1], f)
      BY <1>9, <1>42, <1>41 DEF Removes
    <3>2. \A i, j \in DOMAIN D : j < i => (i = 2 /\ j = 1)
      BY <1>13
    <3> QED  BY <3>1, <3>2
  <2> QED  BY <1>3, <1>12, <2>1, <2>2, DropsEased DEF U
<1>15. 26 \notin FragileNumbers
  BY DEF FragileNumbers
<1>16. 26 \in Dropping
  BY DEF Dropping
<1> QED  BY <1>3, <1>14, <1>15, <1>16, PlainPaths DEF U, D

-----------------------------------------------------------------------------
(***************************************************************************)
(* The way of migration 6.                                                 *)
(***************************************************************************)

\* What a list without a guard adds and removes is what its statements do.
LEMMA FactsOfOwn ==
  ASSUME NEW L, NEW k, Own(L, k)
  PROVE  /\ \A f : f \in Plus(L) <=> \E i \in DOMAIN L : f \in L[i].plus
         /\ \A f : f \in Minus(L) <=> \E i \in DOMAIN L : f \in L[i].minus
<1>1. Statements(L) = ToSet(L) /\ \A s \in ToSet(L) : ~IsIf(s)
  <2>1. \A s \in ToSet(L) : ~IsIf(s)
    BY DEF Own, OwnOf, IsIf
  <2> QED  BY <2>1, OwnListing
<1>2. \A s : s \in ToSet(L) <=> \E i \in DOMAIN L : L[i] = s
  BY DEF ToSet
<1> QED  BY <1>1, <1>2 DEF Plus, Minus

\* Migration 6, AddPropertySeoTable, keeps the rules; what it adds and what it
\* removes.
LEMMA SixPaths ==
  /\ Plus(Migrations[6].up) \subseteq {T("property_seo"), <<"property_seo", "rows">>}
  /\ Minus(Migrations[6].up) \subseteq {Meta("meta_title"), Meta("meta_description"), Meta("meta_keywords")}
  /\ \A x \in Paths(Migrations[6].up) : UpPath(6, x)
  /\ \A x \in Paths(Migrations[6].down) : DownPath(6, x)
<1> DEFINE U == Migrations[6].up
           D == Migrations[6].down
           t == T("property_seo")
           r == <<"property_seo", "rows">>
           a == Meta("meta_title")
           b == Meta("meta_description")
           c == Meta("meta_keywords")
           o == Meta("metadata")
           p == T("properties")
<1>1. /\ AddPropertySeoTable.up = <<Add({t}), Add({r}), Drop({a}), Drop({b}), Drop({c})>>
      /\ AddPropertySeoTable.down = <<Add({a}), Add({b}), Add({c}), From({"property_seo"}, Put({o})), Clear({t})>>
  BY Zenon DEF AddPropertySeoTable, Both
<1>2. Migrations[6] = AddPropertySeoTable
  BY Special
<1>3. /\ T(t[1]) = t /\ T(r[1]) = t /\ T(a[1]) = p /\ T(b[1]) = p /\ T(c[1]) = p /\ T(o[1]) = p
      /\ t # r /\ t # p
  BY DEF T, Meta
<1>4. /\ a # b /\ a # c /\ b # c /\ a # t /\ b # t /\ c # t /\ a # r /\ b # r /\ c # r
      /\ a # p /\ b # p /\ c # p /\ a # o /\ b # o /\ c # o /\ o # p /\ o # t
  BY DEF T, Meta
<1>5. Number(t) = 6
  BY DEF Number, T
<1>6. p \in Stays
  BY Tabling
<1>7. Tables({t}) = {} /\ Tables({r}) = {t}
  <2> HIDE DEF t, r
  <2> QED  BY Zenon, <1>3, TablesOf
<1>8. Tables({a}) = {p} /\ Tables({b}) = {p} /\ Tables({c}) = {p} /\ Tables({o}) = {p}
  <2> HIDE DEF a, b, c, o, p
  <2> QED  BY <1>3, <1>4, TablesOf
<1>9. T("property_seo") = t
  OBVIOUS
<1> HIDE DEF t, r, a, b, c, o, p
<1>10. DOMAIN U = 1..5 /\ Len(U) = 5 /\ U[1] = Add({t}) /\ U[2] = Add({r}) /\ U[3] = Drop({a}) /\ U[4] = Drop({b}) /\ U[5] = Drop({c})
  BY <1>1, <1>2, Tuples
<1>11. /\ DOMAIN D = 1..5 /\ Len(D) = 5 /\ D[1] = Add({a}) /\ D[2] = Add({b}) /\ D[3] = Add({c})
       /\ D[4] = From({"property_seo"}, Put({o})) /\ D[5] = Clear({t})
  BY <1>1, <1>2, Tuples
<1>12. Own(U, 6) /\ Own(D, 6)
  BY <1>2, Six
<1> HIDE DEF U, D
<1>13. /\ U[1].need = {} /\ U[1].free = {t} /\ U[1].minus = {} /\ U[1].plus = {t}
       /\ U[2].need = {t} /\ U[2].free = {r} /\ U[2].minus = {} /\ U[2].plus = {r}
  <2>1. U[1].need = Tables({t}) /\ U[2].need = Tables({r})
    BY <1>10 DEF Add, Stmt
  <2>2. /\ U[1].free = {t} /\ U[1].minus = {} /\ U[1].plus = {t}
        /\ U[2].free = {r} /\ U[2].minus = {} /\ U[2].plus = {r}
    BY <1>10 DEF Add, Stmt
  <2> QED  BY Zenon, <2>1, <2>2, <1>7
<1>14. /\ U[3].need = {a} /\ U[3].free = {} /\ U[3].minus = {a} /\ U[3].plus = {}
       /\ U[4].need = {b} /\ U[4].free = {} /\ U[4].minus = {b} /\ U[4].plus = {}
       /\ U[5].need = {c} /\ U[5].free = {} /\ U[5].minus = {c} /\ U[5].plus = {}
  BY <1>10 DEF Drop, Stmt
<1>15. /\ D[1].need = {p} /\ D[1].free = {a} /\ D[1].minus = {} /\ D[1].plus = {a}
       /\ D[2].need = {p} /\ D[2].free = {b} /\ D[2].minus = {} /\ D[2].plus = {b}
       /\ D[3].need = {p} /\ D[3].free = {c} /\ D[3].minus = {} /\ D[3].plus = {c}
  <2>1. D[1].need = Tables({a}) /\ D[2].need = Tables({b}) /\ D[3].need = Tables({c})
    BY <1>11 DEF Add, Stmt
  <2>2. /\ D[1].free = {a} /\ D[1].minus = {} /\ D[1].plus = {a}
        /\ D[2].free = {b} /\ D[2].minus = {} /\ D[2].plus = {b}
        /\ D[3].free = {c} /\ D[3].minus = {} /\ D[3].plus = {c}
    BY <1>11 DEF Add, Stmt
  <2> QED  BY <2>1, <2>2, <1>8
<1>16. /\ D[4].need = {p, t} /\ D[4].free = {} /\ D[4].minus = {} /\ D[4].plus = {o}
  <2>1. D[4].need = Tables({o}) \cup {T(s) : s \in {"property_seo"}}
    BY <1>11, FieldsFrom
  <2>2. {T(s) : s \in {"property_seo"}} = {t}
    BY <1>9
  <2>3. D[4].free = {} /\ D[4].minus = {} /\ D[4].plus = {o}
    BY <1>11, FieldsFrom
  <2> QED  BY Zenon, <2>1, <2>2, <2>3, <1>8
<1>17. D[5].need = {} /\ D[5].free = {} /\ D[5].minus = {t} /\ D[5].plus = {}
  BY <1>11 DEF Clear, Stmt
<1>18. Paths(U) = {U} /\ Paths(D) = {D}
  BY <1>12, OwnListing
<1>19. (\A i \in DOMAIN U : i = 1 \/ i = 2 \/ i = 3 \/ i = 4 \/ i = 5)
       /\ (\A i \in DOMAIN D : i = 1 \/ i = 2 \/ i = 3 \/ i = 4 \/ i = 5)
  <2>1. DOMAIN U = 1..5 /\ DOMAIN D = 1..5
    BY <1>10, <1>11
  <2> QED  BY <2>1
<1>20. \A f : f \in Plus(U) <=> f \in {t, r}
  <2>1. \A f : (\E i \in DOMAIN U : f \in U[i].plus) <=> f \in {t, r}
    <3>1. 1 \in DOMAIN U /\ 2 \in DOMAIN U
      BY <1>10
    <3> QED  BY <1>13, <1>14, <1>19, <3>1
  <2> QED  BY <2>1, <1>12, FactsOfOwn
<1>21. \A f : f \in Minus(U) <=> f \in {a, b, c}
  <2>1. \A f : (\E i \in DOMAIN U : f \in U[i].minus) <=> f \in {a, b, c}
    <3>1. 3 \in DOMAIN U /\ 4 \in DOMAIN U /\ 5 \in DOMAIN U
      BY <1>10
    <3> QED  BY <1>13, <1>14, <1>19, <3>1
  <2> QED  BY <2>1, <1>12, FactsOfOwn
<1>22. 6 \in DOMAIN Migrations /\ 6 \in FragileNumbers /\ 6 \notin DecidingNumbers /\ 6 \in Dropping /\ 6 \in Fragile
  BY Kindred, FragileAre DEF FragileNumbers, DecidingNumbers, Dropping
<1>23. Sure(6) \subseteq {t, r}
  <2>1. Sure(6) \subseteq Plus(Migrations[6].up)
    BY <1>22, LastingAre DEF Sure
  <2> QED  BY <2>1, <1>20 DEF U
<1>24. t \in Sure(6)
  <2>1. t \in Plus(Migrations[6].up)
    BY <1>20 DEF U
  <2> QED  BY <2>1, <1>5, <1>22, SureHas
<1>25. ~Removes(U[1], t) /\ ~Removes(U[2], t) /\ ~Removes(U[3], t) /\ ~Removes(U[4], t) /\ ~Removes(U[5], t)
       /\ ~Removes(U[3], r) /\ ~Removes(U[4], r) /\ ~Removes(U[5], r)
  BY <1>3, <1>4, <1>13, <1>14 DEF Removes
<1>26. Given(U, 5, t) /\ Given(U, 1, t) /\ Given(U, 5, r)
  BY <1>13, <1>25 DEF Given
<1>27. Gone(U, 5, a) /\ Gone(U, 5, b) /\ Gone(U, 5, c)
  BY <1>14 DEF Gone, Removes
<1>28. Found("up", 6) = Stays \cup (Preceding(6) \cup Minus(U)) /\ Missing("up", 6) = Plus(U)
  BY <1>22 DEF Found, Missing, Replaced, U
<1>29. Eased("up", 6, U)
  <2>1. Unadded(U, 0, t) /\ Unadded(U, 1, r)
    BY <1>13, <1>3 DEF Unadded
  <2>2. Spared(U, 2, a) /\ Spared(U, 3, b) /\ Spared(U, 4, c)
    BY <1>13, <1>14, <1>3, <1>4 DEF Spared, Removes
  <2>3. t \in Missing("up", 6) /\ r \in Missing("up", 6)
    BY <1>20, <1>28
  <2>4. a \in Found("up", 6) /\ b \in Found("up", 6) /\ c \in Found("up", 6)
    BY <1>21, <1>28
  <2> QED  BY <1>13, <1>14, <1>19, <1>26, <2>1, <2>2, <2>3, <2>4 DEF Eased
<1>30. UpPath(6, U)
  <2>1. \A f \in Sure(6) : Given(U, Len(U), f)
    BY <1>10, <1>23, <1>26
  <2>2. \A f \in Minus(Migrations[6].up) : Gone(U, Len(U), f)
    BY <1>10, <1>21, <1>27 DEF U
  <2> QED  BY <1>22, <1>29, <2>1, <2>2 DEF UpPath
<1>31. Gone(D, 5, t) /\ Gone(D, 5, r)
  BY <1>3, <1>17 DEF Gone, Removes
<1>32. /\ ~Removes(D[2], a) /\ ~Removes(D[3], a) /\ ~Removes(D[4], a) /\ ~Removes(D[5], a)
       /\ ~Removes(D[3], b) /\ ~Removes(D[4], b) /\ ~Removes(D[5], b) /\ ~Removes(D[4], c) /\ ~Removes(D[5], c)
  BY <1>3, <1>4, <1>15, <1>16, <1>17 DEF Removes
<1>33. Given(D, 5, a) /\ Given(D, 5, b) /\ Given(D, 5, c)
  BY <1>15, <1>32 DEF Given
<1>34. Found("down", 6) = Stays \cup Sure(6) /\ Missing("down", 6) = Minus(U)
  BY <1>22 DEF Found, Missing, Replaced, U
<1>35. Eased("down", 6, D)
  <2>1. Unadded(D, 0, a) /\ Unadded(D, 1, b) /\ Unadded(D, 2, c)
    BY <1>15, <1>4 DEF Unadded
  <2>2. Spared(D, 0, p) /\ Spared(D, 1, p) /\ Spared(D, 2, p) /\ Spared(D, 3, p) /\ Spared(D, 3, t)
    BY <1>15 DEF Spared, Removes
  <2>3. a \in Missing("down", 6) /\ b \in Missing("down", 6) /\ c \in Missing("down", 6)
    BY <1>21, <1>34
  <2>4. p \in Found("down", 6) /\ t \in Found("down", 6)
    BY <1>6, <1>24, <1>34
  <2> QED  BY <1>15, <1>16, <1>17, <1>19, <2>1, <2>2, <2>3, <2>4 DEF Eased
<1>36. DownPath(6, D)
  <2>1. \A f \in Plus(Migrations[6].up) : Gone(D, Len(D), f)
    BY <1>11, <1>20, <1>31 DEF U
  <2>2. \A f \in Minus(Migrations[6].up) : Given(D, Len(D), f)
    BY <1>11, <1>21, <1>33 DEF U
  <2> QED  BY <1>22, <1>35, <2>1, <2>2 DEF DownPath
<1>37. Plus(Migrations[6].up) \subseteq {t, r} /\ Minus(Migrations[6].up) \subseteq {a, b, c}
  BY <1>20, <1>21 DEF U
<1>38. /\ Plus(Migrations[6].up) \subseteq {T("property_seo"), <<"property_seo", "rows">>}
       /\ Minus(Migrations[6].up) \subseteq {Meta("meta_title"), Meta("meta_description"), Meta("meta_keywords")}
  BY <1>37 DEF t, r, a, b, c
<1>39. /\ \A x \in Paths(Migrations[6].up) : UpPath(6, x)
       /\ \A x \in Paths(Migrations[6].down) : DownPath(6, x)
  BY <1>18, <1>30, <1>36 DEF U, D
<1> QED  BY <1>38, <1>39

-----------------------------------------------------------------------------
(***************************************************************************)
(* Ways through a branch.                                                  *)
(***************************************************************************)

\* x is L with v, and then b, for its statement p.
Along(x, L, p, v, b) ==
  /\ Len(x) = Len(L) + Len(b) /\ DOMAIN x = 1..(Len(L) + Len(b))
  /\ \A i \in 1..(Len(L) + Len(b)) :
       x[i] = IF i < p THEN L[i] ELSE IF i = p THEN v ELSE IF i <= p + Len(b) THEN b[i - p] ELSE L[i - Len(b)]

\* A path through a branch: the statements before the guard, the guard, those of
\* the branch, the rest.
LEMMA AlongSplice ==
  ASSUME NEW X, NEW L \in Seq(X), NEW p \in 1..Len(L), NEW v \in X, NEW b \in Seq(X)
  PROVE  Along(Splice(L, p, <<v>> \o b), L, p, v, b)
<1> DEFINE B == <<v>> \o b
           x == Splice(L, p, B)
<1>1. B \in Seq(X) /\ Len(B) = Len(b) + 1 /\ Len(b) \in Nat /\ Len(L) \in Nat /\ B[1] = v
      /\ \A i \in 1..Len(b) : B[i + 1] = b[i]
  OBVIOUS
<1> HIDE DEF B
<1>2. /\ x \in Seq(X) /\ Len(x) = Len(L) + Len(b)
      /\ \A i \in 1..(Len(L) + Len(b)) :
           x[i] = IF i < p THEN L[i] ELSE IF i < p + Len(B) THEN B[i - p + 1] ELSE L[i - Len(B) + 1]
  <2>1. Len(L) - 1 + Len(B) = Len(L) + Len(b)
    BY <1>1
  <2> DEFINE z(i) == IF i < p THEN L[i] ELSE IF i < p + Len(B) THEN B[i - p + 1] ELSE L[i - Len(B) + 1]
  <2>2. x \in Seq(X) /\ Len(x) = Len(L) - 1 + Len(B) /\ \A i \in 1..(Len(L) - 1 + Len(B)) : x[i] = z(i)
    BY Zenon, <1>1, Splices
  <2> HIDE DEF x, z
  <2>3. x \in Seq(X) /\ Len(x) = Len(L) + Len(b) /\ \A i \in 1..(Len(L) + Len(b)) : x[i] = z(i)
    BY <2>1, <2>2
  <2> QED  BY <2>3 DEF z
<1> HIDE DEF x
<1>3. DOMAIN x = 1..(Len(L) + Len(b))
  BY <1>2
<1>4. ASSUME NEW i \in 1..(Len(L) + Len(b))
      PROVE  x[i] = IF i < p THEN L[i] ELSE IF i = p THEN v ELSE IF i <= p + Len(b) THEN b[i - p] ELSE L[i - Len(b)]
  <2>1. CASE i < p
    BY <1>2, <2>1
  <2>2. CASE i = p
    BY <1>1, <1>2, <2>2
  <2>3. CASE i > p /\ i <= p + Len(b)
    <3>1. i - p \in 1..Len(b) /\ (i - p) + 1 = i - p + 1 /\ i < p + Len(B) /\ ~(i < p) /\ i # p
      BY <1>1, <2>3
    <3>2. B[(i - p) + 1] = b[i - p]
      BY Zenon, <3>1, <1>1
    <3>3. x[i] = B[i - p + 1]
      BY <1>2, <3>1
    <3> QED  BY <3>1, <3>2, <3>3, <2>3
  <2>4. CASE i > p + Len(b)
    <3>1. ~(i < p) /\ i # p /\ ~(i < p + Len(B)) /\ ~(i <= p + Len(b)) /\ i - Len(B) + 1 = i - Len(b)
      BY <1>1, <2>4
    <3>2. x[i] = L[i - Len(B) + 1]
      BY <1>2, <3>1
    <3> QED  BY Zenon, <3>1, <3>2
  <2> QED  BY <1>1, <2>1, <2>2, <2>3, <2>4
<1> QED  BY Zenon, <1>2, <1>3, <1>4 DEF Along, x, B

\* A path of a list with a guard goes through one of its branches.
LEMMA ForkPaths ==
  ASSUME NEW k, NEW L, Listing(L, k), NEW p \in DOMAIN L, IsIf(L[p]), NEW x \in Paths(L)
  PROVE  Along(x, L, p, Yes(L[p]), L[p].yes) \/ Along(x, L, p, No(L[p]), L[p].no)
<1>1. x = Splice(L, p, <<Yes(L[p])>> \o L[p].yes) \/ x = Splice(L, p, <<No(L[p])>> \o L[p].no)
  <2>1. ~Straight(L)
    BY DEF Straight
  <2>2. {q \in DOMAIN L : IsIf(L[q])} = {p}
    BY DEF Listing
  <2> QED  BY Zenon, <2>1, <2>2 DEF Paths
<1>2. Own(L[p].yes, k) /\ Own(L[p].no, k)
  <2>1. L[p] \in ToSet(L)
    BY DEF ToSet
  <2>2. ~OwnOf(L[p], k)
    BY DEF OwnOf, IsIf
  <2> QED  BY <2>1, <2>2 DEF Listing, ForkOf
<1>3. ASSUME NEW v, NEW b, b \in Seq(ToSet(b))
      PROVE  Along(Splice(L, p, <<v>> \o b), L, p, v, b)
  <2> DEFINE X == ToSet(L) \cup {v} \cup ToSet(b)
  <2>1. L \in Seq(ToSet(L)) /\ p \in 1..Len(L)
    BY Elements DEF Listing
  <2>2. ToSet(L) \subseteq X /\ ToSet(b) \subseteq X /\ v \in X
    OBVIOUS
  <2> HIDE DEF X
  <2>3. L \in Seq(X) /\ b \in Seq(X)
    BY <1>3, <2>1, <2>2
  <2> QED  BY <2>1, <2>2, <2>3, AlongSplice
<1> QED  BY <1>1, <1>2, <1>3 DEF Own

\* What a list with a guard adds, what it tests and what its statements are.
LEMMA FactsOfFork ==
  ASSUME NEW k, NEW L, Listing(L, k), NEW p \in DOMAIN L, IsIf(L[p])
  PROVE  /\ \A f \in Plus(L) : \/ \E i \in DOMAIN L : i # p /\ f \in L[i].plus
                               \/ \E s \in ToSet(L[p].yes) \cup ToSet(L[p].no) : f \in s.plus
         /\ UNION {s.minus : s \in {t \in Statements(L) : IsIf(t)}} = L[p].minus
         /\ \A s \in Statements(L) : IsIf(s) \/ (\E i \in DOMAIN L : i # p /\ s = L[i])
                                           \/ s \in ToSet(L[p].yes) \cup ToSet(L[p].no)
<1>1. L[p] \in ToSet(L) /\ \A s : s \in ToSet(L) <=> \E i \in DOMAIN L : L[i] = s
  BY DEF ToSet
<1>2. \A i \in DOMAIN L : i # p => OwnOf(L[i], k)
  <2>1. \A i \in DOMAIN L : i # p => ~IsIf(L[i])
    BY DEF Listing
  <2>2. \A s : ForkOf(s, k) => IsIf(s)
    BY DEF ForkOf
  <2> QED  BY <1>1, <2>1, <2>2 DEF Listing
<1>3. ForkOf(L[p], k)
  <2>1. ~OwnOf(L[p], k)
    BY DEF OwnOf, IsIf
  <2> QED  BY <1>1, <2>1 DEF Listing
<1>4. \A s \in Statements(L) : s \in ToSet(L) \/ s \in ToSet(L[p].yes) \cup ToSet(L[p].no)
  <2>1. \A s : OwnOf(s, k) => ToSet(s.yes) = {} /\ ToSet(s.no) = {}
    BY Sets DEF OwnOf
  <2> QED  BY <1>1, <1>2, <2>1 DEF Statements
<1>5. \A f \in Plus(L) : \/ \E i \in DOMAIN L : i # p /\ f \in L[i].plus
                         \/ \E s \in ToSet(L[p].yes) \cup ToSet(L[p].no) : f \in s.plus
  <2>1. L[p].plus = {}
    BY <1>3 DEF ForkOf
  <2> QED  BY <1>1, <1>4, <2>1 DEF Plus
<1>6. \A s : s \in Statements(L) /\ IsIf(s) <=> s = L[p]
  <2>1. \A s \in Statements(L) : IsIf(s) => s \in ToSet(L)
    BY OfListing
  <2>2. ToSet(L) \subseteq Statements(L)
    BY DEF Statements
  <2>3. \A s \in ToSet(L) : IsIf(s) => s = L[p]
    BY <1>1 DEF Listing
  <2> QED  BY <1>1, <2>1, <2>2, <2>3
<1>7. UNION {s.minus : s \in {t \in Statements(L) : IsIf(t)}} = L[p].minus
  <2>1. {t \in Statements(L) : IsIf(t)} = {L[p]}
    BY <1>6
  <2> QED  BY <2>1
<1>8. \A s \in Statements(L) : IsIf(s) \/ (\E i \in DOMAIN L : i # p /\ s = L[i])
                                   \/ s \in ToSet(L[p].yes) \cup ToSet(L[p].no)
  BY <1>1, <1>4
<1> QED  BY <1>5, <1>7, <1>8

\* What the statements that stand for a passed guard need, forbid, remove and
\* add.
LEMMA GuardFields ==
  ASSUME NEW s
  PROVE  /\ IsIf(Yes(s)) /\ Yes(s).need = s.minus /\ Yes(s).free = {} /\ Yes(s).minus = {}
         /\ Yes(s).plus = s.minus \cup Tables(s.minus)
         /\ IsIf(No(s)) /\ No(s).need = {} /\ No(s).free = s.minus /\ No(s).minus = s.minus /\ No(s).plus = {}
BY DEF Yes, No, Stmt, IsIf

-----------------------------------------------------------------------------
(***************************************************************************)
(* The ways of the migrations with a branch.                               *)
(***************************************************************************)

\* The tables of the configurations and of the redirects are there when
\* migrations 39 and 44 start.
LEMMA Needed ==
  /\ T("seo_configs") \in Preceding(39)
  /\ T("seo_configs") \in Preceding(44)
  /\ T("seo_redirects") \in Preceding(44)
<1> DEFINE a == T("seo_configs")
           b == T("seo_redirects")
<1>1. SeoCommandCenter.up[1] = Put({a}) /\ SeoCommandCenter.up[3] = Put({b}) /\ {1, 3} \subseteq DOMAIN SeoCommandCenter.up
  BY DEF SeoCommandCenter, Both
<1>2. a \in Plus(Migrations[36].up) /\ b \in Plus(Migrations[36].up)
  BY <1>1, OneFact, InPlus, Special
<1>3. Number(a) = 36
  BY DEF Number, T
<1>4. Number(b) = 36
  BY DEF Number, T
<1>5. 36 \in DOMAIN Migrations /\ 36 \notin DecidingNumbers
  BY Kindred DEF DecidingNumbers
<1>6. a \in Sure(36) /\ b \in Sure(36)
  <2> HIDE DEF a, b
  <2> QED  BY <1>2, <1>3, <1>4, <1>5, SureHas
<1>7. Below(36, 39) /\ Below(36, 44)
  BY DEF Below, SeoNumbers
<1> QED  BY <1>5, <1>6, <1>7, PrecedesIsBelow DEF Preceding

\* Migration 5, AddManagedCitiesAndSublocations, keeps the rules on its way up;
\* what it tests.
LEMMA FivePaths ==
  /\ \A x \in Paths(Migrations[5].up) : UpPath(5, x)
  /\ Tests(5) = {LegacyNames}
<1> DEFINE c == T("cities")
           u == T("sublocations")
           l == T("property_locations")
           q == <<"cities", "uq_cities_name_state_country">>
           g == LegacyNames
           b == Coimbatore
           o == OldSublocations
           r == Copied
           s1 == Put({c})
           s3 == Put({l})
           s4 == Put({q})
           y1 == Put({b})
           y2 == Clear({o})
           y3 == Stmt({g}, {}, {u}, {o})
           y4 == Put({u})
           y5 == From({OldSublocations[1]}, Put({r}))
           y6 == Drop({o})
           n1 == Put({u})
           yes == <<y1, y2, y3, y4, y5, y6>>
           no == <<n1>>
           s2 == If({g}, yes, no)
           L == <<s1, s2, s3, s4>>
<1>1. Migrations[5].up = L
  <2>1. Migrations[5] = AddManagedCitiesAndSublocations
    BY Special
  <2>2. AddManagedCitiesAndSublocations.up = L
    BY DEF AddManagedCitiesAndSublocations, Both
  <2> QED  BY <2>1, <2>2
<1>2. T(c[1]) = c /\ T(u[1]) = u /\ T(l[1]) = l /\ T(q[1]) = c /\ T(g[1]) = u /\ T(b[1]) = c /\ T(o[1]) = o /\ T(r[1]) = u
  BY DEF T, Coimbatore, Copied, LegacyNames, OldSublocations
<1>3. /\ c # u
      /\ c # l
      /\ c # q
      /\ c # g
      /\ c # b
      /\ c # o
      /\ c # r
      /\ u # l
      /\ u # q
      /\ u # g
      /\ u # b
      /\ u # o
      /\ u # r
      /\ l # q
      /\ l # g
      /\ l # b
      /\ l # o
      /\ l # r
      /\ q # g
      /\ q # b
      /\ q # o
      /\ q # r
      /\ g # b
      /\ g # o
      /\ g # r
      /\ b # o
      /\ b # r
      /\ o # r
  BY DEF T, Coimbatore, Copied, LegacyNames, OldSublocations
<1>4. b \in Losable /\ r \in Losable
  BY DEF Losable
<1>5. OldSublocations = o /\ OldSublocations[1] = "sublocations_legacy_before_city_mapping"
  BY DEF OldSublocations, T
<1> HIDE DEF c, u, l, q, g, b, o, r
<1>6. IsIf(s1) = FALSE /\ s1.need = {} /\ s1.free = {} /\ s1.minus = {} /\ s1.plus = {c}
  <2>1. s1.need = Tables({c}) /\ s1.free = {} /\ s1.minus = {} /\ s1.plus = {c} /\ s1.yes = <<>> /\ s1.no = <<>>
    BY DEF Put, Stmt
  <2>3. Tables({c}) = {}
    BY <1>2, <1>3, TablesOf
  <2> HIDE DEF s1
  <2> QED  BY <2>1, <2>3 DEF IsIf
<1>7. IsIf(s3) = FALSE /\ s3.need = {} /\ s3.free = {} /\ s3.minus = {} /\ s3.plus = {l}
  <2>1. s3.need = Tables({l}) /\ s3.free = {} /\ s3.minus = {} /\ s3.plus = {l} /\ s3.yes = <<>> /\ s3.no = <<>>
    BY DEF Put, Stmt
  <2>3. Tables({l}) = {}
    BY <1>2, <1>3, TablesOf
  <2> HIDE DEF s3
  <2> QED  BY <2>1, <2>3 DEF IsIf
<1>8. IsIf(s4) = FALSE /\ s4.need = {c} /\ s4.free = {} /\ s4.minus = {} /\ s4.plus = {q}
  <2>1. s4.need = Tables({q}) /\ s4.free = {} /\ s4.minus = {} /\ s4.plus = {q} /\ s4.yes = <<>> /\ s4.no = <<>>
    BY DEF Put, Stmt
  <2>3. Tables({q}) = {c}
    BY <1>2, <1>3, TablesOf
  <2> HIDE DEF s4
  <2> QED  BY Zenon, <2>1, <2>3 DEF IsIf
<1>9. IsIf(y1) = FALSE /\ y1.need = {c} /\ y1.free = {} /\ y1.minus = {} /\ y1.plus = {b}
  <2>1. y1.need = Tables({b}) /\ y1.free = {} /\ y1.minus = {} /\ y1.plus = {b} /\ y1.yes = <<>> /\ y1.no = <<>>
    BY DEF Put, Stmt
  <2>3. Tables({b}) = {c}
    BY <1>2, <1>3, TablesOf
  <2> HIDE DEF y1
  <2> QED  BY Zenon, <2>1, <2>3 DEF IsIf
<1>10. IsIf(y2) = FALSE /\ y2.need = {} /\ y2.free = {} /\ y2.minus = {o} /\ y2.plus = {}
  BY DEF Clear, Stmt, IsIf
<1>11. IsIf(y3) = FALSE /\ y3.need = {g} /\ y3.free = {} /\ y3.minus = {u} /\ y3.plus = {o}
  BY DEF Stmt, IsIf
<1>12. IsIf(y4) = FALSE /\ y4.need = {} /\ y4.free = {} /\ y4.minus = {} /\ y4.plus = {u}
  <2>1. y4.need = Tables({u}) /\ y4.free = {} /\ y4.minus = {} /\ y4.plus = {u} /\ y4.yes = <<>> /\ y4.no = <<>>
    BY DEF Put, Stmt
  <2>3. Tables({u}) = {}
    BY <1>2, <1>3, TablesOf
  <2> HIDE DEF y4
  <2> QED  BY <2>1, <2>3 DEF IsIf
<1>13. IsIf(y5) = FALSE /\ y5.need = {o, u} /\ y5.free = {} /\ y5.minus = {} /\ y5.plus = {r}
  <2>1. /\ y5.need = Tables({r}) \cup {T(t) : t \in {OldSublocations[1]}}
        /\ y5.free = {} /\ y5.minus = {} /\ y5.plus = {r}
        /\ y5.yes = <<>> /\ y5.no = <<>>
    BY FieldsFrom
  <2>2. {T(t) : t \in {OldSublocations[1]}} = {o}
    BY <1>2, <1>5
  <2>3. Tables({r}) = {u}
    BY <1>2, <1>3, TablesOf
  <2> HIDE DEF y5
  <2> QED  BY Zenon, <2>1, <2>2, <2>3 DEF IsIf
<1>14. IsIf(y6) = FALSE /\ y6.need = {o} /\ y6.free = {} /\ y6.minus = {o} /\ y6.plus = {}
  BY DEF Drop, Stmt, IsIf
<1>15. IsIf(n1) = FALSE /\ n1.need = {} /\ n1.free = {} /\ n1.minus = {} /\ n1.plus = {u}
  <2>1. n1.need = Tables({u}) /\ n1.free = {} /\ n1.minus = {} /\ n1.plus = {u} /\ n1.yes = <<>> /\ n1.no = <<>>
    BY DEF Put, Stmt
  <2>3. Tables({u}) = {}
    BY <1>2, <1>3, TablesOf
  <2> HIDE DEF n1
  <2> QED  BY <2>1, <2>3 DEF IsIf
<1> HIDE DEF s1, s3, s4, y1, y2, y3, y4, y5, y6, n1
<1>16. Len(yes) = 6 /\ yes[1] = y1 /\ yes[2] = y2 /\ yes[3] = y3 /\ yes[4] = y4 /\ yes[5] = y5 /\ yes[6] = y6
  BY Tuples, Triples
<1>17. Len(no) = 1 /\ no[1] = n1
  BY Tuples, Triples
<1>18. yes # <<>> \/ no # <<>>
  BY <1>16, <1>17
<1> HIDE DEF yes, no
<1>19. IsIf(s2) /\ s2.minus = {g} /\ s2.yes = yes /\ s2.no = no
  <2>1. s2.minus = {g} /\ s2.yes = yes /\ s2.no = no
    BY Fields
  <2> QED  BY Zenon, <2>1, <1>18 DEF IsIf
<1> HIDE DEF s2
<1>20. Len(L) = 4 /\ DOMAIN L = 1..4 /\ L[1] = s1 /\ L[2] = s2 /\ L[3] = s3 /\ L[4] = s4
  BY Tuples, Triples
<1>21. Listing(L, 5)
  <2>1. 5 \in DOMAIN Migrations
    BY Kindred
  <2> QED  BY <2>1, <1>1, Listings
<1> HIDE DEF L
<1>22. 2 \in DOMAIN L
  BY <1>20
<1>23. Yes(s2).need = {g} /\ Yes(s2).free = {} /\ Yes(s2).minus = {} /\ Yes(s2).plus = {g, u} /\ IsIf(Yes(s2))
  <2>1. Tables({g}) = {u}
    BY <1>2, <1>3, TablesOf
  <2>2. /\ Yes(s2).need = {g} /\ Yes(s2).free = {} /\ Yes(s2).minus = {} /\ IsIf(Yes(s2))
        /\ Yes(s2).plus = {g} \cup Tables({g})
    <3>1. Yes(s2).need = s2.minus /\ Yes(s2).free = {} /\ Yes(s2).minus = {} /\ IsIf(Yes(s2))
      BY GuardFields
    <3>2. Yes(s2).plus = s2.minus \cup Tables(s2.minus)
      BY GuardFields
    <3> QED  BY <3>1, <3>2, <1>19
  <2> QED  BY <2>1, <2>2
<1>24. No(s2).need = {} /\ No(s2).free = {g} /\ No(s2).minus = {g} /\ No(s2).plus = {} /\ IsIf(No(s2))
  BY <1>19, GuardFields
<1>25. \A f \in Lasting[5] : f \in Plus(L) /\ f # OldSublocations /\ (f = Inventory => 5 = 38)
  <2>1. 5 \in DOMAIN Migrations
    BY Kindred
  <2> QED  BY <2>1, <1>1, LastingAre
<1>26. Plus(L) \subseteq {b, c, l, o, q, r, u}
  <2> DEFINE all == {b, c, l, o, q, r, u}
  <2> HIDE DEF all
  <2>1. \A i \in DOMAIN L : i # 2 => L[i].plus \subseteq all
    <3>1. \A i \in DOMAIN L : i = 1 \/ i = 2 \/ i = 3 \/ i = 4
      BY <1>20
    <3>2. L[1].plus \subseteq all
      BY <1>20, <1>6 DEF all
    <3>4. L[3].plus \subseteq all
      BY <1>20, <1>7 DEF all
    <3>5. L[4].plus \subseteq all
      BY <1>20, <1>8 DEF all
    <3> QED  BY <3>1, <3>2, <3>4, <3>5
  <2>2. \A s \in ToSet(yes) : s.plus \subseteq all
    <3>1. \A s \in ToSet(yes) : s = y1 \/ s = y2 \/ s = y3 \/ s = y4 \/ s = y5 \/ s = y6
      <4>1. yes = <<y1, y2, y3, y4, y5, y6>>
        BY DEF yes
      <4>2. \A i \in DOMAIN yes : yes[i] = y1 \/ yes[i] = y2 \/ yes[i] = y3 \/ yes[i] = y4 \/ yes[i] = y5 \/ yes[i] = y6
        BY <4>1
      <4> QED  BY <4>2 DEF ToSet
    <3>2. y1.plus \subseteq all
      BY <1>9 DEF all
    <3>3. y2.plus \subseteq all
      BY <1>10 DEF all
    <3>4. y3.plus \subseteq all
      BY <1>11 DEF all
    <3>5. y4.plus \subseteq all
      BY <1>12 DEF all
    <3>6. y5.plus \subseteq all
      BY <1>13 DEF all
    <3>7. y6.plus \subseteq all
      BY <1>14 DEF all
    <3> QED  BY <3>1, <3>2, <3>3, <3>4, <3>5, <3>6, <3>7
  <2>3. \A s \in ToSet(no) : s.plus \subseteq all
    <3>1. \A s \in ToSet(no) : s = n1
      <4>1. no = <<n1>>
        BY DEF no
      <4>2. \A i \in DOMAIN no : no[i] = n1
        BY <4>1
      <4> QED  BY <4>2 DEF ToSet
    <3>2. n1.plus \subseteq all
      BY <1>15 DEF all
    <3> QED  BY <3>1, <3>2
  <2>4. \A f \in Plus(L) : \/ \E i \in DOMAIN L : i # 2 /\ f \in L[i].plus
                          \/ \E s \in ToSet(yes) \cup ToSet(no) : f \in s.plus
    BY <1>21, <1>22, <1>20, <1>19, FactsOfFork
  <2>5. Plus(L) \subseteq all
    BY <2>1, <2>2, <2>3, <2>4
  <2> QED  BY <2>5 DEF all
<1>27. Lasting[5] \subseteq {b, c, l, q, r, u}
  <2>1. \A f : f = OldSublocations <=> f = o
    BY <1>5
  <2> QED  BY <2>1, <1>25, <1>26
<1>28. Sure(5) \subseteq {c, l, q, u}
  BY <1>27, <1>4 DEF Sure
<1>29. Tests(5) = {g}
  BY <1>1, <1>21, <1>22, <1>20, <1>19, FactsOfFork DEF Tests
<1>30. 5 \notin FragileNumbers /\ 5 \notin Dropping /\ 5 \in DecidingNumbers
  BY DEF FragileNumbers, Dropping, DecidingNumbers
<1>31. ASSUME NEW x, Along(x, L, 2, Yes(s2), yes)
      PROVE  UpPath(5, x)
  <2>1. Len(x) = 10 /\ DOMAIN x = 1..10
    BY <1>31, <1>20, <1>16 DEF Along
  <2>2. x[1] = s1 /\ x[2] = Yes(s2) /\ x[3] = y1 /\ x[4] = y2 /\ x[5] = y3 /\ x[6] = y4 /\ x[7] = y5 /\ x[8] = y6 /\ x[9] = s3 /\ x[10] = s4
    BY <1>31, <1>20, <1>16 DEF Along
  <2>3. \A i \in DOMAIN x : i = 1 \/ i = 2 \/ i = 3 \/ i = 4 \/ i = 5 \/ i = 6 \/ i = 7 \/ i = 8 \/ i = 9 \/ i = 10
    BY <2>1
  <2> HIDE <1>31
  <2>4. x[1].need = {} /\ x[1].free = {} /\ x[1].minus = {} /\ x[1].plus = {c} /\ ~IsIf(x[1])
    BY <2>2, <1>6
  <2>5. x[2].need = {g} /\ x[2].free = {} /\ x[2].minus = {} /\ x[2].plus = {g, u} /\ IsIf(x[2])
    BY <2>2, <1>23
  <2>6. x[3].need = {c} /\ x[3].free = {} /\ x[3].minus = {} /\ x[3].plus = {b} /\ ~IsIf(x[3])
    BY <2>2, <1>9
  <2>7. x[4].need = {} /\ x[4].free = {} /\ x[4].minus = {o} /\ x[4].plus = {} /\ ~IsIf(x[4])
    BY <2>2, <1>10
  <2>8. x[5].need = {g} /\ x[5].free = {} /\ x[5].minus = {u} /\ x[5].plus = {o} /\ ~IsIf(x[5])
    BY <2>2, <1>11
  <2>9. x[6].need = {} /\ x[6].free = {} /\ x[6].minus = {} /\ x[6].plus = {u} /\ ~IsIf(x[6])
    BY <2>2, <1>12
  <2>10. x[7].need = {o, u} /\ x[7].free = {} /\ x[7].minus = {} /\ x[7].plus = {r} /\ ~IsIf(x[7])
    BY <2>2, <1>13
  <2>11. x[8].need = {o} /\ x[8].free = {} /\ x[8].minus = {o} /\ x[8].plus = {} /\ ~IsIf(x[8])
    BY <2>2, <1>14
  <2>12. x[9].need = {} /\ x[9].free = {} /\ x[9].minus = {} /\ x[9].plus = {l} /\ ~IsIf(x[9])
    BY <2>2, <1>7
  <2>13. x[10].need = {c} /\ x[10].free = {} /\ x[10].minus = {} /\ x[10].plus = {q} /\ ~IsIf(x[10])
    BY <2>2, <1>8
  <2>14. Given(x, 4, u)
    BY <1>2, <1>3, <2>5, <2>6, <2>7 DEF Given, Removes
  <2>15. Given(x, 7, o)
    BY <1>2, <1>3, <2>8, <2>9, <2>10 DEF Given, Removes
  <2>16. Guarded(x)
    <3> DEFINE fine(i, j) == IsIf(x[i]) \/
           /\ \A f \in x[i].free : Gone(x, j, f)
           /\ x[i].need # {} => \A f \in x[i].minus : Given(x, j, f)
    <3>1. fine(1, 0)
      BY <2>4
    <3>2. fine(2, 1)
      BY <2>5
    <3>3. fine(3, 2)
      BY <2>6
    <3>4. fine(4, 3)
      BY <2>7
    <3>5. fine(5, 4)
      BY <2>8, <2>14
    <3>6. fine(6, 5)
      BY <2>9
    <3>7. fine(7, 6)
      BY <2>10
    <3>8. fine(8, 7)
      BY <2>11, <2>15
    <3>9. fine(9, 8)
      BY <2>12
    <3>10. fine(10, 9)
      BY <2>13
    <3> HIDE DEF fine
    <3>11. \A i \in DOMAIN x : fine(i, i - 1)
      BY <2>3, <3>1, <3>2, <3>3, <3>4, <3>5, <3>6, <3>7, <3>8, <3>9, <3>10
    <3> QED  BY <3>11 DEF fine, Guarded
  <2>17. Given(x, 2, c)
    BY <1>2, <1>3, <2>4, <2>5 DEF Given, Removes
  <2>18. Given(x, 4, g)
    BY <1>2, <1>3, <2>5, <2>6, <2>7 DEF Given, Removes
  <2>19. Given(x, 6, o)
    BY <1>2, <1>3, <2>8, <2>9 DEF Given, Removes
  <2>20. Given(x, 6, u)
    BY <1>2, <1>3, <2>9 DEF Given, Removes
  <2>21. Given(x, 9, c)
    BY <1>2, <1>3, <2>4, <2>5, <2>6, <2>7, <2>8, <2>9, <2>10, <2>11, <2>12 DEF Given, Removes
  <2>22. Eased("up", 5, x)
    <3> DEFINE fine(i, j) == IsIf(x[i]) \/
           /\ \A f \in x[i].need : Given(x, j, f) \/ (f \in Found("up", 5) /\ Spared(x, j, f))
           /\ \A f \in x[i].free : Gone(x, j, f) \/ (f \in Missing("up", 5) /\ Unadded(x, j, f))
    <3>1. fine(1, 0)
      BY <2>4
    <3>2. fine(2, 1)
      BY <2>5
    <3>3. fine(3, 2)
      BY <2>6, <2>17
    <3>4. fine(4, 3)
      BY <2>7
    <3>5. fine(5, 4)
      BY <2>8, <2>18
    <3>6. fine(6, 5)
      BY <2>9
    <3>7. fine(7, 6)
      BY <2>10, <2>19, <2>20
    <3>8. fine(8, 7)
      BY <2>11, <2>15
    <3>9. fine(9, 8)
      BY <2>12
    <3>10. fine(10, 9)
      BY <2>13, <2>21
    <3> HIDE DEF fine
    <3>11. \A i \in DOMAIN x : fine(i, i - 1)
      BY <2>3, <3>1, <3>2, <3>3, <3>4, <3>5, <3>6, <3>7, <3>8, <3>9, <3>10
    <3> QED  BY <3>11 DEF fine, Eased
  <2>23. Given(x, 10, c)
    BY <1>2, <1>3, <2>4, <2>5, <2>6, <2>7, <2>8, <2>9, <2>10, <2>11, <2>12, <2>13 DEF Given, Removes
  <2>24. Given(x, 10, l)
    BY <1>2, <1>3, <2>12, <2>13 DEF Given, Removes
  <2>25. Given(x, 10, q)
    BY <1>2, <1>3, <2>13 DEF Given, Removes
  <2>26. Given(x, 10, u)
    BY <1>2, <1>3, <2>9, <2>10, <2>11, <2>12, <2>13 DEF Given, Removes
  <2>27. \A f \in Sure(5) : Given(x, 10, f)
    BY <1>28, <2>23, <2>24, <2>25, <2>26
  <2>28. Given(x, 10, b)
    BY <1>2, <1>3, <2>6, <2>7, <2>8, <2>9, <2>10, <2>11, <2>12, <2>13 DEF Given, Removes
  <2>29. Given(x, 10, r)
    BY <1>2, <1>3, <2>10, <2>11, <2>12, <2>13 DEF Given, Removes
  <2>30. \A f \in Lasting[5] : Given(x, 10, f)
    BY <1>27, <2>28, <2>23, <2>24, <2>25, <2>29, <2>26
  <2> QED  BY <2>1, <2>16, <2>22, <2>27, <2>30, <1>30 DEF UpPath
<1>32. ASSUME NEW x, Along(x, L, 2, No(s2), no)
      PROVE  UpPath(5, x)
  <2>1. Len(x) = 5 /\ DOMAIN x = 1..5
    BY <1>32, <1>20, <1>17 DEF Along
  <2>2. x[1] = s1 /\ x[2] = No(s2) /\ x[3] = n1 /\ x[4] = s3 /\ x[5] = s4
    BY <1>32, <1>20, <1>17 DEF Along
  <2>3. \A i \in DOMAIN x : i = 1 \/ i = 2 \/ i = 3 \/ i = 4 \/ i = 5
    BY <2>1
  <2> HIDE <1>32
  <2>4. x[1].need = {} /\ x[1].free = {} /\ x[1].minus = {} /\ x[1].plus = {c} /\ ~IsIf(x[1])
    BY <2>2, <1>6
  <2>5. x[2].need = {} /\ x[2].free = {g} /\ x[2].minus = {g} /\ x[2].plus = {} /\ IsIf(x[2])
    BY <2>2, <1>24
  <2>6. x[3].need = {} /\ x[3].free = {} /\ x[3].minus = {} /\ x[3].plus = {u} /\ ~IsIf(x[3])
    BY <2>2, <1>15
  <2>7. x[4].need = {} /\ x[4].free = {} /\ x[4].minus = {} /\ x[4].plus = {l} /\ ~IsIf(x[4])
    BY <2>2, <1>7
  <2>8. x[5].need = {c} /\ x[5].free = {} /\ x[5].minus = {} /\ x[5].plus = {q} /\ ~IsIf(x[5])
    BY <2>2, <1>8
  <2>9. Guarded(x)
    <3> DEFINE fine(i, j) == IsIf(x[i]) \/
           /\ \A f \in x[i].free : Gone(x, j, f)
           /\ x[i].need # {} => \A f \in x[i].minus : Given(x, j, f)
    <3>1. fine(1, 0)
      BY <2>4
    <3>2. fine(2, 1)
      BY <2>5
    <3>3. fine(3, 2)
      BY <2>6
    <3>4. fine(4, 3)
      BY <2>7
    <3>5. fine(5, 4)
      BY <2>8
    <3> HIDE DEF fine
    <3>6. \A i \in DOMAIN x : fine(i, i - 1)
      BY <2>3, <3>1, <3>2, <3>3, <3>4, <3>5
    <3> QED  BY <3>6 DEF fine, Guarded
  <2>10. Given(x, 4, c)
    BY <1>2, <1>3, <2>4, <2>5, <2>6, <2>7 DEF Given, Removes
  <2>11. Eased("up", 5, x)
    <3> DEFINE fine(i, j) == IsIf(x[i]) \/
           /\ \A f \in x[i].need : Given(x, j, f) \/ (f \in Found("up", 5) /\ Spared(x, j, f))
           /\ \A f \in x[i].free : Gone(x, j, f) \/ (f \in Missing("up", 5) /\ Unadded(x, j, f))
    <3>1. fine(1, 0)
      BY <2>4
    <3>2. fine(2, 1)
      BY <2>5
    <3>3. fine(3, 2)
      BY <2>6
    <3>4. fine(4, 3)
      BY <2>7
    <3>5. fine(5, 4)
      BY <2>8, <2>10
    <3> HIDE DEF fine
    <3>6. \A i \in DOMAIN x : fine(i, i - 1)
      BY <2>3, <3>1, <3>2, <3>3, <3>4, <3>5
    <3> QED  BY <3>6 DEF fine, Eased
  <2>12. Given(x, 5, c)
    BY <1>2, <1>3, <2>4, <2>5, <2>6, <2>7, <2>8 DEF Given, Removes
  <2>13. Given(x, 5, l)
    BY <1>2, <1>3, <2>7, <2>8 DEF Given, Removes
  <2>14. Given(x, 5, q)
    BY <1>2, <1>3, <2>8 DEF Given, Removes
  <2>15. Given(x, 5, u)
    BY <1>2, <1>3, <2>6, <2>7, <2>8 DEF Given, Removes
  <2>16. \A f \in Sure(5) : Given(x, 5, f)
    BY <1>28, <2>12, <2>13, <2>14, <2>15
  <2>17. Barred(5, x)
    <3>1. g \in Base
      BY DEF g, Base
    <3>2. Spared(x, 1, g)
      BY <1>2, <1>3, <2>4 DEF Spared, Removes
    <3>3. 2 \in DOMAIN x /\ 2 - 1 = 1
      BY <2>1
    <3>4. \E f \in Tests(5) : /\ IsIf(x[2])
             /\ \/ f \in x[2].need /\ f \notin Base /\ Unadded(x, 1, f)
                \/ f \in x[2].free /\ f \in Base /\ Spared(x, 1, f)
      BY <3>1, <3>2, <2>5, <1>29
    <3> QED  BY <3>3, <3>4 DEF Barred
  <2> QED  BY <2>1, <2>9, <2>11, <2>16, <2>17, <1>30 DEF UpPath
<1>33. \A x \in Paths(Migrations[5].up) : UpPath(5, x)
  BY <1>1, <1>21, <1>22, <1>20, <1>19, <1>31, <1>32, ForkPaths
<1> QED  BY <1>33, <1>29 DEF g

\* Migration 32, AddProjectEnquiryToLeads, keeps the rules on its way up; what
\* it tests.
LEMMA ThirtyTwoPaths ==
  /\ \A x \in Paths(Migrations[32].up) : UpPath(32, x)
  /\ Tests(32) = {Nullable}
  /\ Nullable \in Plus(Migrations[32].up)
<1> DEFINE t == T("leads")
           c == <<"leads", "project_id">>
           q == <<"leads", "idx_leads_project_id">>
           k == <<"leads", "fk_leads_project">>
           n == Nullable
           p == PropertyKey
           s1 == Put({c})
           s3 == Put({q})
           s4 == Put({k})
           n1 == Clear({p})
           n2 == Put({n})
           n3 == Add({p})
           yes == <<>>
           no == <<n1, n2, n3>>
           s2 == If({n}, yes, no)
           L == <<s1, s2, s3, s4>>
<1>1. Migrations[32].up = L
  <2>1. Migrations[32] = AddProjectEnquiryToLeads
    BY Special
  <2>2. AddProjectEnquiryToLeads.up = L
    BY DEF AddProjectEnquiryToLeads, Both
  <2> QED  BY <2>1, <2>2
<1>2. T(t[1]) = t /\ T(c[1]) = t /\ T(q[1]) = t /\ T(k[1]) = t /\ T(n[1]) = t /\ T(p[1]) = t
  BY DEF T, Nullable, PropertyKey
<1>3. /\ t # c
      /\ t # q
      /\ t # k
      /\ t # n
      /\ t # p
      /\ c # q
      /\ c # k
      /\ c # n
      /\ c # p
      /\ q # k
      /\ q # n
      /\ q # p
      /\ k # n
      /\ k # p
      /\ n # p
  BY DEF T, Nullable, PropertyKey
<1>4. t \in Stays
  BY Tabling
<1>5. p \in Losable
  BY DEF Losable
<1> HIDE DEF t, c, q, k, n, p
<1>6. IsIf(s1) = FALSE /\ s1.need = {t} /\ s1.free = {} /\ s1.minus = {} /\ s1.plus = {c}
  <2>1. s1.need = Tables({c}) /\ s1.free = {} /\ s1.minus = {} /\ s1.plus = {c} /\ s1.yes = <<>> /\ s1.no = <<>>
    BY DEF Put, Stmt
  <2>3. Tables({c}) = {t}
    BY <1>2, <1>3, TablesOf
  <2> HIDE DEF s1
  <2> QED  BY Zenon, <2>1, <2>3 DEF IsIf
<1>7. IsIf(s3) = FALSE /\ s3.need = {t} /\ s3.free = {} /\ s3.minus = {} /\ s3.plus = {q}
  <2>1. s3.need = Tables({q}) /\ s3.free = {} /\ s3.minus = {} /\ s3.plus = {q} /\ s3.yes = <<>> /\ s3.no = <<>>
    BY DEF Put, Stmt
  <2>3. Tables({q}) = {t}
    BY <1>2, <1>3, TablesOf
  <2> HIDE DEF s3
  <2> QED  BY Zenon, <2>1, <2>3 DEF IsIf
<1>8. IsIf(s4) = FALSE /\ s4.need = {t} /\ s4.free = {} /\ s4.minus = {} /\ s4.plus = {k}
  <2>1. s4.need = Tables({k}) /\ s4.free = {} /\ s4.minus = {} /\ s4.plus = {k} /\ s4.yes = <<>> /\ s4.no = <<>>
    BY DEF Put, Stmt
  <2>3. Tables({k}) = {t}
    BY <1>2, <1>3, TablesOf
  <2> HIDE DEF s4
  <2> QED  BY Zenon, <2>1, <2>3 DEF IsIf
<1>9. IsIf(n1) = FALSE /\ n1.need = {} /\ n1.free = {} /\ n1.minus = {p} /\ n1.plus = {}
  BY DEF Clear, Stmt, IsIf
<1>10. IsIf(n2) = FALSE /\ n2.need = {t} /\ n2.free = {} /\ n2.minus = {} /\ n2.plus = {n}
  <2>1. n2.need = Tables({n}) /\ n2.free = {} /\ n2.minus = {} /\ n2.plus = {n} /\ n2.yes = <<>> /\ n2.no = <<>>
    BY DEF Put, Stmt
  <2>3. Tables({n}) = {t}
    BY <1>2, <1>3, TablesOf
  <2> HIDE DEF n2
  <2> QED  BY Zenon, <2>1, <2>3 DEF IsIf
<1>11. IsIf(n3) = FALSE /\ n3.need = {t} /\ n3.free = {p} /\ n3.minus = {} /\ n3.plus = {p}
  <2>1. n3.need = Tables({p}) /\ n3.free = {p} /\ n3.minus = {} /\ n3.plus = {p} /\ n3.yes = <<>> /\ n3.no = <<>>
    BY DEF Add, Stmt
  <2>3. Tables({p}) = {t}
    BY <1>2, <1>3, TablesOf
  <2> HIDE DEF n3
  <2> QED  BY Zenon, <2>1, <2>3 DEF IsIf
<1> HIDE DEF s1, s3, s4, n1, n2, n3
<1>12. Len(yes) = 0
  OBVIOUS
<1>13. Len(no) = 3 /\ no[1] = n1 /\ no[2] = n2 /\ no[3] = n3
  BY Tuples, Triples
<1>14. yes # <<>> \/ no # <<>>
  BY <1>12, <1>13
<1> HIDE DEF yes, no
<1>15. IsIf(s2) /\ s2.minus = {n} /\ s2.yes = yes /\ s2.no = no
  <2>1. s2.minus = {n} /\ s2.yes = yes /\ s2.no = no
    BY Fields
  <2> QED  BY Zenon, <2>1, <1>14 DEF IsIf
<1> HIDE DEF s2
<1>16. Len(L) = 4 /\ DOMAIN L = 1..4 /\ L[1] = s1 /\ L[2] = s2 /\ L[3] = s3 /\ L[4] = s4
  BY Tuples, Triples
<1>17. Listing(L, 32)
  <2>1. 32 \in DOMAIN Migrations
    BY Kindred
  <2> QED  BY <2>1, <1>1, Listings
<1> HIDE DEF L
<1>18. 2 \in DOMAIN L
  BY <1>16
<1>19. Yes(s2).need = {n} /\ Yes(s2).free = {} /\ Yes(s2).minus = {} /\ Yes(s2).plus = {n, t} /\ IsIf(Yes(s2))
  <2>1. Tables({n}) = {t}
    BY <1>2, <1>3, TablesOf
  <2>2. /\ Yes(s2).need = {n} /\ Yes(s2).free = {} /\ Yes(s2).minus = {} /\ IsIf(Yes(s2))
        /\ Yes(s2).plus = {n} \cup Tables({n})
    <3>1. Yes(s2).need = s2.minus /\ Yes(s2).free = {} /\ Yes(s2).minus = {} /\ IsIf(Yes(s2))
      BY GuardFields
    <3>2. Yes(s2).plus = s2.minus \cup Tables(s2.minus)
      BY GuardFields
    <3> QED  BY <3>1, <3>2, <1>15
  <2> QED  BY <2>1, <2>2
<1>20. No(s2).need = {} /\ No(s2).free = {n} /\ No(s2).minus = {n} /\ No(s2).plus = {} /\ IsIf(No(s2))
  BY <1>15, GuardFields
<1>21. \A f \in Lasting[32] : f \in Plus(L) /\ f # OldSublocations /\ (f = Inventory => 32 = 38)
  <2>1. 32 \in DOMAIN Migrations
    BY Kindred
  <2> QED  BY <2>1, <1>1, LastingAre
<1>22. Plus(L) \subseteq {c, q, k, n, p}
  <2> DEFINE all == {c, q, k, n, p}
  <2> HIDE DEF all
  <2>1. \A i \in DOMAIN L : i # 2 => L[i].plus \subseteq all
    <3>1. \A i \in DOMAIN L : i = 1 \/ i = 2 \/ i = 3 \/ i = 4
      BY <1>16
    <3>2. L[1].plus \subseteq all
      BY <1>16, <1>6 DEF all
    <3>4. L[3].plus \subseteq all
      BY <1>16, <1>7 DEF all
    <3>5. L[4].plus \subseteq all
      BY <1>16, <1>8 DEF all
    <3> QED  BY <3>1, <3>2, <3>4, <3>5
  <2>2. \A s \in ToSet(yes) : s.plus \subseteq all
    <3>1. ToSet(yes) = {}
      BY Sets DEF yes
    <3> QED  BY <3>1
  <2>3. \A s \in ToSet(no) : s.plus \subseteq all
    <3>1. \A s \in ToSet(no) : s = n1 \/ s = n2 \/ s = n3
      <4>1. no = <<n1, n2, n3>>
        BY DEF no
      <4>2. \A i \in DOMAIN no : no[i] = n1 \/ no[i] = n2 \/ no[i] = n3
        BY <4>1
      <4> QED  BY <4>2 DEF ToSet
    <3>2. n1.plus \subseteq all
      BY <1>9 DEF all
    <3>3. n2.plus \subseteq all
      BY <1>10 DEF all
    <3>4. n3.plus \subseteq all
      BY <1>11 DEF all
    <3> QED  BY <3>1, <3>2, <3>3, <3>4
  <2>4. \A f \in Plus(L) : \/ \E i \in DOMAIN L : i # 2 /\ f \in L[i].plus
                          \/ \E s \in ToSet(yes) \cup ToSet(no) : f \in s.plus
    BY <1>17, <1>18, <1>16, <1>15, FactsOfFork
  <2>5. Plus(L) \subseteq all
    BY <2>1, <2>2, <2>3, <2>4
  <2> QED  BY <2>5 DEF all
<1>23. Lasting[32] \subseteq {c, q, k, n, p}
  <2>1. TRUE
    OBVIOUS
  <2> QED  BY <2>1, <1>21, <1>22
<1>24. Sure(32) \subseteq {c, q, k, n}
  BY <1>23, <1>5 DEF Sure
<1>25. Tests(32) = {n}
  BY <1>1, <1>17, <1>18, <1>16, <1>15, FactsOfFork DEF Tests
<1>26. 32 \notin FragileNumbers /\ 32 \notin Dropping /\ 32 \in DecidingNumbers
  BY DEF FragileNumbers, Dropping, DecidingNumbers
<1>27. ASSUME NEW x, Along(x, L, 2, Yes(s2), yes)
      PROVE  UpPath(32, x)
  <2>1. Len(x) = 4 /\ DOMAIN x = 1..4
    BY <1>27, <1>16, <1>12 DEF Along
  <2>2. x[1] = s1 /\ x[2] = Yes(s2) /\ x[3] = s3 /\ x[4] = s4
    BY <1>27, <1>16, <1>12 DEF Along
  <2>3. \A i \in DOMAIN x : i = 1 \/ i = 2 \/ i = 3 \/ i = 4
    BY <2>1
  <2> HIDE <1>27
  <2>4. x[1].need = {t} /\ x[1].free = {} /\ x[1].minus = {} /\ x[1].plus = {c} /\ ~IsIf(x[1])
    BY <2>2, <1>6
  <2>5. x[2].need = {n} /\ x[2].free = {} /\ x[2].minus = {} /\ x[2].plus = {n, t} /\ IsIf(x[2])
    BY <2>2, <1>19
  <2>6. x[3].need = {t} /\ x[3].free = {} /\ x[3].minus = {} /\ x[3].plus = {q} /\ ~IsIf(x[3])
    BY <2>2, <1>7
  <2>7. x[4].need = {t} /\ x[4].free = {} /\ x[4].minus = {} /\ x[4].plus = {k} /\ ~IsIf(x[4])
    BY <2>2, <1>8
  <2>8. Guarded(x)
    <3> DEFINE fine(i, j) == IsIf(x[i]) \/
           /\ \A f \in x[i].free : Gone(x, j, f)
           /\ x[i].need # {} => \A f \in x[i].minus : Given(x, j, f)
    <3>1. fine(1, 0)
      BY <2>4
    <3>2. fine(2, 1)
      BY <2>5
    <3>3. fine(3, 2)
      BY <2>6
    <3>4. fine(4, 3)
      BY <2>7
    <3> HIDE DEF fine
    <3>5. \A i \in DOMAIN x : fine(i, i - 1)
      BY <2>3, <3>1, <3>2, <3>3, <3>4
    <3> QED  BY <3>5 DEF fine, Guarded
  <2>9. t \in Found("up", 32) /\ Spared(x, 0, t)
    BY <1>2, <1>3, <1>4 DEF Found, Spared, Removes
  <2>10. Given(x, 2, t)
    BY <1>2, <1>3, <2>5 DEF Given, Removes
  <2>11. Given(x, 3, t)
    BY <1>2, <1>3, <2>5, <2>6 DEF Given, Removes
  <2>12. Eased("up", 32, x)
    <3> DEFINE fine(i, j) == IsIf(x[i]) \/
           /\ \A f \in x[i].need : Given(x, j, f) \/ (f \in Found("up", 32) /\ Spared(x, j, f))
           /\ \A f \in x[i].free : Gone(x, j, f) \/ (f \in Missing("up", 32) /\ Unadded(x, j, f))
    <3>1. fine(1, 0)
      BY <2>4, <2>9
    <3>2. fine(2, 1)
      BY <2>5
    <3>3. fine(3, 2)
      BY <2>6, <2>10
    <3>4. fine(4, 3)
      BY <2>7, <2>11
    <3> HIDE DEF fine
    <3>5. \A i \in DOMAIN x : fine(i, i - 1)
      BY <2>3, <3>1, <3>2, <3>3, <3>4
    <3> QED  BY <3>5 DEF fine, Eased
  <2>13. Given(x, 4, c)
    BY <1>2, <1>3, <2>4, <2>5, <2>6, <2>7 DEF Given, Removes
  <2>14. Given(x, 4, q)
    BY <1>2, <1>3, <2>6, <2>7 DEF Given, Removes
  <2>15. Given(x, 4, k)
    BY <1>2, <1>3, <2>7 DEF Given, Removes
  <2>16. Given(x, 4, n)
    BY <1>2, <1>3, <2>5, <2>6, <2>7 DEF Given, Removes
  <2>17. \A f \in Sure(32) : Given(x, 4, f)
    BY <1>24, <2>13, <2>14, <2>15, <2>16
  <2>18. Barred(32, x)
    <3>1. n \notin Base
      BY DEF n, Base, T, Meta, LegacyNames, Unsafe, Nullable
    <3>2. Unadded(x, 1, n)
      BY <1>3, <2>4 DEF Unadded
    <3>3. 2 \in DOMAIN x /\ 2 - 1 = 1
      BY <2>1
    <3>4. \E f \in Tests(32) : /\ IsIf(x[2])
             /\ \/ f \in x[2].need /\ f \notin Base /\ Unadded(x, 1, f)
                \/ f \in x[2].free /\ f \in Base /\ Spared(x, 1, f)
      BY <3>1, <3>2, <2>5, <1>25
    <3> QED  BY <3>3, <3>4 DEF Barred
  <2> QED  BY <2>1, <2>8, <2>12, <2>17, <2>18, <1>26 DEF UpPath
<1>28. ASSUME NEW x, Along(x, L, 2, No(s2), no)
      PROVE  UpPath(32, x)
  <2>1. Len(x) = 7 /\ DOMAIN x = 1..7
    BY <1>28, <1>16, <1>13 DEF Along
  <2>2. x[1] = s1 /\ x[2] = No(s2) /\ x[3] = n1 /\ x[4] = n2 /\ x[5] = n3 /\ x[6] = s3 /\ x[7] = s4
    BY <1>28, <1>16, <1>13 DEF Along
  <2>3. \A i \in DOMAIN x : i = 1 \/ i = 2 \/ i = 3 \/ i = 4 \/ i = 5 \/ i = 6 \/ i = 7
    BY <2>1
  <2> HIDE <1>28
  <2>4. x[1].need = {t} /\ x[1].free = {} /\ x[1].minus = {} /\ x[1].plus = {c} /\ ~IsIf(x[1])
    BY <2>2, <1>6
  <2>5. x[2].need = {} /\ x[2].free = {n} /\ x[2].minus = {n} /\ x[2].plus = {} /\ IsIf(x[2])
    BY <2>2, <1>20
  <2>6. x[3].need = {} /\ x[3].free = {} /\ x[3].minus = {p} /\ x[3].plus = {} /\ ~IsIf(x[3])
    BY <2>2, <1>9
  <2>7. x[4].need = {t} /\ x[4].free = {} /\ x[4].minus = {} /\ x[4].plus = {n} /\ ~IsIf(x[4])
    BY <2>2, <1>10
  <2>8. x[5].need = {t} /\ x[5].free = {p} /\ x[5].minus = {} /\ x[5].plus = {p} /\ ~IsIf(x[5])
    BY <2>2, <1>11
  <2>9. x[6].need = {t} /\ x[6].free = {} /\ x[6].minus = {} /\ x[6].plus = {q} /\ ~IsIf(x[6])
    BY <2>2, <1>7
  <2>10. x[7].need = {t} /\ x[7].free = {} /\ x[7].minus = {} /\ x[7].plus = {k} /\ ~IsIf(x[7])
    BY <2>2, <1>8
  <2>11. Gone(x, 4, p)
    BY <1>2, <1>3, <2>6, <2>7 DEF Gone, Removes
  <2>12. Guarded(x)
    <3> DEFINE fine(i, j) == IsIf(x[i]) \/
           /\ \A f \in x[i].free : Gone(x, j, f)
           /\ x[i].need # {} => \A f \in x[i].minus : Given(x, j, f)
    <3>1. fine(1, 0)
      BY <2>4
    <3>2. fine(2, 1)
      BY <2>5
    <3>3. fine(3, 2)
      BY <2>6
    <3>4. fine(4, 3)
      BY <2>7
    <3>5. fine(5, 4)
      BY <2>8, <2>11
    <3>6. fine(6, 5)
      BY <2>9
    <3>7. fine(7, 6)
      BY <2>10
    <3> HIDE DEF fine
    <3>8. \A i \in DOMAIN x : fine(i, i - 1)
      BY <2>3, <3>1, <3>2, <3>3, <3>4, <3>5, <3>6, <3>7
    <3> QED  BY <3>8 DEF fine, Guarded
  <2>13. t \in Found("up", 32) /\ Spared(x, 0, t)
    BY <1>2, <1>3, <1>4 DEF Found, Spared, Removes
  <2>14. t \in Found("up", 32) /\ Spared(x, 3, t)
    BY <1>2, <1>3, <1>4, <2>4, <2>5, <2>6 DEF Found, Spared, Removes
  <2>15. t \in Found("up", 32) /\ Spared(x, 4, t)
    BY <1>2, <1>3, <1>4, <2>4, <2>5, <2>6, <2>7 DEF Found, Spared, Removes
  <2>16. t \in Found("up", 32) /\ Spared(x, 5, t)
    BY <1>2, <1>3, <1>4, <2>4, <2>5, <2>6, <2>7, <2>8 DEF Found, Spared, Removes
  <2>17. t \in Found("up", 32) /\ Spared(x, 6, t)
    BY <1>2, <1>3, <1>4, <2>4, <2>5, <2>6, <2>7, <2>8, <2>9 DEF Found, Spared, Removes
  <2>18. Eased("up", 32, x)
    <3> DEFINE fine(i, j) == IsIf(x[i]) \/
           /\ \A f \in x[i].need : Given(x, j, f) \/ (f \in Found("up", 32) /\ Spared(x, j, f))
           /\ \A f \in x[i].free : Gone(x, j, f) \/ (f \in Missing("up", 32) /\ Unadded(x, j, f))
    <3>1. fine(1, 0)
      BY <2>4, <2>13
    <3>2. fine(2, 1)
      BY <2>5
    <3>3. fine(3, 2)
      BY <2>6
    <3>4. fine(4, 3)
      BY <2>7, <2>14
    <3>5. fine(5, 4)
      BY <2>8, <2>11, <2>15
    <3>6. fine(6, 5)
      BY <2>9, <2>16
    <3>7. fine(7, 6)
      BY <2>10, <2>17
    <3> HIDE DEF fine
    <3>8. \A i \in DOMAIN x : fine(i, i - 1)
      BY <2>3, <3>1, <3>2, <3>3, <3>4, <3>5, <3>6, <3>7
    <3> QED  BY <3>8 DEF fine, Eased
  <2>19. Given(x, 7, c)
    BY <1>2, <1>3, <2>4, <2>5, <2>6, <2>7, <2>8, <2>9, <2>10 DEF Given, Removes
  <2>20. Given(x, 7, q)
    BY <1>2, <1>3, <2>9, <2>10 DEF Given, Removes
  <2>21. Given(x, 7, k)
    BY <1>2, <1>3, <2>10 DEF Given, Removes
  <2>22. Given(x, 7, n)
    BY <1>2, <1>3, <2>7, <2>8, <2>9, <2>10 DEF Given, Removes
  <2>23. \A f \in Sure(32) : Given(x, 7, f)
    BY <1>24, <2>19, <2>20, <2>21, <2>22
  <2>24. Given(x, 7, p)
    BY <1>2, <1>3, <2>8, <2>9, <2>10 DEF Given, Removes
  <2>25. \A f \in Lasting[32] : Given(x, 7, f)
    BY <1>23, <2>19, <2>20, <2>21, <2>22, <2>24
  <2> QED  BY <2>1, <2>12, <2>18, <2>23, <2>25, <1>26 DEF UpPath
<1>29. \A x \in Paths(Migrations[32].up) : UpPath(32, x)
  BY <1>1, <1>17, <1>18, <1>16, <1>15, <1>27, <1>28, ForkPaths
<1>30. n \in Plus(Migrations[32].up)
  <2>1. L[2].no[2].plus = {n} /\ 2 \in DOMAIN L[2].no
    <3>1. L[2].no = no /\ no[2].plus = {n}
      BY <1>16, <1>15, <1>13, <1>10
    <3>2. 2 \in DOMAIN no
      BY Tuples, Triples DEF no
    <3> QED  BY <3>1, <3>2
  <2> QED  BY <1>1, <2>1, <1>18, InPlus
<1> QED  BY <1>29, <1>25, <1>30 DEF n

\* Migration 36, SeoCommandCenter, keeps the rules on its way up, and removes
\* nothing.
LEMMA ThirtySixPaths ==
  /\ \A x \in Paths(Migrations[36].up) : UpPath(36, x)
  /\ \A s \in Changes("up", 36) : s.minus = {}
<1> DEFINE p == T("seo_listing_pages")
           v == Inventory
           c == T("seo_configs")
           r == T("seo_redirects")
           a == <<"seo_configs", "sections">>
           b == <<"seo_configs", "listings">>
           d == <<"seo_configs", "metadata">>
           e == <<"seo_configs", "paths of properties and projects">>
           g == <<"seo_configs", "templates, pages and site">>
           s1 == Put({c})
           s3 == Put({r})
           s4 == From({"property_seo", "project_seo"}, Put({a}))
           s5 == From({"listing_page_seo"}, Put({b}))
           s6 == From({"seo_metadata"}, Put({d}))
           s7 == Put({e})
           s8 == Put({g})
           n1 == From({"seo_configs", "cities", "sublocations"}, Add({p, v}))
           yes == <<>>
           no == <<n1>>
           s2 == If({p}, yes, no)
           L == <<s1, s2, s3, s4, s5, s6, s7, s8>>
<1>1. Migrations[36].up = L
  <2>1. Migrations[36] = SeoCommandCenter
    BY Special
  <2>2. SeoCommandCenter.up = L
    BY Zenon DEF SeoCommandCenter, Both
  <2> QED  BY Zenon, <2>1, <2>2
<1>2. T(p[1]) = p /\ T(v[1]) = p /\ T(c[1]) = c /\ T(r[1]) = r /\ T(a[1]) = c /\ T(b[1]) = c /\ T(d[1]) = c /\ T(e[1]) = c /\ T(g[1]) = c
  BY DEF T, Inventory
<1>3. /\ p # v
      /\ p # c
      /\ p # r
      /\ p # a
      /\ p # b
      /\ p # d
      /\ p # e
      /\ p # g
      /\ v # c
      /\ v # r
      /\ v # a
      /\ v # b
      /\ v # d
      /\ v # e
      /\ v # g
      /\ c # r
      /\ c # a
      /\ c # b
      /\ c # d
      /\ c # e
      /\ c # g
      /\ r # a
      /\ r # b
      /\ r # d
      /\ r # e
      /\ r # g
      /\ a # b
      /\ a # d
      /\ a # e
      /\ a # g
      /\ b # d
      /\ b # e
      /\ b # g
      /\ d # e
      /\ d # g
      /\ e # g
  BY DEF T, Inventory
<1> HIDE DEF p, v, c, r, a, b, d, e, g
<1>4. IsIf(s1) = FALSE /\ s1.free = {} /\ s1.minus = {} /\ s1.plus = {c}
  BY DEF Put, Stmt, IsIf
<1>5. IsIf(s3) = FALSE /\ s3.free = {} /\ s3.minus = {} /\ s3.plus = {r}
  BY DEF Put, Stmt, IsIf
<1>6. IsIf(s4) = FALSE /\ s4.free = {} /\ s4.minus = {} /\ s4.plus = {a}
  BY DEF From, Put, Stmt, IsIf
<1>7. IsIf(s5) = FALSE /\ s5.free = {} /\ s5.minus = {} /\ s5.plus = {b}
  BY DEF From, Put, Stmt, IsIf
<1>8. IsIf(s6) = FALSE /\ s6.free = {} /\ s6.minus = {} /\ s6.plus = {d}
  BY DEF From, Put, Stmt, IsIf
<1>9. IsIf(s7) = FALSE /\ s7.free = {} /\ s7.minus = {} /\ s7.plus = {e}
  BY DEF Put, Stmt, IsIf
<1>10. IsIf(s8) = FALSE /\ s8.free = {} /\ s8.minus = {} /\ s8.plus = {g}
  BY DEF Put, Stmt, IsIf
<1>11. IsIf(n1) = FALSE /\ n1.free = {p, v} /\ n1.minus = {} /\ n1.plus = {p, v}
  BY DEF From, Add, Stmt, IsIf
<1> HIDE DEF s1, s3, s4, s5, s6, s7, s8, n1
<1>12. Len(yes) = 0
  OBVIOUS
<1>13. Len(no) = 1 /\ no[1] = n1
  BY Tuples, Triples
<1>14. yes # <<>> \/ no # <<>>
  BY <1>12, <1>13
<1> HIDE DEF yes, no
<1>15. IsIf(s2) /\ s2.minus = {p} /\ s2.yes = yes /\ s2.no = no
  <2>1. s2.minus = {p} /\ s2.yes = yes /\ s2.no = no
    BY Fields
  <2> QED  BY Zenon, <2>1, <1>14 DEF IsIf
<1> HIDE DEF s2
<1>16. Len(L) = 8 /\ DOMAIN L = 1..8 /\ L[1] = s1 /\ L[2] = s2 /\ L[3] = s3 /\ L[4] = s4 /\ L[5] = s5 /\ L[6] = s6 /\ L[7] = s7 /\ L[8] = s8
  BY Tuples, Triples
<1>17. Listing(L, 36)
  <2>1. 36 \in DOMAIN Migrations
    BY Kindred
  <2> QED  BY <2>1, <1>1, Listings
<1> HIDE DEF L
<1>18. 2 \in DOMAIN L
  BY <1>16
<1>19. Yes(s2).need = {p} /\ Yes(s2).free = {} /\ Yes(s2).minus = {} /\ Yes(s2).plus = {p} /\ IsIf(Yes(s2))
  <2>1. Tables({p}) = {}
    BY <1>2, <1>3, TablesOf
  <2>2. /\ Yes(s2).need = {p} /\ Yes(s2).free = {} /\ Yes(s2).minus = {} /\ IsIf(Yes(s2))
        /\ Yes(s2).plus = {p} \cup Tables({p})
    <3>1. Yes(s2).need = s2.minus /\ Yes(s2).free = {} /\ Yes(s2).minus = {} /\ IsIf(Yes(s2))
      BY GuardFields
    <3>2. Yes(s2).plus = s2.minus \cup Tables(s2.minus)
      BY GuardFields
    <3> QED  BY <3>1, <3>2, <1>15
  <2> QED  BY <2>1, <2>2
<1>20. No(s2).need = {} /\ No(s2).free = {p} /\ No(s2).minus = {p} /\ No(s2).plus = {} /\ IsIf(No(s2))
  BY <1>15, GuardFields
<1>21. \A f \in Lasting[36] : f \in Plus(L) /\ f # OldSublocations /\ (f = Inventory => 36 = 38)
  <2>1. 36 \in DOMAIN Migrations
    BY Kindred
  <2> QED  BY <2>1, <1>1, LastingAre
<1>22. Plus(L) \subseteq {a, b, c, d, e, g, p, r, v}
  <2> DEFINE all == {a, b, c, d, e, g, p, r, v}
  <2> HIDE DEF all
  <2>1. \A i \in DOMAIN L : i # 2 => L[i].plus \subseteq all
    <3>1. \A i \in DOMAIN L : i = 1 \/ i = 2 \/ i = 3 \/ i = 4 \/ i = 5 \/ i = 6 \/ i = 7 \/ i = 8
      BY <1>16
    <3>2. L[1].plus \subseteq all
      BY <1>16, <1>4 DEF all
    <3>4. L[3].plus \subseteq all
      BY <1>16, <1>5 DEF all
    <3>5. L[4].plus \subseteq all
      BY <1>16, <1>6 DEF all
    <3>6. L[5].plus \subseteq all
      BY <1>16, <1>7 DEF all
    <3>7. L[6].plus \subseteq all
      BY <1>16, <1>8 DEF all
    <3>8. L[7].plus \subseteq all
      BY <1>16, <1>9 DEF all
    <3>9. L[8].plus \subseteq all
      BY <1>16, <1>10 DEF all
    <3> QED  BY <3>1, <3>2, <3>4, <3>5, <3>6, <3>7, <3>8, <3>9
  <2>2. \A s \in ToSet(yes) : s.plus \subseteq all
    <3>1. ToSet(yes) = {}
      BY Sets DEF yes
    <3> QED  BY <3>1
  <2>3. \A s \in ToSet(no) : s.plus \subseteq all
    <3>1. \A s \in ToSet(no) : s = n1
      <4>1. no = <<n1>>
        BY DEF no
      <4>2. \A i \in DOMAIN no : no[i] = n1
        BY <4>1
      <4> QED  BY <4>2 DEF ToSet
    <3>2. n1.plus \subseteq all
      BY <1>11 DEF all
    <3> QED  BY <3>1, <3>2
  <2>4. \A f \in Plus(L) : \/ \E i \in DOMAIN L : i # 2 /\ f \in L[i].plus
                          \/ \E s \in ToSet(yes) \cup ToSet(no) : f \in s.plus
    BY <1>17, <1>18, <1>16, <1>15, FactsOfFork
  <2>5. Plus(L) \subseteq all
    BY <2>1, <2>2, <2>3, <2>4
  <2> QED  BY <2>5 DEF all
<1>23. Lasting[36] \subseteq {a, b, c, d, e, g, p, r}
  <2>1. TRUE
    OBVIOUS
  <2>2. v = Inventory
    BY DEF v
  <2> QED  BY <2>1, <2>2, <1>21, <1>22
<1>24. Sure(36) \subseteq {a, b, c, d, e, g, p, r}
  BY <1>23 DEF Sure
<1>25. Tests(36) = {p}
  BY <1>1, <1>17, <1>18, <1>16, <1>15, FactsOfFork DEF Tests
<1>26. 36 \notin FragileNumbers /\ 36 \notin Dropping /\ 36 \notin DecidingNumbers
  BY DEF FragileNumbers, Dropping, DecidingNumbers
<1>27. ASSUME NEW x, Along(x, L, 2, Yes(s2), yes)
      PROVE  UpPath(36, x)
  <2>1. Len(x) = 8 /\ DOMAIN x = 1..8
    BY <1>27, <1>16, <1>12 DEF Along
  <2>2. x[1] = s1 /\ x[2] = Yes(s2) /\ x[3] = s3 /\ x[4] = s4 /\ x[5] = s5 /\ x[6] = s6 /\ x[7] = s7 /\ x[8] = s8
    BY <1>27, <1>16, <1>12 DEF Along
  <2>3. \A i \in DOMAIN x : i = 1 \/ i = 2 \/ i = 3 \/ i = 4 \/ i = 5 \/ i = 6 \/ i = 7 \/ i = 8
    BY <2>1
  <2> HIDE <1>27
  <2>4. x[1].free = {} /\ x[1].minus = {} /\ x[1].plus = {c} /\ ~IsIf(x[1])
    BY <2>2, <1>4
  <2>5. x[2].need = {p} /\ x[2].free = {} /\ x[2].minus = {} /\ x[2].plus = {p} /\ IsIf(x[2])
    BY <2>2, <1>19
  <2>6. x[3].free = {} /\ x[3].minus = {} /\ x[3].plus = {r} /\ ~IsIf(x[3])
    BY <2>2, <1>5
  <2>7. x[4].free = {} /\ x[4].minus = {} /\ x[4].plus = {a} /\ ~IsIf(x[4])
    BY <2>2, <1>6
  <2>8. x[5].free = {} /\ x[5].minus = {} /\ x[5].plus = {b} /\ ~IsIf(x[5])
    BY <2>2, <1>7
  <2>9. x[6].free = {} /\ x[6].minus = {} /\ x[6].plus = {d} /\ ~IsIf(x[6])
    BY <2>2, <1>8
  <2>10. x[7].free = {} /\ x[7].minus = {} /\ x[7].plus = {e} /\ ~IsIf(x[7])
    BY <2>2, <1>9
  <2>11. x[8].free = {} /\ x[8].minus = {} /\ x[8].plus = {g} /\ ~IsIf(x[8])
    BY <2>2, <1>10
  <2>12. Guarded(x)
    <3> DEFINE fine(i, j) == IsIf(x[i]) \/
           /\ \A f \in x[i].free : Gone(x, j, f)
           /\ x[i].need # {} => \A f \in x[i].minus : Given(x, j, f)
    <3>1. fine(1, 0)
      BY <2>4
    <3>2. fine(2, 1)
      BY <2>5
    <3>3. fine(3, 2)
      BY <2>6
    <3>4. fine(4, 3)
      BY <2>7
    <3>5. fine(5, 4)
      BY <2>8
    <3>6. fine(6, 5)
      BY <2>9
    <3>7. fine(7, 6)
      BY <2>10
    <3>8. fine(8, 7)
      BY <2>11
    <3> HIDE DEF fine
    <3>9. \A i \in DOMAIN x : fine(i, i - 1)
      BY <2>3, <3>1, <3>2, <3>3, <3>4, <3>5, <3>6, <3>7, <3>8
    <3> QED  BY <3>9 DEF fine, Guarded
  <2>13. Given(x, 8, a)
    BY <1>2, <1>3, <2>7, <2>8, <2>9, <2>10, <2>11 DEF Given, Removes
  <2>14. Given(x, 8, b)
    BY <1>2, <1>3, <2>8, <2>9, <2>10, <2>11 DEF Given, Removes
  <2>15. Given(x, 8, c)
    BY <1>2, <1>3, <2>4, <2>5, <2>6, <2>7, <2>8, <2>9, <2>10, <2>11 DEF Given, Removes
  <2>16. Given(x, 8, d)
    BY <1>2, <1>3, <2>9, <2>10, <2>11 DEF Given, Removes
  <2>17. Given(x, 8, e)
    BY <1>2, <1>3, <2>10, <2>11 DEF Given, Removes
  <2>18. Given(x, 8, g)
    BY <1>2, <1>3, <2>11 DEF Given, Removes
  <2>19. Given(x, 8, p)
    BY <1>2, <1>3, <2>5, <2>6, <2>7, <2>8, <2>9, <2>10, <2>11 DEF Given, Removes
  <2>20. Given(x, 8, r)
    BY <1>2, <1>3, <2>6, <2>7, <2>8, <2>9, <2>10, <2>11 DEF Given, Removes
  <2>21. \A f \in Sure(36) : Given(x, 8, f)
    BY <1>24, <2>13, <2>14, <2>15, <2>16, <2>17, <2>18, <2>19, <2>20
  <2> QED  BY <2>1, <2>12, <2>21, <1>26 DEF UpPath
<1>28. ASSUME NEW x, Along(x, L, 2, No(s2), no)
      PROVE  UpPath(36, x)
  <2>1. Len(x) = 9 /\ DOMAIN x = 1..9
    BY <1>28, <1>16, <1>13 DEF Along
  <2>2. x[1] = s1 /\ x[2] = No(s2) /\ x[3] = n1 /\ x[4] = s3 /\ x[5] = s4 /\ x[6] = s5 /\ x[7] = s6 /\ x[8] = s7 /\ x[9] = s8
    BY <1>28, <1>16, <1>13 DEF Along
  <2>3. \A i \in DOMAIN x : i = 1 \/ i = 2 \/ i = 3 \/ i = 4 \/ i = 5 \/ i = 6 \/ i = 7 \/ i = 8 \/ i = 9
    BY <2>1
  <2> HIDE <1>28
  <2>4. x[1].free = {} /\ x[1].minus = {} /\ x[1].plus = {c} /\ ~IsIf(x[1])
    BY <2>2, <1>4
  <2>5. x[2].need = {} /\ x[2].free = {p} /\ x[2].minus = {p} /\ x[2].plus = {} /\ IsIf(x[2])
    BY <2>2, <1>20
  <2>6. x[3].free = {p, v} /\ x[3].minus = {} /\ x[3].plus = {p, v} /\ ~IsIf(x[3])
    BY <2>2, <1>11
  <2>7. x[4].free = {} /\ x[4].minus = {} /\ x[4].plus = {r} /\ ~IsIf(x[4])
    BY <2>2, <1>5
  <2>8. x[5].free = {} /\ x[5].minus = {} /\ x[5].plus = {a} /\ ~IsIf(x[5])
    BY <2>2, <1>6
  <2>9. x[6].free = {} /\ x[6].minus = {} /\ x[6].plus = {b} /\ ~IsIf(x[6])
    BY <2>2, <1>7
  <2>10. x[7].free = {} /\ x[7].minus = {} /\ x[7].plus = {d} /\ ~IsIf(x[7])
    BY <2>2, <1>8
  <2>11. x[8].free = {} /\ x[8].minus = {} /\ x[8].plus = {e} /\ ~IsIf(x[8])
    BY <2>2, <1>9
  <2>12. x[9].free = {} /\ x[9].minus = {} /\ x[9].plus = {g} /\ ~IsIf(x[9])
    BY <2>2, <1>10
  <2>13. Gone(x, 2, p)
    BY <1>2, <1>3, <2>5 DEF Gone, Removes
  <2>14. Gone(x, 2, v)
    BY <1>2, <1>3, <2>5 DEF Gone, Removes
  <2>15. Guarded(x)
    <3> DEFINE fine(i, j) == IsIf(x[i]) \/
           /\ \A f \in x[i].free : Gone(x, j, f)
           /\ x[i].need # {} => \A f \in x[i].minus : Given(x, j, f)
    <3>1. fine(1, 0)
      BY <2>4
    <3>2. fine(2, 1)
      BY <2>5
    <3>3. fine(3, 2)
      BY <2>6, <2>13, <2>14
    <3>4. fine(4, 3)
      BY <2>7
    <3>5. fine(5, 4)
      BY <2>8
    <3>6. fine(6, 5)
      BY <2>9
    <3>7. fine(7, 6)
      BY <2>10
    <3>8. fine(8, 7)
      BY <2>11
    <3>9. fine(9, 8)
      BY <2>12
    <3> HIDE DEF fine
    <3>10. \A i \in DOMAIN x : fine(i, i - 1)
      BY <2>3, <3>1, <3>2, <3>3, <3>4, <3>5, <3>6, <3>7, <3>8, <3>9
    <3> QED  BY <3>10 DEF fine, Guarded
  <2>16. Given(x, 9, a)
    BY <1>2, <1>3, <2>8, <2>9, <2>10, <2>11, <2>12 DEF Given, Removes
  <2>17. Given(x, 9, b)
    BY <1>2, <1>3, <2>9, <2>10, <2>11, <2>12 DEF Given, Removes
  <2>18. Given(x, 9, c)
    BY <1>2, <1>3, <2>4, <2>5, <2>6, <2>7, <2>8, <2>9, <2>10, <2>11, <2>12 DEF Given, Removes
  <2>19. Given(x, 9, d)
    BY <1>2, <1>3, <2>10, <2>11, <2>12 DEF Given, Removes
  <2>20. Given(x, 9, e)
    BY <1>2, <1>3, <2>11, <2>12 DEF Given, Removes
  <2>21. Given(x, 9, g)
    BY <1>2, <1>3, <2>12 DEF Given, Removes
  <2>22. Given(x, 9, p)
    BY <1>2, <1>3, <2>6, <2>7, <2>8, <2>9, <2>10, <2>11, <2>12 DEF Given, Removes
  <2>23. Given(x, 9, r)
    BY <1>2, <1>3, <2>7, <2>8, <2>9, <2>10, <2>11, <2>12 DEF Given, Removes
  <2>24. \A f \in Sure(36) : Given(x, 9, f)
    BY <1>24, <2>16, <2>17, <2>18, <2>19, <2>20, <2>21, <2>22, <2>23
  <2> QED  BY <2>1, <2>15, <2>24, <1>26 DEF UpPath
<1>29. \A x \in Paths(Migrations[36].up) : UpPath(36, x)
  BY <1>1, <1>17, <1>18, <1>16, <1>15, <1>27, <1>28, ForkPaths
<1>30. \A s \in Changes("up", 36) : s.minus = {}
  <2>1. \A s \in Changes("up", 36) : s \in Statements(L) /\ ~IsIf(s)
    BY <1>1 DEF Changes, Body
  <2>2. \A s \in ToSet(yes) \cup ToSet(no) : s = n1
    BY Sets DEF yes, no
  <2>3. \A i \in DOMAIN L : i # 2 => L[i].minus = {}
    BY <1>16, <1>4, <1>5, <1>6, <1>7, <1>8, <1>9, <1>10
  <2> QED  BY <2>1, <2>2, <2>3, <1>17, <1>18, <1>16, <1>15, <1>11, FactsOfFork
<1> QED  BY <1>29, <1>30

\* Migration 37, SeoSaleRentTemplates, keeps the rules on its way up.
LEMMA ThirtySevenPaths == \A x \in Paths(Migrations[37].up) : UpPath(37, x)
<1> DEFINE v == Inventory
           p == T("seo_listing_pages")
           t == T("seo_redirects")
           c == T("seo_configs")
           r == <<"seo_redirects", "of merged rules">>
           m == <<"seo_listing_pages", "merged rules">>
           e == <<"seo_listing_pages", "buy, rent">>
           d == <<"seo_configs", "sale and rent">>
           s1 == Put({r})
           s2 == Put({m})
           s4 == Put({e})
           s5 == Add({v})
           s6 == Put({d})
           y1 == Drop({v})
           yes == <<y1>>
           no == <<>>
           s3 == If({v}, yes, no)
           L == <<s1, s2, s3, s4, s5, s6>>
<1>1. Migrations[37].up = L
  <2>1. Migrations[37] = SeoSaleRentTemplates
    BY Special
  <2>2. SeoSaleRentTemplates.up = L
    BY Zenon DEF SeoSaleRentTemplates, Both, DropCheck
  <2> QED  BY Zenon, <2>1, <2>2
<1>2. T(v[1]) = p /\ T(p[1]) = p /\ T(t[1]) = t /\ T(c[1]) = c /\ T(r[1]) = t /\ T(m[1]) = p /\ T(e[1]) = p /\ T(d[1]) = c
  BY DEF T, Inventory
<1>3. /\ v # p
      /\ v # t
      /\ v # c
      /\ v # r
      /\ v # m
      /\ v # e
      /\ v # d
      /\ p # t
      /\ p # c
      /\ p # r
      /\ p # m
      /\ p # e
      /\ p # d
      /\ t # c
      /\ t # r
      /\ t # m
      /\ t # e
      /\ t # d
      /\ c # r
      /\ c # m
      /\ c # e
      /\ c # d
      /\ r # m
      /\ r # e
      /\ r # d
      /\ m # e
      /\ m # d
      /\ e # d
  BY DEF T, Inventory
<1> HIDE DEF v, p, t, c, r, m, e, d
<1>4. IsIf(s1) = FALSE /\ s1.free = {} /\ s1.minus = {} /\ s1.plus = {r}
  BY DEF Put, Stmt, IsIf
<1>5. IsIf(s2) = FALSE /\ s2.free = {} /\ s2.minus = {} /\ s2.plus = {m}
  BY DEF Put, Stmt, IsIf
<1>6. IsIf(s4) = FALSE /\ s4.free = {} /\ s4.minus = {} /\ s4.plus = {e}
  BY DEF Put, Stmt, IsIf
<1>7. IsIf(s5) = FALSE /\ s5.free = {v} /\ s5.minus = {} /\ s5.plus = {v}
  BY DEF Add, Stmt, IsIf
<1>8. IsIf(s6) = FALSE /\ s6.free = {} /\ s6.minus = {} /\ s6.plus = {d}
  BY DEF Put, Stmt, IsIf
<1>9. IsIf(y1) = FALSE /\ y1.need = {v} /\ y1.free = {} /\ y1.minus = {v} /\ y1.plus = {}
  BY DEF Drop, Stmt, IsIf
<1> HIDE DEF s1, s2, s4, s5, s6, y1
<1>10. Len(yes) = 1 /\ yes[1] = y1
  BY Tuples, Triples
<1>11. Len(no) = 0
  OBVIOUS
<1>12. yes # <<>> \/ no # <<>>
  BY <1>10, <1>11
<1> HIDE DEF yes, no
<1>13. IsIf(s3) /\ s3.minus = {v} /\ s3.yes = yes /\ s3.no = no
  <2>1. s3.minus = {v} /\ s3.yes = yes /\ s3.no = no
    BY Fields
  <2> QED  BY Zenon, <2>1, <1>12 DEF IsIf
<1> HIDE DEF s3
<1>14. Len(L) = 6 /\ DOMAIN L = 1..6 /\ L[1] = s1 /\ L[2] = s2 /\ L[3] = s3 /\ L[4] = s4 /\ L[5] = s5 /\ L[6] = s6
  BY Tuples, Triples
<1>15. Listing(L, 37)
  <2>1. 37 \in DOMAIN Migrations
    BY Kindred
  <2> QED  BY <2>1, <1>1, Listings
<1> HIDE DEF L
<1>16. 3 \in DOMAIN L
  BY <1>14
<1>17. Yes(s3).need = {v} /\ Yes(s3).free = {} /\ Yes(s3).minus = {} /\ Yes(s3).plus = {p, v} /\ IsIf(Yes(s3))
  <2>1. Tables({v}) = {p}
    BY <1>2, <1>3, TablesOf
  <2>2. /\ Yes(s3).need = {v} /\ Yes(s3).free = {} /\ Yes(s3).minus = {} /\ IsIf(Yes(s3))
        /\ Yes(s3).plus = {v} \cup Tables({v})
    <3>1. Yes(s3).need = s3.minus /\ Yes(s3).free = {} /\ Yes(s3).minus = {} /\ IsIf(Yes(s3))
      BY GuardFields
    <3>2. Yes(s3).plus = s3.minus \cup Tables(s3.minus)
      BY GuardFields
    <3> QED  BY <3>1, <3>2, <1>13
  <2> QED  BY <2>1, <2>2
<1>18. No(s3).need = {} /\ No(s3).free = {v} /\ No(s3).minus = {v} /\ No(s3).plus = {} /\ IsIf(No(s3))
  BY <1>13, GuardFields
<1>19. \A f \in Lasting[37] : f \in Plus(L) /\ f # OldSublocations /\ (f = Inventory => 37 = 38)
  <2>1. 37 \in DOMAIN Migrations
    BY Kindred
  <2> QED  BY <2>1, <1>1, LastingAre
<1>20. Plus(L) \subseteq {d, e, m, r, v}
  <2> DEFINE all == {d, e, m, r, v}
  <2> HIDE DEF all
  <2>1. \A i \in DOMAIN L : i # 3 => L[i].plus \subseteq all
    <3>1. \A i \in DOMAIN L : i = 1 \/ i = 2 \/ i = 3 \/ i = 4 \/ i = 5 \/ i = 6
      BY <1>14
    <3>2. L[1].plus \subseteq all
      BY <1>14, <1>4 DEF all
    <3>3. L[2].plus \subseteq all
      BY <1>14, <1>5 DEF all
    <3>5. L[4].plus \subseteq all
      BY <1>14, <1>6 DEF all
    <3>6. L[5].plus \subseteq all
      BY <1>14, <1>7 DEF all
    <3>7. L[6].plus \subseteq all
      BY <1>14, <1>8 DEF all
    <3> QED  BY <3>1, <3>2, <3>3, <3>5, <3>6, <3>7
  <2>2. \A s \in ToSet(yes) : s.plus \subseteq all
    <3>1. \A s \in ToSet(yes) : s = y1
      <4>1. yes = <<y1>>
        BY DEF yes
      <4>2. \A i \in DOMAIN yes : yes[i] = y1
        BY <4>1
      <4> QED  BY <4>2 DEF ToSet
    <3>2. y1.plus \subseteq all
      BY <1>9 DEF all
    <3> QED  BY <3>1, <3>2
  <2>3. \A s \in ToSet(no) : s.plus \subseteq all
    <3>1. ToSet(no) = {}
      BY Sets DEF no
    <3> QED  BY <3>1
  <2>4. \A f \in Plus(L) : \/ \E i \in DOMAIN L : i # 3 /\ f \in L[i].plus
                          \/ \E s \in ToSet(yes) \cup ToSet(no) : f \in s.plus
    BY <1>15, <1>16, <1>14, <1>13, FactsOfFork
  <2>5. Plus(L) \subseteq all
    BY <2>1, <2>2, <2>3, <2>4
  <2> QED  BY <2>5 DEF all
<1>21. Lasting[37] \subseteq {d, e, m, r}
  <2>1. TRUE
    OBVIOUS
  <2>2. v = Inventory
    BY DEF v
  <2> QED  BY <2>1, <2>2, <1>19, <1>20
<1>22. Sure(37) \subseteq {d, e, m, r}
  BY <1>21 DEF Sure
<1>23. Tests(37) = {v}
  BY <1>1, <1>15, <1>16, <1>14, <1>13, FactsOfFork DEF Tests
<1>24. 37 \notin FragileNumbers /\ 37 \notin Dropping /\ 37 \notin DecidingNumbers
  BY DEF FragileNumbers, Dropping, DecidingNumbers
<1>25. ASSUME NEW x, Along(x, L, 3, Yes(s3), yes)
      PROVE  UpPath(37, x)
  <2>1. Len(x) = 7 /\ DOMAIN x = 1..7
    BY <1>25, <1>14, <1>10 DEF Along
  <2>2. x[1] = s1 /\ x[2] = s2 /\ x[3] = Yes(s3) /\ x[4] = y1 /\ x[5] = s4 /\ x[6] = s5 /\ x[7] = s6
    BY <1>25, <1>14, <1>10 DEF Along
  <2>3. \A i \in DOMAIN x : i = 1 \/ i = 2 \/ i = 3 \/ i = 4 \/ i = 5 \/ i = 6 \/ i = 7
    BY <2>1
  <2> HIDE <1>25
  <2>4. x[1].free = {} /\ x[1].minus = {} /\ x[1].plus = {r} /\ ~IsIf(x[1])
    BY <2>2, <1>4
  <2>5. x[2].free = {} /\ x[2].minus = {} /\ x[2].plus = {m} /\ ~IsIf(x[2])
    BY <2>2, <1>5
  <2>6. x[3].need = {v} /\ x[3].free = {} /\ x[3].minus = {} /\ x[3].plus = {p, v} /\ IsIf(x[3])
    BY <2>2, <1>17
  <2>7. x[4].need = {v} /\ x[4].free = {} /\ x[4].minus = {v} /\ x[4].plus = {} /\ ~IsIf(x[4])
    BY <2>2, <1>9
  <2>8. x[5].free = {} /\ x[5].minus = {} /\ x[5].plus = {e} /\ ~IsIf(x[5])
    BY <2>2, <1>6
  <2>9. x[6].free = {v} /\ x[6].minus = {} /\ x[6].plus = {v} /\ ~IsIf(x[6])
    BY <2>2, <1>7
  <2>10. x[7].free = {} /\ x[7].minus = {} /\ x[7].plus = {d} /\ ~IsIf(x[7])
    BY <2>2, <1>8
  <2>11. Given(x, 3, v)
    BY <1>2, <1>3, <2>6 DEF Given, Removes
  <2>12. Gone(x, 5, v)
    BY <1>2, <1>3, <2>7, <2>8 DEF Gone, Removes
  <2>13. Guarded(x)
    <3> DEFINE fine(i, j) == IsIf(x[i]) \/
           /\ \A f \in x[i].free : Gone(x, j, f)
           /\ x[i].need # {} => \A f \in x[i].minus : Given(x, j, f)
    <3>1. fine(1, 0)
      BY <2>4
    <3>2. fine(2, 1)
      BY <2>5
    <3>3. fine(3, 2)
      BY <2>6
    <3>4. fine(4, 3)
      BY <2>7, <2>11
    <3>5. fine(5, 4)
      BY <2>8
    <3>6. fine(6, 5)
      BY <2>9, <2>12
    <3>7. fine(7, 6)
      BY <2>10
    <3> HIDE DEF fine
    <3>8. \A i \in DOMAIN x : fine(i, i - 1)
      BY <2>3, <3>1, <3>2, <3>3, <3>4, <3>5, <3>6, <3>7
    <3> QED  BY <3>8 DEF fine, Guarded
  <2>14. Given(x, 7, d)
    BY <1>2, <1>3, <2>10 DEF Given, Removes
  <2>15. Given(x, 7, e)
    BY <1>2, <1>3, <2>8, <2>9, <2>10 DEF Given, Removes
  <2>16. Given(x, 7, m)
    BY <1>2, <1>3, <2>5, <2>6, <2>7, <2>8, <2>9, <2>10 DEF Given, Removes
  <2>17. Given(x, 7, r)
    BY <1>2, <1>3, <2>4, <2>5, <2>6, <2>7, <2>8, <2>9, <2>10 DEF Given, Removes
  <2>18. \A f \in Sure(37) : Given(x, 7, f)
    BY <1>22, <2>14, <2>15, <2>16, <2>17
  <2> QED  BY <2>1, <2>13, <2>18, <1>24 DEF UpPath
<1>26. ASSUME NEW x, Along(x, L, 3, No(s3), no)
      PROVE  UpPath(37, x)
  <2>1. Len(x) = 6 /\ DOMAIN x = 1..6
    BY <1>26, <1>14, <1>11 DEF Along
  <2>2. x[1] = s1 /\ x[2] = s2 /\ x[3] = No(s3) /\ x[4] = s4 /\ x[5] = s5 /\ x[6] = s6
    BY <1>26, <1>14, <1>11 DEF Along
  <2>3. \A i \in DOMAIN x : i = 1 \/ i = 2 \/ i = 3 \/ i = 4 \/ i = 5 \/ i = 6
    BY <2>1
  <2> HIDE <1>26
  <2>4. x[1].free = {} /\ x[1].minus = {} /\ x[1].plus = {r} /\ ~IsIf(x[1])
    BY <2>2, <1>4
  <2>5. x[2].free = {} /\ x[2].minus = {} /\ x[2].plus = {m} /\ ~IsIf(x[2])
    BY <2>2, <1>5
  <2>6. x[3].need = {} /\ x[3].free = {v} /\ x[3].minus = {v} /\ x[3].plus = {} /\ IsIf(x[3])
    BY <2>2, <1>18
  <2>7. x[4].free = {} /\ x[4].minus = {} /\ x[4].plus = {e} /\ ~IsIf(x[4])
    BY <2>2, <1>6
  <2>8. x[5].free = {v} /\ x[5].minus = {} /\ x[5].plus = {v} /\ ~IsIf(x[5])
    BY <2>2, <1>7
  <2>9. x[6].free = {} /\ x[6].minus = {} /\ x[6].plus = {d} /\ ~IsIf(x[6])
    BY <2>2, <1>8
  <2>10. Gone(x, 4, v)
    BY <1>2, <1>3, <2>6, <2>7 DEF Gone, Removes
  <2>11. Guarded(x)
    <3> DEFINE fine(i, j) == IsIf(x[i]) \/
           /\ \A f \in x[i].free : Gone(x, j, f)
           /\ x[i].need # {} => \A f \in x[i].minus : Given(x, j, f)
    <3>1. fine(1, 0)
      BY <2>4
    <3>2. fine(2, 1)
      BY <2>5
    <3>3. fine(3, 2)
      BY <2>6
    <3>4. fine(4, 3)
      BY <2>7
    <3>5. fine(5, 4)
      BY <2>8, <2>10
    <3>6. fine(6, 5)
      BY <2>9
    <3> HIDE DEF fine
    <3>7. \A i \in DOMAIN x : fine(i, i - 1)
      BY <2>3, <3>1, <3>2, <3>3, <3>4, <3>5, <3>6
    <3> QED  BY <3>7 DEF fine, Guarded
  <2>12. Given(x, 6, d)
    BY <1>2, <1>3, <2>9 DEF Given, Removes
  <2>13. Given(x, 6, e)
    BY <1>2, <1>3, <2>7, <2>8, <2>9 DEF Given, Removes
  <2>14. Given(x, 6, m)
    BY <1>2, <1>3, <2>5, <2>6, <2>7, <2>8, <2>9 DEF Given, Removes
  <2>15. Given(x, 6, r)
    BY <1>2, <1>3, <2>4, <2>5, <2>6, <2>7, <2>8, <2>9 DEF Given, Removes
  <2>16. \A f \in Sure(37) : Given(x, 6, f)
    BY <1>22, <2>12, <2>13, <2>14, <2>15
  <2> QED  BY <2>1, <2>11, <2>16, <1>24 DEF UpPath
<1>27. \A x \in Paths(Migrations[37].up) : UpPath(37, x)
  BY <1>1, <1>15, <1>16, <1>14, <1>13, <1>25, <1>26, ForkPaths
<1> QED  BY <1>27

\* Migration 38, SeoFieldProvisioning, keeps the rules on its way up.
LEMMA ThirtyEightPaths == \A x \in Paths(Migrations[38].up) : UpPath(38, x)
<1> DEFINE v == Inventory
           p == T("seo_listing_pages")
           c == T("seo_configs")
           m == <<"seo_listing_pages", "show_live_market_snapshot">>
           d == <<"seo_configs", "default sections">>
           e == <<"seo_configs", "nri-services">>
           s1 == Put({m})
           s3 == Add({v})
           s4 == Put({d})
           s5 == Put({e})
           y1 == Drop({v})
           yes == <<y1>>
           no == <<>>
           s2 == If({v}, yes, no)
           L == <<s1, s2, s3, s4, s5>>
<1>1. Migrations[38].up = L
  <2>1. Migrations[38] = SeoFieldProvisioning
    BY Special
  <2>2. SeoFieldProvisioning.up = L
    BY Zenon DEF SeoFieldProvisioning, Both, DropCheck
  <2> QED  BY Zenon, <2>1, <2>2
<1>2. T(v[1]) = p /\ T(p[1]) = p /\ T(c[1]) = c /\ T(m[1]) = p /\ T(d[1]) = c /\ T(e[1]) = c
  BY DEF T, Inventory
<1>3. /\ v # p
      /\ v # c
      /\ v # m
      /\ v # d
      /\ v # e
      /\ p # c
      /\ p # m
      /\ p # d
      /\ p # e
      /\ c # m
      /\ c # d
      /\ c # e
      /\ m # d
      /\ m # e
      /\ d # e
  BY DEF T, Inventory
<1> HIDE DEF v, p, c, m, d, e
<1>4. IsIf(s1) = FALSE /\ s1.free = {} /\ s1.minus = {} /\ s1.plus = {m}
  BY DEF Put, Stmt, IsIf
<1>5. IsIf(s3) = FALSE /\ s3.free = {v} /\ s3.minus = {} /\ s3.plus = {v}
  BY DEF Add, Stmt, IsIf
<1>6. IsIf(s4) = FALSE /\ s4.free = {} /\ s4.minus = {} /\ s4.plus = {d}
  BY DEF Put, Stmt, IsIf
<1>7. IsIf(s5) = FALSE /\ s5.free = {} /\ s5.minus = {} /\ s5.plus = {e}
  BY DEF Put, Stmt, IsIf
<1>8. IsIf(y1) = FALSE /\ y1.need = {v} /\ y1.free = {} /\ y1.minus = {v} /\ y1.plus = {}
  BY DEF Drop, Stmt, IsIf
<1> HIDE DEF s1, s3, s4, s5, y1
<1>9. Len(yes) = 1 /\ yes[1] = y1
  BY Tuples, Triples
<1>10. Len(no) = 0
  OBVIOUS
<1>11. yes # <<>> \/ no # <<>>
  BY <1>9, <1>10
<1> HIDE DEF yes, no
<1>12. IsIf(s2) /\ s2.minus = {v} /\ s2.yes = yes /\ s2.no = no
  <2>1. s2.minus = {v} /\ s2.yes = yes /\ s2.no = no
    BY Fields
  <2> QED  BY Zenon, <2>1, <1>11 DEF IsIf
<1> HIDE DEF s2
<1>13. Len(L) = 5 /\ DOMAIN L = 1..5 /\ L[1] = s1 /\ L[2] = s2 /\ L[3] = s3 /\ L[4] = s4 /\ L[5] = s5
  BY Tuples, Triples
<1>14. Listing(L, 38)
  <2>1. 38 \in DOMAIN Migrations
    BY Kindred
  <2> QED  BY <2>1, <1>1, Listings
<1> HIDE DEF L
<1>15. 2 \in DOMAIN L
  BY <1>13
<1>16. Yes(s2).need = {v} /\ Yes(s2).free = {} /\ Yes(s2).minus = {} /\ Yes(s2).plus = {p, v} /\ IsIf(Yes(s2))
  <2>1. Tables({v}) = {p}
    BY <1>2, <1>3, TablesOf
  <2>2. /\ Yes(s2).need = {v} /\ Yes(s2).free = {} /\ Yes(s2).minus = {} /\ IsIf(Yes(s2))
        /\ Yes(s2).plus = {v} \cup Tables({v})
    <3>1. Yes(s2).need = s2.minus /\ Yes(s2).free = {} /\ Yes(s2).minus = {} /\ IsIf(Yes(s2))
      BY GuardFields
    <3>2. Yes(s2).plus = s2.minus \cup Tables(s2.minus)
      BY GuardFields
    <3> QED  BY <3>1, <3>2, <1>12
  <2> QED  BY <2>1, <2>2
<1>17. No(s2).need = {} /\ No(s2).free = {v} /\ No(s2).minus = {v} /\ No(s2).plus = {} /\ IsIf(No(s2))
  BY <1>12, GuardFields
<1>18. \A f \in Lasting[38] : f \in Plus(L) /\ f # OldSublocations /\ (f = Inventory => 38 = 38)
  <2>1. 38 \in DOMAIN Migrations
    BY Kindred
  <2> QED  BY <2>1, <1>1, LastingAre
<1>19. Plus(L) \subseteq {d, e, m, v}
  <2> DEFINE all == {d, e, m, v}
  <2> HIDE DEF all
  <2>1. \A i \in DOMAIN L : i # 2 => L[i].plus \subseteq all
    <3>1. \A i \in DOMAIN L : i = 1 \/ i = 2 \/ i = 3 \/ i = 4 \/ i = 5
      BY <1>13
    <3>2. L[1].plus \subseteq all
      BY <1>13, <1>4 DEF all
    <3>4. L[3].plus \subseteq all
      BY <1>13, <1>5 DEF all
    <3>5. L[4].plus \subseteq all
      BY <1>13, <1>6 DEF all
    <3>6. L[5].plus \subseteq all
      BY <1>13, <1>7 DEF all
    <3> QED  BY <3>1, <3>2, <3>4, <3>5, <3>6
  <2>2. \A s \in ToSet(yes) : s.plus \subseteq all
    <3>1. \A s \in ToSet(yes) : s = y1
      <4>1. yes = <<y1>>
        BY DEF yes
      <4>2. \A i \in DOMAIN yes : yes[i] = y1
        BY <4>1
      <4> QED  BY <4>2 DEF ToSet
    <3>2. y1.plus \subseteq all
      BY <1>8 DEF all
    <3> QED  BY <3>1, <3>2
  <2>3. \A s \in ToSet(no) : s.plus \subseteq all
    <3>1. ToSet(no) = {}
      BY Sets DEF no
    <3> QED  BY <3>1
  <2>4. \A f \in Plus(L) : \/ \E i \in DOMAIN L : i # 2 /\ f \in L[i].plus
                          \/ \E s \in ToSet(yes) \cup ToSet(no) : f \in s.plus
    BY <1>14, <1>15, <1>13, <1>12, FactsOfFork
  <2>5. Plus(L) \subseteq all
    BY <2>1, <2>2, <2>3, <2>4
  <2> QED  BY <2>5 DEF all
<1>20. Lasting[38] \subseteq {d, e, m, v}
  <2>1. TRUE
    OBVIOUS
  <2> QED  BY <2>1, <1>18, <1>19
<1>21. Sure(38) \subseteq {d, e, m, v}
  BY <1>20 DEF Sure
<1>22. Tests(38) = {v}
  BY <1>1, <1>14, <1>15, <1>13, <1>12, FactsOfFork DEF Tests
<1>23. 38 \notin FragileNumbers /\ 38 \notin Dropping /\ 38 \notin DecidingNumbers
  BY DEF FragileNumbers, Dropping, DecidingNumbers
<1>24. ASSUME NEW x, Along(x, L, 2, Yes(s2), yes)
      PROVE  UpPath(38, x)
  <2>1. Len(x) = 6 /\ DOMAIN x = 1..6
    BY <1>24, <1>13, <1>9 DEF Along
  <2>2. x[1] = s1 /\ x[2] = Yes(s2) /\ x[3] = y1 /\ x[4] = s3 /\ x[5] = s4 /\ x[6] = s5
    BY <1>24, <1>13, <1>9 DEF Along
  <2>3. \A i \in DOMAIN x : i = 1 \/ i = 2 \/ i = 3 \/ i = 4 \/ i = 5 \/ i = 6
    BY <2>1
  <2> HIDE <1>24
  <2>4. x[1].free = {} /\ x[1].minus = {} /\ x[1].plus = {m} /\ ~IsIf(x[1])
    BY <2>2, <1>4
  <2>5. x[2].need = {v} /\ x[2].free = {} /\ x[2].minus = {} /\ x[2].plus = {p, v} /\ IsIf(x[2])
    BY <2>2, <1>16
  <2>6. x[3].need = {v} /\ x[3].free = {} /\ x[3].minus = {v} /\ x[3].plus = {} /\ ~IsIf(x[3])
    BY <2>2, <1>8
  <2>7. x[4].free = {v} /\ x[4].minus = {} /\ x[4].plus = {v} /\ ~IsIf(x[4])
    BY <2>2, <1>5
  <2>8. x[5].free = {} /\ x[5].minus = {} /\ x[5].plus = {d} /\ ~IsIf(x[5])
    BY <2>2, <1>6
  <2>9. x[6].free = {} /\ x[6].minus = {} /\ x[6].plus = {e} /\ ~IsIf(x[6])
    BY <2>2, <1>7
  <2>10. Given(x, 2, v)
    BY <1>2, <1>3, <2>5 DEF Given, Removes
  <2>11. Gone(x, 3, v)
    BY <1>2, <1>3, <2>6 DEF Gone, Removes
  <2>12. Guarded(x)
    <3> DEFINE fine(i, j) == IsIf(x[i]) \/
           /\ \A f \in x[i].free : Gone(x, j, f)
           /\ x[i].need # {} => \A f \in x[i].minus : Given(x, j, f)
    <3>1. fine(1, 0)
      BY <2>4
    <3>2. fine(2, 1)
      BY <2>5
    <3>3. fine(3, 2)
      BY <2>6, <2>10
    <3>4. fine(4, 3)
      BY <2>7, <2>11
    <3>5. fine(5, 4)
      BY <2>8
    <3>6. fine(6, 5)
      BY <2>9
    <3> HIDE DEF fine
    <3>7. \A i \in DOMAIN x : fine(i, i - 1)
      BY <2>3, <3>1, <3>2, <3>3, <3>4, <3>5, <3>6
    <3> QED  BY <3>7 DEF fine, Guarded
  <2>13. Given(x, 6, d)
    BY <1>2, <1>3, <2>8, <2>9 DEF Given, Removes
  <2>14. Given(x, 6, e)
    BY <1>2, <1>3, <2>9 DEF Given, Removes
  <2>15. Given(x, 6, m)
    BY <1>2, <1>3, <2>4, <2>5, <2>6, <2>7, <2>8, <2>9 DEF Given, Removes
  <2>16. Given(x, 6, v)
    BY <1>2, <1>3, <2>7, <2>8, <2>9 DEF Given, Removes
  <2>17. \A f \in Sure(38) : Given(x, 6, f)
    BY <1>21, <2>13, <2>14, <2>15, <2>16
  <2> QED  BY <2>1, <2>12, <2>17, <1>23 DEF UpPath
<1>25. ASSUME NEW x, Along(x, L, 2, No(s2), no)
      PROVE  UpPath(38, x)
  <2>1. Len(x) = 5 /\ DOMAIN x = 1..5
    BY <1>25, <1>13, <1>10 DEF Along
  <2>2. x[1] = s1 /\ x[2] = No(s2) /\ x[3] = s3 /\ x[4] = s4 /\ x[5] = s5
    BY <1>25, <1>13, <1>10 DEF Along
  <2>3. \A i \in DOMAIN x : i = 1 \/ i = 2 \/ i = 3 \/ i = 4 \/ i = 5
    BY <2>1
  <2> HIDE <1>25
  <2>4. x[1].free = {} /\ x[1].minus = {} /\ x[1].plus = {m} /\ ~IsIf(x[1])
    BY <2>2, <1>4
  <2>5. x[2].need = {} /\ x[2].free = {v} /\ x[2].minus = {v} /\ x[2].plus = {} /\ IsIf(x[2])
    BY <2>2, <1>17
  <2>6. x[3].free = {v} /\ x[3].minus = {} /\ x[3].plus = {v} /\ ~IsIf(x[3])
    BY <2>2, <1>5
  <2>7. x[4].free = {} /\ x[4].minus = {} /\ x[4].plus = {d} /\ ~IsIf(x[4])
    BY <2>2, <1>6
  <2>8. x[5].free = {} /\ x[5].minus = {} /\ x[5].plus = {e} /\ ~IsIf(x[5])
    BY <2>2, <1>7
  <2>9. Gone(x, 2, v)
    BY <1>2, <1>3, <2>5 DEF Gone, Removes
  <2>10. Guarded(x)
    <3> DEFINE fine(i, j) == IsIf(x[i]) \/
           /\ \A f \in x[i].free : Gone(x, j, f)
           /\ x[i].need # {} => \A f \in x[i].minus : Given(x, j, f)
    <3>1. fine(1, 0)
      BY <2>4
    <3>2. fine(2, 1)
      BY <2>5
    <3>3. fine(3, 2)
      BY <2>6, <2>9
    <3>4. fine(4, 3)
      BY <2>7
    <3>5. fine(5, 4)
      BY <2>8
    <3> HIDE DEF fine
    <3>6. \A i \in DOMAIN x : fine(i, i - 1)
      BY <2>3, <3>1, <3>2, <3>3, <3>4, <3>5
    <3> QED  BY <3>6 DEF fine, Guarded
  <2>11. Given(x, 5, d)
    BY <1>2, <1>3, <2>7, <2>8 DEF Given, Removes
  <2>12. Given(x, 5, e)
    BY <1>2, <1>3, <2>8 DEF Given, Removes
  <2>13. Given(x, 5, m)
    BY <1>2, <1>3, <2>4, <2>5, <2>6, <2>7, <2>8 DEF Given, Removes
  <2>14. Given(x, 5, v)
    BY <1>2, <1>3, <2>6, <2>7, <2>8 DEF Given, Removes
  <2>15. \A f \in Sure(38) : Given(x, 5, f)
    BY <1>21, <2>11, <2>12, <2>13, <2>14
  <2> QED  BY <2>1, <2>10, <2>15, <1>23 DEF UpPath
<1>26. \A x \in Paths(Migrations[38].up) : UpPath(38, x)
  BY <1>1, <1>14, <1>15, <1>13, <1>12, <1>24, <1>25, ForkPaths
<1> QED  BY <1>26

\* Migration 39, SeoCanonicalType, keeps the rules on its way up; what it tests.
LEMMA ThirtyNinePaths ==
  /\ \A x \in Paths(Migrations[39].up) : UpPath(39, x)
  /\ Tests(39) = {CanonicalType}
  /\ CanonicalType \in Plus(Migrations[39].up)
<1> DEFINE c == T("seo_configs")
           k == CanonicalType
           u == Customs
           n1 == Add({k})
           n2 == Put({u})
           yes == <<>>
           no == <<n1, n2>>
           s1 == If({k}, yes, no)
           L == <<s1>>
<1>1. Migrations[39].up = L
  <2>1. Migrations[39] = SeoCanonicalType
    BY Special
  <2>2. SeoCanonicalType.up = L
    BY DEF SeoCanonicalType, Both
  <2> QED  BY <2>1, <2>2
<1>2. T(c[1]) = c /\ T(k[1]) = c /\ T(u[1]) = c
  BY DEF T, CanonicalType, Customs
<1>3. /\ c # k
      /\ c # u
      /\ k # u
  BY DEF T, CanonicalType, Customs
<1>4. c \in Preceding(39)
  BY Needed
<1>5. u \in Losable
  BY DEF Losable
<1> HIDE DEF c, k, u
<1>6. IsIf(n1) = FALSE /\ n1.need = {c} /\ n1.free = {k} /\ n1.minus = {} /\ n1.plus = {k}
  <2>1. n1.need = Tables({k}) /\ n1.free = {k} /\ n1.minus = {} /\ n1.plus = {k} /\ n1.yes = <<>> /\ n1.no = <<>>
    BY DEF Add, Stmt
  <2>3. Tables({k}) = {c}
    BY <1>2, <1>3, TablesOf
  <2> HIDE DEF n1
  <2> QED  BY Zenon, <2>1, <2>3 DEF IsIf
<1>7. IsIf(n2) = FALSE /\ n2.need = {c} /\ n2.free = {} /\ n2.minus = {} /\ n2.plus = {u}
  <2>1. n2.need = Tables({u}) /\ n2.free = {} /\ n2.minus = {} /\ n2.plus = {u} /\ n2.yes = <<>> /\ n2.no = <<>>
    BY DEF Put, Stmt
  <2>3. Tables({u}) = {c}
    BY <1>2, <1>3, TablesOf
  <2> HIDE DEF n2
  <2> QED  BY Zenon, <2>1, <2>3 DEF IsIf
<1> HIDE DEF n1, n2
<1>8. Len(yes) = 0
  OBVIOUS
<1>9. Len(no) = 2 /\ no[1] = n1 /\ no[2] = n2
  BY Tuples, Triples
<1>10. yes # <<>> \/ no # <<>>
  BY <1>8, <1>9
<1> HIDE DEF yes, no
<1>11. IsIf(s1) /\ s1.minus = {k} /\ s1.yes = yes /\ s1.no = no
  <2>1. s1.minus = {k} /\ s1.yes = yes /\ s1.no = no
    BY Fields
  <2> QED  BY Zenon, <2>1, <1>10 DEF IsIf
<1> HIDE DEF s1
<1>12. Len(L) = 1 /\ DOMAIN L = 1..1 /\ L[1] = s1
  BY Tuples, Triples
<1>13. Listing(L, 39)
  <2>1. 39 \in DOMAIN Migrations
    BY Kindred
  <2> QED  BY <2>1, <1>1, Listings
<1> HIDE DEF L
<1>14. 1 \in DOMAIN L
  BY <1>12
<1>15. Yes(s1).need = {k} /\ Yes(s1).free = {} /\ Yes(s1).minus = {} /\ Yes(s1).plus = {c, k} /\ IsIf(Yes(s1))
  <2>1. Tables({k}) = {c}
    BY <1>2, <1>3, TablesOf
  <2>2. /\ Yes(s1).need = {k} /\ Yes(s1).free = {} /\ Yes(s1).minus = {} /\ IsIf(Yes(s1))
        /\ Yes(s1).plus = {k} \cup Tables({k})
    <3>1. Yes(s1).need = s1.minus /\ Yes(s1).free = {} /\ Yes(s1).minus = {} /\ IsIf(Yes(s1))
      BY GuardFields
    <3>2. Yes(s1).plus = s1.minus \cup Tables(s1.minus)
      BY GuardFields
    <3> QED  BY <3>1, <3>2, <1>11
  <2> QED  BY <2>1, <2>2
<1>16. No(s1).need = {} /\ No(s1).free = {k} /\ No(s1).minus = {k} /\ No(s1).plus = {} /\ IsIf(No(s1))
  BY <1>11, GuardFields
<1>17. \A f \in Lasting[39] : f \in Plus(L) /\ f # OldSublocations /\ (f = Inventory => 39 = 38)
  <2>1. 39 \in DOMAIN Migrations
    BY Kindred
  <2> QED  BY <2>1, <1>1, LastingAre
<1>18. Plus(L) \subseteq {k, u}
  <2> DEFINE all == {k, u}
  <2> HIDE DEF all
  <2>1. \A i \in DOMAIN L : i # 1 => L[i].plus \subseteq all
    <3>1. \A i \in DOMAIN L : i = 1
      BY <1>12
    <3> QED  BY <3>1
  <2>2. \A s \in ToSet(yes) : s.plus \subseteq all
    <3>1. ToSet(yes) = {}
      BY Sets DEF yes
    <3> QED  BY <3>1
  <2>3. \A s \in ToSet(no) : s.plus \subseteq all
    <3>1. \A s \in ToSet(no) : s = n1 \/ s = n2
      <4>1. no = <<n1, n2>>
        BY DEF no
      <4>2. \A i \in DOMAIN no : no[i] = n1 \/ no[i] = n2
        BY <4>1
      <4> QED  BY <4>2 DEF ToSet
    <3>2. n1.plus \subseteq all
      BY <1>6 DEF all
    <3>3. n2.plus \subseteq all
      BY <1>7 DEF all
    <3> QED  BY <3>1, <3>2, <3>3
  <2>4. \A f \in Plus(L) : \/ \E i \in DOMAIN L : i # 1 /\ f \in L[i].plus
                          \/ \E s \in ToSet(yes) \cup ToSet(no) : f \in s.plus
    BY <1>13, <1>14, <1>12, <1>11, FactsOfFork
  <2>5. Plus(L) \subseteq all
    BY <2>1, <2>2, <2>3, <2>4
  <2> QED  BY <2>5 DEF all
<1>19. Lasting[39] \subseteq {k, u}
  <2>1. TRUE
    OBVIOUS
  <2> QED  BY <2>1, <1>17, <1>18
<1>20. Sure(39) \subseteq {k}
  BY <1>19, <1>5 DEF Sure
<1>21. Tests(39) = {k}
  BY <1>1, <1>13, <1>14, <1>12, <1>11, FactsOfFork DEF Tests
<1>22. 39 \notin FragileNumbers /\ 39 \notin Dropping /\ 39 \in DecidingNumbers
  BY DEF FragileNumbers, Dropping, DecidingNumbers
<1>23. ASSUME NEW x, Along(x, L, 1, Yes(s1), yes)
      PROVE  UpPath(39, x)
  <2>1. Len(x) = 1 /\ DOMAIN x = 1..1
    BY <1>23, <1>12, <1>8 DEF Along
  <2>2. x[1] = Yes(s1)
    BY <1>23, <1>12, <1>8 DEF Along
  <2>3. \A i \in DOMAIN x : i = 1
    BY <2>1
  <2> HIDE <1>23
  <2>4. x[1].need = {k} /\ x[1].free = {} /\ x[1].minus = {} /\ x[1].plus = {c, k} /\ IsIf(x[1])
    BY <2>2, <1>15
  <2>5. Guarded(x)
    <3> DEFINE fine(i, j) == IsIf(x[i]) \/
           /\ \A f \in x[i].free : Gone(x, j, f)
           /\ x[i].need # {} => \A f \in x[i].minus : Given(x, j, f)
    <3>1. fine(1, 0)
      BY <2>4
    <3> HIDE DEF fine
    <3>2. \A i \in DOMAIN x : fine(i, i - 1)
      BY <2>3, <3>1
    <3> QED  BY <3>2 DEF fine, Guarded
  <2>6. Eased("up", 39, x)
    <3> DEFINE fine(i, j) == IsIf(x[i]) \/
           /\ \A f \in x[i].need : Given(x, j, f) \/ (f \in Found("up", 39) /\ Spared(x, j, f))
           /\ \A f \in x[i].free : Gone(x, j, f) \/ (f \in Missing("up", 39) /\ Unadded(x, j, f))
    <3>1. fine(1, 0)
      BY <2>4
    <3> HIDE DEF fine
    <3>2. \A i \in DOMAIN x : fine(i, i - 1)
      BY <2>3, <3>1
    <3> QED  BY <3>2 DEF fine, Eased
  <2>7. Given(x, 1, k)
    BY <1>2, <1>3, <2>4 DEF Given, Removes
  <2>8. \A f \in Sure(39) : Given(x, 1, f)
    BY <1>20, <2>7
  <2>9. Barred(39, x)
    <3>1. k \notin Base
      BY DEF k, Base, T, Meta, LegacyNames, Unsafe, CanonicalType
    <3>2. Unadded(x, 0, k)
      BY <1>3 DEF Unadded
    <3>3. 1 \in DOMAIN x /\ 1 - 1 = 0
      BY <2>1
    <3>4. \E f \in Tests(39) : /\ IsIf(x[1])
             /\ \/ f \in x[1].need /\ f \notin Base /\ Unadded(x, 0, f)
                \/ f \in x[1].free /\ f \in Base /\ Spared(x, 0, f)
      BY <3>1, <3>2, <2>4, <1>21
    <3> QED  BY <3>3, <3>4 DEF Barred
  <2> QED  BY <2>1, <2>5, <2>6, <2>8, <2>9, <1>22 DEF UpPath
<1>24. ASSUME NEW x, Along(x, L, 1, No(s1), no)
      PROVE  UpPath(39, x)
  <2>1. Len(x) = 3 /\ DOMAIN x = 1..3
    BY <1>24, <1>12, <1>9 DEF Along
  <2>2. x[1] = No(s1) /\ x[2] = n1 /\ x[3] = n2
    BY <1>24, <1>12, <1>9 DEF Along
  <2>3. \A i \in DOMAIN x : i = 1 \/ i = 2 \/ i = 3
    BY <2>1
  <2> HIDE <1>24
  <2>4. x[1].need = {} /\ x[1].free = {k} /\ x[1].minus = {k} /\ x[1].plus = {} /\ IsIf(x[1])
    BY <2>2, <1>16
  <2>5. x[2].need = {c} /\ x[2].free = {k} /\ x[2].minus = {} /\ x[2].plus = {k} /\ ~IsIf(x[2])
    BY <2>2, <1>6
  <2>6. x[3].need = {c} /\ x[3].free = {} /\ x[3].minus = {} /\ x[3].plus = {u} /\ ~IsIf(x[3])
    BY <2>2, <1>7
  <2>7. Gone(x, 1, k)
    BY <1>2, <1>3, <2>4 DEF Gone, Removes
  <2>8. Guarded(x)
    <3> DEFINE fine(i, j) == IsIf(x[i]) \/
           /\ \A f \in x[i].free : Gone(x, j, f)
           /\ x[i].need # {} => \A f \in x[i].minus : Given(x, j, f)
    <3>1. fine(1, 0)
      BY <2>4
    <3>2. fine(2, 1)
      BY <2>5, <2>7
    <3>3. fine(3, 2)
      BY <2>6
    <3> HIDE DEF fine
    <3>4. \A i \in DOMAIN x : fine(i, i - 1)
      BY <2>3, <3>1, <3>2, <3>3
    <3> QED  BY <3>4 DEF fine, Guarded
  <2>9. c \in Found("up", 39) /\ Spared(x, 1, c)
    BY <1>2, <1>3, <1>4, <2>4 DEF Found, Spared, Removes
  <2>10. c \in Found("up", 39) /\ Spared(x, 2, c)
    BY <1>2, <1>3, <1>4, <2>4, <2>5 DEF Found, Spared, Removes
  <2>11. Eased("up", 39, x)
    <3> DEFINE fine(i, j) == IsIf(x[i]) \/
           /\ \A f \in x[i].need : Given(x, j, f) \/ (f \in Found("up", 39) /\ Spared(x, j, f))
           /\ \A f \in x[i].free : Gone(x, j, f) \/ (f \in Missing("up", 39) /\ Unadded(x, j, f))
    <3>1. fine(1, 0)
      BY <2>4
    <3>2. fine(2, 1)
      BY <2>5, <2>7, <2>9
    <3>3. fine(3, 2)
      BY <2>6, <2>10
    <3> HIDE DEF fine
    <3>4. \A i \in DOMAIN x : fine(i, i - 1)
      BY <2>3, <3>1, <3>2, <3>3
    <3> QED  BY <3>4 DEF fine, Eased
  <2>12. Given(x, 3, k)
    BY <1>2, <1>3, <2>5, <2>6 DEF Given, Removes
  <2>13. \A f \in Sure(39) : Given(x, 3, f)
    BY <1>20, <2>12
  <2>14. Given(x, 3, u)
    BY <1>2, <1>3, <2>6 DEF Given, Removes
  <2>15. \A f \in Lasting[39] : Given(x, 3, f)
    BY <1>19, <2>12, <2>14
  <2> QED  BY <2>1, <2>8, <2>11, <2>13, <2>15, <1>22 DEF UpPath
<1>25. \A x \in Paths(Migrations[39].up) : UpPath(39, x)
  BY <1>1, <1>13, <1>14, <1>12, <1>11, <1>23, <1>24, ForkPaths
<1>26. k \in Plus(Migrations[39].up)
  <2>1. L[1].no[1].plus = {k} /\ 1 \in DOMAIN L[1].no
    <3>1. L[1].no = no /\ no[1].plus = {k}
      BY <1>12, <1>11, <1>9, <1>6
    <3>2. 1 \in DOMAIN no
      BY Tuples, Triples DEF no
    <3> QED  BY <3>1, <3>2
  <2> QED  BY <1>1, <2>1, <1>14, InPlus
<1> QED  BY <1>25, <1>21, <1>26 DEF k

\* Migration 44, SanitizePropertySlugs, keeps the rules on its way up; what it
\* tests.
LEMMA FortyFourPaths ==
  /\ \A x \in Paths(Migrations[44].up) : UpPath(44, x)
  /\ Tests(44) = {Unsafe}
<1> DEFINE c == T("seo_configs")
           r == T("seo_redirects")
           t == T("properties")
           u == Unsafe
           n == NewPath
           o == OldPath
           d == <<"seo_redirects", "to the sanitised path">>
           y1 == Clear({u})
           y2 == Put({n})
           y3 == Put({d})
           y4 == Put({o})
           yes == <<y1, y2, y3, y4>>
           no == <<>>
           s1 == If({u}, yes, no)
           L == <<s1>>
<1>1. Migrations[44].up = L
  <2>1. Migrations[44] = SanitizePropertySlugs
    BY Special
  <2>2. SanitizePropertySlugs.up = L
    BY Zenon DEF SanitizePropertySlugs, Both
  <2> QED  BY Zenon, <2>1, <2>2
<1>2. T(c[1]) = c /\ T(r[1]) = r /\ T(t[1]) = t /\ T(u[1]) = t /\ T(n[1]) = c /\ T(o[1]) = r /\ T(d[1]) = r
  BY DEF T, NewPath, OldPath, Unsafe
<1>3. /\ c # r
      /\ c # t
      /\ c # u
      /\ c # n
      /\ c # o
      /\ c # d
      /\ r # t
      /\ r # u
      /\ r # n
      /\ r # o
      /\ r # d
      /\ t # u
      /\ t # n
      /\ t # o
      /\ t # d
      /\ u # n
      /\ u # o
      /\ u # d
      /\ n # o
      /\ n # d
      /\ o # d
  BY DEF T, NewPath, OldPath, Unsafe
<1>4. c \in Preceding(44)
  BY Needed
<1>5. r \in Preceding(44)
  BY Needed
<1> HIDE DEF c, r, t, u, n, o, d
<1>6. IsIf(y1) = FALSE /\ y1.need = {} /\ y1.free = {} /\ y1.minus = {u} /\ y1.plus = {}
  BY DEF Clear, Stmt, IsIf
<1>7. IsIf(y2) = FALSE /\ y2.need = {c} /\ y2.free = {} /\ y2.minus = {} /\ y2.plus = {n}
  <2>1. y2.need = Tables({n}) /\ y2.free = {} /\ y2.minus = {} /\ y2.plus = {n} /\ y2.yes = <<>> /\ y2.no = <<>>
    BY DEF Put, Stmt
  <2>3. Tables({n}) = {c}
    BY <1>2, <1>3, TablesOf
  <2> HIDE DEF y2
  <2> QED  BY Zenon, <2>1, <2>3 DEF IsIf
<1>8. IsIf(y3) = FALSE /\ y3.need = {r} /\ y3.free = {} /\ y3.minus = {} /\ y3.plus = {d}
  <2>1. y3.need = Tables({d}) /\ y3.free = {} /\ y3.minus = {} /\ y3.plus = {d} /\ y3.yes = <<>> /\ y3.no = <<>>
    BY DEF Put, Stmt
  <2>3. Tables({d}) = {r}
    BY <1>2, <1>3, TablesOf
  <2> HIDE DEF y3
  <2> QED  BY Zenon, <2>1, <2>3 DEF IsIf
<1>9. IsIf(y4) = FALSE /\ y4.need = {r} /\ y4.free = {} /\ y4.minus = {} /\ y4.plus = {o}
  <2>1. y4.need = Tables({o}) /\ y4.free = {} /\ y4.minus = {} /\ y4.plus = {o} /\ y4.yes = <<>> /\ y4.no = <<>>
    BY DEF Put, Stmt
  <2>3. Tables({o}) = {r}
    BY <1>2, <1>3, TablesOf
  <2> HIDE DEF y4
  <2> QED  BY Zenon, <2>1, <2>3 DEF IsIf
<1> HIDE DEF y1, y2, y3, y4
<1>10. Len(yes) = 4 /\ yes[1] = y1 /\ yes[2] = y2 /\ yes[3] = y3 /\ yes[4] = y4
  BY Tuples, Triples
<1>11. Len(no) = 0
  OBVIOUS
<1>12. yes # <<>> \/ no # <<>>
  BY <1>10, <1>11
<1> HIDE DEF yes, no
<1>13. IsIf(s1) /\ s1.minus = {u} /\ s1.yes = yes /\ s1.no = no
  <2>1. s1.minus = {u} /\ s1.yes = yes /\ s1.no = no
    BY Fields
  <2> QED  BY Zenon, <2>1, <1>12 DEF IsIf
<1> HIDE DEF s1
<1>14. Len(L) = 1 /\ DOMAIN L = 1..1 /\ L[1] = s1
  BY Tuples, Triples
<1>15. Listing(L, 44)
  <2>1. 44 \in DOMAIN Migrations
    BY Kindred
  <2> QED  BY <2>1, <1>1, Listings
<1> HIDE DEF L
<1>16. 1 \in DOMAIN L
  BY <1>14
<1>17. Yes(s1).need = {u} /\ Yes(s1).free = {} /\ Yes(s1).minus = {} /\ Yes(s1).plus = {t, u} /\ IsIf(Yes(s1))
  <2>1. Tables({u}) = {t}
    BY <1>2, <1>3, TablesOf
  <2>2. /\ Yes(s1).need = {u} /\ Yes(s1).free = {} /\ Yes(s1).minus = {} /\ IsIf(Yes(s1))
        /\ Yes(s1).plus = {u} \cup Tables({u})
    <3>1. Yes(s1).need = s1.minus /\ Yes(s1).free = {} /\ Yes(s1).minus = {} /\ IsIf(Yes(s1))
      BY GuardFields
    <3>2. Yes(s1).plus = s1.minus \cup Tables(s1.minus)
      BY GuardFields
    <3> QED  BY <3>1, <3>2, <1>13
  <2> QED  BY <2>1, <2>2
<1>18. No(s1).need = {} /\ No(s1).free = {u} /\ No(s1).minus = {u} /\ No(s1).plus = {} /\ IsIf(No(s1))
  BY <1>13, GuardFields
<1>19. \A f \in Lasting[44] : f \in Plus(L) /\ f # OldSublocations /\ (f = Inventory => 44 = 38)
  <2>1. 44 \in DOMAIN Migrations
    BY Kindred
  <2> QED  BY <2>1, <1>1, LastingAre
<1>20. Plus(L) \subseteq {d, n, o}
  <2> DEFINE all == {d, n, o}
  <2> HIDE DEF all
  <2>1. \A i \in DOMAIN L : i # 1 => L[i].plus \subseteq all
    <3>1. \A i \in DOMAIN L : i = 1
      BY <1>14
    <3> QED  BY <3>1
  <2>2. \A s \in ToSet(yes) : s.plus \subseteq all
    <3>1. \A s \in ToSet(yes) : s = y1 \/ s = y2 \/ s = y3 \/ s = y4
      <4>1. yes = <<y1, y2, y3, y4>>
        BY DEF yes
      <4>2. \A i \in DOMAIN yes : yes[i] = y1 \/ yes[i] = y2 \/ yes[i] = y3 \/ yes[i] = y4
        BY <4>1
      <4> QED  BY <4>2 DEF ToSet
    <3>2. y1.plus \subseteq all
      BY <1>6 DEF all
    <3>3. y2.plus \subseteq all
      BY <1>7 DEF all
    <3>4. y3.plus \subseteq all
      BY <1>8 DEF all
    <3>5. y4.plus \subseteq all
      BY <1>9 DEF all
    <3> QED  BY <3>1, <3>2, <3>3, <3>4, <3>5
  <2>3. \A s \in ToSet(no) : s.plus \subseteq all
    <3>1. ToSet(no) = {}
      BY Sets DEF no
    <3> QED  BY <3>1
  <2>4. \A f \in Plus(L) : \/ \E i \in DOMAIN L : i # 1 /\ f \in L[i].plus
                          \/ \E s \in ToSet(yes) \cup ToSet(no) : f \in s.plus
    BY <1>15, <1>16, <1>14, <1>13, FactsOfFork
  <2>5. Plus(L) \subseteq all
    BY <2>1, <2>2, <2>3, <2>4
  <2> QED  BY <2>5 DEF all
<1>21. Lasting[44] \subseteq {d, n, o}
  <2>1. TRUE
    OBVIOUS
  <2> QED  BY <2>1, <1>19, <1>20
<1>22. Sure(44) = {}
  <2>1. Plus(SanitizePropertySlugs.up) \subseteq Losable
    BY DEF Losable
  <2>2. Migrations[44] = SanitizePropertySlugs
    BY Special
  <2> QED  BY <2>1, <2>2, <1>1, <1>19 DEF Sure
<1>23. Tests(44) = {u}
  BY <1>1, <1>15, <1>16, <1>14, <1>13, FactsOfFork DEF Tests
<1>24. 44 \notin FragileNumbers /\ 44 \notin Dropping /\ 44 \in DecidingNumbers
  BY DEF FragileNumbers, Dropping, DecidingNumbers
<1>25. ASSUME NEW x, Along(x, L, 1, Yes(s1), yes)
      PROVE  UpPath(44, x)
  <2>1. Len(x) = 5 /\ DOMAIN x = 1..5
    BY <1>25, <1>14, <1>10 DEF Along
  <2>2. x[1] = Yes(s1) /\ x[2] = y1 /\ x[3] = y2 /\ x[4] = y3 /\ x[5] = y4
    BY <1>25, <1>14, <1>10 DEF Along
  <2>3. \A i \in DOMAIN x : i = 1 \/ i = 2 \/ i = 3 \/ i = 4 \/ i = 5
    BY <2>1
  <2> HIDE <1>25
  <2>4. x[1].need = {u} /\ x[1].free = {} /\ x[1].minus = {} /\ x[1].plus = {t, u} /\ IsIf(x[1])
    BY <2>2, <1>17
  <2>5. x[2].need = {} /\ x[2].free = {} /\ x[2].minus = {u} /\ x[2].plus = {} /\ ~IsIf(x[2])
    BY <2>2, <1>6
  <2>6. x[3].need = {c} /\ x[3].free = {} /\ x[3].minus = {} /\ x[3].plus = {n} /\ ~IsIf(x[3])
    BY <2>2, <1>7
  <2>7. x[4].need = {r} /\ x[4].free = {} /\ x[4].minus = {} /\ x[4].plus = {d} /\ ~IsIf(x[4])
    BY <2>2, <1>8
  <2>8. x[5].need = {r} /\ x[5].free = {} /\ x[5].minus = {} /\ x[5].plus = {o} /\ ~IsIf(x[5])
    BY <2>2, <1>9
  <2>9. Guarded(x)
    <3> DEFINE fine(i, j) == IsIf(x[i]) \/
           /\ \A f \in x[i].free : Gone(x, j, f)
           /\ x[i].need # {} => \A f \in x[i].minus : Given(x, j, f)
    <3>1. fine(1, 0)
      BY <2>4
    <3>2. fine(2, 1)
      BY <2>5
    <3>3. fine(3, 2)
      BY <2>6
    <3>4. fine(4, 3)
      BY <2>7
    <3>5. fine(5, 4)
      BY <2>8
    <3> HIDE DEF fine
    <3>6. \A i \in DOMAIN x : fine(i, i - 1)
      BY <2>3, <3>1, <3>2, <3>3, <3>4, <3>5
    <3> QED  BY <3>6 DEF fine, Guarded
  <2>10. c \in Found("up", 44) /\ Spared(x, 2, c)
    BY <1>2, <1>3, <1>4, <2>4, <2>5 DEF Found, Spared, Removes
  <2>11. r \in Found("up", 44) /\ Spared(x, 3, r)
    BY <1>2, <1>3, <1>5, <2>4, <2>5, <2>6 DEF Found, Spared, Removes
  <2>12. r \in Found("up", 44) /\ Spared(x, 4, r)
    BY <1>2, <1>3, <1>5, <2>4, <2>5, <2>6, <2>7 DEF Found, Spared, Removes
  <2>13. Eased("up", 44, x)
    <3> DEFINE fine(i, j) == IsIf(x[i]) \/
           /\ \A f \in x[i].need : Given(x, j, f) \/ (f \in Found("up", 44) /\ Spared(x, j, f))
           /\ \A f \in x[i].free : Gone(x, j, f) \/ (f \in Missing("up", 44) /\ Unadded(x, j, f))
    <3>1. fine(1, 0)
      BY <2>4
    <3>2. fine(2, 1)
      BY <2>5
    <3>3. fine(3, 2)
      BY <2>6, <2>10
    <3>4. fine(4, 3)
      BY <2>7, <2>11
    <3>5. fine(5, 4)
      BY <2>8, <2>12
    <3> HIDE DEF fine
    <3>6. \A i \in DOMAIN x : fine(i, i - 1)
      BY <2>3, <3>1, <3>2, <3>3, <3>4, <3>5
    <3> QED  BY <3>6 DEF fine, Eased
  <2>14. \A f \in Sure(44) : Given(x, 5, f)
    BY <1>22
  <2>15. Given(x, 5, d)
    BY <1>2, <1>3, <2>7, <2>8 DEF Given, Removes
  <2>16. Given(x, 5, n)
    BY <1>2, <1>3, <2>6, <2>7, <2>8 DEF Given, Removes
  <2>17. Given(x, 5, o)
    BY <1>2, <1>3, <2>8 DEF Given, Removes
  <2>18. \A f \in Lasting[44] : Given(x, 5, f)
    BY <1>21, <2>15, <2>16, <2>17
  <2> QED  BY <2>1, <2>9, <2>13, <2>14, <2>18, <1>24 DEF UpPath
<1>26. ASSUME NEW x, Along(x, L, 1, No(s1), no)
      PROVE  UpPath(44, x)
  <2>1. Len(x) = 1 /\ DOMAIN x = 1..1
    BY <1>26, <1>14, <1>11 DEF Along
  <2>2. x[1] = No(s1)
    BY <1>26, <1>14, <1>11 DEF Along
  <2>3. \A i \in DOMAIN x : i = 1
    BY <2>1
  <2> HIDE <1>26
  <2>4. x[1].need = {} /\ x[1].free = {u} /\ x[1].minus = {u} /\ x[1].plus = {} /\ IsIf(x[1])
    BY <2>2, <1>18
  <2>5. Guarded(x)
    <3> DEFINE fine(i, j) == IsIf(x[i]) \/
           /\ \A f \in x[i].free : Gone(x, j, f)
           /\ x[i].need # {} => \A f \in x[i].minus : Given(x, j, f)
    <3>1. fine(1, 0)
      BY <2>4
    <3> HIDE DEF fine
    <3>2. \A i \in DOMAIN x : fine(i, i - 1)
      BY <2>3, <3>1
    <3> QED  BY <3>2 DEF fine, Guarded
  <2>6. Eased("up", 44, x)
    <3> DEFINE fine(i, j) == IsIf(x[i]) \/
           /\ \A f \in x[i].need : Given(x, j, f) \/ (f \in Found("up", 44) /\ Spared(x, j, f))
           /\ \A f \in x[i].free : Gone(x, j, f) \/ (f \in Missing("up", 44) /\ Unadded(x, j, f))
    <3>1. fine(1, 0)
      BY <2>4
    <3> HIDE DEF fine
    <3>2. \A i \in DOMAIN x : fine(i, i - 1)
      BY <2>3, <3>1
    <3> QED  BY <3>2 DEF fine, Eased
  <2>7. \A f \in Sure(44) : Given(x, 1, f)
    BY <1>22
  <2>8. Barred(44, x)
    <3>1. u \in Base
      BY DEF u, Base
    <3>2. Spared(x, 0, u)
      BY <1>2, <1>3 DEF Spared, Removes
    <3>3. 1 \in DOMAIN x /\ 1 - 1 = 0
      BY <2>1
    <3>4. \E f \in Tests(44) : /\ IsIf(x[1])
             /\ \/ f \in x[1].need /\ f \notin Base /\ Unadded(x, 0, f)
                \/ f \in x[1].free /\ f \in Base /\ Spared(x, 0, f)
      BY <3>1, <3>2, <2>4, <1>23
    <3> QED  BY <3>3, <3>4 DEF Barred
  <2> QED  BY <2>1, <2>5, <2>6, <2>7, <2>8, <1>24 DEF UpPath
<1>27. \A x \in Paths(Migrations[44].up) : UpPath(44, x)
  BY <1>1, <1>15, <1>16, <1>14, <1>13, <1>25, <1>26, ForkPaths
<1> QED  BY <1>27, <1>23 DEF u

\* Migration 44, SanitizePropertySlugs, keeps the rules on its way down.
LEMMA FortyFourBack == \A x \in Paths(Migrations[44].down) : DownPath(44, x)
<1> DEFINE c == T("seo_configs")
           r == T("seo_redirects")
           t == T("properties")
           u == Unsafe
           n == NewPath
           o == OldPath
           d == <<"seo_redirects", "to the sanitised path">>
           s2 == Clear({o})
           y1 == Put({u})
           y2 == Clear({n})
           y3 == Clear({d})
           yes == <<y1, y2, y3>>
           no == <<>>
           s1 == If({o}, yes, no)
           L == <<s1, s2>>
<1>1. Migrations[44].down = L
  <2>1. Migrations[44] = SanitizePropertySlugs
    BY Special
  <2>2. SanitizePropertySlugs.down = L
    BY Zenon DEF SanitizePropertySlugs, Both
  <2> QED  BY Zenon, <2>1, <2>2
<1>2. T(c[1]) = c /\ T(r[1]) = r /\ T(t[1]) = t /\ T(u[1]) = t /\ T(n[1]) = c /\ T(o[1]) = r /\ T(d[1]) = r
  BY DEF T, NewPath, OldPath, Unsafe
<1>3. /\ c # r
      /\ c # t
      /\ c # u
      /\ c # n
      /\ c # o
      /\ c # d
      /\ r # t
      /\ r # u
      /\ r # n
      /\ r # o
      /\ r # d
      /\ t # u
      /\ t # n
      /\ t # o
      /\ t # d
      /\ u # n
      /\ u # o
      /\ u # d
      /\ n # o
      /\ n # d
      /\ o # d
  BY DEF T, NewPath, OldPath, Unsafe
<1>4. t \in Stays
  BY Tabling
<1> HIDE DEF c, r, t, u, n, o, d
<1>5. IsIf(s2) = FALSE /\ s2.need = {} /\ s2.free = {} /\ s2.minus = {o} /\ s2.plus = {}
  BY DEF Clear, Stmt, IsIf
<1>6. IsIf(y1) = FALSE /\ y1.need = {t} /\ y1.free = {} /\ y1.minus = {} /\ y1.plus = {u}
  <2>1. y1.need = Tables({u}) /\ y1.free = {} /\ y1.minus = {} /\ y1.plus = {u} /\ y1.yes = <<>> /\ y1.no = <<>>
    BY DEF Put, Stmt
  <2>3. Tables({u}) = {t}
    BY <1>2, <1>3, TablesOf
  <2> HIDE DEF y1
  <2> QED  BY Zenon, <2>1, <2>3 DEF IsIf
<1>7. IsIf(y2) = FALSE /\ y2.need = {} /\ y2.free = {} /\ y2.minus = {n} /\ y2.plus = {}
  BY DEF Clear, Stmt, IsIf
<1>8. IsIf(y3) = FALSE /\ y3.need = {} /\ y3.free = {} /\ y3.minus = {d} /\ y3.plus = {}
  BY DEF Clear, Stmt, IsIf
<1> HIDE DEF s2, y1, y2, y3
<1>9. Len(yes) = 3 /\ yes[1] = y1 /\ yes[2] = y2 /\ yes[3] = y3
  BY Tuples, Triples
<1>10. Len(no) = 0
  OBVIOUS
<1>11. yes # <<>> \/ no # <<>>
  BY <1>9, <1>10
<1> HIDE DEF yes, no
<1>12. IsIf(s1) /\ s1.minus = {o} /\ s1.yes = yes /\ s1.no = no
  <2>1. s1.minus = {o} /\ s1.yes = yes /\ s1.no = no
    BY Fields
  <2> QED  BY Zenon, <2>1, <1>11 DEF IsIf
<1> HIDE DEF s1
<1>13. Len(L) = 2 /\ DOMAIN L = 1..2 /\ L[1] = s1 /\ L[2] = s2
  BY Tuples, Triples
<1>14. Listing(L, 44)
  <2>1. 44 \in DOMAIN Migrations
    BY Kindred
  <2> QED  BY <2>1, <1>1, Listings
<1> HIDE DEF L
<1>15. 1 \in DOMAIN L
  BY <1>13
<1>16. Yes(s1).need = {o} /\ Yes(s1).free = {} /\ Yes(s1).minus = {} /\ Yes(s1).plus = {o, r} /\ IsIf(Yes(s1))
  <2>1. Tables({o}) = {r}
    BY <1>2, <1>3, TablesOf
  <2>2. /\ Yes(s1).need = {o} /\ Yes(s1).free = {} /\ Yes(s1).minus = {} /\ IsIf(Yes(s1))
        /\ Yes(s1).plus = {o} \cup Tables({o})
    <3>1. Yes(s1).need = s1.minus /\ Yes(s1).free = {} /\ Yes(s1).minus = {} /\ IsIf(Yes(s1))
      BY GuardFields
    <3>2. Yes(s1).plus = s1.minus \cup Tables(s1.minus)
      BY GuardFields
    <3> QED  BY <3>1, <3>2, <1>12
  <2> QED  BY <2>1, <2>2
<1>17. No(s1).need = {} /\ No(s1).free = {o} /\ No(s1).minus = {o} /\ No(s1).plus = {} /\ IsIf(No(s1))
  BY <1>12, GuardFields
<1>18. 44 \notin FragileNumbers /\ 44 \notin Dropping /\ 44 \in DecidingNumbers
  BY DEF FragileNumbers, Dropping, DecidingNumbers
<1>19. ASSUME NEW x, Along(x, L, 1, Yes(s1), yes)
      PROVE  DownPath(44, x)
  <2>1. Len(x) = 5 /\ DOMAIN x = 1..5
    BY <1>19, <1>13, <1>9 DEF Along
  <2>2. x[1] = Yes(s1) /\ x[2] = y1 /\ x[3] = y2 /\ x[4] = y3 /\ x[5] = s2
    BY <1>19, <1>13, <1>9 DEF Along
  <2>3. \A i \in DOMAIN x : i = 1 \/ i = 2 \/ i = 3 \/ i = 4 \/ i = 5
    BY <2>1
  <2> HIDE <1>19
  <2>4. x[1].need = {o} /\ x[1].free = {} /\ x[1].minus = {} /\ x[1].plus = {o, r} /\ IsIf(x[1])
    BY <2>2, <1>16
  <2>5. x[2].need = {t} /\ x[2].free = {} /\ x[2].minus = {} /\ x[2].plus = {u} /\ ~IsIf(x[2])
    BY <2>2, <1>6
  <2>6. x[3].need = {} /\ x[3].free = {} /\ x[3].minus = {n} /\ x[3].plus = {} /\ ~IsIf(x[3])
    BY <2>2, <1>7
  <2>7. x[4].need = {} /\ x[4].free = {} /\ x[4].minus = {d} /\ x[4].plus = {} /\ ~IsIf(x[4])
    BY <2>2, <1>8
  <2>8. x[5].need = {} /\ x[5].free = {} /\ x[5].minus = {o} /\ x[5].plus = {} /\ ~IsIf(x[5])
    BY <2>2, <1>5
  <2>9. Guarded(x)
    <3> DEFINE fine(i, j) == IsIf(x[i]) \/
           /\ \A f \in x[i].free : Gone(x, j, f)
           /\ x[i].need # {} => \A f \in x[i].minus : Given(x, j, f)
    <3>1. fine(1, 0)
      BY <2>4
    <3>2. fine(2, 1)
      BY <2>5
    <3>3. fine(3, 2)
      BY <2>6
    <3>4. fine(4, 3)
      BY <2>7
    <3>5. fine(5, 4)
      BY <2>8
    <3> HIDE DEF fine
    <3>6. \A i \in DOMAIN x : fine(i, i - 1)
      BY <2>3, <3>1, <3>2, <3>3, <3>4, <3>5
    <3> QED  BY <3>6 DEF fine, Guarded
  <2>10. t \in Found("down", 44) /\ Spared(x, 1, t)
    BY <1>2, <1>3, <1>4, <2>4 DEF Found, Spared, Removes
  <2>11. Eased("down", 44, x)
    <3> DEFINE fine(i, j) == IsIf(x[i]) \/
           /\ \A f \in x[i].need : Given(x, j, f) \/ (f \in Found("down", 44) /\ Spared(x, j, f))
           /\ \A f \in x[i].free : Gone(x, j, f) \/ (f \in Missing("down", 44) /\ Unadded(x, j, f))
    <3>1. fine(1, 0)
      BY <2>4
    <3>2. fine(2, 1)
      BY <2>5, <2>10
    <3>3. fine(3, 2)
      BY <2>6
    <3>4. fine(4, 3)
      BY <2>7
    <3>5. fine(5, 4)
      BY <2>8
    <3> HIDE DEF fine
    <3>6. \A i \in DOMAIN x : fine(i, i - 1)
      BY <2>3, <3>1, <3>2, <3>3, <3>4, <3>5
    <3> QED  BY <3>6 DEF fine, Eased
  <2> QED  BY <2>9, <2>11, <1>18 DEF DownPath
<1>20. ASSUME NEW x, Along(x, L, 1, No(s1), no)
      PROVE  DownPath(44, x)
  <2>1. Len(x) = 2 /\ DOMAIN x = 1..2
    BY <1>20, <1>13, <1>10 DEF Along
  <2>2. x[1] = No(s1) /\ x[2] = s2
    BY <1>20, <1>13, <1>10 DEF Along
  <2>3. \A i \in DOMAIN x : i = 1 \/ i = 2
    BY <2>1
  <2> HIDE <1>20
  <2>4. x[1].need = {} /\ x[1].free = {o} /\ x[1].minus = {o} /\ x[1].plus = {} /\ IsIf(x[1])
    BY <2>2, <1>17
  <2>5. x[2].need = {} /\ x[2].free = {} /\ x[2].minus = {o} /\ x[2].plus = {} /\ ~IsIf(x[2])
    BY <2>2, <1>5
  <2>6. Guarded(x)
    <3> DEFINE fine(i, j) == IsIf(x[i]) \/
           /\ \A f \in x[i].free : Gone(x, j, f)
           /\ x[i].need # {} => \A f \in x[i].minus : Given(x, j, f)
    <3>1. fine(1, 0)
      BY <2>4
    <3>2. fine(2, 1)
      BY <2>5
    <3> HIDE DEF fine
    <3>3. \A i \in DOMAIN x : fine(i, i - 1)
      BY <2>3, <3>1, <3>2
    <3> QED  BY <3>3 DEF fine, Guarded
  <2>7. Eased("down", 44, x)
    <3> DEFINE fine(i, j) == IsIf(x[i]) \/
           /\ \A f \in x[i].need : Given(x, j, f) \/ (f \in Found("down", 44) /\ Spared(x, j, f))
           /\ \A f \in x[i].free : Gone(x, j, f) \/ (f \in Missing("down", 44) /\ Unadded(x, j, f))
    <3>1. fine(1, 0)
      BY <2>4
    <3>2. fine(2, 1)
      BY <2>5
    <3> HIDE DEF fine
    <3>3. \A i \in DOMAIN x : fine(i, i - 1)
      BY <2>3, <3>1, <3>2
    <3> QED  BY <3>3 DEF fine, Eased
  <2> QED  BY <2>6, <2>7, <1>18 DEF DownPath
<1>21. \A x \in Paths(Migrations[44].down) : DownPath(44, x)
  BY <1>1, <1>14, <1>15, <1>13, <1>12, <1>19, <1>20, ForkPaths
<1> QED  BY <1>21

-----------------------------------------------------------------------------
(***************************************************************************)
(* The list keeps the rules.                                               *)
(***************************************************************************)

\* Every migration keeps the rules on its way up.
LEMMA AllUp == \A m \in DOMAIN Migrations : \A x \in Paths(Migrations[m].up) : UpPath(m, x)
<1> SUFFICES ASSUME NEW m \in DOMAIN Migrations, NEW x \in Paths(Migrations[m].up)
             PROVE  UpPath(m, x)
  OBVIOUS
<1>1. CASE m \in GuardedNumbers
  BY <1>1, GuardedPaths
<1>2. CASE m \in {1, 7, 8, 11, 15}
  BY <1>2, One, Seven, Eight, Eleven, Fifteen
<1>3. CASE m \in {19, 20, 22, 23, 24, 26}
  BY <1>3, Nineteen, Twenty, TwentyTwo, TwentyThree, TwentyFour, TwentySix
<1>4. CASE m \in {5, 6, 32, 36}
  BY <1>4, FivePaths, SixPaths, ThirtyTwoPaths, ThirtySixPaths
<1>5. CASE m \in {37, 38, 39, 44}
  BY <1>5, ThirtySevenPaths, ThirtyEightPaths, ThirtyNinePaths, FortyFourPaths
<1> QED  BY <1>1, <1>2, <1>3, <1>4, <1>5, Kindred DEF PlainNumbers

\* Every migration keeps the rules on its way down.
LEMMA AllDown == \A m \in DOMAIN Migrations : \A x \in Paths(Migrations[m].down) : DownPath(m, x)
<1> SUFFICES ASSUME NEW m \in DOMAIN Migrations, NEW x \in Paths(Migrations[m].down)
             PROVE  DownPath(m, x)
  OBVIOUS
<1>1. CASE m \in GuardedNumbers
  BY <1>1, GuardedPaths
<1>2. CASE m \in {1, 7, 8, 11, 15}
  BY <1>2, One, Seven, Eight, Eleven, Fifteen
<1>3. CASE m \in {19, 20, 22, 23, 24, 26}
  BY <1>3, Nineteen, Twenty, TwentyTwo, TwentyThree, TwentyFour, TwentySix
<1>4. CASE m \in {5, 32, 36, 37, 38, 39}
  BY <1>4, ClearedPaths
<1>5. CASE m \in {6, 44}
  BY <1>5, SixPaths, FortyFourBack
<1> QED  BY <1>1, <1>2, <1>3, <1>4, <1>5, Kindred DEF PlainNumbers

\* Every migration can be repeated from wherever it stopped, unless it is listed
\* as one that cannot.
LEMMA IsGuardedUnlessListed == GuardedUnlessListed
<1> SUFFICES ASSUME NEW d \in Directions, NEW m \in DOMAIN Migrations, <<d, Migrations[m]>> \notin Unguarded,
                    NEW x \in Paths(Body(d, m))
             PROVE  Guarded(x)
  BY DEF GuardedUnlessListed
<1>1. CASE d = "up"
  <2>1. m \notin FragileNumbers
    BY <1>1, FragileAre DEF Fragile
  <2> QED  BY <1>1, <2>1, AllUp DEF Body, UpPath
<1>2. CASE d = "down"
  <2>1. \A k \in Dropping : <<"down", Migrations[k]>> \in Unguarded
    BY Special DEF Dropping, Unguarded
  <2>2. m \notin Dropping
    BY <1>2, <2>1
  <2> QED  BY <1>2, <2>2, AllDown DEF Body, DownPath
<1> QED  BY <1>1, <1>2 DEF Directions

\* Every migration leaves all it owes.
LEMMA IsLeavesAll == LeavesAll
BY AllUp DEF LeavesAll, UpPath

\* The tables of the facts of the migrations that cannot be repeated.
LEMMA FragileTables ==
  ASSUME NEW f
  PROVE  /\ Number(f) = 1 => f[1] = "listing_page_seo"
         /\ Number(f) = 6 => f[1] = "properties" \/ f[1] = "property_seo"
         /\ Number(f) = 7 => f[1] = "properties" \/ f[1] = "property_details"
         /\ Number(f) = 8 => f[1] = "projects"
         /\ Number(f) = 11 => f[1] = "property_details"
         /\ Number(f) = 15 => \/ f[1] = "projects" \/ f[1] = "project_units" \/ f[1] = "project_faqs"
                              \/ f[1] \in {"project_unit_furnishings", "project_amenities"}
<1>1. Number(f) = 1 => f[1] = "listing_page_seo"
  BY DEF Number
<1>2. Number(f) = 8 => f[1] = "projects"
  BY DEF Number
<1>3. ASSUME f[1] # "property_seo", f[1] # "properties"
      PROVE  Number(f) # 6
  BY <1>3 DEF Number
<1>4. ASSUME f[1] # "property_details", f[1] # "properties"
      PROVE  Number(f) # 7
  BY <1>4 DEF Number
<1>5. ASSUME f[1] # "property_details"
      PROVE  Number(f) # 11
  BY <1>5 DEF Number
<1>6. ASSUME f[1] # "project_faqs", f[1] # "projects", f[1] # "project_units",
             f[1] \notin {"project_unit_furnishings", "project_amenities"}
      PROVE  Number(f) # 15
  BY <1>6 DEF Number
<1> QED  BY <1>1, <1>2, <1>3, <1>4, <1>5, <1>6

\* What a fragile migration is about lies in its own tables, and in those
\* that stay.
LEMMA OwnTables ==
  ASSUME NEW k \in FragileNumbers, NEW f, Number(f) = k
  PROVE  Dropper(f) = 0 \/ Dropper(f) = k
<1> DEFINE t == T(f[1])
<1>1. t[1] = f[1] /\ t[2] = ""
  BY DEF T
<1> HIDE DEF t
<1>2. f[1] \in {"properties", "property_details", "projects", "project_units"} \/ f[1] \in {"listing_page_seo", "property_seo", "project_unit_furnishings", "project_amenities", "project_faqs"}
  BY FragileTables DEF FragileNumbers
<1>3. f[1] \in {"properties", "property_details", "projects", "project_units"} => Number(t) = 0
  BY Zenon, <1>1 DEF Number
<1>4. f[1] = "listing_page_seo" => Number(t) = Number(f)
  BY Zenon, <1>1 DEF Number
<1>5. f[1] = "property_seo" => Number(t) = Number(f)
  BY Zenon, <1>1 DEF Number
<1>6. f[1] = "project_unit_furnishings" => Number(t) = Number(f)
  BY Zenon, <1>1 DEF Number
<1>7. f[1] = "project_amenities" => Number(t) = Number(f)
  BY Zenon, <1>1 DEF Number
<1>8. f[1] = "project_faqs" => Number(t) = 15 /\ (Number(f) = 15 \/ Number(f) = 31)
  BY Zenon, <1>1 DEF Number
<1> QED  BY <1>2, <1>3, <1>4, <1>5, <1>6, <1>7, <1>8 DEF Dropper, t, FragileNumbers

\* No other migration touches what one that cannot be repeated adds or removes,
\* and its revert restores what it found.
LEMMA IsFragileApart == FragileApart
<1> SUFFICES ASSUME NEW m \in FragileNumbers
             PROVE  LET P == Plus(Migrations[m].up) M == Minus(Migrations[m].up) IN
               /\ P \intersect Base = {} /\ PropertyKey \notin P /\ M \subseteq Base
               /\ \A n \in DOMAIN Migrations \ {m}, d \in Directions :
                    \A s \in Changes(d, n), f \in P \union M : f \notin s.plus /\ ~Removes(s, f)
               /\ \A x \in Paths(Migrations[m].up), f \in M : Gone(x, Len(x), f)
               /\ \A x \in Paths(Migrations[m].down) :
                    /\ \A f \in P : Gone(x, Len(x), f)
                    /\ \A f \in M : Given(x, Len(x), f)
  BY FragileAre DEF FragileApart
<1> DEFINE P == Plus(Migrations[m].up)
           M == Minus(Migrations[m].up)
<1>1. m \in DOMAIN Migrations /\ m # 0 /\ m \notin {5, 32, 36, 37, 38, 44}
  BY Kindred DEF FragileNumbers
<1>2. \A f \in P \union M : IsOf(f, m) /\ Number(f) = m
  <2>1. \A f \in P \union M : IsOf(f, m)
    BY <1>1, FactsAre
  <2> QED  BY <1>1, <2>1 DEF IsOf
<1>3. M \subseteq Base /\ (m # 6 => M = {})
  <2>1. CASE m = 6
    <3>1. M \subseteq {Meta("meta_title"), Meta("meta_description"), Meta("meta_keywords")}
      BY <2>1, SixPaths
    <3> QED  BY <2>1, <3>1 DEF Base
  <2>2. CASE m # 6
    <3>1. m \in PlainNumbers
      BY <2>2 DEF FragileNumbers, PlainNumbers
    <3> QED  BY <2>2, <3>1, PlainMigrations, AddsLeave
  <2> QED  BY <2>1, <2>2
<1>4. P \intersect Base = {}
  <2> SUFFICES ASSUME NEW f \in P, f \in Base
               PROVE  FALSE
    OBVIOUS
  <2>1. CASE m = 6
    <3>1. f = T("property_seo") \/ f = <<"property_seo", "rows">>
      BY <2>1, SixPaths
    <3>2. T("property_seo") \notin Base
      BY Zenon DEF T, Base, Meta, LegacyNames, Unsafe
    <3>3. <<"property_seo", "rows">> \notin Base
      BY Zenon DEF T, Base, Meta, LegacyNames, Unsafe
    <3> QED  BY <3>1, <3>2, <3>3
  <2>2. CASE m # 6
    <3>1. \/ \E t \in {"properties", "property_details", "property_units", "projects", "project_units", "ads",
                       "leads", "users", "amenities", "project_seo", "seo_metadata", "sublocations"} : f = T(t)
          \/ f \in {Meta("meta_title"), Meta("meta_description"), Meta("meta_keywords")}
          \/ f \in {LegacyNames, Unsafe}
      BY DEF Base
    <3>2. ASSUME NEW t \in {"properties", "property_details", "property_units", "projects", "project_units", "ads",
                            "leads", "users", "amenities", "project_seo", "seo_metadata", "sublocations"}
          PROVE  Number(T(t)) \in {0, 5}
      <4> DEFINE g == T(t)
      <4>1. g[1] = t /\ g[2] = ""
        BY DEF T
      <4> HIDE DEF g
      <4>2. Number(g) \in {0, 5}
        BY Zenon, <4>1 DEF Number
      <4> QED  BY <4>2 DEF g
    <3>3. Number(Meta("meta_title")) = 6
      BY DEF Number, Meta
    <3>4. Number(Meta("meta_description")) = 6
      BY DEF Number, Meta
    <3>5. Number(Meta("meta_keywords")) = 6
      BY DEF Number, Meta
    <3>6. Number(LegacyNames) = 0
      BY DEF Number, LegacyNames
    <3>7. Number(Unsafe) = 44
      BY DEF Number, Unsafe
    <3> QED  BY <1>1, <1>2, <2>2, <3>1, <3>2, <3>3, <3>4, <3>5, <3>6, <3>7
  <2> QED  BY <2>1, <2>2
<1>5. PropertyKey \notin P
  <2>1. Number(PropertyKey) = 32
    BY DEF Number, PropertyKey
  <2> QED  BY <1>1, <1>2, <2>1
<1>6. ASSUME NEW n \in DOMAIN Migrations \ {m}, NEW d \in Directions, NEW s \in Changes(d, n), NEW f \in P \union M
      PROVE  f \notin s.plus /\ ~Removes(s, f)
  <2>1. f # Inventory /\ T(f[1]) # Inventory
    <3>1. T(f[1]) # Inventory
      BY DEF T, Inventory
    <3> QED  BY <1>1, <1>2, <3>1, CheckDropped
  <2>2. f \notin s.plus \union s.minus
    <3>1. f \in s.plus \union s.minus => IsOf(f, n)
      BY FactsAre
    <3> QED  BY <1>2, <2>1, <3>1 DEF IsOf
  <2>3. T(f[1]) \notin s.minus
    <3>1. T(f[1]) \in s.minus => IsOf(T(f[1]), n)
      BY FactsAre
    <3>2. T(f[1]) \in s.minus => Dropper(f) = n
      BY <2>1, <3>1 DEF IsOf, Dropper
    <3>3. n # 0
      BY Kindred
    <3> QED  BY <1>2, <3>2, <3>3, OwnTables
  <2> QED  BY <2>2, <2>3 DEF Removes
<1>7. \A x \in Paths(Migrations[m].up), f \in M : Gone(x, Len(x), f)
  BY <1>1, AllUp DEF UpPath
<1>8. \A x \in Paths(Migrations[m].down) : (\A f \in P : Gone(x, Len(x), f)) /\ (\A f \in M : Given(x, Len(x), f))
  BY <1>1, AllDown DEF DownPath
<1> QED  BY <1>3, <1>4, <1>5, <1>6, <1>7, <1>8

\* No other migration touches, on its way up, what a guard that decides tests.
LEMMA TestsAlone ==
  ASSUME NEW m \in DecidingNumbers, NEW f \in Tests(m), NEW n \in DOMAIN Migrations \ {m}, NEW s \in Changes("up", n)
  PROVE  f \notin s.plus /\ ~Removes(s, f)
<1>1. /\ \A g \in s.plus \union s.minus : IsOf(g, n)
      /\ n # 0
  BY FactsAre, Kindred
<1>2. f # Inventory /\ T(f[1]) # Inventory /\ (Number(f) = m \/ Number(f) = 0)
      /\ (Number(T(f[1])) \in {0, m} \/ (m = 39 /\ Number(T(f[1])) = 36))
  <2>1. CASE m = 5
    <3>1. f = LegacyNames
      BY <2>1, FivePaths
    <3>2. T(LegacyNames[1]) = T("sublocations") /\ LegacyNames # Inventory /\ T("sublocations") # Inventory
      BY DEF T, LegacyNames, Inventory
    <3>3. Number(LegacyNames) = 0
      BY DEF Number, LegacyNames
    <3>4. Number(T("sublocations")) = 5
      BY DEF Number, T
    <3> QED  BY <2>1, <3>1, <3>2, <3>3, <3>4
  <2>2. CASE m = 32
    <3>1. f = Nullable
      BY <2>2, ThirtyTwoPaths
    <3>2. T(Nullable[1]) = T("leads") /\ Nullable # Inventory /\ T("leads") # Inventory
      BY DEF T, Nullable, Inventory
    <3>3. Number(Nullable) = 32
      BY DEF Number, Nullable
    <3>4. Number(T("leads")) = 0
      BY DEF Number, T
    <3> QED  BY <2>2, <3>1, <3>2, <3>3, <3>4
  <2>3. CASE m = 39
    <3>1. f = CanonicalType
      BY <2>3, ThirtyNinePaths
    <3>2. T(CanonicalType[1]) = T("seo_configs") /\ CanonicalType # Inventory /\ T("seo_configs") # Inventory
      BY DEF T, CanonicalType, Inventory
    <3>3. Number(CanonicalType) = 39
      BY DEF Number, CanonicalType
    <3>4. Number(T("seo_configs")) = 36
      BY DEF Number, T
    <3> QED  BY <2>3, <3>1, <3>2, <3>3, <3>4
  <2>4. CASE m = 44
    <3>1. f = Unsafe
      BY <2>4, FortyFourPaths
    <3>2. T(Unsafe[1]) = T("properties") /\ Unsafe # Inventory /\ T("properties") # Inventory
      BY DEF T, Unsafe, Inventory
    <3>3. Number(Unsafe) = 44
      BY DEF Number, Unsafe
    <3>4. Number(T("properties")) = 0
      BY DEF Number, T
    <3> QED  BY <2>4, <3>1, <3>2, <3>3, <3>4
  <2> QED  BY <2>1, <2>2, <2>3, <2>4 DEF DecidingNumbers
<1>3. f \notin s.plus \union s.minus
  BY <1>1, <1>2 DEF IsOf
<1>4. T(f[1]) \notin s.minus
  <2>1. CASE m = 39 /\ n = 36
    BY <2>1, ThirtySixPaths
  <2>2. CASE ~(m = 39 /\ n = 36)
    BY <1>1, <1>2, <2>2 DEF IsOf
  <2> QED  BY <2>1, <2>2
<1> QED  BY <1>3, <1>4 DEF Removes

\* The guards that decide find the unified schema as it was: they take the
\* branch that does all.
LEMMA IsDecidingApart == DecidingApart
<1> SUFFICES ASSUME NEW m \in Deciding
             PROVE  /\ Tests(m) \ Base \subseteq Plus(Migrations[m].up) \ {PropertyKey}
                    /\ \A n \in DOMAIN Migrations \ {m} :
                         \A s \in Changes("up", n), f \in Tests(m) : f \notin s.plus /\ ~Removes(s, f)
                    /\ \A x \in Paths(Migrations[m].up) :
                         (\A f \in Lasting[m] : Given(x, Len(x), f)) \/ Barred(m, x)
  BY DEF DecidingApart, Barred
<1>1. m \in DecidingNumbers /\ m \in DOMAIN Migrations
  BY DecidingAre DEF Deciding
<1>2. Tests(m) \ Base \subseteq Plus(Migrations[m].up) \ {PropertyKey}
  <2>1. LegacyNames \in Base /\ Unsafe \in Base
    BY DEF Base
  <2>2. Nullable # PropertyKey /\ CanonicalType # PropertyKey
    BY DEF Nullable, PropertyKey, CanonicalType
  <2>3. CASE m = 5
    BY <2>1, <2>3, FivePaths
  <2>4. CASE m = 32
    BY <2>2, <2>4, ThirtyTwoPaths
  <2>5. CASE m = 39
    BY <2>2, <2>5, ThirtyNinePaths
  <2>6. CASE m = 44
    BY <2>1, <2>6, FortyFourPaths
  <2> QED  BY <1>1, <2>3, <2>4, <2>5, <2>6 DEF DecidingNumbers
<1>3. \A x \in Paths(Migrations[m].up) : (\A f \in Lasting[m] : Given(x, Len(x), f)) \/ Barred(m, x)
  BY <1>1, AllUp DEF UpPath
<1> QED  BY <1>1, <1>2, <1>3, TestsAlone

\* The migrations that matter find what they need, as long as nothing has died.
LEMMA IsNothingFails == NothingFails
<1>1. \A d, m : Smooth(d, m) <=> \A x \in Paths(Body(d, m)) : Eased(d, m, x)
  BY DEF Smooth, Eased
<1>2. \A m \in Fragile \union Deciding : m \in FragileNumbers \cup DecidingNumbers
  BY FragileAre, DecidingAre
<1>3. \A m \in DOMAIN Migrations : /\ Body("up", m) = Migrations[m].up
                                   /\ Body("down", m) = Migrations[m].down
  BY DEF Body
<1>4. ASSUME NEW m \in DOMAIN Migrations
      PROVE  /\ m \in Fragile \union Deciding => Smooth("up", m)
             /\ Smooth("down", m)
  <2>1. m \in Fragile \union Deciding => \A x \in Paths(Body("up", m)) : Eased("up", m, x)
    BY <1>2, <1>3, AllUp DEF UpPath
  <2>2. \A x \in Paths(Body("down", m)) : Eased("down", m, x)
    BY <1>3, AllDown DEF DownPath
  <2> QED  BY <1>1, <2>1, <2>2
<1> QED  BY <1>4 DEF NothingFails

\* The list of migrations keeps the rules.
LEMMA RulesHold == MigrationRules
BY IsWellFormed, IsBaseTabled, IsGuardedUnlessListed, IsNobodyElseRemoves, IsLeavesAll, IsFragileApart,
   IsDecidingApart, IsNothingFails
   DEF MigrationRules

-----------------------------------------------------------------------------
(***************************************************************************)
(* The properties.                                                         *)
(***************************************************************************)

\* A migration that is recorded is done: all it adds for good is there, but for
\* what a run that died, or a revert, may have lost for good.
THEOREM SchemaIsDone ==
  ASSUME MigrationsAssumption
  PROVE  SchemaSpec => []RecordedIsDone
<1>1. SchemaSpec => [](RecordedIsDone /\ StuckOnlyUnguarded)
  BY RulesHold, RulesSuffice
<1> QED
  BY <1>1, PTL

\* A migration that fails from where the last run stopped, and will whenever it
\* is run, is one whose statements have no guard.
THEOREM SchemaNotStuck ==
  ASSUME MigrationsAssumption
  PROVE  SchemaSpec => []StuckOnlyUnguarded
<1>1. SchemaSpec => [](RecordedIsDone /\ StuckOnlyUnguarded)
  BY RulesHold, RulesSuffice
<1> QED
  BY <1>1, PTL

=============================================================================
