----------------------------- MODULE DemoSeedProofs -----------------------------
(***************************************************************************)
(* Theorems about DemoSeed, for any number of keys, users, profiles before and    *)
(* cases: however often the commands run and wherever they are killed.           *)
(*                                                                          *)
(* A statement brings something about (Done) that no later step takes back, of   *)
(* this run, of a later one or of seed_demo_data; so what a killed run has done  *)
(* is never in the way of the next, and a run that ends has done everything.     *)
(***************************************************************************)
EXTENDS DemoSeed, FiniteSetTheorems, SequenceTheorems, TLAPS

(* The statements and their order *)

\* What the lists of the users hold
LEMMA Users ==
  /\ ProfileUser \in Seq(Kind \X {1, 2}) /\ Len(ProfileUser) = 4
  /\ DemoUser \in Seq(Group \X {1, 2}) /\ Len(DemoUser) = 6
  /\ \A i \in 1..4 : ProfileUser[i] \in Kind \X {1, 2} /\ DemoUser[i + 2] = ProfileUser[i]
  /\ \A i \in 1..6 : DemoUser[i] \in Group \X {1, 2}
<1>1. /\ ProfileUser \in Seq(Kind \X {1, 2}) /\ Len(ProfileUser) = 4
      /\ \A i \in 1..4 : ProfileUser[i] \in Kind \X {1, 2}
  BY DEF ProfileUser, Kind
<1>2. /\ DemoUser \in Seq(Group \X {1, 2}) /\ Len(DemoUser) = 6
      /\ \A i \in 1..4 : DemoUser[i + 2] = ProfileUser[i]
      /\ \A i \in 1..6 : DemoUser[i] \in Group \X {1, 2}
  BY DEF DemoUser, ProfileUser, Kind, Group
<1> QED
  BY <1>1, <1>2

\* The same as sets
LEMMA UserSets ==
  /\ ToSet(DemoUser) \subseteq Group \X {1, 2}
  /\ ToSet(ProfileUser) = Kind \X {1, 2}
  /\ ToSet(ProfileUser) \subseteq ToSet(DemoUser)
<1>1. ToSet(DemoUser) \subseteq Group \X {1, 2}
  BY Users DEF ToSet
<1>2. ToSet(ProfileUser) = Kind \X {1, 2}
  <2>1. ToSet(ProfileUser) \subseteq Kind \X {1, 2}
    BY Users DEF ToSet
  <2>2. ASSUME NEW k \in Kind, NEW n \in {1, 2} PROVE <<k, n>> \in ToSet(ProfileUser)
    <3>1. /\ ProfileUser[1] = <<"customer", 1>> /\ ProfileUser[2] = <<"customer", 2>>
          /\ ProfileUser[3] = <<"merchant", 1>> /\ ProfileUser[4] = <<"merchant", 2>>
      BY DEF ProfileUser
    <3>2. 1 \in DOMAIN ProfileUser /\ 2 \in DOMAIN ProfileUser
          /\ 3 \in DOMAIN ProfileUser /\ 4 \in DOMAIN ProfileUser
      BY Users
    <3> QED
      BY <3>1, <3>2 DEF ToSet, Kind
  <2>3. ASSUME NEW u \in Kind \X {1, 2} PROVE u \in ToSet(ProfileUser)
    <3>1. u[1] \in Kind /\ u[2] \in {1, 2} /\ u = <<u[1], u[2]>>
      OBVIOUS
    <3> QED
      BY <2>2, <3>1
  <2> QED
    BY <2>1, <2>3
<1>3. ASSUME NEW u \in ToSet(ProfileUser) PROVE u \in ToSet(DemoUser)
  <2>1. PICK i \in 1..4 : u = ProfileUser[i]
    BY Users DEF ToSet
  <2>2. i + 2 \in 1..6 /\ DemoUser[i + 2] = u
    BY <2>1, Users
  <2> QED
    BY <2>2, Users DEF ToSet
<1> QED
  BY <1>1, <1>2, <1>3

\* r is s, then t
Joins(r, s, t) ==
  /\ Len(r) = Len(s) + Len(t)
  /\ \A i \in 1..Len(s) : r[i] = s[i]
  /\ \A i \in 1..Len(t) : r[Len(s) + i] = t[i]

\* The concatenation of sequences joins them.
LEMMA Joined ==
  ASSUME NEW S, NEW s \in Seq(S), NEW t \in Seq(S)
  PROVE  s \o t \in Seq(S) /\ Joins(s \o t, s, t)
<1>1. /\ s \o t \in Seq(S) /\ Len(s \o t) = Len(s) + Len(t)
      /\ \A i \in 1..(Len(s) + Len(t)) :
           (s \o t)[i] = IF i <= Len(s) THEN s[i] ELSE t[i - Len(s)]
  BY ConcatProperties, Zenon
<1> DEFINE r == s \o t  m == Len(s)  n == Len(t)
<1>2. m \in Nat /\ n \in Nat
  OBVIOUS
<1>3. /\ \A i \in 1..m : i \in 1..(m + n) /\ i <= m
      /\ \A i \in 1..n : m + i \in 1..(m + n) /\ ~(m + i <= m) /\ (m + i) - m = i
  <2> HIDE DEF m, n
  <2> QED
    BY <1>2
<1>4. \A i \in 1..(m + n) : r[i] = IF i <= m THEN s[i] ELSE t[i - m]
  BY <1>1
<1>5. /\ \A i \in 1..m : r[i] = s[i]
      /\ \A i \in 1..n : r[m + i] = t[i]
  <2> HIDE DEF m, n, r
  <2> QED
    BY <1>3, <1>4
<1> QED
  BY <1>1, <1>5, Zenon DEF Joins

\* Which statement comes at which place
LEMMA Places ==
  /\ \A i \in 1..6 : /\ Statements[2 * i - 1] = [do |-> "user", what |-> DemoUser[i]]
                     /\ Statements[2 * i] = [do |-> "group", what |-> DemoUser[i]]
  /\ \A i \in 1..4 : /\ Statements[11 + 2 * i] = [do |-> "rename", what |-> ProfileUser[i]]
                     /\ Statements[12 + 2 * i] = [do |-> "profile", what |-> ProfileUser[i]]
  /\ \A i \in 1..(2 * BlockSize) : Statements[20 + i] = [do |-> "case", what |-> i]
  /\ Len(Statements) = 20 + 2 * BlockSize
<1> DEFINE AnyStatement == [do : {"user", "group", "rename", "profile", "case"},
                   what : (Group \X {1, 2}) \cup Nat]
<1> DEFINE U == UserStatements  P == ProfileStatements  C == CaseStatements
<1>1. /\ U \in Seq(AnyStatement) /\ Len(U) = 12
      /\ \A i \in 1..6 : /\ U[2 * i - 1] = [do |-> "user", what |-> DemoUser[i]]
                         /\ U[2 * i] = [do |-> "group", what |-> DemoUser[i]]
  <2>1. /\ Len(DemoUser) = 6
        /\ \A i \in 1..6 : DemoUser[i] \in Group \X {1, 2}
    BY Users
  <2>2. \A i \in 1..12 : (i + 1) \div 2 \in 1..6
    OBVIOUS
  <2>3. U = [i \in 1..12 |-> [do |-> IF i % 2 = 1 THEN "user" ELSE "group",
                              what |-> DemoUser[(i + 1) \div 2]]]
    BY <2>1 DEF UserStatements, InPairs
  <2>4. \A i \in 1..6 : /\ (2 * i - 1) % 2 = 1 /\ (2 * i) % 2 = 0
                        /\ (2 * i - 1 + 1) \div 2 = i /\ (2 * i + 1) \div 2 = i
                        /\ 2 * i - 1 \in 1..12 /\ 2 * i \in 1..12
    OBVIOUS
  <2> HIDE DEF U
  <2>5. U \in Seq(AnyStatement) /\ Len(U) = 12
    BY <2>1, <2>2, <2>3
  <2> QED
    BY <2>3, <2>4, <2>5
<1>2. /\ P \in Seq(AnyStatement) /\ Len(P) = 8
      /\ \A i \in 1..4 : /\ P[2 * i - 1] = [do |-> "rename", what |-> ProfileUser[i]]
                         /\ P[2 * i] = [do |-> "profile", what |-> ProfileUser[i]]
  <2>1. /\ Len(ProfileUser) = 4
        /\ \A i \in 1..4 : ProfileUser[i] \in Group \X {1, 2}
    BY Users DEF Kind, Group
  <2>2. \A i \in 1..8 : (i + 1) \div 2 \in 1..4
    OBVIOUS
  <2>3. P = [i \in 1..8 |-> [do |-> IF i % 2 = 1 THEN "rename" ELSE "profile",
                              what |-> ProfileUser[(i + 1) \div 2]]]
    BY <2>1 DEF ProfileStatements, InPairs
  <2>4. \A i \in 1..4 : /\ (2 * i - 1) % 2 = 1 /\ (2 * i) % 2 = 0
                        /\ (2 * i - 1 + 1) \div 2 = i /\ (2 * i + 1) \div 2 = i
                        /\ 2 * i - 1 \in 1..8 /\ 2 * i \in 1..8
    OBVIOUS
  <2> HIDE DEF P
  <2>5. P \in Seq(AnyStatement) /\ Len(P) = 8
    BY <2>1, <2>2, <2>3
  <2> QED
    BY <2>3, <2>4, <2>5
<1>3. /\ C \in Seq(AnyStatement) /\ Len(C) = 2 * BlockSize
      /\ \A i \in 1..(2 * BlockSize) : C[i] = [do |-> "case", what |-> i]
  BY SeedAssumption DEF CaseStatements
<1> HIDE DEF U, P, C
<1> DEFINE W == U \o P
<1>4. Statements = W \o C
  BY DEF Statements, U, P, C
<1> HIDE DEF AnyStatement
<1>5. W \in Seq(AnyStatement) /\ Joins(W, U, P)
  <2>1. U \in Seq(AnyStatement) /\ P \in Seq(AnyStatement)
    BY <1>1, <1>2
  <2> QED
    BY <2>1, Joined, Zenon
<1> HIDE DEF W
<1>6. /\ W \in Seq(AnyStatement) /\ Len(W) = 20
      /\ \A i \in 1..12 : W[i] = U[i]
      /\ \A i \in 1..8 : W[12 + i] = P[i]
  BY <1>1, <1>2, <1>5 DEF Joins
<1>7. /\ Len(Statements) = 20 + 2 * BlockSize
      /\ \A i \in 1..20 : Statements[i] = W[i]
      /\ \A i \in 1..(2 * BlockSize) : Statements[20 + i] = C[i]
  <2>1. C \in Seq(AnyStatement) /\ Len(C) = 2 * BlockSize /\ W \in Seq(AnyStatement) /\ Len(W) = 20
    BY <1>3, <1>6
  <2> DEFINE R == W \o C
  <2>2. Joins(R, W, C)
    BY <2>1, Joined, Zenon
  <2> HIDE DEF R
  <2>3. Statements = R
    BY <1>4 DEF R
  <2> QED
    BY <2>1, <2>2, <2>3 DEF Joins
<1>8. \A i \in 1..6 : /\ Statements[2 * i - 1] = [do |-> "user", what |-> DemoUser[i]]
                      /\ Statements[2 * i] = [do |-> "group", what |-> DemoUser[i]]
  <2>1. \A i \in 1..6 : 2 * i - 1 \in 1..12 /\ 2 * i \in 1..12
    OBVIOUS
  <2>2. \A i \in 1..12 : Statements[i] = U[i]
    BY <1>6, <1>7
  <2> QED
    BY <1>1, <2>1, <2>2
<1>9. \A i \in 1..4 : /\ Statements[11 + 2 * i] = [do |-> "rename", what |-> ProfileUser[i]]
                      /\ Statements[12 + 2 * i] = [do |-> "profile", what |-> ProfileUser[i]]
  <2> SUFFICES ASSUME NEW i \in 1..4
               PROVE /\ Statements[11 + 2 * i] = P[2 * i - 1]
                     /\ Statements[12 + 2 * i] = P[2 * i]
    BY <1>2
  <2>1. 12 + (2 * i - 1) = 11 + 2 * i /\ 11 + 2 * i \in 1..20 /\ 12 + 2 * i \in 1..20
        /\ 2 * i - 1 \in 1..8 /\ 2 * i \in 1..8
    OBVIOUS
  <2> QED
    BY <1>6, <1>7, <2>1
<1> QED
  BY <1>3, <1>7, <1>8, <1>9

\* What a statement of each kind is about, and which come before it.
LEMMA Order ==
  ASSUME NEW j \in 1..Len(Statements)
  PROVE  LET s == Statements[j] IN
         /\ s.do \in {"user", "group", "rename", "profile", "case"}
         /\ s.do \in {"user", "group"} => s.what \in ToSet(DemoUser)
         /\ s.do \in {"rename", "profile"} => s.what \in ToSet(ProfileUser)
         /\ s.do = "case" => s.what \in 1..(2 * BlockSize)
         /\ s.do = "profile" => \E i \in 1..(j - 1) :
              Statements[i] = [do |-> "rename", what |-> s.what]
         /\ s.do = "case" => \A u \in ToSet(ProfileUser) : \E i \in 1..(j - 1) :
              Statements[i] = [do |-> "profile", what |-> u]
<1> BlockSize \in Nat
  BY SeedAssumption
<1> DEFINE s == Statements[j]
<1>1. \/ \E i \in 1..6 : j = 2 * i - 1 \/ j = 2 * i
      \/ \E i \in 1..4 : j = 11 + 2 * i \/ j = 12 + 2 * i
      \/ \E i \in 1..(2 * BlockSize) : j = 20 + i
  <2>1. j \in 1..(20 + 2 * BlockSize)
    BY Places
  <2>2. CASE j \in 1..12
    <3>1. (j + 1) \div 2 \in 1..6 /\ (j = 2 * ((j + 1) \div 2) - 1 \/ j = 2 * ((j + 1) \div 2))
      BY <2>2
    <3> QED
      BY <3>1
  <2>3. CASE j \in 13..20
    <3>1. (j - 11) \div 2 \in 1..4
          /\ (j = 11 + 2 * ((j - 11) \div 2) \/ j = 12 + 2 * ((j - 11) \div 2))
      BY <2>3
    <3> QED
      BY <3>1
  <2>4. CASE j \notin 1..20
    <3>1. j - 20 \in 1..(2 * BlockSize) /\ j = 20 + (j - 20)
      BY <2>1, <2>4
    <3> QED
      BY <3>1
  <2> QED
    BY <2>1, <2>2, <2>3, <2>4
<1>2. CASE \E i \in 1..6 : j = 2 * i - 1 \/ j = 2 * i
  <2> PICK i \in 1..6 : j = 2 * i - 1 \/ j = 2 * i
    BY <1>2
  <2>1. \/ s = [do |-> "user", what |-> DemoUser[i]]
        \/ s = [do |-> "group", what |-> DemoUser[i]]
    <3>1. /\ Statements[2 * i - 1] = [do |-> "user", what |-> DemoUser[i]]
          /\ Statements[2 * i] = [do |-> "group", what |-> DemoUser[i]]
      BY Places
    <3> QED
      BY <3>1
  <2>2. DemoUser[i] \in ToSet(DemoUser)
    BY Users DEF ToSet
  <2> QED
    BY <2>1, <2>2
<1>3. ASSUME NEW i \in 1..4, j = 11 + 2 * i \/ j = 12 + 2 * i
      PROVE  /\ s.do = IF j = 11 + 2 * i THEN "rename" ELSE "profile"
             /\ s.what = ProfileUser[i] /\ s.what \in ToSet(ProfileUser)
             /\ j = 12 + 2 * i => j - 1 \in 1..(j - 1) /\
                  Statements[j - 1] = [do |-> "rename", what |-> s.what]
  <2>1. s = [do |-> IF j = 11 + 2 * i THEN "rename" ELSE "profile", what |-> ProfileUser[i]]
    BY <1>3, Places
  <2>2. j = 12 + 2 * i => j - 1 = 11 + 2 * i /\ j - 1 \in 1..(j - 1)
    OBVIOUS
  <2>3. j = 12 + 2 * i => Statements[j - 1] = [do |-> "rename", what |-> ProfileUser[i]]
    BY <2>2, Places
  <2>4. ProfileUser[i] \in ToSet(ProfileUser)
    BY Users DEF ToSet
  <2> QED
    BY <2>1, <2>2, <2>3, <2>4
<1>4. CASE \E i \in 1..4 : j = 11 + 2 * i \/ j = 12 + 2 * i
  <2> PICK i \in 1..4 : j = 11 + 2 * i \/ j = 12 + 2 * i
    BY <1>4
  <2> HIDE DEF s
  <2> QED
    BY <1>3 DEF s
<1>5. CASE \E i \in 1..(2 * BlockSize) : j = 20 + i
  <2> PICK i \in 1..(2 * BlockSize) : j = 20 + i
    BY <1>5
  <2>1. s = [do |-> "case", what |-> i]
    BY Places
  <2>2. ASSUME NEW u \in ToSet(ProfileUser)
        PROVE  \E n \in 1..(j - 1) : Statements[n] = [do |-> "profile", what |-> u]
    <3>1. PICK n \in 1..4 : u = ProfileUser[n]
      BY Users DEF ToSet
    <3>2. Statements[12 + 2 * n] = [do |-> "profile", what |-> u]
      BY <3>1, Places
    <3>3. 12 + 2 * n \in 1..(j - 1)
      OBVIOUS
    <3> QED
      BY <3>2, <3>3
  <2> QED
    BY <2>1, <2>2
<1> QED
  BY <1>1, <1>2, <1>4, <1>5

\* Nothing is left out.
LEMMA Everything ==
  /\ \A u \in ToSet(DemoUser) : \E i \in 1..Len(Statements) :
       Statements[i] = [do |-> "group", what |-> u]
  /\ \A u \in ToSet(ProfileUser) : \E i \in 1..Len(Statements) :
       Statements[i] = [do |-> "profile", what |-> u]
  /\ \A c \in 1..(2 * BlockSize) : \E i \in 1..Len(Statements) :
       Statements[i] = [do |-> "case", what |-> c]
<1> BlockSize \in Nat
  BY SeedAssumption
<1>1. ASSUME NEW u \in ToSet(DemoUser)
      PROVE  \E i \in 1..Len(Statements) : Statements[i] = [do |-> "group", what |-> u]
  <2>1. PICK n \in 1..6 : u = DemoUser[n]
    BY Users DEF ToSet
  <2>2. 2 * n \in 1..Len(Statements) /\ Statements[2 * n] = [do |-> "group", what |-> u]
    BY <2>1, Places
  <2> QED
    BY <2>2
<1>2. ASSUME NEW u \in ToSet(ProfileUser)
      PROVE  \E i \in 1..Len(Statements) : Statements[i] = [do |-> "profile", what |-> u]
  <2>1. PICK n \in 1..4 : u = ProfileUser[n]
    BY Users DEF ToSet
  <2>2. /\ 12 + 2 * n \in 1..Len(Statements)
        /\ Statements[12 + 2 * n] = [do |-> "profile", what |-> u]
    BY <2>1, Places
  <2> QED
    BY <2>2
<1>3. ASSUME NEW c \in 1..(2 * BlockSize)
      PROVE  \E i \in 1..Len(Statements) : Statements[i] = [do |-> "case", what |-> c]
  <2>1. 20 + c \in 1..Len(Statements) /\ Statements[20 + c] = [do |-> "case", what |-> c]
    BY Places
  <2> QED
    BY <2>1
<1> QED
  BY <1>1, <1>2, <1>3

--------------------------------------------------------------------------------
(* The tables of profiles *)

Others(k, t) == {p \in Pk : t[p] # None /\ t[p].user \notin {k} \X (0..2)}

\* A table that obeys the constraints and whose rows of strangers leave room.
TableOK(k, t) ==
  /\ t \in [Pk -> Profile \cup {None}]
  /\ \A p, q \in Pk : p # q /\ t[p] # None /\ t[q] # None =>
       t[p].user # t[q].user /\ t[p].ref # t[q].ref
  /\ IsFiniteSet(Others(k, t)) /\ Cardinality(Others(k, t)) <= MaxBefore

Has(t, u) == \E q \in Pk : t[q] # None /\ t[q].user = u

\* Where no row is of u, one is free.
LEMMA Room ==
  ASSUME NEW k \in Kind, NEW t, TableOK(k, t), NEW n \in 0..2, ~Has(t, <<k, n>>)
  PROVE  \E p \in Pk : t[p] = None
<1> SUFFICES ASSUME \A p \in Pk : t[p] # None PROVE FALSE
  OBVIOUS
<1> DEFINE Of(i) == {p \in Pk : t[p].user = <<k, i>>}
<1>1. ASSUME NEW i \in 0..2
      PROVE  IsFiniteSet(Of(i)) /\ Cardinality(Of(i)) <= IF i = n THEN 0 ELSE 1
  <2>1. CASE Of(i) = {}
    BY <2>1, FS_EmptySet
  <2>2. CASE Of(i) # {}
    <3> PICK p \in Of(i) : TRUE
      BY <2>2
    <3>1. Of(i) = {p}
      <4>1. p \in Pk /\ t[p].user = <<k, i>>
        OBVIOUS
      <4>2. ASSUME NEW q \in Pk, t[q].user = <<k, i>> PROVE q = p
        <5>1. p \in Pk /\ t[p] # None /\ t[q] # None /\ t[p].user = t[q].user
          BY <4>1, <4>2
        <5> QED
          BY <5>1 DEF TableOK
      <4> QED
        BY <4>1, <4>2
    <3>2. i # n
      <4>1. p \in Pk /\ t[p] # None /\ t[p].user = <<k, i>>
        OBVIOUS
      <4> QED
        BY <4>1 DEF Has
    <3>3. IsFiniteSet({p}) /\ Cardinality({p}) = 1
      BY FS_Singleton
    <3> HIDE DEF Of
    <3> QED
      BY <3>1, <3>2, <3>3
  <2> QED
    BY <2>1, <2>2
<1>2. Pk = ((Others(k, t) \cup Of(0)) \cup Of(1)) \cup Of(2)
  <2>1. ASSUME NEW p \in Pk, p \notin Others(k, t) PROVE p \in Of(0) \cup Of(1) \cup Of(2)
    <3>1. PICK i \in 0..2 : t[p].user = <<k, i>>
      BY <2>1 DEF Others
    <3>2. i = 0 \/ i = 1 \/ i = 2
      OBVIOUS
    <3> QED
      BY <3>1, <3>2
  <2> QED
    BY <2>1 DEF Others
<1> DEFINE O == Others(k, t)
<1>3. IsFiniteSet(O) /\ Cardinality(O) <= MaxBefore
  BY DEF TableOK
<1> HIDE DEF O, Of
<1>4. ASSUME NEW S, NEW T, IsFiniteSet(S), IsFiniteSet(T)
      PROVE  IsFiniteSet(S \cup T) /\ Cardinality(S \cup T) <= Cardinality(S) + Cardinality(T)
  <2>1. /\ IsFiniteSet(S \cup T)
        /\ Cardinality(S \cup T) = Cardinality(S) + Cardinality(T) - Cardinality(S \cap T)
    BY <1>4, FS_Union
  <2>2. IsFiniteSet(S \cap T)
    BY <1>4, FS_Subset, S \cap T \in SUBSET S
  <2>3. Cardinality(S) \in Nat /\ Cardinality(T) \in Nat /\ Cardinality(S \cap T) \in Nat
    BY <1>4, <2>2, FS_CardinalityType
  <2> QED
    BY <2>1, <2>3
<1>5. /\ IsFiniteSet(Of(0)) /\ IsFiniteSet(Of(1)) /\ IsFiniteSet(Of(2))
      /\ Cardinality(Of(0)) <= IF 0 = n THEN 0 ELSE 1
      /\ Cardinality(Of(1)) <= IF 1 = n THEN 0 ELSE 1
      /\ Cardinality(Of(2)) <= IF 2 = n THEN 0 ELSE 1
  BY <1>1
<1>6. /\ IsFiniteSet(O \cup Of(0))
      /\ Cardinality(O \cup Of(0)) <= Cardinality(O) + Cardinality(Of(0))
  BY <1>3, <1>4, <1>5
<1>7. /\ IsFiniteSet((O \cup Of(0)) \cup Of(1))
      /\ Cardinality((O \cup Of(0)) \cup Of(1)) <= Cardinality(O \cup Of(0)) + Cardinality(Of(1))
  BY <1>4, <1>5, <1>6
<1>8. /\ IsFiniteSet(Pk)
      /\ Cardinality(Pk) <= Cardinality((O \cup Of(0)) \cup Of(1)) + Cardinality(Of(2))
  BY <1>2, <1>4, <1>5, <1>7 DEF O
<1>9. /\ Cardinality(O) \in Nat /\ Cardinality(Of(0)) \in Nat
      /\ Cardinality(Of(1)) \in Nat /\ Cardinality(Of(2)) \in Nat
      /\ Cardinality(O \cup Of(0)) \in Nat /\ Cardinality((O \cup Of(0)) \cup Of(1)) \in Nat
      /\ Cardinality(Pk) \in Nat
  BY <1>3, <1>5, <1>6, <1>7, <1>8, FS_CardinalityType
<1>10. Cardinality(Pk) <= MaxBefore + 2
  BY <1>3, <1>5, <1>6, <1>7, <1>8, <1>9, SeedAssumption
<1> QED
  BY <1>8, <1>9, <1>10, SeedAssumption

\* The row a command finds: the user's, else the one with the reference, else none.
LEMMA FoundIs ==
  ASSUME NEW k \in Kind, TableOK(k, profiles[k]), NEW n \in 0..2, NEW ref
  PROVE  LET t == profiles[k]  u == <<k, n>>  p == Found(k, u, ref) IN
         /\ p \in Pk
         /\ \/ t[p] # None /\ t[p].user = u
            \/ ~Has(t, u) /\ t[p] # None /\ t[p].ref = ref
            \/ /\ ~Has(t, u) /\ t[p] = None
               /\ ~\E q \in Pk : t[q] # None /\ t[q].ref = ref
<1> DEFINE t == profiles[k]  u == <<k, n>>
           Of(p) == t[p] # None /\ t[p].user = u
           With(p) == t[p] # None /\ t[p].ref = ref
<1>1. CASE \E q \in Pk : Of(q)
  <2>1. Found(k, u, ref) = CHOOSE p \in Pk : Of(p)
    BY <1>1, Zenon DEF Found
  <2> HIDE DEF Of
  <2>2. Found(k, u, ref) \in Pk /\ Of(Found(k, u, ref))
    BY <1>1, <2>1
  <2> QED
    BY <2>2 DEF Of
<1>2. CASE ~(\E q \in Pk : Of(q)) /\ \E q \in Pk : With(q)
  <2>1. Found(k, u, ref) = CHOOSE p \in Pk : With(p)
    BY <1>2, Zenon DEF Found
  <2>2. ~Has(t, u)
    BY <1>2 DEF Has
  <2> HIDE DEF With
  <2>3. Found(k, u, ref) \in Pk /\ With(Found(k, u, ref))
    BY <1>2, <2>1
  <2> QED
    BY <2>2, <2>3 DEF With
<1>3. CASE ~(\E q \in Pk : Of(q)) /\ ~\E q \in Pk : With(q)
  <2>1. Found(k, u, ref) = CHOOSE p \in Pk : t[p] = None
    BY <1>3, Zenon DEF Found
  <2>2. ~Has(t, u)
    BY <1>3 DEF Has
  <2>3. \E p \in Pk : t[p] = None
    BY <2>2, Room
  <2>4. Found(k, u, ref) \in Pk /\ t[Found(k, u, ref)] = None
    BY <2>1, <2>3
  <2> QED
    BY <1>3, <2>2, <2>4
<1> QED
  BY <1>1, <1>2, <1>3

\* A row may be written that nothing in the table stands against.
LEMMA Put ==
  ASSUME NEW k \in Kind, NEW t, TableOK(k, t), NEW p \in Pk, NEW row \in Profile,
         \A q \in Pk \ {p} : t[q] # None => t[q].user # row.user /\ t[q].ref # row.ref,
         row.user \in {k} \X (0..2) \/ (t[p] # None /\ row.user = t[p].user)
  PROVE  TableOK(k, [t EXCEPT ![p] = row])
<1> DEFINE T == [t EXCEPT ![p] = row]
<1>1. T \in [Pk -> Profile \cup {None}] /\ T[p] = row /\ \A q \in Pk \ {p} : T[q] = t[q]
  BY DEF TableOK
<1> HIDE DEF T
<1>2. \A q, r \in Pk : q # r /\ T[q] # None /\ T[r] # None =>
        T[q].user # T[r].user /\ T[q].ref # T[r].ref
  BY <1>1 DEF TableOK
<1>4. Others(k, T) \subseteq Others(k, t)
  BY <1>1 DEF Others
<1>5. IsFiniteSet(Others(k, t)) /\ Cardinality(Others(k, t)) <= MaxBefore
  BY DEF TableOK
<1>6. /\ IsFiniteSet(Others(k, T))
      /\ Cardinality(Others(k, T)) <= Cardinality(Others(k, t))
  BY <1>4, <1>5, FS_Subset
<1>7. Cardinality(Others(k, T)) <= MaxBefore
  BY <1>5, <1>6, FS_CardinalityType, SeedAssumption
<1> QED
  BY <1>1, <1>2, <1>6, <1>7 DEF TableOK, T

--------------------------------------------------------------------------------
(* The invariant *)

\* The row with the key p is that of the demo user u.
IsDemo(u, p) == profiles[u[1]][p] = [user |-> u, ref |-> Demo(u[2])]

\* Nobody else has the reference of u while u has a row.
Clear(u) ==
  \A p, q \in Pk :
    /\ profiles[u[1]][p] # None /\ profiles[u[1]][p].ref = Demo(u[2])
    /\ profiles[u[1]][q] # None /\ profiles[u[1]][q].user = u
    => p = q

\* Does case i belong to the n-th customer and merchant?
Belongs(i, n) == n = 1 <=> i <= BlockSize

CaseDone(i) ==
  /\ cases[<<"demo", i>>] \in [Kind -> Pk]
  /\ \A k \in Kind, n \in {1, 2} : Belongs(i, n) => IsDemo(<<k, n>>, cases[<<"demo", i>>][k])

\* What a statement has brought about.
Done(s) ==
  /\ s.do = "user" => groupsOf[s.what] # None
  /\ s.do = "group" => groupsOf[s.what] = {s.what[1]}
  /\ s.do = "rename" => Clear(s.what)
  /\ s.do = "profile" => \E p \in Pk : IsDemo(s.what, p)
  /\ s.do = "case" => CaseDone(s.what)

\* Has statement i been run, in this run or before a complete one?
Past(i) == complete \/ i < job

TablesInv == \A k \in Kind : TableOK(k, profiles[k])

HeldInv ==
  /\ held \subseteq ToSet(ProfileUser) \X Pk
  /\ \A u \in ToSet(ProfileUser), p \in Pk : <<u, p>> \in held => IsDemo(u, p)
  /\ \A i \in 1..Len(Statements) :
       i < job /\ Statements[i].do = "profile" => \E p \in Pk : <<Statements[i].what, p>> \in held

ProgressInv == \A i \in 1..Len(Statements) : Past(i) => Done(Statements[i])

SeedInv == TypeOK /\ TablesInv /\ HeldInv /\ ProgressInv

\* What every step leaves of what statements have brought about.
RowsStay ==
  \A u \in ToSet(ProfileUser) : /\ \A p \in Pk : IsDemo(u, p) => IsDemo(u, p)'
                                /\ Clear(u) => Clear(u)'

GroupsStay ==
  \A u \in ToSet(DemoUser) : /\ groupsOf[u] # None => groupsOf'[u] # None
                             /\ groupsOf[u] = {u[1]} => groupsOf'[u] = {u[1]}

\* Nobody is given a reference made of another's key.
NamesStay == \A k \in Kind, p, q \in Pk : Misnamed(k, p, q)' => Misnamed(k, p, q)

\* The new name of a profile in the way is taken.
NameTaken ==
  /\ At("rename")
  /\ \E p, q \in Pk : /\ p \in Conflicting(What[1], What, Demo(What[2]))
                     /\ Misnamed(What[1], p, q)

CasesStay ==
  \A i \in 1..(2 * BlockSize) : cases'[<<"demo", i>>] = cases[<<"demo", i>>] \/ CaseDone(i)'

\* Facts about the constants that the steps need
LEMMA SeedConstants ==
  /\ ToSet(ProfileUser) = Kind \X {1, 2} /\ ToSet(ProfileUser) \subseteq ToSet(DemoUser)
  /\ ToSet(DemoUser) \subseteq Group \X {1, 2}
  /\ ToSet(DemoUser) \subseteq User /\ Kind \X {0} \subseteq User
  /\ BlockSize \in Nat /\ Len(Statements) \in Nat /\ Len(Statements) >= 20
<1>1. BlockSize \in Nat /\ Len(Statements) = 20 + 2 * BlockSize
  BY SeedAssumption, Places
<1> QED
  BY <1>1, UserSets DEF User, LegacyUser, Group, Kind

\* What a statement has brought about stays so.
LEMMA DoneStays ==
  ASSUME RowsStay, GroupsStay, CasesStay, NEW i \in 1..Len(Statements), Done(Statements[i])
  PROVE  Done(Statements[i])'
<1> DEFINE s == Statements[i]
<1>1. CASE s.do \in {"user", "group"}
  <2>1. s.what \in ToSet(DemoUser)
    BY <1>1, Order
  <2> QED
    BY <1>1, <2>1 DEF Done, GroupsStay
<1>2. CASE s.do \in {"rename", "profile"}
  <2>1. s.what \in ToSet(ProfileUser)
    BY <1>2, Order
  <2> QED
    BY <1>2, <2>1 DEF Done, RowsStay
<1>3. CASE s.do = "case"
  <2> DEFINE c == s.what
  <2>1. c \in 1..(2 * BlockSize) /\ CaseDone(c)
    BY <1>3, Order DEF Done
  <2>2. ASSUME cases'[<<"demo", c>>] = cases[<<"demo", c>>] PROVE CaseDone(c)'
    <3>1. cases'[<<"demo", c>>] \in [Kind -> Pk]
      BY <2>1, <2>2 DEF CaseDone
    <3>2. ASSUME NEW k \in Kind, NEW n \in {1, 2}, Belongs(c, n)
          PROVE  IsDemo(<<k, n>>, cases[<<"demo", c>>][k])'
      <4>1. cases[<<"demo", c>>][k] \in Pk /\ IsDemo(<<k, n>>, cases[<<"demo", c>>][k])
        BY <2>1, <3>2 DEF CaseDone
      <4>2. <<k, n>> \in ToSet(ProfileUser)
        BY SeedConstants
      <4>3. \A p \in Pk : IsDemo(<<k, n>>, p) => IsDemo(<<k, n>>, p)'
        BY <4>2 DEF RowsStay
      <4>4. profiles'[k][cases[<<"demo", c>>][k]] = [user |-> <<k, n>>, ref |-> Demo(n)]
        BY <4>1, <4>3 DEF IsDemo
      <4> QED
        BY <2>2, <4>4 DEF IsDemo
    <3> QED
      BY <3>1, <3>2 DEF CaseDone, Belongs
  <2>3. CaseDone(c)'
    BY <2>1, <2>2 DEF CasesStay
  <2> QED
    BY <1>3, <2>3 DEF Done
<1> QED
  BY <1>1, <1>2, <1>3, Order

\* The command comes to the next statement.
LEMMA GoesOn ==
  ASSUME SeedInv, NEW j \in 1..Len(Statements), job = j, Proceed, RowsStay, GroupsStay,
         CasesStay, Done(Statements[j])'
  PROVE  ProgressInv' /\ job' \in 0..Len(Statements) /\ complete' \in BOOLEAN
<1>1. job \in 1..Len(Statements) /\ complete \in BOOLEAN
  BY DEF SeedInv, TypeOK
<1>2. ASSUME NEW i \in 1..Len(Statements), Past(i)' PROVE Done(Statements[i])'
  <2>1. Past(i) \/ i = j
    BY <1>1, <1>2 DEF Past, Proceed
  <2>2. CASE i = j
    BY <2>2
  <2>3. CASE Past(i)
    <3>1. Done(Statements[i])
      BY <2>3 DEF SeedInv, ProgressInv
    <3> QED
      BY <3>1, DoneStays
  <2> QED
    BY <2>1, <2>2, <2>3
<1> QED
  BY <1>1, <1>2, SeedConstants DEF ProgressInv, Proceed

\* It begins, or ends before its time.
LEMMA BeginsOrEnds ==
  ASSUME SeedInv, job' \in {0, 1}, complete' = complete, RowsStay, GroupsStay, CasesStay
  PROVE  ProgressInv' /\ job' \in 0..Len(Statements) /\ complete' \in BOOLEAN
<1>1. ASSUME NEW i \in 1..Len(Statements), Past(i)' PROVE Past(i)
  BY <1>1 DEF Past
<1> QED
  BY <1>1, DoneStays, SeedConstants DEF SeedInv, TypeOK, ProgressInv

\* Where the tables are as they were, so are the rows.
LEMMA SameRows ==
  ASSUME profiles' = profiles
  PROVE  RowsStay /\ (TablesInv => TablesInv')
BY DEF RowsStay, IsDemo, Clear, TablesInv

--------------------------------------------------------------------------------
(* The steps *)

\* A row that is written leaves the demo's rows alone.
LEMMA PutRow ==
  ASSUME NEW k \in Kind, TableOK(k, profiles[k]), TableOK(k, profiles'[k]),
         NEW p \in Pk, NEW row \in Profile,
         profiles'[k] = [profiles[k] EXCEPT ![p] = row],
         NEW n \in {1, 2},
         IsDemo(<<k, n>>, p) => row = profiles[k][p],
         \/ row = [user |-> <<k, n>>, ref |-> Demo(n)]
         \/ /\ row.ref # Demo(n)
            /\ row.user = <<k, n>> => profiles[k][p] # None /\ profiles[k][p].user = <<k, n>>
  PROVE  /\ \A q \in Pk : IsDemo(<<k, n>>, q) => IsDemo(<<k, n>>, q)'
         /\ Clear(<<k, n>>) => Clear(<<k, n>>)'
<1> DEFINE t == profiles[k]  T == profiles'[k]
<1>1. T[p] = row /\ \A q \in Pk \ {p} : T[q] = t[q]
  BY DEF TableOK
<1>2. /\ \A q \in Pk : IsDemo(<<k, n>>, q) <=> t[q] = [user |-> <<k, n>>, ref |-> Demo(n)]
      /\ \A q \in Pk : IsDemo(<<k, n>>, q)' <=> T[q] = [user |-> <<k, n>>, ref |-> Demo(n)]
  BY DEF IsDemo
<1>3. \A q \in Pk : IsDemo(<<k, n>>, q) => IsDemo(<<k, n>>, q)'
  BY <1>1, <1>2
<1>4. ASSUME Clear(<<k, n>>), NEW q \in Pk, NEW r \in Pk,
             T[q] # None, T[q].ref = Demo(n), T[r] # None, T[r].user = <<k, n>>
      PROVE  q = r
  <2>1. \A x, y \in Pk : t[x] # None /\ t[x].ref = Demo(n) /\ t[y] # None /\ t[y].user = <<k, n>>
                           => x = y
    BY <1>4 DEF Clear
  <2>2. \A x, y \in Pk : x # y /\ T[x] # None /\ T[y] # None =>
          T[x].user # T[y].user /\ T[x].ref # T[y].ref
    BY DEF TableOK
  <2>3. CASE row = [user |-> <<k, n>>, ref |-> Demo(n)]
    <3>1. row # None
      BY NoneAssumption
    <3> QED
      BY <1>1, <1>4, <2>2, <2>3, <3>1
  <2>4. CASE /\ row.ref # Demo(n)
             /\ row.user = <<k, n>> => t[p] # None /\ t[p].user = <<k, n>>
    BY <1>1, <1>4, <2>1, <2>4
  <2> QED
    BY <2>3, <2>4
<1>5. Clear(<<k, n>>) => Clear(<<k, n>>)'
  BY <1>4 DEF Clear
<1> QED
  BY <1>3, <1>5

\* Rows of the commands and their references.
LEMMA RowTypes ==
  /\ \A u \in ToSet(ProfileUser) : [user |-> u, ref |-> Demo(u[2])] \in Profile
  /\ \A k \in Kind : LegacyRow(k) \in Profile
  /\ \A p \in Pk : Legacy(p) \in Reference
  /\ \A n \in 0..2, p \in Pk : Demo(n) # Legacy(p)
  /\ \A m, n \in 0..2 : Demo(m) = Demo(n) => m = n
  /\ None \notin Profile
<1>1. \A n \in 0..2 : Demo(n) \in Reference
  BY DEF Reference
<1>2. \A p \in Pk : Legacy(p) \in Reference
  BY DEF Reference, Legacy
<1>3. \A u \in ToSet(ProfileUser) : [user |-> u, ref |-> Demo(u[2])] \in Profile
  <2> SUFFICES ASSUME NEW u \in ToSet(ProfileUser) PROVE [user |-> u, ref |-> Demo(u[2])] \in Profile
    OBVIOUS
  <2>1. u \in User /\ u[2] \in {1, 2}
    BY SeedConstants
  <2> QED
    BY <1>1, <2>1 DEF Profile
<1>4. \A k \in Kind : LegacyRow(k) \in Profile
  <2> SUFFICES ASSUME NEW k \in Kind PROVE LegacyRow(k) \in Profile
    OBVIOUS
  <2>1. <<k, 0>> \in User
    BY SeedConstants
  <2> QED
    BY <1>1, <2>1 DEF Profile, LegacyRow
<1> QED
  BY <1>2, <1>3, <1>4, NoneAssumption DEF Demo, Legacy

\* At a statement about u
LEMMA AtStatement ==
  ASSUME SeedInv, NEW do, At(do)
  PROVE  /\ job \in 1..Len(Statements) /\ Statements[job].do = do
         /\ Statements[job].what = What
         /\ do \in {"user", "group"} => What \in ToSet(DemoUser) /\ What \in User
         /\ do \in {"rename", "profile"} =>
              /\ What \in ToSet(ProfileUser) /\ What[1] \in Kind /\ What[2] \in {1, 2}
              /\ What = <<What[1], What[2]>>
         /\ do = "case" => What \in 1..(2 * BlockSize)
<1>1. job \in 1..Len(Statements) /\ Statements[job].do = do /\ Statements[job].what = What
  BY DEF SeedInv, TypeOK, At, What
<1>2. do \in {"user", "group"} => What \in ToSet(DemoUser) /\ What \in User
  BY <1>1, Order, SeedConstants
<1>3. do \in {"rename", "profile"} => What \in Kind \X {1, 2} /\ What \in ToSet(ProfileUser)
  BY <1>1, Order, SeedConstants
<1>4. do = "case" => What \in 1..(2 * BlockSize)
  BY <1>1, Order
<1> QED
  BY <1>1, <1>2, <1>3, <1>4

\* What is left to show of a statement that goes through.
LEMMA Statement ==
  ASSUME SeedInv, NEW j \in 1..Len(Statements), job = j, Proceed,
         RowsStay, GroupsStay, CasesStay, Done(Statements[j])', TablesInv', collided' = collided,
         groupsOf' \in [User -> (SUBSET Group) \cup {None}],
         profiles' \in [Kind -> [Pk -> Profile \cup {None}]],
         cases' \in [CaseRef -> [Kind -> Pk] \cup {None}],
         held \subseteq held', held' \subseteq ToSet(ProfileUser) \X Pk,
         \A u \in ToSet(ProfileUser), p \in Pk : <<u, p>> \in held' \ held => IsDemo(u, p)',
         Statements[j].do = "profile" => \E p \in Pk : <<Statements[j].what, p>> \in held'
  PROVE  SeedInv'
<1>1. ProgressInv' /\ job' \in 0..Len(Statements) /\ complete' \in BOOLEAN
  BY GoesOn
<1>2. held' \subseteq ToSet(DemoUser) \X Pk
  BY SeedConstants
<1>3. ASSUME NEW u \in ToSet(ProfileUser), NEW p \in Pk, <<u, p>> \in held'
      PROVE  IsDemo(u, p)'
  <2>1. CASE <<u, p>> \in held
    <3>1. IsDemo(u, p)
      BY <2>1 DEF SeedInv, HeldInv
    <3> QED
      BY <3>1 DEF RowsStay
  <2> QED
    BY <1>3, <2>1
<1>4. ASSUME NEW i \in 1..Len(Statements), i < job', Statements[i].do = "profile"
      PROVE  \E p \in Pk : <<Statements[i].what, p>> \in held'
  <2>1. i < j \/ i = j
    BY <1>4 DEF Proceed
  <2>2. CASE i < j
    BY <1>4, <2>2 DEF SeedInv, HeldInv
  <2> QED
    BY <1>4, <2>1, <2>2
<1>5. HeldInv'
  BY <1>3, <1>4 DEF HeldInv
<1>6. TypeOK'
  <2>1. collided' \in BOOLEAN
    BY DEF TypeOK, SeedInv
  <2> QED
    BY <1>1, <1>2, <2>1 DEF TypeOK
<1> QED
  BY <1>1, <1>5, <1>6 DEF SeedInv

\* A new run holds no profile yet and has passed no statement.
LEMMA StartKeeps == SeedInv /\ StartSeed => SeedInv'
<1> SUFFICES ASSUME SeedInv, StartSeed PROVE SeedInv'
  OBVIOUS
<1>1. /\ job' = 1 /\ held' = {} /\ collided' = FALSE
      /\ UNCHANGED <<groupsOf, profiles, cases, complete>>
  BY DEF StartSeed
<1>2. RowsStay /\ TablesInv'
  BY <1>1, SameRows DEF SeedInv
<1>3. GroupsStay /\ CasesStay
  BY <1>1 DEF GroupsStay, CasesStay
<1>4. ProgressInv' /\ job' \in 0..Len(Statements) /\ complete' \in BOOLEAN
  BY <1>1, <1>2, <1>3, BeginsOrEnds
<1>5. HeldInv'
  BY <1>1 DEF HeldInv
<1>6. TypeOK'
  BY <1>1, <1>4 DEF TypeOK, SeedInv
<1> QED
  BY <1>1, <1>2, <1>4, <1>5, <1>6 DEF SeedInv

\* A killed run leaves what it has committed.
LEMMA CrashKeeps == SeedInv /\ Crash => SeedInv'
<1> SUFFICES ASSUME SeedInv, Crash PROVE SeedInv'
  OBVIOUS
<1>1. /\ job' = 0 /\ held' = {}
      /\ UNCHANGED <<groupsOf, profiles, cases, collided, complete>>
  BY DEF Crash
<1>2. RowsStay /\ TablesInv'
  BY <1>1, SameRows DEF SeedInv
<1>3. GroupsStay /\ CasesStay
  BY <1>1 DEF GroupsStay, CasesStay
<1>4. ProgressInv' /\ job' \in 0..Len(Statements) /\ complete' \in BOOLEAN
  BY <1>1, <1>2, <1>3, BeginsOrEnds
<1>5. HeldInv'
  BY <1>1 DEF HeldInv
<1>6. TypeOK'
  BY <1>1, <1>4 DEF TypeOK, SeedInv
<1> QED
  BY <1>1, <1>2, <1>4, <1>5, <1>6 DEF SeedInv

\* The user is there afterwards.
LEMMA UserKeeps == SeedInv /\ EnsureUser => SeedInv'
<1> SUFFICES ASSUME SeedInv, EnsureUser PROVE SeedInv'
  OBVIOUS
<1> PICK j \in 1..Len(Statements) : job = j
  BY AtStatement DEF EnsureUser
<1> DEFINE u == Statements[j].what
<1>1. /\ Statements[j].do = "user" /\ u \in ToSet(DemoUser) /\ u \in User
      /\ groupsOf' = [groupsOf EXCEPT ![u] = IF @ = None THEN {} ELSE @]
      /\ Proceed /\ UNCHANGED <<profiles, cases, held, collided>>
  BY AtStatement DEF EnsureUser, What
<1> HIDE DEF u
<1>2. groupsOf \in [User -> (SUBSET Group) \cup {None}]
  BY DEF SeedInv, TypeOK
<1>3. /\ groupsOf' \in [User -> (SUBSET Group) \cup {None}]
      /\ groupsOf'[u] # None
      /\ \A v \in User : groupsOf[v] # None => groupsOf'[v] = groupsOf[v]
  BY <1>1, <1>2, NoneAssumption
<1>4. RowsStay /\ TablesInv'
  BY <1>1, SameRows DEF SeedInv
<1>5. GroupsStay /\ CasesStay
  <2>1. \A v \in ToSet(DemoUser) : v \in User /\ v[1] \in Group
    BY SeedConstants
  <2>2. \A v \in ToSet(DemoUser) : {v[1]} # None
    BY <2>1, NoneAssumption
  <2> QED
    BY <1>1, <1>3, <2>1, <2>2 DEF GroupsStay, CasesStay
<1>6. Done(Statements[j])'
  BY <1>1, <1>3 DEF Done, u
<1>7. /\ held' = held /\ held \subseteq ToSet(ProfileUser) \X Pk /\ collided' = collided
      /\ profiles' \in [Kind -> [Pk -> Profile \cup {None}]]
      /\ cases' \in [CaseRef -> [Kind -> Pk] \cup {None}]
  BY <1>1 DEF SeedInv, TypeOK, HeldInv
<1> QED
  BY <1>1, <1>3, <1>4, <1>5, <1>6, <1>7, Statement

\* The user is in its group afterwards.
LEMMA GroupKeeps == SeedInv /\ SetGroup => SeedInv'
<1> SUFFICES ASSUME SeedInv, SetGroup PROVE SeedInv'
  OBVIOUS
<1> PICK j \in 1..Len(Statements) : job = j
  BY AtStatement DEF SetGroup
<1> DEFINE u == Statements[j].what
<1>1. /\ Statements[j].do = "group" /\ u \in ToSet(DemoUser) /\ u \in User
      /\ groupsOf' = [groupsOf EXCEPT ![u] = {u[1]}]
      /\ Proceed /\ UNCHANGED <<profiles, cases, held, collided>>
  BY AtStatement DEF SetGroup, What
<1> HIDE DEF u
<1>2. /\ groupsOf \in [User -> (SUBSET Group) \cup {None}]
      /\ u[1] \in Group
  BY <1>1, SeedConstants DEF SeedInv, TypeOK
<1>3. /\ groupsOf' \in [User -> (SUBSET Group) \cup {None}]
      /\ groupsOf'[u] = {u[1]} /\ {u[1]} # None
      /\ \A v \in User \ {u} : groupsOf'[v] = groupsOf[v]
  BY <1>1, <1>2, NoneAssumption
<1>4. RowsStay /\ TablesInv'
  BY <1>1, SameRows DEF SeedInv
<1>5. GroupsStay /\ CasesStay
  <2>1. \A v \in ToSet(DemoUser) : v \in User
    BY SeedConstants
  <2> QED
    BY <1>1, <1>3, <2>1 DEF GroupsStay, CasesStay
<1>6. Done(Statements[j])'
  BY <1>1, <1>3 DEF Done, u
<1>7. /\ held' = held /\ held \subseteq ToSet(ProfileUser) \X Pk /\ collided' = collided
      /\ profiles' \in [Kind -> [Pk -> Profile \cup {None}]]
      /\ cases' \in [CaseRef -> [Kind -> Pk] \cup {None}]
  BY <1>1 DEF SeedInv, TypeOK, HeldInv
<1> QED
  BY <1>1, <1>3, <1>4, <1>5, <1>6, <1>7, Statement

\* The profile in the way gives up its reference: nothing of the demo is in the way.
\* The command ends here if another has the new one.
LEMMA RenameKeeps ==
  ASSUME SeedInv, RenameConflicting
  PROVE  SeedInv' /\ NamesStay /\ (collided' = collided \/ NameTaken)
<1> PICK j \in 1..Len(Statements) : job = j
  BY AtStatement DEF RenameConflicting
<1> DEFINE u == Statements[j].what  k == u[1]  n == u[2]  t == profiles[k]
<1>1. /\ At("rename") /\ Statements[j].do = "rename" /\ What = u
      /\ u \in ToSet(ProfileUser) /\ k \in Kind /\ n \in {1, 2} /\ u = <<k, n>>
  BY AtStatement DEF RenameConflicting
<1> HIDE DEF u
<1>2. TableOK(k, t)
  BY <1>1 DEF SeedInv, TablesInv
<1> DEFINE f == Found(k, u, Demo(n))
<1>3. /\ f \in Pk
      /\ \/ t[f] # None /\ t[f].user = u
         \/ ~Has(t, u) /\ t[f] # None /\ t[f].ref = Demo(n)
         \/ /\ ~Has(t, u) /\ t[f] = None
            /\ ~\E q \in Pk : t[q] # None /\ t[q].ref = Demo(n)
  <2> DEFINE g == Found(k, <<k, n>>, Demo(n))
  <2>1. n \in 0..2
    BY <1>1
  <2>2. /\ g \in Pk
        /\ \/ t[g] # None /\ t[g].user = <<k, n>>
           \/ ~Has(t, <<k, n>>) /\ t[g] # None /\ t[g].ref = Demo(n)
           \/ /\ ~Has(t, <<k, n>>) /\ t[g] = None
              /\ ~\E q \in Pk : t[q] # None /\ t[q].ref = Demo(n)
    BY <1>1, <1>2, <2>1, FoundIs
  <2>3. <<k, n>> = u
    BY <1>1
  <2> QED
    BY <2>2, <2>3
<1> HIDE DEF f
<1>4. Conflicting(k, u, Demo(n)) = {p \in Pk \ {f} : t[p] # None /\ t[p].ref = Demo(n)}
  BY DEF Conflicting, f
<1>5. CASE Conflicting(k, u, Demo(n)) = {}
  <2>1. Proceed /\ UNCHANGED <<groupsOf, profiles, cases, held, collided>>
    BY <1>1, <1>5 DEF RenameConflicting
  <2>2. Clear(u)
    BY <1>1, <1>2, <1>3, <1>4, <1>5 DEF Clear, TableOK, Has
  <2>3. RowsStay /\ TablesInv' /\ Clear(u)'
    BY <2>1, <2>2, SameRows DEF SeedInv, Clear
  <2>4. GroupsStay /\ CasesStay
    BY <2>1 DEF GroupsStay, CasesStay
  <2>5. Done(Statements[j])'
    BY <1>1, <2>3 DEF Done, u
  <2>6. /\ held' = held /\ held \subseteq ToSet(ProfileUser) \X Pk /\ collided' = collided
        /\ profiles' \in [Kind -> [Pk -> Profile \cup {None}]]
        /\ groupsOf' \in [User -> (SUBSET Group) \cup {None}]
        /\ cases' \in [CaseRef -> [Kind -> Pk] \cup {None}]
    BY <2>1 DEF SeedInv, TypeOK, HeldInv
  <2>7. NamesStay
    BY <2>1 DEF NamesStay, Misnamed
  <2> QED
    BY <1>1, <2>1, <2>3, <2>4, <2>5, <2>6, <2>7, Statement
<1>6. ASSUME NEW p \in Conflicting(k, u, Demo(n)),
             SaveProfile(k, p, [t[p] EXCEPT !.ref = Legacy(p)])
      PROVE  SeedInv' /\ NamesStay /\ (collided' = collided \/ NameTaken)
  <2>2. p \in Pk /\ p # f /\ t[p] # None /\ t[p].ref = Demo(n) /\ t[p] \in Profile
    BY <1>2, <1>4 DEF TableOK
  <2> DEFINE row == [t[p] EXCEPT !.ref = Legacy(p)]
  <2>3. row \in Profile /\ row.user = t[p].user /\ row.ref = Legacy(p)
    BY <2>2, RowTypes DEF Profile
  <2> HIDE DEF row
  <2>4. SaveProfile(k, p, row)
    BY <1>6 DEF row
  <2>5. CASE Duplicate(k, p, row)
    <3>1. /\ collided' = TRUE /\ job' = 0
          /\ UNCHANGED <<groupsOf, profiles, cases, held, complete>>
      BY <2>4, <2>5 DEF SaveProfile
    <3>2. PICK q \in Pk \ {p} : t[q] # None /\ (t[q].user = row.user \/ t[q].ref = row.ref)
      BY <2>5 DEF Duplicate
    <3>3. t[q].user # t[p].user
      BY <1>2, <2>2, <3>2 DEF TableOK
    <3>4. Misnamed(k, p, q)
      BY <2>3, <3>2, <3>3 DEF Misnamed
    <3>5. p \in Pk /\ q \in Pk /\ p \in Conflicting(What[1], What, Demo(What[2]))
      BY <1>1, <1>6, <2>2
    <3>6. NameTaken
      BY <1>1, <3>4, <3>5 DEF NameTaken
    <3>7. RowsStay /\ TablesInv' /\ NamesStay
      BY <3>1, SameRows DEF SeedInv, NamesStay, Misnamed
    <3>8. GroupsStay /\ CasesStay
      BY <3>1 DEF GroupsStay, CasesStay
    <3>9. ProgressInv' /\ job' \in 0..Len(Statements) /\ complete' \in BOOLEAN
      BY <3>1, <3>7, <3>8, BeginsOrEnds
    <3>10. HeldInv'
      <4>1. ASSUME NEW v \in ToSet(ProfileUser), NEW x \in Pk, <<v, x>> \in held'
            PROVE  IsDemo(v, x)'
        <5>1. IsDemo(v, x)
          BY <3>1, <4>1 DEF SeedInv, HeldInv
        <5> QED
          BY <3>7, <5>1 DEF RowsStay
      <4>2. \A i \in 1..Len(Statements) : ~(i < job')
        BY <3>1, SeedConstants
      <4> QED
        BY <3>1, <4>1, <4>2 DEF SeedInv, HeldInv
    <3>11. TypeOK'
      BY <3>1, <3>9 DEF SeedInv, TypeOK
    <3> QED
      BY <3>6, <3>7, <3>9, <3>10, <3>11 DEF SeedInv
  <2>6. CASE ~Duplicate(k, p, row)
    <3>6. /\ profiles' = [profiles EXCEPT ![k][p] = row]
          /\ Proceed /\ UNCHANGED <<groupsOf, cases, held, collided>>
      BY <1>1, <2>4, <2>6 DEF SaveProfile, At
    <3>7. /\ profiles' \in [Kind -> [Pk -> Profile \cup {None}]]
          /\ profiles'[k] = [t EXCEPT ![p] = row]
          /\ \A l \in Kind \ {k} : profiles'[l] = profiles[l]
      BY <1>1, <2>2, <2>3, <3>6 DEF SeedInv, TypeOK
    <3>8. \A q \in Pk \ {p} : t[q] # None => t[q].user # row.user /\ t[q].ref # row.ref
      BY <2>6 DEF Duplicate
    <3>9. TableOK(k, profiles'[k])
      BY <1>1, <1>2, <2>2, <2>3, <3>7, <3>8, Put
    <3>10. TablesInv'
      BY <3>7, <3>9 DEF SeedInv, TablesInv
    <3>11. t[p].user # u
      BY <1>2, <1>3, <2>2 DEF TableOK, Has
    <3>12. ASSUME NEW v \in ToSet(ProfileUser)
           PROVE  /\ \A q \in Pk : IsDemo(v, q) => IsDemo(v, q)'
                  /\ Clear(v) => Clear(v)'
      <4> PICK l \in Kind, m \in {1, 2} : v = <<l, m>>
        BY SeedConstants
      <4>1. CASE l # k
        BY <3>7, <4>1 DEF IsDemo, Clear
      <4>2. CASE l = k
        <5>1. row.ref # Demo(m)
          BY <2>2, <2>3, RowTypes
        <5>2. ~IsDemo(<<k, m>>, p)
          <6>1. ASSUME IsDemo(<<k, m>>, p) PROVE FALSE
            <7>1. t[p].user = <<k, m>> /\ t[p].ref = Demo(m)
              BY <6>1 DEF IsDemo
            <7>2. m = n
              BY <2>2, <7>1 DEF Demo
            <7> QED
              BY <1>1, <3>11, <7>1, <7>2
          <6> QED
            BY <6>1
        <5> QED
          BY <1>1, <1>2, <2>2, <2>3, <3>7, <3>9, <4>2, <5>1, <5>2, PutRow
      <4> QED
        BY <4>1, <4>2
    <3>13. RowsStay
      BY <3>12 DEF RowsStay
    <3>14. GroupsStay /\ CasesStay
      BY <3>6 DEF GroupsStay, CasesStay
    <3>15. Clear(u)'
      <4>1. \A q \in Pk : profiles'[k][q] # None => profiles'[k][q].ref # Demo(n)
        <5>1. \A q \in Pk \ {p} : t[q] # None => t[q].ref # Demo(n)
          BY <1>2, <2>2 DEF TableOK
        <5>2. row.ref # Demo(n)
          BY <1>1, <2>2, <2>3, RowTypes
        <5> QED
          BY <1>2, <3>7, <5>1, <5>2 DEF TableOK
      <4>2. u[1] = k /\ u[2] = n
        OBVIOUS
      <4> QED
        BY <4>1, <4>2 DEF Clear
    <3>16. Done(Statements[j])'
      BY <1>1, <3>15 DEF Done, u
    <3>17. /\ held' = held /\ held \subseteq ToSet(ProfileUser) \X Pk /\ collided' = collided
           /\ groupsOf' \in [User -> (SUBSET Group) \cup {None}]
           /\ cases' \in [CaseRef -> [Kind -> Pk] \cup {None}]
      BY <3>6 DEF SeedInv, TypeOK, HeldInv
    <3>18. NamesStay
      <4> SUFFICES ASSUME NEW l \in Kind, NEW x \in Pk, NEW q \in Pk, Misnamed(l, x, q)'
                   PROVE  Misnamed(l, x, q)
        BY DEF NamesStay
      <4>1. CASE l = k /\ q = p
        <5>1. profiles'[k][p] = row
          BY <1>2, <2>2, <3>7 DEF TableOK
        <5>2. x # p /\ row.ref = Legacy(x)
          BY <4>1, <5>1 DEF Misnamed, Legacy
        <5> QED
          BY <2>3, <5>2 DEF Legacy
      <4>2. CASE ~(l = k /\ q = p)
        <5>1. profiles'[l][q] = profiles[l][q]
          BY <1>2, <3>7, <4>2 DEF TableOK
        <5> QED
          BY <5>1 DEF Misnamed
      <4> QED
        BY <4>1, <4>2
    <3> QED
      BY <1>1, <3>6, <3>7, <3>10, <3>13, <3>14, <3>16, <3>17, <3>18, Statement
  <2> QED
    BY <2>5, <2>6
<1>7. ASSUME Conflicting(k, u, Demo(n)) # {}
      PROVE  \E p \in Conflicting(k, u, Demo(n)) : SaveProfile(k, p, [t[p] EXCEPT !.ref = Legacy(p)])
  BY <1>1, <1>7 DEF RenameConflicting
<1> QED
  BY <1>5, <1>6, <1>7

\* The user's profile is saved: no other has the user, and since the renaming no
\* other has the reference.
LEMMA ProfileKeeps ==
  ASSUME SeedInv, EnsureProfile
  PROVE  SeedInv' /\ NamesStay /\ collided' = collided
<1> PICK j \in 1..Len(Statements) : job = j
  BY AtStatement DEF EnsureProfile
<1> DEFINE u == Statements[j].what  k == u[1]  n == u[2]  t == profiles[k]
<1>1. /\ At("profile") /\ Statements[j].do = "profile" /\ What = u
      /\ u \in ToSet(ProfileUser) /\ k \in Kind /\ n \in {1, 2} /\ u = <<k, n>>
  BY AtStatement DEF EnsureProfile
<1>2. Clear(u)
  <2>1. PICK i \in 1..(j - 1) : Statements[i] = [do |-> "rename", what |-> u]
    BY <1>1, Order
  <2>2. i \in 1..Len(Statements) /\ Past(i)
    BY <2>1, SeedConstants DEF Past
  <2>3. Done(Statements[i])
    BY <2>2 DEF SeedInv, ProgressInv
  <2> QED
    BY <2>1, <2>3 DEF Done
<1> HIDE DEF u
<1>3. TableOK(k, t)
  BY <1>1 DEF SeedInv, TablesInv
<1> DEFINE row == [user |-> u, ref |-> Demo(n)]
<1>4. PICK f \in Pk :
        /\ f = Found(k, u, Demo(n))
        /\ \/ t[f] # None /\ t[f].user = u
           \/ ~Has(t, u) /\ t[f] # None /\ t[f].ref = Demo(n)
           \/ /\ ~Has(t, u) /\ t[f] = None
              /\ ~\E q \in Pk : t[q] # None /\ t[q].ref = Demo(n)
  <2> DEFINE g == Found(k, <<k, n>>, Demo(n))
  <2>1. n \in 0..2
    BY <1>1
  <2>2. /\ g \in Pk
        /\ \/ t[g] # None /\ t[g].user = <<k, n>>
           \/ ~Has(t, <<k, n>>) /\ t[g] # None /\ t[g].ref = Demo(n)
           \/ /\ ~Has(t, <<k, n>>) /\ t[g] = None
              /\ ~\E q \in Pk : t[q] # None /\ t[q].ref = Demo(n)
    BY <1>1, <1>3, <2>1, FoundIs
  <2>3. <<k, n>> = u
    BY <1>1
  <2> QED
    BY <2>2, <2>3
<1>5. SaveProfile(k, f, row)
  BY <1>1, <1>4 DEF EnsureProfile
<1>6. /\ row \in Profile /\ row.user = u /\ row.ref = Demo(n) /\ row # None
      /\ row.user = <<k, n>> /\ row = [user |-> <<k, n>>, ref |-> Demo(n)]
  BY <1>1, RowTypes
<1> HIDE DEF row
<1>7. \A q \in Pk \ {f} : t[q] # None => t[q].user # row.user /\ t[q].ref # row.ref
  <2> SUFFICES ASSUME NEW q \in Pk \ {f}, t[q] # None
               PROVE  t[q].user # u /\ t[q].ref # Demo(n)
    BY <1>6
  <2>1. CASE t[f] # None /\ t[f].user = u
    <3>1. t[q].user # u
      BY <1>3, <1>4, <2>1 DEF TableOK
    <3>2. t[q].ref # Demo(n)
      BY <1>2, <1>4, <2>1 DEF Clear
    <3> QED
      BY <3>1, <3>2
  <2>2. CASE ~Has(t, u) /\ t[f] # None /\ t[f].ref = Demo(n)
    BY <1>3, <1>4, <2>2 DEF TableOK, Has
  <2>3. CASE /\ ~Has(t, u) /\ t[f] = None
             /\ ~\E r \in Pk : t[r] # None /\ t[r].ref = Demo(n)
    BY <2>3 DEF Has
  <2> QED
    BY <1>4, <2>1, <2>2, <2>3
<1>8. ~Duplicate(k, f, row)
  BY <1>7 DEF Duplicate
<1>9. /\ profiles' = [profiles EXCEPT ![k][f] = row]
      /\ held' = held \cup {<<u, f>>}
      /\ Proceed /\ UNCHANGED <<groupsOf, cases, collided>>
  BY <1>1, <1>5, <1>8 DEF SaveProfile
<1>10. /\ profiles' \in [Kind -> [Pk -> Profile \cup {None}]]
       /\ profiles'[k] = [t EXCEPT ![f] = row]
       /\ profiles'[k][f] = row
       /\ \A l \in Kind \ {k} : profiles'[l] = profiles[l]
  BY <1>1, <1>4, <1>6, <1>9 DEF SeedInv, TypeOK
<1>11. TableOK(k, profiles'[k])
  <2>2. row.user \in {k} \X (0..2)
    BY <1>1, <1>6
  <2>3. k \in Kind /\ row \in Profile /\ f \in Pk
    BY <1>1, <1>4, <1>6
  <2>4. TableOK(k, [t EXCEPT ![f] = row])
    <3> HIDE DEF k, n, t
    <3> QED
      BY <1>3, <1>7, <2>2, <2>3, Put
  <2> QED
    BY <1>10, <2>4
<1>12. TablesInv'
  BY <1>10, <1>11 DEF SeedInv, TablesInv
<1>13. ASSUME NEW v \in ToSet(ProfileUser)
       PROVE  /\ \A q \in Pk : IsDemo(v, q) => IsDemo(v, q)'
              /\ Clear(v) => Clear(v)'
  <2> PICK l \in Kind, m \in {1, 2} : v = <<l, m>>
    BY SeedConstants
  <2>1. CASE l # k
    BY <1>10, <2>1 DEF IsDemo, Clear
  <2>2. CASE l = k
    <3>1. /\ TableOK(l, profiles[l]) /\ TableOK(l, profiles'[l])
          /\ profiles'[l] = [profiles[l] EXCEPT ![f] = row]
      BY <1>3, <1>10, <1>11, <2>2
    <3>2. row \in Profile /\ f \in Pk
      BY <1>4, <1>6
    <3>3. CASE m = n
      <4>1. row = [user |-> <<l, m>>, ref |-> Demo(m)]
        BY <1>6, <2>2, <3>3
      <4>2. IsDemo(<<l, m>>, f) => row = profiles[l][f]
        BY <4>1 DEF IsDemo
      <4> HIDE DEF k, n, t
      <4> QED
        BY <3>1, <3>2, <4>1, <4>2, PutRow
    <3>4. CASE m # n
      <4>1. row.ref # Demo(m) /\ row.user # <<l, m>>
        BY <1>6, <2>2, <3>4 DEF Demo
      <4>2. ~IsDemo(<<l, m>>, f)
        <5>1. ASSUME IsDemo(<<l, m>>, f) PROVE FALSE
          <6>1. t[f] = [user |-> <<l, m>>, ref |-> Demo(m)]
            BY <2>2, <5>1 DEF IsDemo
          <6>2. [user |-> <<l, m>>, ref |-> Demo(m)] \in Profile
            BY <1>1, <2>2, RowTypes
          <6>3. t[f] # None /\ t[f].user # u /\ t[f].ref # Demo(n)
            BY <1>1, <2>2, <3>4, <6>1, <6>2, RowTypes DEF Demo
          <6> QED
            BY <1>4, <6>3
        <5> QED
          BY <5>1
      <4> HIDE DEF k, n, t
      <4> QED
        BY <3>1, <3>2, <4>1, <4>2, PutRow
    <3> QED
      BY <3>3, <3>4
  <2> QED
    BY <2>1, <2>2
<1>14. RowsStay
  BY <1>13 DEF RowsStay
<1>15. GroupsStay /\ CasesStay
  BY <1>9 DEF GroupsStay, CasesStay
<1>16. profiles'[k][f] = [user |-> u, ref |-> Demo(n)]
  BY <1>10 DEF row
<1>17. Done(Statements[j])'
  <2>1. IsDemo(Statements[j].what, f)'
    BY <1>16 DEF IsDemo, u
  <2> QED
    BY <1>1, <2>1 DEF Done
<1>18. /\ held \subseteq held' /\ held' \subseteq ToSet(ProfileUser) \X Pk
       /\ groupsOf' \in [User -> (SUBSET Group) \cup {None}]
       /\ cases' \in [CaseRef -> [Kind -> Pk] \cup {None}]
  BY <1>1, <1>4, <1>9 DEF SeedInv, TypeOK, HeldInv
<1>19. ASSUME NEW v \in ToSet(ProfileUser), NEW p \in Pk, <<v, p>> \in held' \ held
       PROVE  IsDemo(v, p)'
  <2>1. v = u /\ p = f
    BY <1>9, <1>19
  <2> QED
    BY <1>16, <2>1 DEF IsDemo
<1>20. \E p \in Pk : <<Statements[j].what, p>> \in held'
  BY <1>4, <1>9 DEF u
<1>21. NamesStay
  <2> SUFFICES ASSUME NEW l \in Kind, NEW x \in Pk, NEW q \in Pk, Misnamed(l, x, q)'
               PROVE  Misnamed(l, x, q)
    BY DEF NamesStay
  <2>1. CASE l = k /\ q = f
    <3>1. row.ref = Legacy(x)
      BY <1>10, <2>1 DEF Misnamed, Legacy
    <3> QED
      BY <1>1, <1>6, <3>1, RowTypes
  <2>2. CASE ~(l = k /\ q = f)
    <3>1. profiles'[l][q] = profiles[l][q]
      BY <1>3, <1>10, <2>2 DEF TableOK
    <3> QED
      BY <3>1 DEF Misnamed
  <2> QED
    BY <2>1, <2>2
<1> QED
  BY <1>1, <1>9, <1>10, <1>12, <1>14, <1>15, <1>17, <1>18, <1>19, <1>20, <1>21, Statement

\* A case is given the profiles of this run, which are those of the demo.
LEMMA CaseKeeps == SeedInv /\ EnsureCase => SeedInv'
<1> SUFFICES ASSUME SeedInv, EnsureCase PROVE SeedInv'
  OBVIOUS
<1> PICK j \in 1..Len(Statements) : job = j
  BY AtStatement DEF EnsureCase
<1> DEFINE c == Statements[j].what
           block == IF c <= BlockSize THEN 1 ELSE 2
           profile(k) == CHOOSE p \in Pk : <<<<k, block>>, p>> \in held
           owners == [k \in Kind |-> profile(k)]
<1>1. /\ Statements[j].do = "case" /\ c \in 1..(2 * BlockSize)
      /\ cases' = [cases EXCEPT ![<<"demo", c>>] = owners]
      /\ Proceed /\ UNCHANGED <<groupsOf, profiles, held, collided>>
  BY AtStatement DEF EnsureCase, What
<1>2. block \in {1, 2} /\ \A n \in {1, 2} : Belongs(c, n) => n = block
  BY <1>1, SeedConstants DEF Belongs
<1>3. ASSUME NEW k \in Kind
      PROVE  profile(k) \in Pk /\ <<<<k, block>>, profile(k)>> \in held
  <2>1. <<k, block>> \in ToSet(ProfileUser)
    BY <1>2, SeedConstants
  <2>2. PICK i \in 1..(j - 1) : Statements[i] = [do |-> "profile", what |-> <<k, block>>]
    BY <1>1, <2>1, Order
  <2>3. i \in 1..Len(Statements) /\ i < job
    BY <2>2, SeedConstants
  <2>4. Statements[i].do = "profile" /\ Statements[i].what = <<k, block>>
    BY <2>2
  <2>5. \E p \in Pk : <<Statements[i].what, p>> \in held
    BY <2>3, <2>4 DEF SeedInv, HeldInv
  <2>6. \E p \in Pk : <<<<k, block>>, p>> \in held
    BY <2>4, <2>5
  <2> QED
    BY <2>6
<1> HIDE DEF c, block, profile
<1>4. owners \in [Kind -> Pk] /\ \A k \in Kind : owners[k] = profile(k)
  BY <1>3
<1>5. \A k \in Kind : IsDemo(<<k, block>>, owners[k])
  <2> SUFFICES ASSUME NEW k \in Kind PROVE IsDemo(<<k, block>>, owners[k])
    OBVIOUS
  <2>1. <<k, block>> \in ToSet(ProfileUser)
    BY <1>2, SeedConstants
  <2> QED
    BY <1>3, <1>4, <2>1 DEF SeedInv, HeldInv
<1> HIDE DEF owners
<1>6. <<"demo", c>> \in CaseRef
  BY <1>1 DEF CaseRef
<1>7. /\ cases' \in [CaseRef -> [Kind -> Pk] \cup {None}]
      /\ cases'[<<"demo", c>>] = owners
      /\ \A r \in CaseRef \ {<<"demo", c>>} : cases'[r] = cases[r]
  BY <1>1, <1>4, <1>6 DEF SeedInv, TypeOK
<1>8. CaseDone(c)'
  <2>1. \A k \in Kind : profiles'[k][owners[k]] = [user |-> <<k, block>>, ref |-> Demo(block)]
    BY <1>1, <1>5 DEF IsDemo
  <2>2. ASSUME NEW k \in Kind, NEW n \in {1, 2}, Belongs(c, n)
        PROVE  IsDemo(<<k, n>>, cases[<<"demo", c>>][k])'
    <3>1. n = block
      BY <1>2, <2>2
    <3>2. profiles'[k][cases'[<<"demo", c>>][k]] = [user |-> <<k, n>>, ref |-> Demo(n)]
      BY <1>7, <2>1, <3>1
    <3> QED
      BY <3>2 DEF IsDemo
  <2> QED
    BY <1>4, <1>7, <2>2 DEF CaseDone, Belongs
<1>9. CasesStay
  <2> SUFFICES ASSUME NEW i \in 1..(2 * BlockSize)
               PROVE  cases'[<<"demo", i>>] = cases[<<"demo", i>>] \/ CaseDone(i)'
    BY DEF CasesStay
  <2>1. CASE i = c
    BY <1>8, <2>1
  <2>2. CASE i # c
    <3>1. <<"demo", i>> \in CaseRef \ {<<"demo", c>>}
      BY <2>2 DEF CaseRef
    <3> QED
      BY <1>7, <3>1
  <2> QED
    BY <2>1, <2>2
<1>10. RowsStay /\ TablesInv' /\ GroupsStay
  BY <1>1, SameRows DEF SeedInv, GroupsStay
<1>11. Done(Statements[j])'
  BY <1>1, <1>8 DEF Done, c
<1>12. /\ held' = held /\ held \subseteq ToSet(ProfileUser) \X Pk /\ collided' = collided
       /\ profiles' \in [Kind -> [Pk -> Profile \cup {None}]]
       /\ groupsOf' \in [User -> (SUBSET Group) \cup {None}]
  BY <1>1 DEF SeedInv, TypeOK, HeldInv
<1> QED
  BY <1>1, <1>7, <1>9, <1>10, <1>11, <1>12, Statement

\* seed_demo_data writes rows of its own users only.
LEMMA LegacyKeeps ==
  ASSUME SeedInv, SeedLegacy
  PROVE  SeedInv' /\ NamesStay
<1>1. /\ job = 0 /\ UNCHANGED <<job, held, collided, complete>>
      /\ profiles' = [k \in Kind |->
                        [profiles[k] EXCEPT ![Found(k, <<k, 0>>, None)] = LegacyRow(k)]]
      /\ groupsOf' = [u \in User |-> IF u \in LegacyUser THEN {u[1]} ELSE groupsOf[u]]
  BY DEF SeedLegacy
<1>2. /\ profiles \in [Kind -> [Pk -> Profile \cup {None}]]
      /\ groupsOf \in [User -> (SUBSET Group) \cup {None}]
      /\ cases \in [CaseRef -> [Kind -> Pk] \cup {None}]
  BY DEF SeedInv, TypeOK
<1>3. ASSUME NEW k \in Kind
      PROVE  /\ Found(k, <<k, 0>>, None) \in Pk
             /\ profiles'[k] \in [Pk -> Profile \cup {None}]
             /\ TableOK(k, profiles'[k])
             /\ \A n \in {1, 2} : /\ \A q \in Pk : IsDemo(<<k, n>>, q) => IsDemo(<<k, n>>, q)'
                                  /\ Clear(<<k, n>>) => Clear(<<k, n>>)'
             /\ \A p, q \in Pk : Misnamed(k, p, q)' => Misnamed(k, p, q)
  <2>1. TableOK(k, profiles[k])
    BY DEF SeedInv, TablesInv
  <2>2. PICK f \in Pk :
          /\ f = Found(k, <<k, 0>>, None)
          /\ \/ profiles[k][f] # None /\ profiles[k][f].user = <<k, 0>>
             \/ profiles[k][f] # None /\ profiles[k][f].ref = None
             \/ profiles[k][f] = None
    BY <2>1, FoundIs, 0 \in 0..2
  <2>3. \/ profiles[k][f] # None /\ profiles[k][f].user = <<k, 0>>
        \/ profiles[k][f] = None
    <3>1. profiles[k][f] # None => profiles[k][f] \in Profile
      BY <1>2, <2>2
    <3>2. profiles[k][f] # None => profiles[k][f].ref # None
      BY <3>1, NoneAssumption DEF Profile
    <3> QED
      BY <2>2, <3>2
  <2>4. PICK row \in Profile : row = LegacyRow(k)
    BY RowTypes
  <2>5. row.user = <<k, 0>> /\ row.ref = Demo(0)
    BY <2>4 DEF LegacyRow
  <2>6. profiles'[k] = [profiles[k] EXCEPT ![f] = row]
    BY <1>1, <2>2, <2>4
  <2>7. \A q \in Pk \ {f} : profiles[k][q] # None =>
          profiles[k][q].user # row.user /\ profiles[k][q].ref # row.ref
    <3>1. ~Duplicate(k, f, row)
      BY <2>2, <2>4 DEF SeedLegacy
    <3> QED
      BY <3>1 DEF Duplicate
  <2>9. row.user \in {k} \X (0..2)
    BY <2>5
  <2>10. TableOK(k, [profiles[k] EXCEPT ![f] = row])
    BY <2>1, <2>2, <2>4, <2>7, <2>9, Put
  <2>11. TableOK(k, profiles'[k])
    BY <2>6, <2>10
  <2>12. ASSUME NEW n \in {1, 2}
         PROVE  /\ \A q \in Pk : IsDemo(<<k, n>>, q) => IsDemo(<<k, n>>, q)'
                /\ Clear(<<k, n>>) => Clear(<<k, n>>)'
    <3>1. row.ref # Demo(n) /\ row.user # <<k, n>>
      BY <2>5 DEF Demo
    <3>2. ~IsDemo(<<k, n>>, f)
      <4>1. ASSUME IsDemo(<<k, n>>, f) PROVE FALSE
        <5>1. profiles[k][f] = [user |-> <<k, n>>, ref |-> Demo(n)]
          BY <4>1 DEF IsDemo
        <5>2. <<k, n>> \in ToSet(ProfileUser) /\ <<k, n>>[2] = n
          BY SeedConstants
        <5>3. [user |-> <<k, n>>, ref |-> Demo(n)] \in Profile
          BY <5>2, RowTypes
        <5> QED
          BY <2>3, <5>1, <5>3, NoneAssumption
      <4> QED
        BY <4>1
    <3> QED
      BY <2>1, <2>2, <2>4, <2>6, <2>11, <3>1, <3>2, PutRow
  <2>13. ASSUME NEW p \in Pk, NEW q \in Pk, Misnamed(k, p, q)' PROVE Misnamed(k, p, q)
    <3>1. CASE q = f
      <4>1. row.ref = Legacy(p)
        BY <2>1, <2>6, <2>13, <3>1 DEF Misnamed, Legacy, TableOK
      <4> QED
        BY <2>5, <4>1, RowTypes
    <3>2. CASE q # f
      <4>1. profiles'[k][q] = profiles[k][q]
        BY <2>1, <2>6, <3>2 DEF TableOK
      <4> QED
        BY <2>13, <4>1 DEF Misnamed
    <3> QED
      BY <3>1, <3>2
  <2> QED
    BY <2>2, <2>11, <2>12, <2>13 DEF TableOK
<1>4. /\ TablesInv'
      /\ profiles' \in [Kind -> [Pk -> Profile \cup {None}]]
  <2>1. \A k \in Kind : TableOK(k, profiles'[k]) /\ profiles'[k] \in [Pk -> Profile \cup {None}]
    BY <1>3
  <2> QED
    BY <1>1, <2>1 DEF TablesInv
<1>5. RowsStay
  <2> SUFFICES ASSUME NEW u \in ToSet(ProfileUser)
               PROVE  /\ \A q \in Pk : IsDemo(u, q) => IsDemo(u, q)'
                      /\ Clear(u) => Clear(u)'
    BY DEF RowsStay
  <2> PICK k \in Kind, n \in {1, 2} : u = <<k, n>>
    BY SeedConstants
  <2> QED
    BY <1>3
<1>6. /\ groupsOf' \in [User -> (SUBSET Group) \cup {None}]
      /\ GroupsStay
  <2>1. \A u \in LegacyUser : u[1] \in Group /\ u[2] = 0
    BY DEF LegacyUser
  <2>2. \A u \in ToSet(DemoUser) : u \in User /\ u[2] # 0
    BY SeedConstants
  <2> QED
    BY <1>1, <1>2, <2>1, <2>2 DEF GroupsStay
<1>7. /\ cases' \in [CaseRef -> [Kind -> Pk] \cup {None}]
      /\ CasesStay
  <2> DEFINE owners == [k \in Kind |-> Found(k, <<k, 0>>, None)]
  <2>1. owners \in [Kind -> Pk]
    BY <1>3
  <2>2. cases' = [r \in CaseRef |-> IF r[1] = "legacy" THEN owners ELSE cases[r]]
    BY DEF SeedLegacy
  <2>3. \A i \in 1..(2 * BlockSize) : <<"demo", i>> \in CaseRef /\ <<"demo", i>>[1] # "legacy"
    BY DEF CaseRef
  <2> HIDE DEF owners
  <2>4. \A i \in 1..(2 * BlockSize) : cases'[<<"demo", i>>] = cases[<<"demo", i>>]
    BY <2>2, <2>3
  <2> QED
    BY <1>2, <2>1, <2>2, <2>4 DEF CasesStay
<1>8. ProgressInv' /\ job' \in 0..Len(Statements) /\ complete' \in BOOLEAN
  BY <1>1, <1>5, <1>6, <1>7, BeginsOrEnds
<1>9. HeldInv'
  <2>1. ASSUME NEW u \in ToSet(ProfileUser), NEW p \in Pk, <<u, p>> \in held'
        PROVE  IsDemo(u, p)'
    <3>1. IsDemo(u, p)
      BY <1>1, <2>1 DEF SeedInv, HeldInv
    <3> QED
      BY <1>5, <3>1 DEF RowsStay
  <2>2. \A i \in 1..Len(Statements) : ~(i < job')
    BY <1>1, SeedConstants
  <2> QED
    BY <1>1, <2>1, <2>2 DEF SeedInv, HeldInv
<1>10. TypeOK'
  BY <1>1, <1>4, <1>6, <1>7, <1>8 DEF SeedInv, TypeOK
<1>11. NamesStay
  BY <1>3 DEF NamesStay
<1> QED
  BY <1>1, <1>4, <1>8, <1>9, <1>10, <1>11 DEF SeedInv

\* Any database that obeys the constraints will do.
LEMMA InitTables ==
  ASSUME NEW k \in Kind, NEW n \in 0..MaxBefore, NEW t \in Tables(k, n)
  PROVE  TableOK(k, t)
<1>1. PICK s \in [1..n -> Rows(k)] :
        /\ \A p, q \in 1..n : p # q => s[p].user # s[q].user /\ s[p].ref # s[q].ref
        /\ t = [p \in Pk |-> IF p <= n THEN s[p] ELSE None]
  BY DEF Tables
<1>2. n \in Nat /\ MaxBefore \in Nat /\ n <= MaxBefore /\ Pk \subseteq Nat \ {0}
  BY SeedAssumption
<1>3. Rows(k) \subseteq Profile
  <2>1. Stranger \cup ({k} \X (0..2)) \subseteq User
    <3>1. \A i \in {1, 2} : <<k, i>> \in User
      BY SeedConstants
    <3>2. <<k, 0>> \in User
      BY SeedConstants
    <3>3. \A i \in 0..2 : i = 0 \/ i \in {1, 2}
      OBVIOUS
    <3>4. \A i \in 0..2 : <<k, i>> \in User
      BY <3>1, <3>2, <3>3
    <3>5. {k} \X (0..2) \subseteq User
      BY <3>4
    <3> QED
      BY <3>5 DEF User
  <2>2. {Demo(i) : i \in 0..2} \cup ({"legacy"} \X Taken) \subseteq Reference
    BY SeedAssumption DEF Reference
  <2> QED
    BY <2>1, <2>2 DEF Rows, Profile
<1>4. \A p \in Pk : (p <= n => p \in 1..n /\ t[p] = s[p] /\ t[p] \in Rows(k)) /\ (~(p <= n) => t[p] = None)
  BY <1>1, <1>2
<1>5. t \in [Pk -> Profile \cup {None}]
  BY <1>1, <1>3, <1>4
<1>6. \A p, q \in Pk : p # q /\ t[p] # None /\ t[q] # None =>
        t[p].user # t[q].user /\ t[p].ref # t[q].ref
  BY <1>1, <1>4
<1>8. IsFiniteSet(Others(k, t)) /\ Cardinality(Others(k, t)) <= MaxBefore
  <2>1. Others(k, t) \subseteq 1..n
    BY <1>4 DEF Others
  <2>2. IsFiniteSet(1..n) /\ Cardinality(1..n) = n
    BY <1>2, FS_Interval
  <2>3. IsFiniteSet(Others(k, t)) /\ Cardinality(Others(k, t)) <= n
    BY <2>1, <2>2, FS_Subset
  <2> QED
    BY <1>2, <2>3, FS_CardinalityType
<1> QED
  BY <1>5, <1>6, <1>8 DEF TableOK

\* A database before the first command
LEMMA InitInv == Init => SeedInv
<1> SUFFICES ASSUME Init PROVE SeedInv
  OBVIOUS
<1>1. TablesInv /\ profiles \in [Kind -> [Pk -> Profile \cup {None}]]
  <2>1. PICK n \in 0..MaxBefore :
          profiles \in {[customer |-> c, merchant |-> m] :
                          c \in Tables("customer", n), m \in Tables("merchant", MaxBefore - n)}
    BY DEF Init
  <2>2. PICK c \in Tables("customer", n), m \in Tables("merchant", MaxBefore - n) :
          profiles = [customer |-> c, merchant |-> m]
    BY <2>1
  <2>3. n \in 0..MaxBefore /\ MaxBefore - n \in 0..MaxBefore
    BY SeedAssumption
  <2>4. "customer" \in Kind /\ "merchant" \in Kind
    BY DEF Kind
  <2>5. TableOK("customer", c) /\ TableOK("merchant", m)
    BY <2>3, <2>4, InitTables
  <2>6. \A k \in Kind : TableOK(k, profiles[k])
    BY <2>2, <2>5 DEF Kind
  <2>7. profiles = [k \in Kind |-> profiles[k]]
    BY <2>2 DEF Kind
  <2> QED
    BY <2>6, <2>7 DEF TablesInv, TableOK
<1>2. groupsOf \in [User -> (SUBSET Group) \cup {None}]
  <2>1. \A u \in User : groupsOf[u] \in {{}, None}
    BY DEF Init
  <2>2. groupsOf = [u \in User |-> groupsOf[u]]
    BY DEF Init
  <2> QED
    BY <2>1, <2>2
<1>3. /\ cases \in [CaseRef -> [Kind -> Pk] \cup {None}]
      /\ job = 0 /\ held = {} /\ collided = FALSE /\ complete = FALSE
  BY DEF Init
<1>4. TypeOK
  <2>1. held \subseteq ToSet(DemoUser) \X Pk /\ job \in 0..Len(Statements)
    BY <1>3, SeedConstants
  <2>2. collided \in BOOLEAN /\ complete \in BOOLEAN
    BY <1>3
  <2> QED
    BY <1>1, <1>2, <1>3, <2>1, <2>2 DEF TypeOK
<1>5. HeldInv
  BY <1>3, SeedConstants DEF HeldInv
<1>6. ProgressInv
  BY <1>3, SeedConstants DEF ProgressInv, Past
<1> QED
  BY <1>1, <1>3, <1>4, <1>5, <1>6 DEF SeedInv

\* Every step keeps the invariant.
LEMMA SeedInvKept == SeedInv /\ [Next]_vars => SeedInv'
<1> SUFFICES ASSUME SeedInv, [Next]_vars PROVE SeedInv'
  OBVIOUS
<1>1. CASE Next
  BY <1>1, StartKeeps, UserKeeps, GroupKeeps, RenameKeeps, ProfileKeeps, CaseKeeps,
     CrashKeeps, LegacyKeeps, Zenon DEF Next
<1>2. CASE UNCHANGED vars
  <2>1. UNCHANGED <<groupsOf, profiles, cases, job, held, collided, complete>>
    BY <1>2 DEF vars
  <2>2. RowsStay /\ TablesInv' /\ GroupsStay /\ CasesStay
    BY <2>1, SameRows DEF SeedInv, GroupsStay, CasesStay
  <2>3. ProgressInv'
    <3>1. ASSUME NEW i \in 1..Len(Statements), Past(i)' PROVE Past(i)
      BY <2>1, <3>1 DEF Past
    <3> QED
      BY <2>2, <3>1, DoneStays DEF SeedInv, ProgressInv
  <2>4. HeldInv'
    <3>1. ASSUME NEW u \in ToSet(ProfileUser), NEW p \in Pk, <<u, p>> \in held'
          PROVE  IsDemo(u, p)'
      <4>1. IsDemo(u, p)
        BY <2>1, <3>1 DEF SeedInv, HeldInv
      <4> QED
        BY <2>2, <4>1 DEF RowsStay
    <3> QED
      BY <2>1, <3>1 DEF SeedInv, HeldInv
  <2> QED
    BY <2>1, <2>2, <2>3, <2>4 DEF SeedInv, TypeOK
<1> QED
  BY <1>1, <1>2

\* The inductive invariant of the command
THEOREM SeedInvariant == Spec => []SeedInv
<1> QED
  BY InitInv, SeedInvKept, PTL DEF Spec

--------------------------------------------------------------------------------
(* The properties *)

\* Every variable keeps its type.
THEOREM SeedTypeCorrect == Spec => []TypeOK
<1>1. SeedInv => TypeOK
  BY DEF SeedInv
<1> QED
  BY <1>1, SeedInvariant, PTL

\* Only the renaming is ever refused, where its new name is taken, and nobody is
\* given such a name.
LEMMA CollisionStep ==
  ASSUME SeedInv, [Next]_vars
  PROVE  NamesStay /\ (~collided /\ collided' => NameTaken)
<1>1. CASE RenameConflicting
  <2>1. NamesStay /\ (collided' = collided \/ NameTaken)
    BY <1>1, RenameKeeps
  <2> QED
    BY <2>1
<1>2. CASE EnsureProfile
  <2>1. NamesStay /\ collided' = collided
    BY <1>2, ProfileKeeps
  <2> QED
    BY <2>1
<1>3. CASE SeedLegacy
  <2>1. NamesStay
    BY <1>3, LegacyKeeps
  <2> QED
    BY <1>3, <2>1 DEF SeedLegacy
<1>4. CASE profiles' = profiles /\ (collided' = collided \/ collided' = FALSE)
  BY <1>4 DEF NamesStay, Misnamed
<1> QED
  BY <1>1, <1>2, <1>3, <1>4
     DEF Next, vars, StartSeed, EnsureUser, SetGroup, EnsureCase, Crash

\* Over any profiles, whoever holds the references and wherever earlier runs were
\* killed: a statement is refused only where a profile held a reference like those
\* the command gives, made of another's key, and the commands give no such.
THEOREM SeedCollidesOnlyOverTakenName == Spec => CollidesOnlyOverTakenName
<1>1. SeedInv /\ [Next]_vars =>
        [/\ ~collided /\ collided' =>
              /\ At("rename")
              /\ \E p, q \in Pk : /\ p \in Conflicting(What[1], What, Demo(What[2]))
                                 /\ Misnamed(What[1], p, q)
         /\ \A k \in Kind, p, q \in Pk : Misnamed(k, p, q)' => Misnamed(k, p, q)]_vars
  BY CollisionStep DEF NamesStay, NameTaken
<1> QED
  BY <1>1, SeedInvariant, PTL DEF Spec, CollidesOnlyOverTakenName

\* Every statement has been run, and none is left out.
LEMMA WholeWhenComplete == SeedInv => CompleteRunIsWhole
<1> SUFFICES ASSUME SeedInv, complete PROVE CompleteRunIsWhole
  BY DEF CompleteRunIsWhole
<1>1. \A i \in 1..Len(Statements) : Done(Statements[i])
  BY DEF SeedInv, ProgressInv, Past
<1>2. ASSUME NEW u \in ToSet(DemoUser) PROVE groupsOf[u] = {u[1]}
  <2>1. PICK i \in 1..Len(Statements) : Statements[i] = [do |-> "group", what |-> u]
    BY Everything
  <2> QED
    BY <1>1, <2>1 DEF Done
<1>3. ASSUME NEW k \in Kind, NEW n \in {1, 2}
      PROVE  \E p \in Pk :
               /\ profiles[k][p] = [user |-> <<k, n>>, ref |-> Demo(n)]
               /\ \A i \in ((n - 1) * BlockSize + 1)..(n * BlockSize) : cases[<<"demo", i>>][k] = p
  <2>1. <<k, n>> \in ToSet(ProfileUser)
    BY SeedConstants
  <2>2. PICK j \in 1..Len(Statements) : Statements[j] = [do |-> "profile", what |-> <<k, n>>]
    BY <2>1, Everything
  <2>3. PICK p \in Pk : IsDemo(<<k, n>>, p)
    BY <1>1, <2>2 DEF Done
  <2>4. profiles[k][p] = [user |-> <<k, n>>, ref |-> Demo(n)]
    BY <2>3 DEF IsDemo
  <2>5. ASSUME NEW i \in ((n - 1) * BlockSize + 1)..(n * BlockSize)
        PROVE  cases[<<"demo", i>>][k] = p
    <3>1. i \in 1..(2 * BlockSize) /\ Belongs(i, n)
      BY SeedConstants DEF Belongs
    <3>2. PICK c \in 1..Len(Statements) : Statements[c] = [do |-> "case", what |-> i]
      BY <3>1, Everything
    <3>3. CaseDone(i)
      BY <1>1, <3>2 DEF Done
    <3> DEFINE q == cases[<<"demo", i>>][k]
    <3>4. q \in Pk /\ IsDemo(<<k, n>>, q)
      BY <3>1, <3>3 DEF CaseDone
    <3>5. profiles[k][q] = profiles[k][p] /\ profiles[k][p] # None
      <4>1. [user |-> <<k, n>>, ref |-> Demo(n)] # None
        BY <2>1, RowTypes
      <4> QED
        BY <2>4, <3>4, <4>1 DEF IsDemo
    <3>6. \A x, y \in Pk : x # y /\ profiles[k][x] # None /\ profiles[k][y] # None =>
            profiles[k][x].user # profiles[k][y].user
      BY DEF SeedInv, TablesInv, TableOK
    <3> QED
      BY <3>4, <3>5, <3>6
  <2> QED
    BY <2>4, <2>5
<1> QED
  BY <1>2, <1>3 DEF CompleteRunIsWhole

\* Once a run has come to its end, the users, profiles and cases of the demo are there
\* and belong together, and stay so through every later run.
THEOREM CompleteRunAlwaysWhole == Spec => []CompleteRunIsWhole
<1> QED
  BY SeedInvariant, WholeWhenComplete, PTL

\* After a complete run the command finds the rows of that run.
LEMMA RerunFinds ==
  ASSUME SeedInv, complete, NEW k \in Kind, NEW n \in {1, 2}
  PROVE  \E f \in Pk : f = Found(k, <<k, n>>, Demo(n)) /\ IsDemo(<<k, n>>, f)
<1>1. <<k, n>> \in ToSet(ProfileUser)
  BY SeedConstants
<1>2. PICK j \in 1..Len(Statements) : Statements[j] = [do |-> "profile", what |-> <<k, n>>]
  BY <1>1, Everything
<1>3. PICK p \in Pk : IsDemo(<<k, n>>, p)
  BY <1>2 DEF SeedInv, ProgressInv, Past, Done
<1>4. profiles[k][p] = [user |-> <<k, n>>, ref |-> Demo(n)] /\ profiles[k][p] # None
  <2>1. profiles[k][p] = [user |-> <<k, n>>, ref |-> Demo(n)]
    BY <1>3 DEF IsDemo
  <2>2. [user |-> <<k, n>>, ref |-> Demo(n)] # None
    BY <1>1, RowTypes
  <2> QED
    BY <2>1, <2>2
<1>5. TableOK(k, profiles[k])
  BY DEF SeedInv, TablesInv
<1>6. PICK f \in Pk :
        /\ f = Found(k, <<k, n>>, Demo(n))
        /\ \/ profiles[k][f] # None /\ profiles[k][f].user = <<k, n>>
           \/ ~Has(profiles[k], <<k, n>>)
  BY <1>5, FoundIs, n \in 0..2
<1>7. Has(profiles[k], <<k, n>>)
  BY <1>4 DEF Has
<1>8. f = p
  BY <1>4, <1>5, <1>6, <1>7 DEF TableOK
<1> QED
  BY <1>3, <1>6, <1>8

ProfilesKept ==
  \A k \in Kind, p \in Pk :
    \/ profiles'[k][p] = profiles[k][p]
    \/ /\ profiles[k][p] = None \/ profiles[k][p].user = <<k, 0>>
       /\ profiles'[k][p] # None /\ profiles'[k][p].user = <<k, 0>>

\* The renaming finds nothing, the profile is written as it is, and seed_demo_data
\* writes rows of its own users.
LEMMA RerunKeepsRows ==
  ASSUME SeedInv, [Next]_vars, complete
  PROVE  ProfilesKept
<1>1. CASE profiles' = profiles
  BY <1>1 DEF ProfilesKept
<1>2. CASE RenameConflicting
  <2> PICK j \in 1..Len(Statements) : job = j
    BY <1>2, AtStatement DEF RenameConflicting
  <2>1. /\ What \in ToSet(ProfileUser) /\ What[1] \in Kind /\ What[2] \in {1, 2}
        /\ What = <<What[1], What[2]>> /\ What = Statements[j].what
    BY <1>2, AtStatement DEF RenameConflicting
  <2> PICK k \in Kind, n \in {1, 2} : What = <<k, n>>
    BY <2>1
  <2>2. Conflicting(k, <<k, n>>, Demo(n)) = {}
    <3>1. PICK f \in Pk : f = Found(k, <<k, n>>, Demo(n)) /\ IsDemo(<<k, n>>, f)
      BY RerunFinds
    <3>2. \A x, y \in Pk : x # y /\ profiles[k][x] # None /\ profiles[k][y] # None =>
            profiles[k][x].ref # profiles[k][y].ref
      BY DEF SeedInv, TablesInv, TableOK
    <3>3. profiles[k][f] # None /\ profiles[k][f].ref = Demo(n)
      <4>1. <<k, n>> \in ToSet(ProfileUser)
        BY SeedConstants
      <4>2. [user |-> <<k, n>>, ref |-> Demo(n)] \in Profile
        BY <4>1, RowTypes
      <4>3. profiles[k][f] = [user |-> <<k, n>>, ref |-> Demo(n)]
        BY <3>1 DEF IsDemo
      <4> QED
        BY <4>2, <4>3, NoneAssumption
    <3> QED
      BY <3>1, <3>2, <3>3 DEF Conflicting
  <2>3. profiles' = profiles
    BY <1>2, <2>2 DEF RenameConflicting
  <2> QED
    BY <1>1, <2>3
<1>3. CASE EnsureProfile
  <2> PICK j \in 1..Len(Statements) : job = j
    BY <1>3, AtStatement DEF EnsureProfile
  <2>1. /\ What \in ToSet(ProfileUser) /\ What[1] \in Kind /\ What[2] \in {1, 2}
        /\ What = <<What[1], What[2]>>
    BY <1>3, AtStatement DEF EnsureProfile
  <2> PICK k \in Kind, n \in {1, 2} : What = <<k, n>>
    BY <2>1
  <2>2. PICK f \in Pk : f = Found(k, <<k, n>>, Demo(n)) /\ IsDemo(<<k, n>>, f)
    BY RerunFinds
  <2>3. SaveProfile(k, f, [user |-> <<k, n>>, ref |-> Demo(n)])
    BY <1>3, <2>2 DEF EnsureProfile
  <2>4. \/ profiles' = profiles
        \/ profiles' = [profiles EXCEPT ![k][f] = [user |-> <<k, n>>, ref |-> Demo(n)]]
    BY <2>3, Zenon DEF SaveProfile
  <2>5. profiles[k][f] = [user |-> <<k, n>>, ref |-> Demo(n)]
    BY <2>2 DEF IsDemo
  <2>6. profiles \in [Kind -> [Pk -> Profile \cup {None}]]
    BY DEF SeedInv, TypeOK
  <2>7. profiles' = profiles
    BY <2>4, <2>5, <2>6
  <2> QED
    BY <1>1, <2>7
<1>4. CASE SeedLegacy
  <2> SUFFICES ASSUME NEW k \in Kind, NEW p \in Pk
               PROVE  \/ profiles'[k][p] = profiles[k][p]
                      \/ /\ profiles[k][p] = None \/ profiles[k][p].user = <<k, 0>>
                         /\ profiles'[k][p] # None /\ profiles'[k][p].user = <<k, 0>>
    BY DEF ProfilesKept
  <2>1. TableOK(k, profiles[k]) /\ profiles[k] \in [Pk -> Profile \cup {None}]
    BY DEF SeedInv, TablesInv, TableOK
  <2>2. PICK f \in Pk :
          /\ f = Found(k, <<k, 0>>, None)
          /\ \/ profiles[k][f] # None /\ profiles[k][f].user = <<k, 0>>
             \/ profiles[k][f] # None /\ profiles[k][f].ref = None
             \/ profiles[k][f] = None
    BY <2>1, FoundIs, 0 \in 0..2
  <2>3. profiles'[k] = [profiles[k] EXCEPT ![f] = LegacyRow(k)]
    BY <1>4, <2>2 DEF SeedLegacy
  <2>4. CASE p # f
    BY <2>1, <2>3, <2>4
  <2>5. CASE p = f
    <3>1. profiles[k][p] = None \/ profiles[k][p].user = <<k, 0>>
      <4>1. profiles[k][p] # None => profiles[k][p].ref # None
        BY <2>1, NoneAssumption DEF Profile
      <4> QED
        BY <2>2, <2>5, <4>1
    <3>2. profiles'[k][p] = LegacyRow(k)
      BY <2>1, <2>3, <2>5
    <3>3. LegacyRow(k) # None
      BY RowTypes
    <3> QED
      BY <3>1, <3>2, <3>3 DEF LegacyRow
  <2> QED
    BY <2>4, <2>5
<1> QED
  BY <1>1, <1>2, <1>3, <1>4 DEF Next, vars, StartSeed, EnsureUser, SetGroup, EnsureCase, Crash

\* Every user has its group already.
LEMMA RerunKeepsGroups ==
  ASSUME SeedInv, [Next]_vars, complete
  PROVE  \A u \in User \ LegacyUser : groupsOf'[u] = groupsOf[u]
<1>1. groupsOf \in [User -> (SUBSET Group) \cup {None}]
  BY DEF SeedInv, TypeOK
<1>2. ASSUME NEW u \in ToSet(DemoUser) PROVE groupsOf[u] = {u[1]} /\ {u[1]} # None
  <2>1. groupsOf[u] = {u[1]}
    BY WholeWhenComplete DEF CompleteRunIsWhole
  <2>2. u[1] \in Group
    BY SeedConstants
  <2> QED
    BY <2>1, <2>2, NoneAssumption
<1>3. CASE EnsureUser
  <2>1. What \in ToSet(DemoUser)
    BY <1>3, AtStatement DEF EnsureUser
  <2>2. groupsOf' = groupsOf
    BY <1>1, <1>2, <1>3, <2>1 DEF EnsureUser
  <2> QED
    BY <2>2
<1>4. CASE SetGroup
  <2>1. What \in ToSet(DemoUser)
    BY <1>4, AtStatement DEF SetGroup
  <2>2. groupsOf' = groupsOf
    BY <1>1, <1>2, <1>4, <2>1 DEF SetGroup
  <2> QED
    BY <2>2
<1>5. CASE SeedLegacy
  BY <1>5 DEF SeedLegacy
<1>6. CASE groupsOf' = groupsOf
  BY <1>6
<1> QED
  BY <1>3, <1>4, <1>5, <1>6
     DEF Next, vars, StartSeed, RenameConflicting, EnsureProfile, SaveProfile, EnsureCase, Crash

\* A case is given the profiles it has.
LEMMA RerunKeepsCases ==
  ASSUME SeedInv, SeedInv', [Next]_vars, complete
  PROVE  \A r \in CaseRef : r[1] = "demo" => cases'[r] = cases[r]
<1>1. CASE cases' = cases
  BY <1>1
<1>2. CASE SeedLegacy
  BY <1>2 DEF SeedLegacy
<1>3. CASE EnsureCase
  <2>1. PICK i \in 1..(2 * BlockSize) : i = What
    BY <1>3, AtStatement DEF EnsureCase
  <2>2. /\ cases \in [CaseRef -> [Kind -> Pk] \cup {None}]
        /\ \A r \in CaseRef : r # <<"demo", i>> => cases'[r] = cases[r]
        /\ profiles' = profiles /\ complete'
    <3>1. cases' = [cases EXCEPT ![<<"demo", What>>] =
                     [k \in Kind |-> CHOOSE p \in Pk : <<<<k, IF What <= BlockSize THEN 1 ELSE 2>>, p>> \in held]]
      BY <1>3 DEF EnsureCase
    <3>2. cases \in [CaseRef -> [Kind -> Pk] \cup {None}]
      BY DEF SeedInv, TypeOK
    <3>3. \A r \in CaseRef : r # <<"demo", i>> => cases'[r] = cases[r]
      BY <2>1, <3>1, <3>2
    <3>4. profiles' = profiles /\ complete'
      BY <1>3 DEF EnsureCase, Proceed
    <3> QED
      BY <3>2, <3>3, <3>4
  <2>3. CaseDone(i) /\ CaseDone(i)'
    <3>1. PICK j \in 1..Len(Statements) : Statements[j] = [do |-> "case", what |-> i]
      BY Everything
    <3>2. Done(Statements[j])
      BY DEF SeedInv, ProgressInv, Past
    <3>3. Done(Statements[j])'
      BY <2>2 DEF SeedInv, ProgressInv, Past
    <3> QED
      BY <3>1, <3>2, <3>3 DEF Done
  <2>4. PICK n \in {1, 2} : Belongs(i, n)
    BY SeedConstants DEF Belongs
  <2> DEFINE old == cases[<<"demo", i>>]  new == cases'[<<"demo", i>>]
  <2>5. ASSUME NEW k \in Kind PROVE new[k] = old[k]
    <3>1. /\ old[k] \in Pk /\ profiles[k][old[k]] = [user |-> <<k, n>>, ref |-> Demo(n)]
          /\ new[k] \in Pk /\ profiles[k][new[k]] = [user |-> <<k, n>>, ref |-> Demo(n)]
      <4>1. old[k] \in Pk /\ IsDemo(<<k, n>>, old[k])
        BY <2>3, <2>4 DEF CaseDone
      <4>2. new[k] \in Pk /\ IsDemo(<<k, n>>, cases[<<"demo", i>>][k])'
        BY <2>3, <2>4 DEF CaseDone, Belongs
      <4> QED
        BY <2>2, <4>1, <4>2 DEF IsDemo
    <3>2. [user |-> <<k, n>>, ref |-> Demo(n)] # None
      BY SeedConstants, RowTypes
    <3>3. \A x, y \in Pk : x # y /\ profiles[k][x] # None /\ profiles[k][y] # None =>
            profiles[k][x].user # profiles[k][y].user
      BY DEF SeedInv, TablesInv, TableOK
    <3> QED
      BY <3>1, <3>2, <3>3
  <2>6. old \in [Kind -> Pk] /\ new \in [Kind -> Pk]
    BY <2>3 DEF CaseDone
  <2>7. new = old
    <3> HIDE DEF old, new
    <3> QED
      BY <2>5, <2>6
  <2> QED
    BY <2>2, <2>7
<1> QED
  BY <1>1, <1>2, <1>3
     DEF Next, vars, StartSeed, EnsureUser, SetGroup, RenameConflicting, EnsureProfile,
         SaveProfile, Crash

\* After a complete run no later one, whole or killed, adds or takes anything of
\* anybody but seed_demo_data's own users.
THEOREM RerunAlwaysKeeps == Spec => RerunKeepsProfiles
<1>1. SeedInv /\ SeedInv' /\ [Next]_vars =>
        [complete =>
           /\ \A k \in Kind, p \in Pk :
                \/ profiles'[k][p] = profiles[k][p]
                \/ /\ profiles[k][p] = None \/ profiles[k][p].user = <<k, 0>>
                   /\ profiles'[k][p] # None /\ profiles'[k][p].user = <<k, 0>>
           /\ \A u \in User \ LegacyUser : groupsOf'[u] = groupsOf[u]
           /\ \A r \in CaseRef : r[1] = "demo" => cases'[r] = cases[r]]_vars
  BY RerunKeepsRows, RerunKeepsGroups, RerunKeepsCases DEF ProfilesKept
<1> QED
  BY <1>1, SeedInvariant, PTL DEF Spec, RerunKeepsProfiles
================================================================================
