--------------------------- MODULE FrontendProofs ---------------------------
(***************************************************************************)
(* Theorems about modules Frontend and Artifacts, for files of any length: *)
(* each declaration is classified once; the validator reports exactly the  *)
(* faults of what would be emitted, sorted; what is accepted is sound; and *)
(* what Emit and WriteBindings make of it.                                 *)
(***************************************************************************)
EXTENDS Artifacts, SequenceTheorems, FiniteSetTheorems, WellFoundedInduction, TLAPS

\* The declarations each list of ParseFile is to name.
Programs == {k \in 1..Len(file) : file[k].form = "func" /\ file[k].section = "named"}
Helpers == {k \in 1..Len(file) : /\ file[k].form = "func" /\ file[k].section = "none"
                                 /\ ~file[k].main /\ ~file[k].recv}
Maps == {k \in 1..Len(file) : file[k].form = "var" /\ file[k].kind # "plain" /\ ~MapError(file[k])}
Types == {k \in 1..Len(file) : file[k].form = "type" /\ file[k].fields # NotStruct}
Consts == {k \in 1..Len(file) : file[k].form = "const" /\ file[k].value # "none"}

\* list names the members of S, in source order.
Names(list, S) == list \in Seq(Nat) /\ Range(list) = S /\ Increasing(list)

\* A file that is not malformed has no section without a name, no bad map.
WellFormed ==
  \A k \in 1..Len(file) :
    /\ file[k].form = "func" => file[k].section # "bare"
    /\ file[k].form = "var" /\ file[k].kind # "plain" => ~MapError(file[k])

ParseInv ==
  /\ pc \in {"comments", "decls", "imports", "functions", "accepted", "invalid", "malformed"}
  /\ file \in Seq(Decl)
  /\ license \in BOOLEAN
  /\ Names(programs, Programs) /\ Names(helpers, Helpers) /\ Names(maps, Maps)
  /\ Names(types, Types) /\ Names(consts, Consts)
  /\ pc # "malformed" => WellFormed
  /\ pc \in {"imports", "functions", "accepted", "invalid"} => license /\ programs # <<>>

\* The positions of the faults of the functions K.
Faults(K) == UNION {{Position(k, offset) : offset \in FaultsOf(file[k])} : k \in K}

Checked == pc \in {"functions", "accepted", "invalid"}

\* Validate has reported the functions it is through with, each fault once.
CheckInv ==
  /\ todo \in Seq(Nat) /\ IsInjective(todo) /\ Range(todo) \subseteq Emitted
  /\ diags \in Seq(Nat) /\ IsInjective(diags)
  /\ ~Checked => todo = <<>> /\ diags = <<>>
  /\ Checked => Range(diags) \ {ImportPosition} = Faults(Emitted \ Range(todo))
  /\ pc \in {"accepted", "invalid"} => todo = <<>> /\ Increasing(diags)
  /\ pc = "accepted" => diags = <<>>

FInv == ParseInv /\ CheckInv

-----------------------------------------------------------------------------
\* Sequences.

LEMMA RangeOf ==
  ASSUME NEW S, NEW s \in Seq(S)
  PROVE  /\ Range(s) = {s[n] : n \in 1..Len(s)}
         /\ DOMAIN s = 1..Len(s) /\ Len(s) \in Nat
         /\ Range(s) \subseteq S
  BY DEF Range

LEMMA RangeAppend ==
  ASSUME NEW S, NEW s \in Seq(S), NEW e \in S
  PROVE  /\ Append(s, e) \in Seq(S) /\ Range(Append(s, e)) = Range(s) \cup {e}
<1>1. /\ Append(s, e) \in Seq(S) /\ Len(Append(s, e)) = Len(s) + 1
      /\ \A n \in 1..Len(s) : Append(s, e)[n] = s[n]
      /\ Append(s, e)[Len(s) + 1] = e
  OBVIOUS
<1>2. 1..(Len(s) + 1) = (1..Len(s)) \cup {Len(s) + 1}
  OBVIOUS
<1>3. Range(Append(s, e)) = {Append(s, e)[n] : n \in 1..(Len(s) + 1)}
  BY <1>1, RangeOf
<1>4. Range(s) = {s[n] : n \in 1..Len(s)}
  BY RangeOf
<1> QED
  BY <1>1, <1>2, <1>3, <1>4

\* The last declaration of the file is the last one of a list it is put on.
LEMMA NamesAppend ==
  ASSUME NEW L \in Nat, NEW S \in SUBSET (1..L), NEW list, Names(list, S)
  PROVE  Names(Append(list, L + 1), S \cup {L + 1})
<1>1. list \in Seq(Nat) /\ Range(list) = S /\ Increasing(list) /\ Len(list) \in Nat
  BY DEF Names
<1>2. PICK r : r = Append(list, L + 1)
  OBVIOUS
<1>3. r \in Seq(Nat) /\ Range(r) = S \cup {L + 1}
  BY <1>1, <1>2, RangeAppend
<1>4. /\ Len(r) = Len(list) + 1 /\ r[Len(list) + 1] = L + 1
      /\ \A n \in 1..Len(list) : r[n] = list[n]
  BY <1>1, <1>2
<1>5. ASSUME NEW n \in 1..Len(list) PROVE r[n] \in 1..L
  <2>1. list[n] \in S
    BY <1>1, RangeOf
  <2> QED
    BY <2>1, <1>4
<1>6. ASSUME NEW m \in 1..Len(r), NEW n \in 1..Len(r), m < n PROVE r[m] < r[n]
  <2>1. m \in 1..Len(list)
    BY <1>1, <1>4, <1>6
  <2>2. CASE n \in 1..Len(list)
    BY <2>1, <2>2, <1>1, <1>4, <1>6 DEF Increasing
  <2>3. CASE n = Len(list) + 1
    BY <2>1, <2>3, <1>4, <1>5
  <2> QED
    BY <2>2, <2>3, <1>1, <1>4
<1> QED
  BY <1>2, <1>3, <1>6 DEF Names, Increasing

LEMMA IncreasingInjective ==
  ASSUME NEW s \in Seq(Nat), Increasing(s)
  PROVE  IsInjective(s)
<1> SUFFICES ASSUME NEW m \in 1..Len(s), NEW n \in 1..Len(s), s[m] = s[n], m # n PROVE FALSE
  BY RangeOf DEF IsInjective
<1>1. s[m] \in Nat /\ s[n] \in Nat /\ (m < n \/ n < m)
  OBVIOUS
<1> QED
  BY <1>1 DEF Increasing

\* Two sequences without repetitions that share nothing, one after the other.
LEMMA ConcatInjective ==
  ASSUME NEW S, NEW s \in Seq(S), NEW t \in Seq(S), IsInjective(s), IsInjective(t),
         Range(s) \cap Range(t) = {}
  PROVE  /\ s \o t \in Seq(S) /\ IsInjective(s \o t)
         /\ Range(s \o t) = Range(s) \cup Range(t)
<1>1. PICK r : r = s \o t
  OBVIOUS
<1>2. /\ r \in Seq(S) /\ Len(r) = Len(s) + Len(t) /\ Len(s) \in Nat /\ Len(t) \in Nat
      /\ \A n \in 1..Len(s) : r[n] = s[n]
      /\ \A n \in 1..Len(r) : n \in 1..Len(s) \/ n - Len(s) \in 1..Len(t)
      /\ \A n \in 1..Len(r) : n \notin 1..Len(s) => r[n] = t[n - Len(s)]
  BY <1>1
<1>3. /\ Range(s) = {s[n] : n \in 1..Len(s)} /\ Range(t) = {t[n] : n \in 1..Len(t)}
      /\ Range(r) = {r[n] : n \in 1..Len(r)}
      /\ DOMAIN s = 1..Len(s) /\ DOMAIN t = 1..Len(t) /\ DOMAIN r = 1..Len(r)
  BY <1>2, RangeOf
<1>4. ASSUME NEW n \in 1..Len(t) PROVE n + Len(s) \in 1..Len(r) /\ r[n + Len(s)] = t[n]
  <2>1. n + Len(s) \in 1..Len(r) /\ n + Len(s) \notin 1..Len(s) /\ (n + Len(s)) - Len(s) = n
    BY <1>2
  <2> QED
    BY <2>1, <1>2
<1>5. Range(r) = Range(s) \cup Range(t)
  <2>1. ASSUME NEW e \in Range(r) PROVE e \in Range(s) \cup Range(t)
    <3>1. PICK n \in 1..Len(r) : e = r[n]
      BY <1>3
    <3> QED
      BY <3>1, <1>2, <1>3
  <2>2. Range(s) \subseteq Range(r)
    <3>1. 1..Len(s) \subseteq 1..Len(r)
      BY <1>2
    <3> QED
      BY <3>1, <1>2, <1>3
  <2>3. Range(t) \subseteq Range(r)
    BY <1>3, <1>4
  <2> QED
    BY <2>1, <2>2, <2>3
<1>6. ASSUME NEW m \in 1..Len(r), NEW n \in 1..Len(r), r[m] = r[n] PROVE m = n
  <2>1. CASE m \in 1..Len(s) /\ n \in 1..Len(s)
    BY <2>1, <1>2, <1>3, <1>6 DEF IsInjective
  <2>2. CASE m \notin 1..Len(s) /\ n \notin 1..Len(s)
    <3>1. PICK i \in 1..Len(t), j \in 1..Len(t) :
            i = m - Len(s) /\ j = n - Len(s) /\ r[m] = t[i] /\ r[n] = t[j]
      BY <2>2, <1>2
    <3>2. i = j
      BY <3>1, <1>3, <1>6 DEF IsInjective
    <3> QED
      BY <3>1, <3>2, <1>2
  <2>3. CASE m \in 1..Len(s) /\ n \notin 1..Len(s)
    BY <2>3, <1>2, <1>3, <1>6
  <2>4. CASE m \notin 1..Len(s) /\ n \in 1..Len(s)
    BY <2>4, <1>2, <1>3, <1>6
  <2> QED
    BY <2>1, <2>2, <2>3, <2>4
<1> QED
  BY <1>1, <1>2, <1>3, <1>5, <1>6 DEF IsInjective

\* A sequence without repetitions, without its first member.
LEMMA TailInjective ==
  ASSUME NEW S, NEW s \in Seq(S), s # <<>>, IsInjective(s)
  PROVE  /\ Head(s) \in Range(s) /\ Head(s) \in S
         /\ Tail(s) \in Seq(S) /\ IsInjective(Tail(s))
         /\ Range(Tail(s)) = Range(s) \ {Head(s)}
<1>1. PICK t : t = Tail(s)
  OBVIOUS
<1>2. /\ t \in Seq(S) /\ Len(s) \in Nat /\ Len(s) > 0 /\ Len(t) = Len(s) - 1
      /\ \A n \in 1..Len(t) : t[n] = s[n + 1]
      /\ Head(s) = s[1] /\ s[1] \in S
  BY <1>1
<1>3. /\ Range(s) = {s[n] : n \in 1..Len(s)} /\ DOMAIN s = 1..Len(s)
      /\ Range(t) = {t[n] : n \in 1..Len(t)} /\ DOMAIN t = 1..Len(t)
  BY <1>2, RangeOf
<1>4. ASSUME NEW n \in 1..Len(t) PROVE n + 1 \in 1..Len(s) /\ n + 1 # 1
  BY <1>2
<1>5. ASSUME NEW m \in 1..Len(t), NEW n \in 1..Len(t), t[m] = t[n] PROVE m = n
  <2>1. m + 1 = n + 1
    <3>1. m + 1 \in DOMAIN s /\ n + 1 \in DOMAIN s
      BY <1>3, <1>4
    <3>2. s[m + 1] = s[n + 1]
      BY <1>2, <1>5
    <3> QED
      BY <3>1, <3>2 DEF IsInjective
  <2> QED
    BY <2>1
<1>6. ASSUME NEW e \in Range(s), e # s[1] PROVE e \in Range(t)
  <2>1. PICK n \in 1..Len(s) : e = s[n]
    BY <1>3
  <2>2. n # 1
    BY <1>6, <2>1
  <2>3. n - 1 \in 1..Len(t) /\ (n - 1) + 1 = n
    BY <2>1, <2>2, <1>2
  <2> QED
    BY <2>1, <2>3, <1>2, <1>3
<1>7. ASSUME NEW e \in Range(t) PROVE e \in Range(s) /\ e # s[1]
  <2>1. PICK n \in 1..Len(t) : e = t[n]
    BY <1>3
  <2>2. e = s[n + 1] /\ n + 1 \in 1..Len(s) /\ n + 1 # 1 /\ 1 \in 1..Len(s)
    BY <2>1, <1>2, <1>4
  <2> QED
    BY <2>2, <1>3 DEF IsInjective
<1>8. 1 \in 1..Len(s)
  BY <1>2
<1> QED
  BY <1>1, <1>2, <1>3, <1>5, <1>6, <1>7, <1>8 DEF IsInjective

-----------------------------------------------------------------------------
\* The sort.

\* Number j comes before number i of s.
Before(s, j, i) == s[j] < s[i] \/ (s[j] = s[i] /\ j < i)
AllBefore(s, i) == {j \in 1..Len(s) : Before(s, j, i)}
Rank(s) == [i \in 1..Len(s) |-> Cardinality(AllBefore(s, i)) + 1]

LEMMA BeforeOrder ==
  ASSUME NEW s \in Seq(Nat), NEW i \in 1..Len(s), NEW j \in 1..Len(s)
  PROVE  /\ ~ Before(s, i, i)
         /\ i # j => Before(s, i, j) \/ Before(s, j, i)
         /\ Before(s, i, j) => \A k \in 1..Len(s) : Before(s, k, i) => Before(s, k, j)
  BY DEF Before

\* What comes before is fewer, the earlier the number.
LEMMA BeforeFewer ==
  ASSUME NEW s \in Seq(Nat), NEW i \in 1..Len(s), NEW j \in 1..Len(s), Before(s, i, j)
  PROVE  Cardinality(AllBefore(s, i)) < Cardinality(AllBefore(s, j))
<1>1. IsFiniteSet(1..Len(s)) /\ Len(s) \in Nat
  BY FS_Interval
<1>2. AllBefore(s, j) \in SUBSET (1..Len(s)) /\ AllBefore(s, i) \in SUBSET AllBefore(s, j)
  BY BeforeOrder DEF AllBefore
<1>3. IsFiniteSet(AllBefore(s, j))
  BY <1>1, <1>2, FS_Subset
<1>4. /\ IsFiniteSet(AllBefore(s, i))
      /\ Cardinality(AllBefore(s, i)) <= Cardinality(AllBefore(s, j))
      /\ Cardinality(AllBefore(s, j)) = Cardinality(AllBefore(s, i)) => AllBefore(s, j) = AllBefore(s, i)
  BY <1>2, <1>3, FS_Subset
<1>5. i \in AllBefore(s, j) /\ i \notin AllBefore(s, i)
  BY BeforeOrder DEF AllBefore
<1>6. Cardinality(AllBefore(s, i)) \in Nat /\ Cardinality(AllBefore(s, j)) \in Nat
  BY <1>3, <1>4, FS_CardinalityType
<1> QED
  BY <1>4, <1>5, <1>6

\* The ranks of the numbers are 1, 2, ... in some order.
LEMMA RankBijection ==
  ASSUME NEW s \in Seq(Nat)
  PROVE  /\ \A i \in 1..Len(s) : Cardinality(AllBefore(s, i)) \in 0..(Len(s) - 1)
         /\ \A n \in 1..Len(s) : \E i \in 1..Len(s) : Cardinality(AllBefore(s, i)) = n - 1
<1>1. /\ Len(s) \in Nat /\ IsFiniteSet(1..Len(s))
      /\ Cardinality(1..Len(s)) = Len(s)
  <2>1. Len(s) \in Nat /\ 1 \in Int /\ Len(s) \in Int
    OBVIOUS
  <2>2. /\ IsFiniteSet(1..Len(s))
        /\ Cardinality(1..Len(s)) = IF 1 > Len(s) THEN 0 ELSE Len(s) - 1 + 1
    BY <2>1, FS_Interval
  <2> QED
    BY <2>1, <2>2
<1>2. ASSUME NEW i \in 1..Len(s) PROVE Cardinality(AllBefore(s, i)) \in 0..(Len(s) - 1)
  <2>1. AllBefore(s, i) \in SUBSET (1..Len(s)) /\ i \notin AllBefore(s, i)
    BY BeforeOrder DEF AllBefore
  <2>2. /\ IsFiniteSet(AllBefore(s, i)) /\ Cardinality(AllBefore(s, i)) <= Len(s)
        /\ Cardinality(AllBefore(s, i)) # Len(s)
    BY <2>1, <1>1, FS_Subset
  <2>3. Cardinality(AllBefore(s, i)) \in Nat
    BY <2>2, FS_CardinalityType
  <2> QED
    BY <2>2, <2>3, <1>1
<1>3. Rank(s) \in [1..Len(s) -> 1..Len(s)]
  BY <1>1, <1>2 DEF Rank
<1>4. ASSUME NEW i \in 1..Len(s), NEW j \in 1..Len(s), Rank(s)[i] = Rank(s)[j] PROVE i = j
  <2>1. Cardinality(AllBefore(s, i)) = Cardinality(AllBefore(s, j))
    BY <1>2, <1>4 DEF Rank
  <2>2. ~ Before(s, i, j) /\ ~ Before(s, j, i)
    BY <2>1, <1>2, BeforeFewer
  <2> QED
    BY <2>2, BeforeOrder
<1>5. Rank(s) \in Injection(1..Len(s), 1..Len(s))
  BY <1>3, <1>4 DEF Injection, IsInjective
<1>6. Rank(s) \in Surjection(1..Len(s), 1..Len(s))
  BY <1>1, <1>5, FS_Injection
<1>7. ASSUME NEW n \in 1..Len(s)
      PROVE  \E i \in 1..Len(s) : Cardinality(AllBefore(s, i)) = n - 1
  <2>1. PICK i \in 1..Len(s) : Rank(s)[i] = n
    BY <1>6 DEF Surjection
  <2>2. Cardinality(AllBefore(s, i)) + 1 = n
    BY <2>1 DEF Rank
  <2> QED
    BY <2>2, <1>2
<1> QED
  BY <1>2, <1>7

\* Numbers without repetitions, sorted: the same numbers, in order.
LEMMA SortedEffect ==
  ASSUME NEW s \in Seq(Nat), IsInjective(s)
  PROVE  /\ Sorted(s) \in Seq(Nat) /\ Range(Sorted(s)) = Range(s)
         /\ Increasing(Sorted(s)) /\ IsInjective(Sorted(s))
<1> DEFINE at(n) == CHOOSE i \in 1..Len(s) : Cardinality(AllBefore(s, i)) = n - 1
           r == [n \in 1..Len(s) |-> s[at(n)]]
<1>1. Sorted(s) = r
  BY DEF Sorted, AllBefore, Before
<1>2. ASSUME NEW n \in 1..Len(s)
      PROVE  at(n) \in 1..Len(s) /\ Cardinality(AllBefore(s, at(n))) = n - 1
  BY RankBijection
<1>3. ASSUME NEW i \in 1..Len(s)
      PROVE  \E n \in 1..Len(s) : at(n) = i
  <2>1. PICK c \in 0..(Len(s) - 1) : c = Cardinality(AllBefore(s, i))
    BY RankBijection
  <2>2. PICK n \in 1..Len(s) : c = n - 1
    <3>1. Len(s) \in Nat
      OBVIOUS
    <3>2. c + 1 \in 1..Len(s) /\ c = (c + 1) - 1
      BY <3>1, <2>1
    <3> QED
      BY <3>2
  <2>3. PICK k \in 1..Len(s) : k = at(n) /\ Cardinality(AllBefore(s, k)) = n - 1
    BY <2>2, <1>2
  <2>4. ~ Before(s, i, k) /\ ~ Before(s, k, i)
    <3>1. Cardinality(AllBefore(s, k)) = c
      BY <2>2, <2>3
    <3>2. ~ (c < c)
      BY <2>1
    <3> QED
      BY <2>1, <3>1, <3>2, BeforeFewer
  <2> QED
    BY <2>2, <2>3, <2>4, BeforeOrder
<1> HIDE DEF at
<1>4. /\ r \in Seq(Nat) /\ Len(r) = Len(s) /\ Len(s) \in Nat
      /\ \A n \in 1..Len(s) : r[n] = s[at(n)]
  BY <1>2
<1> HIDE DEF r
<1>5. Range(r) = Range(s)
  <2>1. Range(r) = {r[n] : n \in 1..Len(s)} /\ Range(s) = {s[n] : n \in 1..Len(s)}
    BY <1>4, RangeOf
  <2>2. ASSUME NEW n \in 1..Len(s) PROVE r[n] \in Range(s)
    BY <2>1, <1>2, <1>4
  <2>3. ASSUME NEW i \in 1..Len(s) PROVE s[i] \in Range(r)
    BY <2>1, <1>3, <1>4
  <2> QED
    BY <2>1, <2>2, <2>3
<1>6. ASSUME NEW m \in 1..Len(s), NEW n \in 1..Len(s), m < n PROVE r[m] < r[n]
  <2>1. PICK i \in 1..Len(s) : i = at(m) /\ Cardinality(AllBefore(s, i)) = m - 1
    BY <1>2
  <2>2. PICK k \in 1..Len(s) : k = at(n) /\ Cardinality(AllBefore(s, k)) = n - 1
    BY <1>2
  <2>3. i # k /\ ~ Before(s, k, i)
    BY <2>1, <2>2, <1>6, BeforeFewer
  <2>4. Before(s, i, k)
    BY <2>3, BeforeOrder
  <2>5. s[i] # s[k]
    BY <2>3, RangeOf DEF IsInjective
  <2>6. s[i] < s[k]
    BY <2>4, <2>5 DEF Before
  <2> QED
    BY <2>1, <2>2, <2>6, <1>4
<1>7. Increasing(r)
  BY <1>4, <1>6 DEF Increasing
<1> QED
  BY <1>1, <1>4, <1>5, <1>7, IncreasingInjective

-----------------------------------------------------------------------------
\* ParseFile.

\* A declaration is of one form, and has the fields of that form.
LEMMA Forms ==
  ASSUME NEW d \in Decl
  PROVE  /\ d.form \in {"func", "var", "type", "const"}
         /\ d.form = "func" => d \in Func
         /\ d.form = "var" => d \in Var
         /\ d \in Func => d.form = "func"
         /\ d \in Var => d.form = "var"
         /\ d \in Type => d.form = "type"
         /\ d \in Const => d.form = "const"
<1>1. d \in Func => d.form = "func"
  BY DEF Func
<1>2. d \in Var => d.form = "var"
  <2>1. d = Plain => d.form = "var"
    BY DEF Plain
  <2>2. d \in Var => d = Plain \/ d.form = "var"
    BY DEF Var
  <2> QED
    BY <2>1, <2>2
<1>3. d \in Type => d.form = "type"
  BY DEF Type
<1>4. d \in Const => d.form = "const"
  BY DEF Const
<1> QED
  BY <1>1, <1>2, <1>3, <1>4 DEF Decl

\* What the next declaration adds to the file.
LEMMA DeclaresEffect ==
  ASSUME file \in Seq(Decl), NEW d \in Decl, Declares(d)
  PROVE  /\ file' \in Seq(Decl) /\ Len(file) \in Nat /\ Len(file') = Here /\ Here = Len(file) + 1
         /\ \A k \in 1..Len(file) : file'[k] = file[k]
         /\ file'[Here] = d
         /\ 1..Len(file') = (1..Len(file)) \cup {Here}
         /\ Here \notin 1..Len(file)
  BY DEF Declares, Here

LEMMA ListsWithin ==
  /\ Programs \in SUBSET (1..Len(file)) /\ Helpers \in SUBSET (1..Len(file))
  /\ Maps \in SUBSET (1..Len(file)) /\ Types \in SUBSET (1..Len(file))
  /\ Consts \in SUBSET (1..Len(file))
  BY DEF Programs, Helpers, Maps, Types, Consts

\* The declarations of each kind, after the next one.
LEMMA NextDecl ==
  ASSUME file \in Seq(Decl), NEW d \in Decl, Declares(d)
  PROVE  /\ Programs' = IF d.form = "func" /\ d.section = "named" THEN Programs \cup {Here} ELSE Programs
         /\ Helpers' = IF d.form = "func" /\ d.section = "none" /\ ~d.main /\ ~d.recv
                       THEN Helpers \cup {Here} ELSE Helpers
         /\ Maps' = IF d.form = "var" /\ d.kind # "plain" /\ ~MapError(d) THEN Maps \cup {Here} ELSE Maps
         /\ Types' = IF d.form = "type" /\ d.fields # NotStruct THEN Types \cup {Here} ELSE Types
         /\ Consts' = IF d.form = "const" /\ d.value # "none" THEN Consts \cup {Here} ELSE Consts
<1>1. /\ \A k \in 1..Len(file) : file'[k] = file[k]
      /\ file'[Here] = d
      /\ 1..Len(file') = (1..Len(file)) \cup {Here}
  BY DeclaresEffect
<1>2. Programs' = IF d.form = "func" /\ d.section = "named" THEN Programs \cup {Here} ELSE Programs
  BY <1>1 DEF Programs
<1>3. Helpers' = IF d.form = "func" /\ d.section = "none" /\ ~d.main /\ ~d.recv
                 THEN Helpers \cup {Here} ELSE Helpers
  BY <1>1 DEF Helpers
<1>4. Maps' = IF d.form = "var" /\ d.kind # "plain" /\ ~MapError(d) THEN Maps \cup {Here} ELSE Maps
  BY <1>1 DEF Maps, MapError
<1>5. Types' = IF d.form = "type" /\ d.fields # NotStruct THEN Types \cup {Here} ELSE Types
  BY <1>1 DEF Types
<1>6. Consts' = IF d.form = "const" /\ d.value # "none" THEN Consts \cup {Here} ELSE Consts
  BY <1>1 DEF Consts
<1> QED
  BY <1>2, <1>3, <1>4, <1>5, <1>6

\* A list that takes the next declaration, or leaves it.
LEMMA NamesNext ==
  ASSUME file \in Seq(Decl), NEW d \in Decl, Declares(d),
         NEW list, NEW S \in SUBSET (1..Len(file)), Names(list, S)
  PROVE  Names(Append(list, Here), S \cup {Here})
<1>1. Len(file) \in Nat /\ Here = Len(file) + 1
  BY DeclaresEffect
<1> QED
  BY <1>1, NamesAppend

LEMMA WellFormedNext ==
  ASSUME file \in Seq(Decl), NEW d \in Decl, Declares(d), WellFormed,
         d.form = "func" => d.section # "bare",
         d.form = "var" /\ d.kind # "plain" => ~MapError(d)
  PROVE  WellFormed'
<1>1. /\ \A k \in 1..Len(file) : file'[k] = file[k]
      /\ file'[Here] = d
      /\ 1..Len(file') = (1..Len(file)) \cup {Here}
  BY DeclaresEffect
<1> QED
  BY <1>1 DEF WellFormed, MapError

\* The declarations.
LEMMA CollectInv ==
  ASSUME ParseInv,
         NEW d \in Decl, Declares(d),
         \/ d \in Func /\ CollectFunc(d)
         \/ d \in Var /\ CollectVar(d)
         \/ d \in Type /\ CollectType(d)
         \/ d \in Const /\ CollectConst(d)
  PROVE  ParseInv'
<1>t. /\ file \in Seq(Decl) /\ pc = "decls" /\ license \in BOOLEAN /\ WellFormed
      /\ Names(programs, Programs) /\ Names(helpers, Helpers) /\ Names(maps, Maps)
      /\ Names(types, Types) /\ Names(consts, Consts)
  BY DEF ParseInv, Declares
<1>u. license' = license /\ file' \in Seq(Decl)
  BY <1>t, DeclaresEffect DEF Declares
<1>f. /\ d \in Func => d.form = "func"
      /\ d \in Var => d.form = "var"
      /\ d \in Type => d.form = "type"
      /\ d \in Const => d.form = "const"
  BY Forms
<1>a. /\ Names(Append(programs, Here), Programs \cup {Here})
      /\ Names(Append(helpers, Here), Helpers \cup {Here})
      /\ Names(Append(maps, Here), Maps \cup {Here})
      /\ Names(Append(types, Here), Types \cup {Here})
      /\ Names(Append(consts, Here), Consts \cup {Here})
  BY <1>t, NamesNext, ListsWithin
<1>1. CASE d \in Func /\ CollectFunc(d)
  <2>1. d.form = "func"
    BY <1>1, <1>f
  <2>2. /\ pc' = IF d.section = "bare" THEN "malformed" ELSE pc
        /\ programs' = IF d.section = "named" THEN Append(programs, Here) ELSE programs
        /\ helpers' = IF d.section = "none" /\ ~d.main /\ ~d.recv THEN Append(helpers, Here) ELSE helpers
        /\ maps' = maps /\ types' = types /\ consts' = consts
    BY <1>1 DEF CollectFunc
  <2>3. /\ Names(programs', Programs') /\ Names(helpers', Helpers')
        /\ Maps' = Maps /\ Types' = Types /\ Consts' = Consts
    BY <2>1, <2>2, <1>t, <1>a, NextDecl
  <2>4. pc' # "malformed" => WellFormed'
    BY <2>1, <2>2, <1>t, WellFormedNext
  <2> QED
    BY <2>2, <2>3, <2>4, <1>t, <1>u DEF ParseInv, Names, Increasing
<1>2. CASE d \in Var /\ CollectVar(d)
  <2>1. d.form = "var"
    BY <1>2, <1>f
  <2>2. /\ pc' = IF d.kind # "plain" /\ MapError(d) THEN "malformed" ELSE pc
        /\ maps' = IF d.kind # "plain" /\ ~MapError(d) THEN Append(maps, Here) ELSE maps
        /\ programs' = programs /\ helpers' = helpers /\ types' = types /\ consts' = consts
    BY <1>2 DEF CollectVar
  <2>3. /\ Names(maps', Maps')
        /\ Programs' = Programs /\ Helpers' = Helpers /\ Types' = Types /\ Consts' = Consts
    BY <2>1, <2>2, <1>t, <1>a, NextDecl
  <2>4. pc' # "malformed" => WellFormed'
    BY <2>1, <2>2, <1>t, WellFormedNext
  <2> QED
    BY <2>2, <2>3, <2>4, <1>t, <1>u DEF ParseInv, Names, Increasing
<1>3. CASE d \in Type /\ CollectType(d)
  <2>1. d.form = "type"
    BY <1>3, <1>f
  <2>2. /\ types' = IF d.fields # NotStruct THEN Append(types, Here) ELSE types
        /\ pc' = pc /\ programs' = programs /\ helpers' = helpers /\ maps' = maps /\ consts' = consts
    BY <1>3 DEF CollectType
  <2>3. /\ Names(types', Types')
        /\ Programs' = Programs /\ Helpers' = Helpers /\ Maps' = Maps /\ Consts' = Consts
    BY <2>1, <2>2, <1>t, <1>a, NextDecl
  <2>4. WellFormed'
    BY <2>1, <1>t, WellFormedNext
  <2> QED
    BY <2>2, <2>3, <2>4, <1>t, <1>u DEF ParseInv, Names, Increasing
<1>4. CASE d \in Const /\ CollectConst(d)
  <2>1. d.form = "const"
    BY <1>4, <1>f
  <2>2. /\ consts' = IF d.value # "none" THEN Append(consts, Here) ELSE consts
        /\ pc' = pc /\ programs' = programs /\ helpers' = helpers /\ maps' = maps /\ types' = types
    BY <1>4 DEF CollectConst
  <2>3. /\ Names(consts', Consts')
        /\ Programs' = Programs /\ Helpers' = Helpers /\ Maps' = Maps /\ Types' = Types
    BY <2>1, <2>2, <1>t, <1>a, NextDecl
  <2>4. WellFormed'
    BY <2>1, <1>t, WellFormedNext
  <2> QED
    BY <2>2, <2>3, <2>4, <1>t, <1>u DEF ParseInv, Names, Increasing
<1> QED
  BY <1>1, <1>2, <1>3, <1>4

-----------------------------------------------------------------------------
\* Validate.

\* The offsets of faults, and the functions that are emitted.
LEMMA EmittedType ==
  ASSUME ParseInv
  PROVE  /\ Emitted \subseteq 1..Len(file)
         /\ \A k \in Emitted : IsFiniteSet(FaultsOf(file[k])) /\ FaultsOf(file[k]) \subseteq 0..4
         /\ Range(programs) \cap Range(helpers) = {}
<1>1. /\ file \in Seq(Decl) /\ Range(programs) = Programs /\ Range(helpers) = Helpers
  BY DEF ParseInv, Names
<1>2. ASSUME NEW k \in Emitted
      PROVE  IsFiniteSet(FaultsOf(file[k])) /\ FaultsOf(file[k]) \subseteq 0..4
  <2>1. k \in 1..Len(file) /\ file[k].form = "func"
    BY <1>1 DEF Emitted, Programs, Helpers
  <2>2. PICK d \in Decl : d = file[k]
    BY <1>1, <2>1
  <2>3. d \in Func
    BY <2>1, <2>2, Forms
  <2>4. d.faults \in FaultSets
    BY <2>3 DEF Func
  <2>5. d.faults \subseteq 0..4
    <3>1. d.faults \in SUBSET ({Signature, Construct} \cup Strings)
      BY <2>4, FrontendAssumption
    <3>2. {Signature, Construct} \cup Strings \subseteq 0..4
      BY DEF Signature, Construct, Strings
    <3> QED
      BY <3>1, <3>2
  <2>6. FaultsOf(d) \in SUBSET (0..4)
    BY <2>5 DEF FaultsOf, Receiver
  <2>7. IsFiniteSet(0..4)
    <3>1. 0 \in Int /\ 4 \in Int
      OBVIOUS
    <3> QED
      BY <3>1, FS_Interval
  <2> QED
    BY <2>2, <2>6, <2>7, FS_Subset
<1>3. Emitted \subseteq 1..Len(file) /\ Range(programs) \cap Range(helpers) = {}
  BY <1>1 DEF Emitted, Programs, Helpers
<1> QED
  BY <1>2, <1>3

\* A position tells the function and the offset.
LEMMA PositionsDiffer ==
  ASSUME NEW k \in Nat \ {0}, NEW j \in Nat \ {0}, NEW o \in 0..4, NEW p \in 0..4
  PROVE  /\ Position(k, o) \in Nat /\ Position(k, o) # ImportPosition
         /\ Position(k, o) = Position(j, p) => k = j /\ o = p
  BY DEF Position, ImportPosition

\* A permutation of a set has all its members.
LEMMA PermutationRange ==
  ASSUME NEW F, IsFiniteSet(F), NEW f, f \in SetToSeqs(F)
  PROVE  /\ f \in Seq(F) /\ Len(f) \in Nat
         /\ \A m, n \in 1..Len(f) : f[m] = f[n] => m = n
         /\ F = {f[n] : n \in 1..Len(f)}
<1>1. PICK c \in Nat : c = Cardinality(F)
  BY FS_CardinalityType
<1>2. /\ f \in [1..c -> F]
      /\ \A i, j \in 1..c : i # j => f[i] # f[j]
  BY <1>1 DEF SetToSeqs
<1>3. f \in Seq(F) /\ Len(f) = c
  BY <1>2
<1>4. Cardinality(1..c) = c
  <2>1. 1 \in Int /\ c \in Int
    OBVIOUS
  <2>2. Cardinality(1..c) = IF 1 > c THEN 0 ELSE c - 1 + 1
    BY <2>1, FS_Interval
  <2> QED
    BY <2>2
<1>5. f \in Injection(1..c, F)
  BY <1>2 DEF Injection, IsInjective
<1>6. f \in Surjection(1..c, F)
  BY <1>1, <1>4, <1>5, FS_Injection
<1>7. F = {f[n] : n \in 1..c}
  BY <1>2, <1>6 DEF Surjection
<1> QED
  BY <1>2, <1>3, <1>7

\* The findings of one function.
LEMMA FunctionFindings ==
  ASSUME NEW k \in Nat \ {0}, NEW F \in SUBSET (0..4), IsFiniteSet(F), NEW f, f \in SetToSeqs(F)
  PROVE  LET ps == [n \in 1..Len(f) |-> Position(k, f[n])] IN
         ps \in Seq(Nat) /\ IsInjective(ps) /\ Range(ps) = {Position(k, o) : o \in F}
<1> DEFINE ps == [n \in 1..Len(f) |-> Position(k, f[n])]
<1>1. /\ f \in Seq(F) /\ Len(f) \in Nat
      /\ \A m, n \in 1..Len(f) : f[m] = f[n] => m = n
      /\ F = {f[n] : n \in 1..Len(f)}
  <2> HIDE DEF ps
  <2> QED
    BY PermutationRange
<1>2. \A n \in 1..Len(f) : f[n] \in F /\ f[n] \in 0..4
  BY <1>1
<1>3. \A n \in 1..Len(f) : Position(k, f[n]) \in Nat
  BY <1>2, PositionsDiffer
<1>4. /\ ps \in Seq(Nat) /\ Len(ps) = Len(f) /\ DOMAIN ps = 1..Len(f)
      /\ \A n \in 1..Len(f) : ps[n] = Position(k, f[n])
  BY <1>1, <1>3
<1>5. ASSUME NEW m \in 1..Len(f), NEW n \in 1..Len(f), ps[m] = ps[n] PROVE m = n
  <2>1. PICK o \in 0..4, p \in 0..4 : o = f[m] /\ p = f[n]
    BY <1>2
  <2>2. Position(k, o) = Position(k, p)
    BY <2>1, <1>4, <1>5
  <2>3. o = p
    BY <2>2 DEF Position
  <2> QED
    BY <2>1, <2>3, <1>1
<1>6. IsInjective(ps)
  BY <1>4, <1>5 DEF IsInjective
<1>7. Range(ps) = {Position(k, o) : o \in F}
  <2>1. Range(ps) = {ps[n] : n \in 1..Len(f)}
    BY <1>4 DEF Range
  <2>2. ASSUME NEW o \in F PROVE Position(k, o) \in Range(ps)
    <3>1. PICK n \in 1..Len(f) : o = f[n]
      BY <1>1
    <3> QED
      BY <3>1, <2>1, <1>4
  <2>3. ASSUME NEW n \in 1..Len(f) PROVE ps[n] \in {Position(k, o) : o \in F}
    BY <1>2, <1>4
  <2> QED
    BY <2>1, <2>2, <2>3
<1> QED
  BY <1>4, <1>6, <1>7

\* The faults of one more function.
LEMMA FaultsMore ==
  ASSUME NEW K, NEW k
  PROVE  Faults(K \cup {k}) = Faults(K) \cup {Position(k, o) : o \in FaultsOf(file[k])}
<1>1. ASSUME NEW S, NEW x
      PROVE  x \in Faults(S) <=> \E j \in S : \E o \in FaultsOf(file[j]) : x = Position(j, o)
  BY DEF Faults
<1>2. ASSUME NEW x
      PROVE  x \in Faults(K \cup {k}) <=> x \in Faults(K) \/ \E o \in FaultsOf(file[k]) : x = Position(k, o)
  <2>1. (\E j \in K \cup {k} : \E o \in FaultsOf(file[j]) : x = Position(j, o))
          <=> (\E j \in K : \E o \in FaultsOf(file[j]) : x = Position(j, o))
              \/ \E o \in FaultsOf(file[k]) : x = Position(k, o)
    BY Zenon
  <2> QED
    BY <1>1, <2>1
<1> QED
  BY <1>2

\* CheckFunc reports the faults of its function and no other's.
LEMMA CheckFuncInv ==
  ASSUME ParseInv, CheckInv, CheckFunc
  PROVE  CheckInv'
<1>1. PICK k : k = Head(todo)
  OBVIOUS
<1>2. PICK found \in SetToSeqs(FaultsOf(file[k])) :
        diags' = diags \o [n \in 1..Len(found) |-> Position(k, found[n])]
  BY <1>1 DEF CheckFunc
<1>3. /\ pc = "functions" /\ pc' = pc /\ todo # <<>> /\ todo' = Tail(todo)
      /\ file' = file /\ programs' = programs /\ helpers' = helpers
  BY DEF CheckFunc, prog
<1>4. /\ k \in Range(todo) /\ todo' \in Seq(Nat) /\ IsInjective(todo')
      /\ Range(todo') = Range(todo) \ {k} /\ Range(todo) \subseteq Emitted
  BY <1>1, <1>3, TailInjective DEF CheckInv
<1>5. k \in Emitted /\ k \in Nat \ {0} /\ Emitted \subseteq Nat \ {0} /\ Emitted' = Emitted
  BY <1>3, <1>4, EmittedType DEF Emitted
<1>6. FaultsOf(file[k]) \in SUBSET (0..4) /\ IsFiniteSet(FaultsOf(file[k]))
  BY <1>5, EmittedType
<1>7. PICK ps : ps = [n \in 1..Len(found) |-> Position(k, found[n])]
  OBVIOUS
<1>8. ps \in Seq(Nat) /\ IsInjective(ps) /\ Range(ps) = {Position(k, o) : o \in FaultsOf(file[k])}
  BY <1>5, <1>6, <1>7, FunctionFindings
<1>9. /\ diags \in Seq(Nat) /\ IsInjective(diags)
      /\ Range(diags) \ {ImportPosition} = Faults(Emitted \ Range(todo))
  BY <1>3 DEF CheckInv, Checked
<1>10. ASSUME NEW e \in Range(diags), e \in Range(ps) PROVE FALSE
  <2>1. PICK o \in FaultsOf(file[k]) : e = Position(k, o)
    BY <1>8, <1>10
  <2>2. o \in 0..4
    BY <2>1, <1>6
  <2>3. e # ImportPosition
    BY <2>1, <2>2, <1>5, PositionsDiffer
  <2>4. PICK j \in Emitted \ Range(todo) : e \in {Position(j, p) : p \in FaultsOf(file[j])}
    BY <2>3, <1>9 DEF Faults
  <2>5. PICK p \in FaultsOf(file[j]) : e = Position(j, p)
    BY <2>4
  <2>6. p \in 0..4 /\ j \in Nat \ {0}
    BY <2>4, <2>5, <1>5, EmittedType
  <2>7. k = j
    BY <2>1, <2>2, <2>5, <2>6, <1>5, PositionsDiffer
  <2> QED
    BY <2>4, <2>7, <1>4
<1>11. /\ diags' \in Seq(Nat) /\ IsInjective(diags')
       /\ Range(diags') = Range(diags) \cup Range(ps)
  <2>1. Range(diags) \cap Range(ps) = {}
    BY <1>10
  <2>2. diags \in Seq(Nat) /\ ps \in Seq(Nat) /\ IsInjective(diags) /\ IsInjective(ps)
    BY <1>8, <1>9
  <2>3. diags' = diags \o ps
    BY <1>2, <1>7
  <2> QED
    BY <2>1, <2>2, <2>3, ConcatInjective
<1>12. ImportPosition \notin Range(ps)
  <2>1. ASSUME NEW o \in FaultsOf(file[k]) PROVE Position(k, o) # ImportPosition
    BY <1>5, <1>6, PositionsDiffer
  <2> QED
    BY <2>1, <1>8
<1>13. Emitted \ Range(todo') = (Emitted \ Range(todo)) \cup {k}
  BY <1>4, <1>5
<1>14. Faults(Emitted \ Range(todo))' = Faults(Emitted \ Range(todo)) \cup Range(ps)
  <2>1. PICK K : K = Emitted \ Range(todo)
    OBVIOUS
  <2>2. (Emitted \ Range(todo))' = K \cup {k}
    BY <2>1, <1>5, <1>13
  <2>3. Faults(Emitted \ Range(todo))' = Faults(K \cup {k})
    BY <2>2, <1>3 DEF Faults, FaultsOf
  <2> QED
    BY <2>1, <2>3, <1>8, FaultsMore
<1>15. Range(diags') \ {ImportPosition} = Faults(Emitted \ Range(todo))'
  BY <1>9, <1>11, <1>12, <1>14
<1>16. Range(todo') \subseteq Emitted'
  BY <1>4, <1>5
<1> QED
  BY <1>3, <1>4, <1>11, <1>15, <1>16 DEF CheckInv, Checked

LEMMA ReportInv ==
  ASSUME ParseInv, CheckInv, Report
  PROVE  CheckInv'
<1>1. /\ pc = "functions" /\ todo = <<>> /\ todo' = todo /\ diags' = Sorted(diags)
      /\ pc' \in {"accepted", "invalid"} /\ (pc' = "accepted" => diags = <<>>)
      /\ file' = file /\ programs' = programs /\ helpers' = helpers
  BY DEF Report, prog
<1>2. /\ diags \in Seq(Nat) /\ IsInjective(diags)
      /\ Range(diags) \ {ImportPosition} = Faults(Emitted \ Range(todo))
      /\ todo \in Seq(Nat) /\ IsInjective(todo) /\ Range(todo) \subseteq Emitted
  BY <1>1 DEF CheckInv, Checked
<1>3. /\ diags' \in Seq(Nat) /\ Range(diags') = Range(diags)
      /\ Increasing(diags') /\ IsInjective(diags')
  BY <1>1, <1>2, SortedEffect
<1>4. Emitted' = Emitted /\ Faults(Emitted \ Range(todo))' = Faults(Emitted \ Range(todo))
  BY <1>1 DEF Emitted, Faults, FaultsOf
<1>5. pc' = "accepted" => diags' = <<>>
  <2> SUFFICES ASSUME diags = <<>> PROVE diags' = <<>>
    BY <1>1
  <2>1. Range(diags') = {}
    BY <1>3 DEF Range
  <2>2. Range(diags') = {diags'[n] : n \in 1..Len(diags')} /\ Len(diags') \in Nat
    BY <1>3, RangeOf
  <2>3. Len(diags') = 0
    BY <2>1, <2>2
  <2> QED
    BY <2>3, <1>3
<1>6. Increasing(diags)'
  BY <1>3 DEF Increasing
<1> QED
  BY <1>1, <1>2, <1>3, <1>4, <1>5, <1>6 DEF CheckInv, Checked

LEMMA CheckImportsInv ==
  ASSUME ParseInv, CheckInv, NEW foreign \in BOOLEAN, CheckImports(foreign)
  PROVE  CheckInv'
<1>1. /\ pc' = "functions" /\ todo' = programs \o helpers
      /\ diags' \in {<<>>, <<ImportPosition>>}
      /\ file' = file /\ programs' = programs /\ helpers' = helpers
  BY DEF CheckImports, prog
<1>2. /\ programs \in Seq(Nat) /\ Increasing(programs)
      /\ helpers \in Seq(Nat) /\ Increasing(helpers)
      /\ Range(programs) \cap Range(helpers) = {}
  BY EmittedType DEF ParseInv, Names
<1>3. IsInjective(programs) /\ IsInjective(helpers)
  BY <1>2, IncreasingInjective
<1>4. /\ todo' \in Seq(Nat) /\ IsInjective(todo')
      /\ Range(todo') = Emitted /\ Emitted' = Emitted
  BY <1>1, <1>2, <1>3, ConcatInjective DEF Emitted
<1>5. /\ diags' \in Seq(Nat) /\ IsInjective(diags') /\ Range(diags') \subseteq {ImportPosition}
  <2>1. CASE diags' = <<>>
    BY <2>1 DEF IsInjective, Range
  <2>2. CASE diags' = <<ImportPosition>>
    BY <2>2 DEF IsInjective, Range, ImportPosition
  <2> QED
    BY <1>1, <2>1, <2>2
<1>6. Faults(Emitted \ Range(todo))' = {}
  BY <1>4 DEF Faults
<1> QED
  BY <1>1, <1>4, <1>5, <1>6 DEF CheckInv, Checked

\* Before Validate starts there is nothing to report.
LEMMA NothingChecked ==
  ASSUME todo' = <<>>, diags' = <<>>, pc' \notin {"functions", "accepted", "invalid"}
  PROVE  CheckInv'
<1>1. /\ todo' \in Seq(Nat) /\ IsInjective(todo') /\ Range(todo') = {}
      /\ diags' \in Seq(Nat) /\ IsInjective(diags')
  BY DEF IsInjective, Range
<1> QED
  BY <1>1 DEF CheckInv, Checked

LEMMA FInvInit == Init => FInv
<1> SUFFICES ASSUME Init PROVE FInv
  OBVIOUS
<1>1. /\ <<>> \in Seq(Nat) /\ IsInjective(<<>>) /\ Range(<<>>) = {} /\ Increasing(<<>>)
  BY DEF IsInjective, Range, Increasing
<1>2. Names(<<>>, {})
  BY <1>1 DEF Names
<1>3. Programs = {} /\ Helpers = {} /\ Maps = {} /\ Types = {} /\ Consts = {} /\ WellFormed
  BY DEF Init, Programs, Helpers, Maps, Types, Consts, WellFormed
<1>4. ParseInv
  <2>1. /\ Names(programs, Programs) /\ Names(helpers, Helpers) /\ Names(maps, Maps)
        /\ Names(types, Types) /\ Names(consts, Consts)
    BY <1>2, <1>3 DEF Init
  <2>2. license \in BOOLEAN
    BY Zenon DEF Init
  <2>3. pc = "comments" /\ file \in Seq(Decl)
    <3>1. <<>> \in Seq(Decl)
      OBVIOUS
    <3> QED
      BY <3>1 DEF Init
  <2> QED
    BY <2>1, <2>2, <2>3, <1>3 DEF ParseInv
<1>5. CheckInv
  BY <1>1 DEF Init, CheckInv, Checked
<1> QED
  BY <1>4, <1>5 DEF FInv

\* A step that collects nothing keeps what ParseFile has collected.
LEMMA ParseStays ==
  ASSUME ParseInv, file' = file, license' \in BOOLEAN, UNCHANGED prog,
         pc' \in {"comments", "decls", "imports", "functions", "accepted", "invalid", "malformed"},
         pc = "malformed" => pc' = "malformed",
         pc' \in {"imports", "functions", "accepted", "invalid"} => license' /\ programs # <<>>
  PROVE  ParseInv'
<1>1. /\ programs' = programs /\ helpers' = helpers /\ maps' = maps
      /\ types' = types /\ consts' = consts
  BY DEF prog
<1>2. /\ Programs' = Programs /\ Helpers' = Helpers /\ Maps' = Maps /\ Types' = Types
      /\ Consts' = Consts /\ (WellFormed => WellFormed')
  BY DEF Programs, Helpers, Maps, Types, Consts, WellFormed, MapError
<1> QED
  BY <1>1, <1>2 DEF ParseInv, Names, Increasing

LEMMA FInvNext == FInv /\ Next => FInv'
<1> SUFFICES ASSUME FInv, Next PROVE FInv'
  OBVIOUS
<1>t. ParseInv /\ CheckInv
  BY DEF FInv
<1>l. /\ license \in BOOLEAN
      /\ pc \in {"imports", "functions"} => license /\ programs # <<>>
      /\ pc \in {"comments", "decls", "imports"} => todo = <<>> /\ diags = <<>>
  BY <1>t DEF ParseInv, CheckInv, Checked
<1>1. ASSUME NEW c \in Directive, ReadDirective(c) PROVE FInv'
  <2>1. /\ pc = "comments" /\ pc' \in {"comments", "malformed"} /\ license' \in BOOLEAN
        /\ file' = file /\ UNCHANGED prog /\ todo' = todo /\ diags' = diags
    BY <1>1, <1>l DEF ReadDirective, Directive
  <2> QED
    BY <2>1, <1>t, <1>l, ParseStays, NothingChecked DEF FInv
<1>2. CASE CommentsRead
  <2>1. /\ pc = "comments" /\ pc' = "decls" /\ license' = license
        /\ file' = file /\ UNCHANGED prog /\ todo' = todo /\ diags' = diags
    BY <1>2 DEF CommentsRead
  <2> QED
    BY <2>1, <1>t, <1>l, ParseStays, NothingChecked DEF FInv
<1>3. ASSUME NEW d,
             \/ d \in Func /\ CollectFunc(d)
             \/ d \in Var /\ CollectVar(d)
             \/ d \in Type /\ CollectType(d)
             \/ d \in Const /\ CollectConst(d)
      PROVE  FInv'
  <2>1. /\ d \in Decl /\ Declares(d) /\ pc = "decls" /\ pc' \in {"decls", "malformed"}
        /\ todo' = todo /\ diags' = diags
    BY <1>3 DEF CollectFunc, CollectVar, CollectType, CollectConst, Declares, Decl
  <2>2. ParseInv'
    BY <2>1, <1>3, <1>t, CollectInv
  <2>3. CheckInv'
    BY <2>1, <1>l, NothingChecked
  <2> QED
    BY <2>2, <2>3 DEF FInv
<1>4. CASE Parsed
  <2>1. /\ pc = "decls" /\ pc' \in {"imports", "malformed"} /\ license' = license
        /\ pc' = "imports" => license /\ programs # <<>>
        /\ file' = file /\ UNCHANGED prog /\ todo' = todo /\ diags' = diags
    BY <1>4 DEF Parsed
  <2> QED
    BY <2>1, <1>t, <1>l, ParseStays, NothingChecked DEF FInv
<1>5. ASSUME NEW foreign \in BOOLEAN, CheckImports(foreign) PROVE FInv'
  <2>1. /\ pc = "imports" /\ pc' = "functions" /\ license' = license
        /\ file' = file /\ UNCHANGED prog
    BY <1>5 DEF CheckImports
  <2> QED
    BY <2>1, <1>5, <1>t, <1>l, ParseStays, CheckImportsInv DEF FInv
<1>6. CASE CheckFunc
  <2>1. /\ pc = "functions" /\ pc' = pc /\ license' = license
        /\ file' = file /\ UNCHANGED prog
    BY <1>6 DEF CheckFunc
  <2> QED
    BY <2>1, <1>6, <1>t, <1>l, ParseStays, CheckFuncInv DEF FInv
<1>7. CASE Report
  <2>1. /\ pc = "functions" /\ pc' \in {"accepted", "invalid"} /\ license' = license
        /\ file' = file /\ UNCHANGED prog
    BY <1>7 DEF Report
  <2> QED
    BY <2>1, <1>7, <1>t, <1>l, ParseStays, ReportInv DEF FInv
<1> QED
  BY <1>1, <1>2, <1>3, <1>4, <1>5, <1>6, <1>7 DEF Next

LEMMA FInvStutter == FInv /\ UNCHANGED vars => FInv'
<1> SUFFICES ASSUME FInv, UNCHANGED vars PROVE FInv'
  OBVIOUS
<1>1. ParseInv'
  BY ParseStays DEF FInv, ParseInv, vars, prog
<1>2. CheckInv'
  BY DEF FInv, CheckInv, Checked, Emitted, Faults, FaultsOf, Increasing, vars
<1> QED
  BY <1>1, <1>2 DEF FInv

-----------------------------------------------------------------------------
\* The inductive invariant of ParseFile and Validate.
THEOREM FrontendInvariant == Spec => []FInv
<1>1. FInv /\ [Next]_vars => FInv'
  BY FInvNext, FInvStutter
<1> QED
  BY FInvInit, <1>1, PTL DEF Spec

\* Each declaration is on at most one list of ParseFile's Program, in the order of
\* the file (collectDecls).
THEOREM FrontendTyped == Spec => []TypeOK
<1>1. ASSUME FInv PROVE TypeOK
  <2>1. \A list \in {programs, helpers, maps, types, consts} :
          Range(list) \subseteq 1..Len(file) /\ Increasing(list)
    BY <1>1, ListsWithin DEF FInv, ParseInv, Names
  <2>2. Range(programs) \cap Range(helpers) = {}
    BY <1>1, EmittedType DEF FInv
  <2> QED
    BY <1>1, <2>1, <2>2 DEF FInv, ParseInv, CheckInv, TypeOK
<1> QED
  BY FrontendInvariant, <1>1, PTL

\* "Returns all findings sorted by source position" (Validate) for files of any
\* length: each fault of each function that would be emitted, once, whatever the
\* order of the file and of the Go map checkBodyTypes ranges over.
THEOREM ValidateComplete == Spec => []FindingsExact
<1>1. ASSUME FInv PROVE FindingsExact
  <2> SUFFICES ASSUME pc \in {"accepted", "invalid"}
               PROVE  Increasing(diags) /\ Range(diags) \ {ImportPosition} = Faults(Emitted)
    BY DEF FindingsExact, Faults
  <2>1. /\ todo = <<>> /\ Increasing(diags)
        /\ Range(diags) \ {ImportPosition} = Faults(Emitted \ Range(todo))
    BY <1>1 DEF FInv, CheckInv, Checked
  <2>2. Range(todo) = {}
    BY <2>1 DEF Range
  <2>3. Emitted \ Range(todo) = Emitted
    BY <2>2
  <2> QED
    BY <2>1, <2>3
<1> QED
  BY FrontendInvariant, <1>1, PTL

\* Emit is only given licensed files with a program, without faults in what it
\* emits, with every top-level function but main emitted, and with sized maps.
THEOREM AcceptedFilesSound == Spec => []AcceptedSound
<1>1. ASSUME FInv PROVE AcceptedSound
  <2> SUFFICES ASSUME pc = "accepted"
               PROVE  /\ license /\ programs # <<>>
                      /\ \A k \in 1..Len(file) :
                           file[k].form = "func" /\ ~file[k].recv /\ ~file[k].main => k \in Emitted
                      /\ \A k \in Emitted : FaultsOf(file[k]) = {}
                      /\ \A k \in Range(maps) : file[k].kind = "autosized map" \/ file[k].init = "sized"
    BY DEF AcceptedSound
  <2>1. /\ license /\ programs # <<>> /\ WellFormed /\ file \in Seq(Decl)
        /\ Range(programs) = Programs /\ Range(helpers) = Helpers /\ Range(maps) = Maps
    BY <1>1 DEF FInv, ParseInv, Names
  <2>2. /\ todo = <<>> /\ diags = <<>>
        /\ Range(diags) \ {ImportPosition} = Faults(Emitted \ Range(todo))
    BY <1>1 DEF FInv, CheckInv, Checked
  <2>3. Range(diags) = {} /\ Range(todo) = {}
    BY <2>2 DEF Range
  <2>4. Faults(Emitted \ Range(todo)) = {} /\ Emitted \ Range(todo) = Emitted
    BY <2>2, <2>3
  <2>5. ASSUME NEW k \in Emitted, FaultsOf(file[k]) # {} PROVE FALSE
    <3>1. PICK o \in FaultsOf(file[k]) : TRUE
      BY <2>5
    <3>2. Position(k, o) \in Faults(Emitted)
      BY <3>1 DEF Faults
    <3> QED
      BY <3>2, <2>4
  <2>6. ASSUME NEW k \in 1..Len(file), file[k].form = "func", k \notin Emitted
        PROVE  file[k].main \/ file[k].recv
    <3>1. PICK d \in Decl : d = file[k]
      BY <2>1
    <3>2. d \in Func
      BY <3>1, <2>6, Forms
    <3>3. d.section \in {"none", "bare", "named"}
      BY <3>2 DEF Func, Section
    <3>4. d.section # "bare"
      BY <3>1, <2>1, <2>6 DEF WellFormed
    <3> QED
      BY <3>1, <3>3, <3>4, <2>1, <2>6 DEF Emitted, Programs, Helpers
  <2>7. ASSUME NEW k \in Range(maps) PROVE file[k].kind = "autosized map" \/ file[k].init = "sized"
    <3>1. k \in 1..Len(file) /\ file[k].form = "var" /\ file[k].kind # "plain" /\ ~MapError(file[k])
      BY <2>1, <2>7 DEF Maps
    <3>2. PICK d \in Decl : d = file[k]
      BY <2>1, <3>1
    <3>3. d \in Var /\ d # Plain
      BY <3>1, <3>2, Forms DEF Plain
    <3>4. d.init \in {"none", "expr", "empty", "bad", "sized"}
      BY <3>3 DEF Var
    <3> QED
      BY <3>1, <3>2, <3>4 DEF MapError
  <2> QED
    BY <2>1, <2>5, <2>6, <2>7
<1> QED
  BY FrontendInvariant, <1>1, PTL

-----------------------------------------------------------------------------
\* Emit and WriteBindings on an accepted file.

Headers == {"linux/bpf.h", "vmlinux.h", "bpf_helpers.h", "bpf_core_read.h", "bpf_endian.h"}

\* What a declaration of the file may mention.
Pairs == UNION {{<<k, m>> : m \in Mention(k)} : k \in 1..Len(file)}

\* The scans have provided for what declaration k mentions.
Provided(k, m) ==
  /\ m.says = Endian => "bpf_endian.h" \in includes
  /\ k \in Range(programs) /\ m.says = Argv => Argv \in preludes
  /\ k \in Range(programs) /\ m.kernelCtx => "vmlinux.h" \in includes

StageInv ==
  /\ stage \in {"idle", "scan", "write", "done", "failed"}
  /\ stage # "idle" => pc = "accepted"
  /\ stage = "idle" => /\ left = <<>> /\ includes = {} /\ preludes = {} /\ mentions = <<>>
  /\ stage \in {"idle", "scan", "failed"} => written = <<>> /\ undeclared = {}
  /\ stage # "done" => published = <<>>
  /\ left \in Seq(Nat) /\ written \in Seq(Nat)
  /\ stage = "scan" => Range(left) \subseteq Emitted
  /\ stage \in {"write", "done"} => written \o left = Sections

HeaderInv ==
  /\ includes \subseteq Headers /\ preludes \subseteq {Argv}
  /\ stage # "idle" =>
       "bpf_helpers.h" \in includes /\ ("linux/bpf.h" \in includes \/ "vmlinux.h" \in includes)
  /\ mentions \in Seq(Pairs)
  /\ \A p \in Range(mentions) : Provided(p[1], p[2])

UsesInv ==
  undeclared \subseteq {<<k, c>> : k \in Range(written), c \in UNION {CNames(m[2]) : m \in Range(mentions)}}

PublishInv ==
  published # <<>> =>
    /\ Len(published) = Len(consts)
    /\ \A n \in 1..Len(consts) : published[n] = Publish(n)

ArtInv == FInv /\ StageInv /\ HeaderInv /\ UsesInv /\ PublishInv

\* Once a file is accepted, ParseFile and Validate are over.
LEMMA AcceptedEnds == pc = "accepted" /\ Next => FALSE
  BY DEF Next, ReadDirective, CommentsRead, CollectFunc, CollectVar, CollectType, CollectConst,
         Declares, Parsed, CheckImports, CheckFunc, Report

\* The section of what is on a list.
LEMMA SectionsOf ==
  ASSUME ParseInv
  PROVE  /\ \A k \in Range(types) : SectionOf(k) = 1
         /\ \A k \in Range(maps) : SectionOf(k) = 2
         /\ \A k \in Range(helpers) : SectionOf(k) = 3
         /\ \A k \in Range(programs) : SectionOf(k) = 4
<1>1. /\ Range(programs) = Programs /\ Range(helpers) = Helpers /\ Range(maps) = Maps
      /\ Range(types) = Types
  BY DEF ParseInv, Names
<1>2. \A k \in Types : SectionOf(k) = 1
  BY DEF Types, SectionOf, IsFunc
<1>3. \A k \in Maps : SectionOf(k) = 2
  BY DEF Maps, SectionOf, IsFunc
<1>4. \A k \in Helpers : SectionOf(k) = 3
  BY DEF Helpers, SectionOf, IsFunc
<1>5. \A k \in Programs : SectionOf(k) = 4
  BY DEF Programs, SectionOf, IsFunc
<1> QED
  BY <1>1, <1>2, <1>3, <1>4, <1>5

\* In a well-formed file, what has a C form is on one of the four lists.
LEMMA SectionListed ==
  ASSUME ParseInv, WellFormed, NEW k \in 1..Len(file), SectionOf(k) # 0
  PROVE  k \in Range(types) \cup Range(maps) \cup Range(helpers) \cup Range(programs)
<1>1. /\ Range(programs) = Programs /\ Range(helpers) = Helpers /\ Range(maps) = Maps
      /\ Range(types) = Types /\ file \in Seq(Decl)
  BY DEF ParseInv, Names
<1>2. PICK d \in Decl : d = file[k]
  BY <1>1
<1>3. CASE d.form = "type"
  <2>1. d.fields # NotStruct
    BY <1>2, <1>3 DEF SectionOf, IsFunc
  <2> QED
    BY <2>1, <1>1, <1>2, <1>3 DEF Types
<1>4. CASE d.form = "var"
  <2>1. d.kind # "plain"
    BY <1>2, <1>4 DEF SectionOf, IsFunc
  <2>2. ~MapError(d)
    BY <2>1, <1>2, <1>4 DEF WellFormed
  <2> QED
    BY <2>1, <2>2, <1>1, <1>2, <1>4 DEF Maps
<1>5. CASE d.form = "func"
  <2>1. d \in Func
    BY <1>2, <1>5, Forms
  <2>2. d.section \in {"none", "bare", "named"}
    BY <2>1 DEF Func, Section
  <2>3. d.section # "bare"
    BY <1>2, <1>5 DEF WellFormed
  <2>4. d.section = "named" \/ (~d.main /\ ~d.recv)
    BY <1>2, <1>5 DEF SectionOf, IsFunc
  <2> QED
    BY <2>2, <2>3, <2>4, <1>1, <1>2, <1>5 DEF Programs, Helpers
<1>6. d.form \in {"type", "var", "func"}
  BY <1>2 DEF SectionOf, IsFunc
<1> QED
  BY <1>3, <1>4, <1>5, <1>6

\* One declaration is to be above another: by section, then by place.
Below(i, j) == SectionOf(i) < SectionOf(j) \/ (SectionOf(i) = SectionOf(j) /\ i < j)
InOrder(s) == \A m, n \in 1..Len(s) : m < n => Below(s[m], s[n])

LEMMA InOrderConcat ==
  ASSUME NEW s \in Seq(Nat), NEW t \in Seq(Nat), InOrder(s), InOrder(t),
         \A i \in Range(s), j \in Range(t) : SectionOf(i) < SectionOf(j)
  PROVE  InOrder(s \o t)
<1>1. PICK r : r = s \o t
  OBVIOUS
<1>2. /\ r \in Seq(Nat) /\ Len(r) = Len(s) + Len(t) /\ Len(s) \in Nat /\ Len(t) \in Nat
      /\ \A n \in 1..Len(s) : r[n] = s[n]
      /\ \A n \in 1..Len(r) : n \in 1..Len(s) \/ n - Len(s) \in 1..Len(t)
      /\ \A n \in 1..Len(r) : n \notin 1..Len(s) => r[n] = t[n - Len(s)]
  BY <1>1
<1>3. ASSUME NEW m \in 1..Len(r), NEW n \in 1..Len(r), m < n PROVE Below(r[m], r[n])
  <2>1. CASE n \in 1..Len(s)
    <3>1. m \in 1..Len(s)
      BY <2>1, <1>2, <1>3
    <3>2. r[m] = s[m] /\ r[n] = s[n]
      BY <3>1, <2>1, <1>2
    <3> QED
      BY <3>1, <3>2, <2>1, <1>3 DEF InOrder
  <2>2. CASE m \notin 1..Len(s)
    <3>1. n \notin 1..Len(s)
      BY <2>2, <1>2, <1>3
    <3>2. PICK a \in 1..Len(t), b \in 1..Len(t) : a = m - Len(s) /\ b = n - Len(s)
      BY <3>1, <2>2, <1>2
    <3>3. a < b /\ r[m] = t[a] /\ r[n] = t[b]
      BY <3>1, <3>2, <2>2, <1>2, <1>3
    <3> QED
      BY <3>3 DEF InOrder
  <2>3. CASE m \in 1..Len(s) /\ n \notin 1..Len(s)
    <3>1. r[m] \in Range(s)
      <4>1. Range(s) = {s[x] : x \in 1..Len(s)}
        BY RangeOf
      <4>2. r[m] = s[m]
        BY <2>3, <1>2
      <4> QED
        BY <4>1, <4>2, <2>3
    <3>2. r[n] \in Range(t)
      BY <2>3, <1>2, RangeOf
    <3> QED
      BY <3>1, <3>2 DEF Below
  <2> QED
    BY <2>1, <2>2, <2>3
<1> QED
  BY <1>1, <1>3 DEF InOrder

LEMMA InOrderList ==
  ASSUME NEW s \in Seq(Nat), Increasing(s), NEW c, \A k \in Range(s) : SectionOf(k) = c
  PROVE  InOrder(s)
<1>1. \A n \in 1..Len(s) : SectionOf(s[n]) = c
  BY RangeOf
<1> QED
  BY <1>1 DEF InOrder, Increasing, Below

\* The four lists, one after the other: everything with a C form, once, in order.
LEMMA SectionsEffect ==
  ASSUME ParseInv, WellFormed
  PROVE  /\ Sections \in Seq(Nat) /\ IsInjective(Sections) /\ InOrder(Sections)
         /\ Range(Sections) = {k \in 1..Len(file) : SectionOf(k) # 0}
<1>1. /\ types \in Seq(Nat) /\ maps \in Seq(Nat) /\ helpers \in Seq(Nat) /\ programs \in Seq(Nat)
      /\ Increasing(types) /\ Increasing(maps) /\ Increasing(helpers) /\ Increasing(programs)
  BY DEF ParseInv, Names
<1>2. /\ IsInjective(types) /\ IsInjective(maps) /\ IsInjective(helpers) /\ IsInjective(programs)
  BY <1>1, IncreasingInjective
<1>3. /\ InOrder(types) /\ InOrder(maps) /\ InOrder(helpers) /\ InOrder(programs)
  BY <1>1, SectionsOf, InOrderList
<1>4. PICK s : s = types \o maps
  OBVIOUS
<1>5. /\ s \in Seq(Nat) /\ IsInjective(s) /\ Range(s) = Range(types) \cup Range(maps)
  <2>1. Range(types) \cap Range(maps) = {}
    BY SectionsOf
  <2> QED
    BY <2>1, <1>1, <1>2, <1>4, ConcatInjective
<1>6. InOrder(s)
  <2>1. \A i \in Range(types), j \in Range(maps) : SectionOf(i) < SectionOf(j)
    BY SectionsOf
  <2> QED
    BY <2>1, <1>1, <1>3, <1>4, InOrderConcat
<1>7. PICK t : t = s \o helpers
  OBVIOUS
<1>8. /\ t \in Seq(Nat) /\ IsInjective(t) /\ Range(t) = Range(s) \cup Range(helpers)
  <2>1. Range(s) \cap Range(helpers) = {}
    BY <1>5, SectionsOf
  <2> QED
    BY <2>1, <1>1, <1>2, <1>5, <1>7, ConcatInjective
<1>9. InOrder(t)
  <2>1. \A i \in Range(s), j \in Range(helpers) : SectionOf(i) < SectionOf(j)
    BY <1>5, SectionsOf
  <2> QED
    BY <2>1, <1>1, <1>3, <1>5, <1>6, <1>7, InOrderConcat
<1>10. /\ t \o programs \in Seq(Nat) /\ IsInjective(t \o programs)
       /\ Range(t \o programs) = Range(t) \cup Range(programs)
  <2>1. Range(t) \cap Range(programs) = {}
    BY <1>5, <1>8, SectionsOf
  <2> QED
    BY <2>1, <1>1, <1>2, <1>8, ConcatInjective
<1>11. InOrder(t \o programs)
  <2>1. \A i \in Range(t), j \in Range(programs) : SectionOf(i) < SectionOf(j)
    BY <1>5, <1>8, SectionsOf
  <2> QED
    BY <2>1, <1>1, <1>3, <1>8, <1>9, InOrderConcat
<1>12. Sections = t \o programs
  BY <1>1, <1>4, <1>7 DEF Sections
<1>13. Range(Sections) = Range(types) \cup Range(maps) \cup Range(helpers) \cup Range(programs)
  BY <1>5, <1>8, <1>10, <1>12
<1>14. ASSUME NEW k \in Range(Sections) PROVE k \in 1..Len(file) /\ SectionOf(k) # 0
  <2>1. k \in 1..Len(file)
    BY <1>13, ListsWithin DEF ParseInv, Names
  <2> QED
    BY <2>1, <1>13, SectionsOf
<1>15. ASSUME NEW k \in 1..Len(file), SectionOf(k) # 0 PROVE k \in Range(Sections)
  BY <1>13, <1>15, SectionListed
<1>16. Range(Sections) = {k \in 1..Len(file) : SectionOf(k) # 0}
  BY <1>14, <1>15
<1> QED
  BY <1>10, <1>11, <1>12, <1>16

-----------------------------------------------------------------------------
\* What a mention can be, and the C names it stands for.

LEMMA MentionCases ==
  ASSUME NEW k, NEW m \in Mention(k)
  PROVE  /\ m.kernelCtx => IsFunc(k)
         /\ \/ m.says = Nothing
            \/ \E j \in 1..Len(file) : j # k /\ m.says = InFile(j)
            \/ IsFunc(k) /\ m.says \in {Endian, Argv}
            \/ IsFunc(k) /\ \E c \in HelperDefs : m.says = Stub(c)
            \/ IsFunc(k) /\ \E name \in DOMAIN BpfConstants : m.says = Constant(name)
<1>1. m.says \in Sayings(k)
  BY DEF Mention
<1>2. m.kernelCtx \in IF IsFunc(k) THEN BOOLEAN ELSE {FALSE}
  BY DEF Mention
<1>3. m.kernelCtx => IsFunc(k)
  BY <1>2
<1>4. \/ m.says = Nothing
      \/ \E j \in 1..Len(file) : MayMention(k, j) /\ m.says = InFile(j)
      \/ IsFunc(k) /\ m.says \in {Endian, Argv}
      \/ IsFunc(k) /\ \E c \in HelperDefs : m.says = Stub(c)
      \/ IsFunc(k) /\ \E name \in DOMAIN BpfConstants : m.says = Constant(name)
  BY <1>1 DEF Sayings
<1> QED
  BY <1>3, <1>4 DEF MayMention

\* Only functions mention a byte-order call.
LEMMA OnlyFunctionsSwap ==
  ASSUME NEW k, NEW m \in Mention(k), ~IsFunc(k)
  PROVE  m.says # Endian /\ ~m.kernelCtx
<1>1. CASE \E name \in DOMAIN BpfConstants : m.says = Constant(name)
  BY <1>1, MentionCases DEF Constant, Endian
<1> QED
  BY <1>1, MentionCases DEF Nothing, InFile, Endian

\* Every stub goNameFor names is written back as the name of its helper.
NamesRoundTrip == \A c \in HelperDefs : GoNameToBpfHelper(GoNameFor(c)) = c

LEMMA CNameCases ==
  ASSUME NamesRoundTrip, NEW k, NEW m \in Mention(k), NEW c \in CNames(m)
  PROVE  \/ IsFunc(k) /\ m.kernelCtx /\ c = <<"kernel", <<>>>>
         \/ \E j \in 1..Len(file) : j # k /\ c = InFile(j)
         \/ IsFunc(k) /\ m.says = c /\ c \in {Endian, Argv}
         \/ c \in {<<"helper", h>> : h \in HelperDefs}
         \/ c \in {Uapi, PktCls}
<1>1. \/ m.kernelCtx /\ c = <<"kernel", <<>>>>
      \/ c = Text(m.says) /\ c # Nothing
  BY DEF CNames
<1>2. CASE m.says = Nothing
  <2>1. Text(m.says) = Nothing
    BY <1>2 DEF Text, Nothing
  <2> QED
    BY <2>1, <1>1, MentionCases
<1>3. CASE \E j \in 1..Len(file) : j # k /\ m.says = InFile(j)
  <2>1. PICK j \in 1..Len(file) : j # k /\ m.says = InFile(j)
    BY <1>3
  <2>2. Text(m.says) = InFile(j)
    BY <2>1 DEF Text, InFile
  <2> QED
    BY <2>1, <2>2, <1>1, MentionCases
<1>4. CASE IsFunc(k) /\ m.says \in {Endian, Argv}
  <2>1. Text(m.says) = m.says
    BY <1>4 DEF Text, Endian, Argv
  <2> QED
    BY <2>1, <1>1, <1>4, MentionCases
<1>5. CASE IsFunc(k) /\ \E h \in HelperDefs : m.says = Stub(h)
  <2>1. PICK h \in HelperDefs : m.says = Stub(h)
    BY <1>5
  <2>2. PICK s : s = m.says
    OBVIOUS
  <2>3. s[1] = "stub" /\ s[2] = h
    BY <2>1, <2>2 DEF Stub
  <2>4. Text(s) = <<"helper", GoNameToBpfHelper(GoNameFor(h))>>
    BY <2>3 DEF Text
  <2>5. Text(m.says) = <<"helper", h>>
    BY <2>2, <2>4 DEF NamesRoundTrip
  <2> QED
    BY <2>5, <1>1, MentionCases
<1>6. CASE \E name \in DOMAIN BpfConstants : m.says = Constant(name)
  <2>1. PICK name \in DOMAIN BpfConstants : m.says = Constant(name)
    BY <1>6
  <2>2. PICK s : s = m.says
    OBVIOUS
  <2>3. s[1] = "bpf" /\ s[2][1] = name
    BY <2>1, <2>2 DEF Constant
  <2>4. Text(s) = BpfConstants[name]
    BY <2>3 DEF Text
  <2>5. BpfConstants[name] \in {Uapi, PktCls, Nothing}
    BY DEF BpfConstants
  <2> QED
    BY <2>2, <2>4, <2>5, <1>1, MentionCases
<1> QED
  BY <1>2, <1>3, <1>4, <1>5, <1>6, MentionCases

\* Writing the next declaration moves it from what is left to what is written.
LEMMA Advance ==
  ASSUME NEW w \in Seq(Nat), NEW l \in Seq(Nat), l # <<>>
  PROVE  /\ Append(w, Head(l)) \o Tail(l) = w \o l
         /\ Append(w, Head(l)) \in Seq(Nat) /\ Tail(l) \in Seq(Nat) /\ Head(l) \in Nat
<1>1. PICK a, t : a = Append(w, Head(l)) /\ t = Tail(l)
  OBVIOUS
<1>2. /\ a \in Seq(Nat) /\ t \in Seq(Nat) /\ Len(a) = Len(w) + 1 /\ Len(t) = Len(l) - 1
      /\ Len(w) \in Nat /\ Len(l) \in Nat \ {0} /\ Head(l) = l[1] /\ l[1] \in Nat
      /\ \A n \in 1..Len(w) : a[n] = w[n]
      /\ a[Len(w) + 1] = l[1]
      /\ \A n \in 1..Len(t) : t[n] = l[n + 1]
  BY <1>1
<1>t. a \in Seq(Nat) /\ t \in Seq(Nat)
  BY <1>2
<1>3. PICK r, q : r = a \o t /\ q = w \o l
  OBVIOUS
<1>4. /\ r \in Seq(Nat) /\ q \in Seq(Nat) /\ Len(r) = Len(w) + Len(l) /\ Len(q) = Len(w) + Len(l)
  <2>1. r \in Seq(Nat) /\ Len(r) = Len(a) + Len(t)
    BY <1>t, <1>3
  <2>2. q \in Seq(Nat) /\ Len(q) = Len(w) + Len(l)
    BY <1>3
  <2> QED
    BY <2>1, <2>2, <1>2
<1>5. ASSUME NEW n \in 1..(Len(w) + Len(l)) PROVE r[n] = q[n]
  <2>1. CASE n <= Len(w)
    BY <2>1, <1>2, <1>3
  <2>2. CASE n = Len(w) + 1
    BY <2>2, <1>2, <1>3
  <2>3. CASE n > Len(w) + 1
    <3>1. r[n] = t[n - (Len(w) + 1)]
      <4>1. n \in 1..(Len(a) + Len(t)) /\ n > Len(a)
        BY <2>3, <1>2
      <4>2. r[n] = t[n - Len(a)]
        BY <4>1, <1>t, <1>3
      <4> QED
        BY <4>2, <1>2
    <3>2. q[n] = l[n - Len(w)]
      BY <2>3, <1>2, <1>3
    <3>3. n - (Len(w) + 1) \in 1..Len(t) /\ n - (Len(w) + 1) + 1 = n - Len(w)
      BY <2>3, <1>2
    <3> QED
      BY <3>1, <3>2, <3>3, <1>2
  <2> QED
    BY <2>1, <2>2, <2>3, <1>2
<1>6. r = q
  BY SMTT(30), <1>4, <1>5
<1> QED
  BY <1>1, <1>2, <1>3, <1>6

-----------------------------------------------------------------------------
\* Steps of Emit.

\* The accepted file and what was collected of it are fixed during Emit.
LEMMA FileFixed ==
  ASSUME UNCHANGED vars
  PROVE  /\ pc' = pc /\ file' = file /\ programs' = programs /\ helpers' = helpers
         /\ consts' = consts /\ Sections' = Sections /\ Emitted' = Emitted /\ Pairs' = Pairs
         /\ \A j : SectionOf(j)' = SectionOf(j) /\ IsFunc(j)' = IsFunc(j)
         /\ \A n : Publish(n)' = Publish(n)
<1>1. /\ pc' = pc /\ file' = file /\ programs' = programs /\ helpers' = helpers
      /\ consts' = consts /\ maps' = maps /\ types' = types
  BY DEF vars
<1>2. Sections' = Sections /\ Emitted' = Emitted
  BY <1>1 DEF Sections, Emitted
<1>3. Pairs' = Pairs
  BY <1>1 DEF Pairs, Mention, Sayings, MayMention, IsFunc
<1>4. \A j : SectionOf(j)' = SectionOf(j) /\ IsFunc(j)' = IsFunc(j)
  BY <1>1 DEF SectionOf, IsFunc
<1>5. \A n : Publish(n)' = Publish(n)
  BY <1>1 DEF Publish, ValueAt
<1> QED
  BY <1>1, <1>2, <1>3, <1>4, <1>5

\* What is said of the mentions once includes and preludes only grow.
LEMMA ProvidedStays ==
  ASSUME NEW k, NEW m, Provided(k, m), programs' = programs,
         includes \ {"linux/bpf.h"} \subseteq includes', preludes \subseteq preludes'
  PROVE  Provided(k, m)'
  BY DEF Provided

LEMMA ArtInvStutter ==
  ASSUME ArtInv, UNCHANGED allVars
  PROVE  ArtInv'
<1>1. /\ UNCHANGED vars /\ stage' = stage /\ left' = left /\ includes' = includes
      /\ preludes' = preludes /\ mentions' = mentions /\ written' = written
      /\ undeclared' = undeclared /\ published' = published
  BY DEF allVars, artVars
<1>2. FInv'
  BY <1>1, FInvStutter DEF ArtInv
<1>3. StageInv'
  BY <1>1, FileFixed DEF ArtInv, StageInv
<1>4. HeaderInv'
  BY <1>1, FileFixed DEF ArtInv, HeaderInv, Provided
<1>5. UsesInv'
  BY <1>1 DEF ArtInv, UsesInv
<1>6. PublishInv'
  BY <1>1, FileFixed DEF ArtInv, PublishInv
<1> QED
  BY <1>2, <1>3, <1>4, <1>5, <1>6 DEF ArtInv

\* ParseFile and Validate run before Emit has begun.
LEMMA ArtInvFront ==
  ASSUME ArtInv, Next, UNCHANGED artVars
  PROVE  ArtInv'
<1>1. /\ stage' = stage /\ left' = left /\ includes' = includes
      /\ preludes' = preludes /\ mentions' = mentions /\ written' = written
      /\ undeclared' = undeclared /\ published' = published
  BY DEF artVars
<1>2. FInv'
  BY FInvNext DEF ArtInv
<1>3. stage = "idle"
  BY AcceptedEnds DEF ArtInv, StageInv
<1>4. /\ left = <<>> /\ includes = {} /\ preludes = {} /\ mentions = <<>>
      /\ written = <<>> /\ undeclared = {} /\ published = <<>>
  BY <1>3 DEF ArtInv, StageInv
<1>5. StageInv'
  BY <1>1, <1>3, <1>4 DEF StageInv
<1>6. HeaderInv'
  <2>1. mentions' \in Seq(Pairs') /\ Range(mentions') = {}
    BY <1>1, <1>4 DEF Range
  <2> QED
    BY <2>1, <1>1, <1>3, <1>4 DEF HeaderInv
<1>7. UsesInv' /\ PublishInv'
  BY <1>1, <1>4 DEF UsesInv, PublishInv
<1> QED
  BY <1>2, <1>5, <1>6, <1>7 DEF ArtInv

LEMMA StartEmitInv ==
  ASSUME ArtInv, StartEmit, UNCHANGED vars
  PROVE  ArtInv'
<1>1. /\ stage = "idle" /\ stage' = "scan" /\ pc = "accepted" /\ left' = programs \o helpers
      /\ includes' = {"linux/bpf.h", "bpf_helpers.h"} /\ preludes' = preludes
      /\ mentions' = mentions /\ written' = written
      /\ undeclared' = undeclared /\ published' = published
  BY DEF StartEmit
<1>2. FInv'
  BY FInvStutter DEF ArtInv
<1>3. /\ preludes = {} /\ mentions = <<>>
      /\ written = <<>> /\ undeclared = {} /\ published = <<>>
  BY <1>1 DEF ArtInv, StageInv
<1>4. /\ programs \in Seq(Nat) /\ helpers \in Seq(Nat)
      /\ IsInjective(programs) /\ IsInjective(helpers)
  BY IncreasingInjective DEF ArtInv, FInv, ParseInv, Names
<1>5. left' \in Seq(Nat) /\ Range(left') = Emitted
  <2>1. Range(programs) \cap Range(helpers) = {}
    BY EmittedType DEF ArtInv, FInv
  <2> QED
    BY <2>1, <1>1, <1>4, ConcatInjective DEF Emitted
<1>6. StageInv'
  BY <1>1, <1>3, <1>5, FileFixed DEF StageInv
<1>7. HeaderInv'
  <2>1. mentions' \in Seq(Pairs') /\ Range(mentions') = {}
    BY <1>1, <1>3 DEF Range
  <2> QED
    BY <2>1, <1>1, <1>3 DEF HeaderInv, Headers
<1>8. UsesInv' /\ PublishInv'
  BY <1>1, <1>3 DEF UsesInv, PublishInv
<1> QED
  BY <1>2, <1>6, <1>7, <1>8 DEF ArtInv

LEMMA ScanInv ==
  ASSUME ArtInv, UNCHANGED vars, NEW k \in Range(left), NEW m \in Mention(k), Scan(k, m)
  PROVE  ArtInv'
<1>1. /\ stage = "scan" /\ stage' = "scan" /\ left # <<>> /\ left' = Tail(left)
      /\ mentions' = Append(mentions, <<k, m>>) /\ written' = written
      /\ undeclared' = undeclared /\ published' = published
      /\ includes' = With(k \in Range(programs) /\ m.kernelCtx, m.says = Endian)
      /\ preludes' = IF k \in Range(programs) /\ m.says = Argv THEN {Argv} ELSE preludes
  BY DEF Scan, Looks
<1>2. FInv'
  BY FInvStutter DEF ArtInv
<1>3. /\ left \in Seq(Nat) /\ Range(left) \subseteq Emitted /\ pc = "accepted"
      /\ written = <<>> /\ undeclared = {} /\ published = <<>>
  BY <1>1 DEF ArtInv, StageInv
<1>4. left' \in Seq(Nat) /\ Range(left') \subseteq Range(left)
  <2>1. left' \in Seq(Nat) /\ Len(left') = Len(left) - 1
        /\ \A n \in 1..Len(left') : left'[n] = left[n + 1]
    BY <1>1, <1>3
  <2>2. Range(left') = {left'[n] : n \in 1..Len(left')} /\ Len(left') \in Nat
    BY <2>1, RangeOf
  <2>3. Range(left) = {left[n] : n \in 1..Len(left)} /\ Len(left) \in Nat
    BY <1>3, RangeOf
  <2>4. \A n \in 1..Len(left') : n + 1 \in 1..Len(left)
    BY <2>1, <2>2, <2>3
  <2> QED
    BY <2>1, <2>2, <2>3, <2>4
<1>5. StageInv'
  BY <1>1, <1>3, <1>4, FileFixed DEF StageInv
<1>6. HeaderInv'
  <2>1. k \in 1..Len(file)
    BY <1>3, EmittedType DEF ArtInv, FInv
  <2>2. PICK p : p = <<k, m>>
    OBVIOUS
  <2>3. p \in Pairs
    BY <2>1, <2>2 DEF Pairs
  <2>4. mentions \in Seq(Pairs) /\ \A e \in Range(mentions) : Provided(e[1], e[2])
    BY DEF ArtInv, HeaderInv
  <2>5. mentions' \in Seq(Pairs) /\ Range(mentions') = Range(mentions) \cup {p}
    BY <1>1, <2>2, <2>3, <2>4, RangeAppend
  <2>6. /\ includes' \subseteq Headers /\ includes \ {"linux/bpf.h"} \subseteq includes'
        /\ "bpf_helpers.h" \in includes' /\ ("linux/bpf.h" \in includes' \/ "vmlinux.h" \in includes')
    BY <1>1 DEF ArtInv, HeaderInv, Headers, With
  <2>7. preludes' \subseteq {Argv} /\ preludes \subseteq preludes'
    BY <1>1 DEF ArtInv, HeaderInv
  <2>8. programs' = programs
    BY FileFixed
  <2>9. Provided(k, m)'
    BY <1>1, <2>8 DEF Provided, With
  <2>10. Provided(p[1], p[2])'
    BY <2>2, <2>9
  <2>11. ASSUME NEW e \in Range(mentions) PROVE Provided(e[1], e[2])'
    BY <2>4, <2>6, <2>7, <2>8, ProvidedStays
  <2>12. \A e \in Range(mentions') : Provided(e[1], e[2])'
    BY <2>5, <2>10, <2>11
  <2> QED
    BY <2>5, <2>6, <2>7, <2>12, FileFixed DEF HeaderInv
<1>7. UsesInv' /\ PublishInv'
  BY <1>1, <1>3 DEF UsesInv, PublishInv
<1> QED
  BY <1>2, <1>5, <1>6, <1>7 DEF ArtInv

LEMMA HeaderWrittenInv ==
  ASSUME ArtInv, UNCHANGED vars, HeaderWritten
  PROVE  ArtInv'
<1>1. /\ stage = "scan" /\ stage' = "write" /\ left' = Sections
      /\ mentions' = mentions /\ written' = written /\ includes' = includes
      /\ undeclared' = undeclared /\ published' = published /\ preludes' = preludes
  BY DEF HeaderWritten
<1>2. FInv'
  BY FInvStutter DEF ArtInv
<1>3. pc = "accepted" /\ written = <<>> /\ undeclared = {} /\ published = <<>>
  BY <1>1 DEF ArtInv, StageInv
<1>4. Sections \in Seq(Nat)
  BY <1>3, SectionsEffect DEF ArtInv, FInv, ParseInv
<1>5. StageInv'
  <2>1. <<>> \o Sections = Sections
    BY <1>4
  <2> QED
    BY <2>1, <1>1, <1>3, <1>4, FileFixed DEF StageInv
<1>6. HeaderInv'
  BY <1>1, FileFixed DEF ArtInv, HeaderInv, Provided
<1>7. UsesInv' /\ PublishInv'
  BY <1>1, <1>3 DEF UsesInv, PublishInv
<1> QED
  BY <1>2, <1>5, <1>6, <1>7 DEF ArtInv

\* The declaration that is written is one of the file, with a section.
LEMMA WritesListed ==
  ASSUME ArtInv, stage = "write", left # <<>>
  PROVE  /\ Head(left) \in 1..Len(file) /\ SectionOf(Head(left)) # 0
         /\ pc = "accepted" /\ ParseInv /\ WellFormed
<1>1. /\ pc = "accepted" /\ left \in Seq(Nat) /\ written \in Seq(Nat) /\ written \o left = Sections
  BY DEF ArtInv, StageInv
<1>2. ParseInv /\ WellFormed
  BY <1>1 DEF ArtInv, FInv, ParseInv
<1>3. Sections \in Seq(Nat) /\ Range(Sections) = {k \in 1..Len(file) : SectionOf(k) # 0}
  BY <1>2, SectionsEffect
<1>4. /\ Len(written) \in Nat /\ Len(left) \in Nat \ {0} /\ Len(Sections) = Len(written) + Len(left)
      /\ Sections[Len(written) + 1] = left[1] /\ Head(left) = left[1]
  BY <1>1
<1>5. Sections[Len(written) + 1] \in Range(Sections)
  <2>1. Range(Sections) = {Sections[n] : n \in 1..Len(Sections)}
    BY <1>3, RangeOf
  <2> QED
    BY <2>1, <1>4
<1> QED
  BY <1>1, <1>2, <1>3, <1>4, <1>5

LEMMA WriteDeclInv ==
  ASSUME ArtInv, UNCHANGED vars, NEW k \in Range(left), NEW m \in Mention(k), WriteDecl(k, m)
  PROVE  ArtInv'
<1>1. /\ stage = "write" /\ stage' = "write" /\ left # <<>> /\ left' = Tail(left) /\ k = Head(left)
      /\ mentions' = IF IsFunc(k) THEN mentions ELSE Append(mentions, <<k, m>>)
      /\ IsFunc(k) => <<k, m>> \in Range(mentions)
      /\ written' = Append(written, k) /\ includes' = includes /\ preludes' = preludes
      /\ undeclared' = undeclared \cup {<<k, c>> : c \in CNames(m) \ Declared}
      /\ published' = published
  BY DEF WriteDecl
<1>2. FInv'
  BY FInvStutter DEF ArtInv
<1>3. /\ left \in Seq(Nat) /\ written \in Seq(Nat) /\ written \o left = Sections
      /\ pc = "accepted" /\ published = <<>>
  BY <1>1 DEF ArtInv, StageInv
<1>4. k \in 1..Len(file)
  BY <1>1, WritesListed
<1>5. written' \in Seq(Nat) /\ left' \in Seq(Nat) /\ written' \o left' = Sections
  BY <1>1, <1>3, Advance
<1>6. StageInv'
  BY <1>1, <1>3, <1>5, FileFixed DEF StageInv
<1>7. PICK p : p = <<k, m>>
  OBVIOUS
<1>8. p \in Pairs
  BY <1>4, <1>7 DEF Pairs
<1>9. mentions \in Seq(Pairs) /\ \A e \in Range(mentions) : Provided(e[1], e[2])
  BY DEF ArtInv, HeaderInv
<1>10. mentions' \in Seq(Pairs) /\ Range(mentions') = Range(mentions) \cup {p}
  <2>1. CASE IsFunc(k)
    <3>1. mentions' = mentions
      BY <2>1, <1>1
    <3>2. p \in Range(mentions)
      BY <2>1, <1>1, <1>7
    <3> QED
      BY <3>1, <3>2, <1>9
  <2>2. CASE ~IsFunc(k)
    <3>1. mentions' = Append(mentions, p)
      BY <2>2, <1>1, <1>7
    <3>2. mentions \in Seq(Pairs)
      BY <1>9
    <3> QED
      BY <3>1, <3>2, <1>8, RangeAppend
  <2> QED
    BY <2>1, <2>2
<1>11. programs' = programs /\ Pairs' = Pairs
  BY FileFixed
<1>12. Provided(k, m)
  <2>1. CASE IsFunc(k)
    <3>1. p \in Range(mentions) /\ p[1] = k /\ p[2] = m
      BY <2>1, <1>1, <1>7
    <3> QED
      BY <3>1, <1>9
  <2>2. CASE ~IsFunc(k)
    <3>1. k \notin Range(programs)
      BY <2>2 DEF ArtInv, FInv, ParseInv, Names, Programs, IsFunc
    <3> QED
      BY <3>1, <2>2, OnlyFunctionsSwap DEF Provided
  <2> QED
    BY <2>1, <2>2
<1>13. HeaderInv'
  <2>1. ASSUME NEW e \in Range(mentions') PROVE Provided(e[1], e[2])'
    <3>1. CASE e = p
      <4>1. Provided(k, m)'
        BY <1>12, <1>1, <1>11 DEF Provided
      <4> QED
        BY <4>1, <3>1, <1>7
    <3>2. CASE e \in Range(mentions)
      BY <3>2, <1>1, <1>9, <1>11 DEF Provided
    <3> QED
      BY <3>1, <3>2, <1>10
  <2> QED
    BY <2>1, <1>1, <1>10, <1>11 DEF ArtInv, HeaderInv
<1>14. UsesInv'
  <2>1. Range(written') = Range(written) \cup {k}
    BY <1>1, <1>3, <1>4, RangeAppend
  <2>2. PICK C : C = UNION {CNames(e[2]) : e \in Range(mentions)}
    OBVIOUS
  <2>3. PICK D : D = UNION {CNames(e[2]) : e \in Range(mentions')}
    OBVIOUS
  <2>4. C \subseteq D
    BY <2>2, <2>3, <1>10
  <2>5. CNames(m) \subseteq D
    <3>1. p \in Range(mentions') /\ p[2] = m
      BY <1>7, <1>10
    <3> QED
      BY <3>1, <2>3
  <2>6. undeclared \subseteq {<<j, c>> : j \in Range(written), c \in C}
    BY <2>2 DEF ArtInv, UsesInv
  <2>7. undeclared' \subseteq {<<j, c>> : j \in Range(written'), c \in D}
    BY <2>1, <2>4, <2>5, <2>6, <1>1
  <2> QED
    BY <2>3, <2>7 DEF UsesInv
<1>15. PublishInv'
  BY <1>1, <1>3 DEF PublishInv
<1> QED
  BY <1>2, <1>6, <1>13, <1>14, <1>15 DEF ArtInv

LEMMA EmitFailsInv ==
  ASSUME ArtInv, UNCHANGED vars, EmitFails
  PROVE  ArtInv'
<1>1. /\ stage = "write" /\ stage' = "failed" /\ left' = <<>> /\ written' = <<>> /\ undeclared' = {}
      /\ mentions' = mentions /\ includes' = includes
      /\ published' = published /\ preludes' = preludes
  BY DEF EmitFails
<1>2. FInv'
  BY FInvStutter DEF ArtInv
<1>3. pc = "accepted" /\ published = <<>>
  BY <1>1 DEF ArtInv, StageInv
<1>4. StageInv'
  BY <1>1, <1>3, FileFixed DEF StageInv
<1>5. HeaderInv'
  BY <1>1, FileFixed DEF ArtInv, HeaderInv, Provided
<1>6. UsesInv' /\ PublishInv'
  BY <1>1, <1>3 DEF UsesInv, PublishInv
<1> QED
  BY <1>2, <1>4, <1>5, <1>6 DEF ArtInv

LEMMA WriteBindingsInv ==
  ASSUME ArtInv, UNCHANGED vars, WriteBindings
  PROVE  ArtInv'
<1>1. /\ stage = "write" /\ stage' = "done" /\ left' = left /\ written' = written
      /\ undeclared' = undeclared /\ mentions' = mentions /\ includes' = includes
      /\ preludes' = preludes /\ published' = [n \in 1..Len(consts) |-> Publish(n)]
  BY DEF WriteBindings
<1>2. FInv'
  BY FInvStutter DEF ArtInv
<1>3. StageInv'
  BY <1>1, FileFixed DEF ArtInv, StageInv
<1>4. HeaderInv'
  BY <1>1, FileFixed DEF ArtInv, HeaderInv, Provided
<1>5. UsesInv'
  BY <1>1 DEF ArtInv, UsesInv
<1>6. PublishInv'
  <2>1. Len(consts) \in Nat
    BY DEF ArtInv, FInv, ParseInv, Names
  <2>2. Len(published') = Len(consts) /\ \A n \in 1..Len(consts) : published'[n] = Publish(n)
    BY <2>1, <1>1
  <2> QED
    BY <2>2, FileFixed DEF PublishInv
<1> QED
  BY <1>2, <1>3, <1>4, <1>5, <1>6 DEF ArtInv

LEMMA ArtInvNext == ArtInv /\ ArtNext => ArtInv'
  BY ArtInvFront, StartEmitInv, ScanInv, HeaderWrittenInv, WriteDeclInv, EmitFailsInv,
     WriteBindingsInv DEF ArtNext, Emission

LEMMA ArtInvInit == ArtInit => ArtInv
<1> SUFFICES ASSUME ArtInit PROVE ArtInv
  OBVIOUS
<1>1. FInv
  BY FInvInit DEF ArtInit
<1>2. /\ stage = "idle" /\ left = <<>> /\ includes = {} /\ preludes = {} /\ mentions = <<>>
      /\ written = <<>> /\ undeclared = {} /\ published = <<>>
  BY DEF ArtInit
<1>3. StageInv
  BY <1>2 DEF StageInv
<1>4. HeaderInv
  <2>1. mentions \in Seq(Pairs) /\ Range(mentions) = {}
    BY <1>2 DEF Range
  <2> QED
    BY <2>1, <1>2 DEF HeaderInv
<1>5. UsesInv /\ PublishInv
  BY <1>2 DEF UsesInv, PublishInv
<1> QED
  BY <1>1, <1>3, <1>4, <1>5 DEF ArtInv

-----------------------------------------------------------------------------
\* The inductive invariant of Emit and WriteBindings on the parsed file.
THEOREM ArtifactsInvariant == ArtSpec => []ArtInv
<1>1. ArtInv /\ [ArtNext]_allVars => ArtInv'
  BY ArtInvNext, ArtInvStutter
<1> QED
  BY ArtInvInit, <1>1, PTL DEF ArtSpec

\* Emit writes every declaration with a C form once, for files of any length, and
\* the bindings file holds the collected constants.
THEOREM ArtifactsTyped == ArtSpec => []ArtTypeOK
<1>1. ASSUME ArtInv PROVE ArtTypeOK
  <2>1. /\ stage \in {"idle", "scan", "write", "done", "failed"} /\ preludes \subseteq {Argv}
        /\ includes \subseteq {"linux/bpf.h", "vmlinux.h", "bpf_helpers.h", "bpf_core_read.h", "bpf_endian.h"}
    BY <1>1 DEF ArtInv, StageInv, HeaderInv, Headers
  <2>2. ASSUME NEW e \in Range(mentions) PROVE e[2] \in Mention(e[1])
    <3>1. e \in Pairs
      BY <1>1, RangeOf DEF ArtInv, HeaderInv
    <3>2. PICK k \in 1..Len(file) : e \in {<<k, m>> : m \in Mention(k)}
      BY <3>1 DEF Pairs
    <3>3. PICK m \in Mention(k) : e = <<k, m>>
      BY <3>2
    <3> QED
      BY <3>3
  <2>3. ASSUME stage \in {"write", "done"}
        PROVE  /\ IsInjective(written \o left)
               /\ Range(written \o left) = {k \in 1..Len(file) : SectionOf(k) # 0}
    <3>1. written \o left = Sections /\ pc = "accepted"
      BY <1>1, <2>3 DEF ArtInv, StageInv
    <3> QED
      BY <1>1, <3>1, SectionsEffect DEF ArtInv, FInv, ParseInv
  <2>4. undeclared \subseteq {<<k, c>> : k \in Range(written), c \in UNION {CNames(m[2]) : m \in Range(mentions)}}
    BY <1>1 DEF ArtInv, UsesInv
  <2>5. Range(published) \subseteq {[of |-> k, value |-> ValueAt(k, n)] : k \in Range(consts), n \in 0..Len(consts)}
    <3>1. CASE published = <<>>
      BY <3>1 DEF Range
    <3>2. CASE published # <<>>
      <4>1. consts \in Seq(Nat) /\ Range(consts) = {consts[n] : n \in 1..Len(consts)}
        BY <1>1, RangeOf DEF ArtInv, FInv, ParseInv, Names
      <4>2. \A n \in 1..Len(consts) : published[n] = Publish(n)
        BY <1>1, <3>2 DEF ArtInv, PublishInv
      <4>3. Range(published) = {published[n] : n \in 1..Len(consts)}
        BY <1>1, <3>2 DEF ArtInv, PublishInv, Range
      <4>4. ASSUME NEW n \in 1..Len(consts)
            PROVE  Publish(n) \in {[of |-> k, value |-> ValueAt(k, i)] : k \in Range(consts), i \in 0..Len(consts)}
        <5>1. consts[n] \in Range(consts) /\ n - 1 \in 0..Len(consts)
          BY <4>1
        <5> QED
          BY <5>1 DEF Publish
      <4> QED
        BY <4>2, <4>3, <4>4
    <3> QED
      BY <3>1, <3>2
  <2> QED
    BY <2>1, <2>2, <2>3, <2>4, <2>5 DEF ArtTypeOK
<1> QED
  BY ArtifactsInvariant, <1>1, PTL

\* Which constants of the bindings are not "the same values the kernel uses"
\* (bindings.go:267), for const blocks of any length: exactly the iotas whose places
\* in the two blocks differ.
THEOREM ConstantsPublished == ArtSpec => []ConstantsMirrored
<1>1. ASSUME ArtInv PROVE ConstantsMirrored
  <2> SUFFICES ASSUME NEW n \in 1..Len(published), NEW k, k = published[n].of
               PROVE  published[n].value # KernelValue(k)
                        <=> (file[k].value = "iota" /\ BlockIndex(k) # n - 1)
    BY DEF ConstantsMirrored
  <2>1. published # <<>>
    OBVIOUS
  <2>2. n \in 1..Len(consts) /\ published[n] = Publish(n)
    BY <1>1, <2>1 DEF ArtInv, PublishInv
  <2>3. k = consts[n] /\ published[n].value = ValueAt(k, n - 1)
    BY <2>2 DEF Publish
  <2>4. k \in Consts
    <3>1. consts \in Seq(Nat) /\ Range(consts) = Consts
      BY <1>1 DEF ArtInv, FInv, ParseInv, Names
    <3>2. Range(consts) = {consts[i] : i \in 1..Len(consts)}
      BY <3>1, RangeOf
    <3> QED
      BY <3>1, <3>2, <2>2, <2>3
  <2>5. k \in 1..Len(file) /\ file[k].form = "const" /\ file[k].value # "none" /\ Len(file) \in Nat
    BY <1>1, <2>4 DEF Consts, ArtInv, FInv, ParseInv
  <2>6. PICK S : S = {m \in Upto(k) : file[m].value # "none"}
    OBVIOUS
  <2>7. k \in S /\ \A m \in S : m \in Nat /\ k >= m
    BY <2>5, <2>6 DEF Upto
  <2>8. Max(S) \in S /\ \A m \in S : Max(S) >= m
    BY <2>7 DEF Max
  <2>9. Max(S) = k
    BY <2>7, <2>8
  <2>10. KernelValue(k) = ValueAt(k, BlockIndex(k))
    BY <2>6, <2>9 DEF KernelValue, Expression
  <2> QED
    BY <2>3, <2>10 DEF ValueAt
<1> QED
  BY ArtifactsInvariant, <1>1, PTL

-----------------------------------------------------------------------------
\* A declaration that is not yet written when k is comes below k.
LEMMA NotYetWritten ==
  ASSUME ArtInv, stage = "write", left # <<>>,
         NEW j \in 1..Len(file), j # Head(left), j \notin Range(written)
  PROVE  SectionOf(j) = 0 \/ Below(Head(left), j)
<1> SUFFICES ASSUME SectionOf(j) # 0 PROVE Below(Head(left), j)
  OBVIOUS
<1>1. ParseInv /\ WellFormed
  BY WritesListed
<1>2. /\ left \in Seq(Nat) /\ written \in Seq(Nat) /\ written \o left = Sections
  BY DEF ArtInv, StageInv
<1>3. PICK s \in Seq(Nat) : s = Sections
  BY <1>1, SectionsEffect
<1>4. InOrder(s) /\ Range(s) = {k \in 1..Len(file) : SectionOf(k) # 0}
  BY <1>1, <1>3, SectionsEffect
<1>5. Range(s) = {s[n] : n \in 1..Len(s)} /\ Range(written) = {written[n] : n \in 1..Len(written)}
  <2>1. Range(s) = {s[n] : n \in 1..Len(s)}
    BY RangeOf
  <2>2. written \in Seq(Nat)
    BY <1>2
  <2>3. Range(written) = {written[n] : n \in 1..Len(written)}
    BY <2>2, RangeOf
  <2> QED
    BY <2>1, <2>3
<1>6. PICK n \in 1..Len(s) : j = s[n]
  <2>1. j \in Range(s)
    BY <1>4
  <2> QED
    BY <2>1, <1>5
<1>7. /\ Len(written) \in Nat /\ Len(left) \in Nat \ {0} /\ Len(s) = Len(written) + Len(left)
      /\ s[Len(written) + 1] = left[1] /\ Head(left) = left[1]
      /\ \A i \in 1..Len(written) : s[i] = written[i]
  BY SMTT(30), <1>2, <1>3
<1>8. n \notin 1..Len(written)
  BY <1>5, <1>6, <1>7
<1>9. n # Len(written) + 1
  BY <1>6, <1>7
<1>10. Len(written) + 1 \in 1..Len(s) /\ Len(written) + 1 < n
  BY <1>7, <1>8, <1>9
<1>11. Below(s[Len(written) + 1], s[n])
  BY <1>4, <1>10 DEF InOrder
<1> QED
  BY <1>6, <1>7, <1>11

\* What the text of the new declaration leaves undeclared has an explanation.
LEMMA NewExplained ==
  ASSUME NamesRoundTrip, ArtInv, NEW k \in Range(left), NEW m \in Mention(k), WriteDecl(k, m),
         NEW c \in CNames(m) \ Declared
  PROVE  \/ /\ c[1] = "file"
            /\ SectionOf(c[2][1]) = 0 \/ Below(k, c[2][1])
         \/ c = Argv /\ ~InProgram(Argv)
         \/ c[1] = "kernel" /\ "vmlinux.h" \notin includes /\ k \in Range(helpers)
         \/ c = PktCls
<1>1. /\ stage = "write" /\ left # <<>> /\ k = Head(left)
      /\ IsFunc(k) => <<k, m>> \in Range(mentions)
  BY DEF WriteDecl
<1>2. /\ k \in 1..Len(file) /\ SectionOf(k) # 0 /\ ParseInv /\ WellFormed
  BY <1>1, WritesListed
<1>3. /\ "bpf_helpers.h" \in includes /\ preludes \subseteq {Argv}
      /\ "linux/bpf.h" \in includes \/ "vmlinux.h" \in includes
  BY <1>1 DEF ArtInv, HeaderInv
<1>4. /\ \A h \in includes : c \notin HeaderNames(h)
      /\ c \notin preludes
      /\ \A j \in Range(written) : c # InFile(j)
  BY DEF Declared
<1>5. IsFunc(k) => Provided(k, m)
  <2>1. PICK p : p = <<k, m>>
    OBVIOUS
  <2>2. p[1] = k /\ p[2] = m
    BY <2>1
  <2>3. p \in Range(mentions) => Provided(p[1], p[2])
    BY DEF ArtInv, HeaderInv
  <2> QED
    BY <2>1, <2>2, <2>3, <1>1
<1>6. CASE IsFunc(k) /\ m.kernelCtx /\ c = <<"kernel", <<>>>>
  <2>1. c \in HeaderNames("vmlinux.h")
    BY <1>6 DEF HeaderNames
  <2>2. "vmlinux.h" \notin includes
    BY <2>1, <1>4
  <2>3. k \notin Range(programs)
    BY <2>2, <1>5, <1>6 DEF Provided
  <2>4. k \in Range(types) \cup Range(maps) \cup Range(helpers) \cup Range(programs)
    BY <1>2, SectionListed
  <2>5. k \notin Range(types) /\ k \notin Range(maps)
    BY <1>2, <1>6 DEF ParseInv, Names, Types, Maps, IsFunc
  <2> QED
    BY <2>2, <2>3, <2>4, <2>5, <1>6
<1>7. ASSUME NEW j \in 1..Len(file), j # k, c = InFile(j)
      PROVE  c[1] = "file" /\ (SectionOf(c[2][1]) = 0 \/ Below(k, c[2][1]))
  <2>1. c[1] = "file" /\ c[2][1] = j
    BY <1>7 DEF InFile
  <2>2. j \notin Range(written)
    BY <1>4, <1>7
  <2>3. SectionOf(j) = 0 \/ Below(k, j)
    BY <2>2, <1>1, <1>7, NotYetWritten
  <2> QED
    BY <2>1, <2>3
<1>8. CASE IsFunc(k) /\ m.says = c /\ c = Endian
  <2>1. "bpf_endian.h" \in includes
    BY <1>5, <1>8 DEF Provided
  <2>2. c \in HeaderNames("bpf_endian.h")
    BY <1>8 DEF HeaderNames
  <2> QED
    BY <2>1, <2>2, <1>4
<1>9. CASE c = Argv
  <2>1. ASSUME InProgram(Argv) PROVE FALSE
    <3>1. PICK p \in Range(mentions) : p[1] \in Range(programs) /\ p[2].says = Argv
      BY <2>1 DEF InProgram
    <3>2. Provided(p[1], p[2])
      BY DEF ArtInv, HeaderInv
    <3>3. Argv \in preludes
      BY <3>1, <3>2 DEF Provided
    <3> QED
      BY <3>3, <1>4, <1>9
  <2> QED
    BY <2>1, <1>9
<1>10. CASE c \in {<<"helper", h>> : h \in HelperDefs}
  <2>1. HeaderNames("bpf_helpers.h") = {<<"helper", h>> : h \in HelperDefs}
    BY DEF HeaderNames
  <2> QED
    BY <2>1, <1>3, <1>4, <1>10
<1>11. CASE c = Uapi
  <2>1. c \in HeaderNames("linux/bpf.h") /\ c \in HeaderNames("vmlinux.h")
    BY <1>11 DEF HeaderNames
  <2> QED
    BY <2>1, <1>3, <1>4
<1> QED
  BY <1>6, <1>7, <1>8, <1>9, <1>10, <1>11, CNameCases

\* The explanation of what was left undeclared before.
Explained(u) ==
  \/ /\ u[2][1] = "file"
     /\ SectionOf(u[2][2][1]) = 0 \/ Below(u[1], u[2][2][1])
  \/ u[2] = Argv /\ ~InProgram(Argv)
  \/ u[2][1] = "kernel" /\ "vmlinux.h" \notin includes /\ u[1] \in Range(helpers)
  \/ u[2] = PktCls

LEMMA ExplainedStays ==
  ASSUME ArtInv, UNCHANGED vars, includes' = includes, NEW u, Explained(u),
         InProgram(Argv)' => InProgram(Argv)
  PROVE  Explained(u)'
<1>1. \A j : SectionOf(j)' = SectionOf(j)
  BY FileFixed
<1>2. helpers' = helpers
  BY FileFixed
<1> QED
  BY <1>1, <1>2 DEF Explained, Below

LEMMA ExplainedStep ==
  ASSUME NamesRoundTrip, ArtInv, ArtInv', [ArtNext]_allVars,
         \A u \in undeclared : Explained(u)
  PROVE  (\A u \in undeclared : Explained(u))'
<1>1. CASE stage' \in {"idle", "scan", "failed"}
  <2>1. undeclared' = {}
    BY <1>1 DEF ArtInv, StageInv
  <2> QED
    BY <2>1
<1>2. ASSUME NEW k \in Range(left), NEW m \in Mention(k), WriteDecl(k, m), UNCHANGED vars
      PROVE  (\A u \in undeclared : Explained(u))'
  <2>1. /\ stage = "write" /\ left # <<>> /\ k = Head(left) /\ includes' = includes
        /\ mentions' = IF IsFunc(k) THEN mentions ELSE Append(mentions, <<k, m>>)
        /\ undeclared' = undeclared \cup {<<k, c>> : c \in CNames(m) \ Declared}
    BY <1>2 DEF WriteDecl
  <2>2. InProgram(Argv)' => InProgram(Argv)
    <3>1. CASE IsFunc(k)
      BY <3>1, <2>1, <1>2, FileFixed DEF InProgram
    <3>2. CASE ~IsFunc(k)
      <4>1. k \notin Range(programs)
        BY <3>2 DEF ArtInv, FInv, ParseInv, Names, Programs, IsFunc
      <4>2. PICK p : p = <<k, m>>
        OBVIOUS
      <4>3. k \in 1..Len(file)
        BY <2>1, WritesListed
      <4>4. p \in Pairs
        BY <4>2, <4>3 DEF Pairs
      <4>5. mentions \in Seq(Pairs) /\ mentions' = Append(mentions, p)
        BY <3>2, <4>2, <2>1 DEF ArtInv, HeaderInv
      <4>6. Range(mentions') = Range(mentions) \cup {p}
        BY <4>4, <4>5, RangeAppend
      <4>7. p[1] \notin Range(programs)
        BY <4>1, <4>2
      <4>8. programs' = programs
        BY <1>2, FileFixed
      <4> QED
        BY <4>6, <4>7, <4>8 DEF InProgram
    <3> QED
      BY <3>1, <3>2
  <2>3. ASSUME NEW u \in undeclared PROVE Explained(u)'
    BY <2>1, <2>2, <1>2, ExplainedStays
  <2>4. ASSUME NEW c \in CNames(m) \ Declared PROVE Explained(<<k, c>>)'
    <3>1. \/ /\ c[1] = "file"
             /\ SectionOf(c[2][1]) = 0 \/ Below(k, c[2][1])
          \/ c = Argv /\ ~InProgram(Argv)
          \/ c[1] = "kernel" /\ "vmlinux.h" \notin includes /\ k \in Range(helpers)
          \/ c = PktCls
      BY <1>2, <2>4, NewExplained
    <3>2. PICK u : u = <<k, c>>
      OBVIOUS
    <3>3. Explained(u)
      BY <3>1, <3>2 DEF Explained
    <3>4. Explained(u)'
      BY <3>3, <2>1, <2>2, <1>2, ExplainedStays
    <3> QED
      BY <3>2, <3>4
  <2>5. ASSUME NEW u \in undeclared' PROVE Explained(u)'
    <3>1. CASE u \in undeclared
      BY <3>1, <2>3
    <3>2. CASE u \in {<<k, c>> : c \in CNames(m) \ Declared}
      <4>1. PICK c \in CNames(m) \ Declared : u = <<k, c>>
        BY <3>2
      <4> QED
        BY <4>1, <2>4
    <3> QED
      BY <3>1, <3>2, <2>1
  <2> QED
    BY <2>5
<1>3. CASE /\ stage' \in {"write", "done"}
           /\ ~\E k \in Range(left) : \E m \in Mention(k) : WriteDecl(k, m) /\ UNCHANGED vars
  <2>1. \/ HeaderWritten /\ UNCHANGED vars
        \/ WriteBindings /\ UNCHANGED vars
        \/ UNCHANGED allVars
    <3>1. CASE Next /\ UNCHANGED artVars
      <4>1. stage' = stage
        BY <3>1 DEF artVars
      <4>2. pc = "accepted"
        BY <4>1, <1>3 DEF ArtInv, StageInv
      <4> QED
        BY <3>1, <4>2, AcceptedEnds
    <3>2. CASE Emission /\ UNCHANGED vars
      BY <3>2, <1>3 DEF Emission, StartEmit, Scan, Looks, EmitFails
    <3>3. CASE UNCHANGED allVars
      BY <3>3
    <3> QED
      BY <3>1, <3>2, <3>3 DEF ArtNext
  <2>2. /\ UNCHANGED vars /\ undeclared' = undeclared /\ includes' = includes /\ mentions' = mentions
    BY <2>1 DEF HeaderWritten, WriteBindings, allVars, artVars
  <2>3. InProgram(Argv)' => InProgram(Argv)
    BY <2>2, FileFixed DEF InProgram
  <2>4. ASSUME NEW u \in undeclared PROVE Explained(u)'
    BY <2>2, <2>3, ExplainedStays
  <2> QED
    BY <2>2, <2>4
<1>4. stage' \in {"idle", "scan", "write", "done", "failed"}
  BY DEF ArtInv, StageInv
<1> QED
  BY <1>1, <1>2, <1>3, <1>4

\* Whatever the order of the Go file, its length and what its declarations
\* mention: clang finds each name of the C file (Emit, writeHeader, formatCall,
\* formatSelector)
\* declared above its use, with the listed exceptions only.  What goNameFor and
\* goNameToBpfHelper do to a name is the hypothesis: they are inverse on the helpers.
THEOREM NamesDeclared ==
  ASSUME NamesRoundTrip
  PROVE  ArtSpec => []UndeclaredExplained
<1> DEFINE Inv == \A u \in undeclared : Explained(u)
<1>1. ArtInit => Inv
  BY DEF ArtInit
<1>2. ArtInv /\ ArtInv' /\ Inv /\ [ArtNext]_allVars => Inv'
  BY ExplainedStep
<1>3. Inv => UndeclaredExplained
  BY DEF Explained, Below, UndeclaredExplained
<1> QED
  BY <1>1, <1>2, <1>3, ArtifactsInvariant, PTL DEF ArtSpec

-----------------------------------------------------------------------------
\* Where the fields of a struct lie.  Offsets are recursive: what is said of all of
\* them is shown of the least one that would be an exception.

LEMMA LeastOf ==
  ASSUME NEW S \in SUBSET Nat, S # {}
  PROVE  \E n \in S : \A m \in S : n <= m
<1>1. PICK n \in S : \A m \in S : ~ (<<m, n>> \in OpToRel(<, Nat))
  BY NatLessThanWellFounded, WFMin
<1>2. ASSUME NEW m \in S, ~ (n <= m) PROVE FALSE
  <2>1. m \in Nat /\ n \in Nat /\ m < n
    BY <1>2
  <2>2. <<m, n>> \in Nat \X Nat /\ <<m, n>>[1] < <<m, n>>[2]
    BY <2>1
  <2>3. <<m, n>> \in OpToRel(<, Nat)
    BY <2>2, Zenon DEF OpToRel
  <2> QED
    BY <2>3, <1>1
<1> QED
  BY <1>2

\* An offset is computed from the one before it: there are such offsets.
LEMMA OffsetsExist ==
  ASSUME NEW L \in Nat, NEW step \in [1..L -> [Nat -> Nat]]
  PROVE  \E f \in [1..L -> Nat] : \A n \in 1..L : f[n] = IF n = 1 THEN 0 ELSE step[n][f[n - 1]]
<1> DEFINE Good(N, f) == \A n \in 1..N : f[n] = IF n = 1 THEN 0 ELSE step[n][f[n - 1]]
<1> DEFINE Bad == {N \in 0..L : ~\E f \in [1..N -> Nat] : Good(N, f)}
<1> SUFFICES ASSUME ~\E f \in [1..L -> Nat] : Good(L, f) PROVE FALSE
  OBVIOUS
<1>b. L \in Bad
  <2>1. L \in 0..L
    OBVIOUS
  <2> HIDE DEF Good
  <2> QED
    BY <2>1, Zenon
<1>1. PICK N \in Bad : \A M \in Bad : N <= M
  <2>1. Bad \in SUBSET Nat
    OBVIOUS
  <2> QED
    BY <1>b, <2>1, LeastOf
<1>2. CASE N = 0
  <2>1. PICK f : f = [n \in 1..0 |-> 0]
    OBVIOUS
  <2>2. f \in [1..0 -> Nat] /\ Good(0, f)
    BY <2>1
  <2> QED
    BY <2>2, <1>2
<1>3. CASE N # 0
  <2>1. N \in 1..L
    BY <1>3
  <2>2. PICK K \in 0..L : K = N - 1
    BY <2>1
  <2>3. K \notin Bad
    <3> HIDE DEF Bad
    <3> QED
      BY <1>1, <2>1, <2>2
  <2>4. PICK g \in [1..K -> Nat] : Good(K, g)
    BY <2>3
  <2>5. PICK e \in Nat : e = IF N = 1 THEN 0 ELSE step[N][g[K]]
    <3>1. CASE N = 1
      BY <3>1
    <3>2. CASE N # 1
      <4>1. K \in 1..K
        BY <3>2, <2>1, <2>2
      <4>2. g[K] \in Nat
        BY <4>1
      <4>3. step[N] \in [Nat -> Nat]
        BY <2>1
      <4>4. step[N][g[K]] \in Nat
        BY <4>2, <4>3
      <4> QED
        BY <4>4, <3>2
    <3> QED
      BY <3>1, <3>2
  <2>6. PICK f : f = [n \in 1..N |-> IF n = N THEN e ELSE g[n]]
    OBVIOUS
  <2>7. f[N] = e /\ \A n \in 1..K : f[n] = g[n]
    BY <2>1, <2>2, <2>6
  <2>8. f \in [1..N -> Nat]
    <3>1. \A n \in 1..N : n = N \/ n \in 1..K
      BY <2>1, <2>2
    <3>2. \A n \in 1..K : g[n] \in Nat
      BY <2>4
    <3> QED
      BY <3>1, <3>2, <2>6
  <2>9. ASSUME NEW n \in 1..N PROVE f[n] = IF n = 1 THEN 0 ELSE step[n][f[n - 1]]
    <3>1. CASE n = N
      <4>1. n # 1 => n - 1 = K /\ K \in 1..K
        BY <3>1, <2>1, <2>2
      <4>2. n # 1 => f[n - 1] = g[K]
        BY <4>1, <2>7
      <4> QED
        BY <4>2, <3>1, <2>5, <2>7
    <3>2. CASE n # N
      <4>1. n \in 1..K /\ (n # 1 => n - 1 \in 1..K)
        BY <3>2, <2>1, <2>2
      <4>2. g[n] = IF n = 1 THEN 0 ELSE step[n][g[n - 1]]
        BY <4>1, <2>4
      <4>3. f[n] = g[n] /\ (n # 1 => f[n - 1] = g[n - 1])
        BY <4>1, <2>7
      <4> QED
        BY <4>2, <4>3
    <3> QED
      BY <3>1, <3>2
  <2>10. \E h \in [1..N -> Nat] : Good(N, h)
    <3>1. Good(N, f)
      BY <2>9
    <3> HIDE DEF Good
    <3> QED
      BY <3>1, <2>8
  <2> QED
    BY <2>10
<1> QED
  BY <1>2, <1>3

LEMMA Widths ==
  ASSUME NEW f \in StructField
  PROVE  /\ CWidth[BasicToC[f.kind]] = GoWidth[f.kind]
         /\ GoWidth[f.kind] \in {1, 2, 4, 8} /\ f.len \in Nat
<1>1. f.kind \in {"uint8", "uint16", "uint32", "uint64"} /\ f.len \in Nat
  BY DEF StructField, GoWidth
<1> QED
  BY <1>1 DEF GoWidth, CWidth, BasicToC

LEMMA ReadOffsets ==
  ASSUME NEW fields \in Seq(StructField), NEW R, R = ReadOffset(fields)
  PROVE  /\ R \in [1..Len(fields) -> Nat]
         /\ \A n \in 1..Len(fields) :
              R[n] = IF n = 1 THEN 0 ELSE R[n - 1] + GoWidth[fields[n - 1].kind] * fields[n - 1].len
<1> DEFINE L == Len(fields)
<1> DEFINE add(n) == GoWidth[fields[n - 1].kind] * fields[n - 1].len
<1>1. L \in Nat
  OBVIOUS
<1>2. ASSUME NEW n \in 1..L, n # 1 PROVE add(n) \in Nat
  <2>1. fields[n - 1] \in StructField
    BY <1>2
  <2> QED
    BY <2>1, Widths
<1>3. PICK step : step = [n \in 1..L |-> [x \in Nat |-> IF n = 1 THEN 0 ELSE x + add(n)]]
  OBVIOUS
<1>4. step \in [1..L -> [Nat -> Nat]]
  <2>1. ASSUME NEW n \in 1..L PROVE [x \in Nat |-> IF n = 1 THEN 0 ELSE x + add(n)] \in [Nat -> Nat]
    BY <1>2
  <2> QED
    BY <2>1, <1>3
<1>5. PICK f \in [1..L -> Nat] : \A n \in 1..L : f[n] = IF n = 1 THEN 0 ELSE step[n][f[n - 1]]
  BY <1>1, <1>4, OffsetsExist
<1>6. ASSUME NEW n \in 1..L PROVE f[n] = IF n = 1 THEN 0 ELSE f[n - 1] + add(n)
  <2>1. CASE n = 1
    BY <2>1, <1>5
  <2>2. CASE n # 1
    <3>1. f[n - 1] \in Nat
      BY <2>2, <1>5
    <3>2. step[n][f[n - 1]] = f[n - 1] + add(n)
      BY <3>1, <2>2, <1>3
    <3> QED
      BY <3>2, <2>2, <1>5
  <2> QED
    BY <2>1, <2>2
<1>7. f = [n \in 1..L |-> IF n = 1 THEN 0 ELSE f[n - 1] + add(n)]
  BY <1>5, <1>6
<1>8. R = [n \in 1..L |-> IF n = 1 THEN 0 ELSE R[n - 1] + add(n)]
  BY <1>7 DEF ReadOffset
<1>9. DOMAIN R = 1..L /\ \A n \in 1..L : R[n] = IF n = 1 THEN 0 ELSE R[n - 1] + add(n)
  BY <1>8
<1>10. ASSUME NEW i \in 1..L, R[i] \notin Nat PROVE FALSE
  <2>1. PICK S : S = {n \in 1..L : R[n] \notin Nat}
    OBVIOUS
  <2>s. S \in SUBSET Nat /\ S # {}
    BY <2>1, <1>10
  <2>2. PICK n \in S : \A m \in S : n <= m
    BY <2>s, LeastOf
  <2>3. n \in 1..L /\ R[n] \notin Nat
    BY <2>1, <2>2
  <2>4. n # 1
    BY <2>3, <1>9
  <2>5. n - 1 \in 1..L /\ n - 1 \notin S
    BY <2>2, <2>3, <2>4
  <2>6. R[n - 1] \in Nat
    BY <2>1, <2>5
  <2>7. R[n] = R[n - 1] + add(n) /\ add(n) \in Nat
    BY <2>3, <2>4, <1>2, <1>9
  <2> HIDE DEF add
  <2> QED
    BY <2>3, <2>6, <2>7
<1>11. R \in [1..L -> Nat]
  BY <1>8, <1>9, <1>10
<1> QED
  BY <1>9, <1>11

LEMMA COffsets ==
  ASSUME NEW fields \in Seq(StructField), NEW C, C = COffset(fields)
  PROVE  /\ C = [n \in 1..Len(fields) |-> C[n]]
         /\ \A n \in 1..Len(fields) :
              LET w == GoWidth[fields[n].kind]
                  x == C[n - 1] + GoWidth[fields[n - 1].kind] * fields[n - 1].len
              IN  C[n] = IF n = 1 THEN 0 ELSE ((x + w - 1) \div w) * w
<1> DEFINE L == Len(fields)
<1> DEFINE width(n) == CWidth[BasicToC[fields[n].kind]]
<1> DEFINE up(x, w) == ((x + w - 1) \div w) * w
<1>1. L \in Nat
  OBVIOUS
<1>2. ASSUME NEW n \in 1..L
      PROVE  /\ width(n) = GoWidth[fields[n].kind] /\ width(n) \in {1, 2, 4, 8}
             /\ n # 1 => fields[n - 1].len \in Nat /\ width(n - 1) = GoWidth[fields[n - 1].kind]
                         /\ width(n - 1) \in Nat
  <2>1. fields[n] \in StructField
    OBVIOUS
  <2>2. n # 1 => fields[n - 1] \in StructField
    OBVIOUS
  <2> QED
    BY <2>1, <2>2, Widths
<1>3. ASSUME NEW x \in Nat, NEW w \in {1, 2, 4, 8} PROVE up(x, w) \in Nat
  OBVIOUS
<1> DEFINE next(n, x) == up(x + width(n - 1) * fields[n - 1].len, width(n))
<1>4. ASSUME NEW n \in 1..L, n # 1, NEW x \in Nat PROVE next(n, x) \in Nat
  <2>1. PICK y \in Nat : y = x + width(n - 1) * fields[n - 1].len
    <3>1. PICK a \in Nat, b \in Nat : a = width(n - 1) /\ b = fields[n - 1].len
      BY <1>2, <1>4
    <3>2. x + a * b \in Nat
      OBVIOUS
    <3> QED
      BY <3>1, <3>2
  <2>2. PICK w \in {1, 2, 4, 8} : w = width(n)
    BY <1>2
  <2> HIDE DEF up, width
  <2> QED
    BY <2>1, <2>2, <1>3
<1>5. PICK step : step = [n \in 1..L |-> [x \in Nat |-> IF n = 1 THEN 0 ELSE next(n, x)]]
  OBVIOUS
<1>6. step \in [1..L -> [Nat -> Nat]]
  <2> HIDE DEF next
  <2>1. ASSUME NEW n \in 1..L PROVE [x \in Nat |-> IF n = 1 THEN 0 ELSE next(n, x)] \in [Nat -> Nat]
    BY <1>4
  <2> QED
    BY <2>1, <1>5
<1>7. PICK f \in [1..L -> Nat] : \A n \in 1..L : f[n] = IF n = 1 THEN 0 ELSE step[n][f[n - 1]]
  BY <1>1, <1>6, OffsetsExist
<1>8. ASSUME NEW n \in 1..L PROVE f[n] = IF n = 1 THEN 0 ELSE next(n, f[n - 1])
  <2> HIDE DEF next
  <2>1. CASE n = 1
    BY <2>1, <1>7
  <2>2. CASE n # 1
    <3>1. f[n - 1] \in Nat
      BY <2>2, <1>7
    <3>2. step[n][f[n - 1]] = next(n, f[n - 1])
      BY <3>1, <2>2, <1>5
    <3> QED
      BY <3>2, <2>2, <1>7
  <2> QED
    BY <2>1, <2>2
<1>9. f = [n \in 1..L |-> IF n = 1 THEN 0 ELSE next(n, f[n - 1])]
  <2> HIDE DEF next
  <2> QED
    BY <1>7, <1>8
<1>10. C = [n \in 1..L |-> IF n = 1 THEN 0 ELSE next(n, C[n - 1])]
  BY <1>9 DEF COffset
<1>11. ASSUME NEW n \in 1..L PROVE C[n] = IF n = 1 THEN 0 ELSE next(n, C[n - 1])
  <2> HIDE DEF next
  <2> QED
    BY <1>10
<1>12. C = [n \in 1..L |-> C[n]]
  <2> HIDE DEF next
  <2> QED
    BY <1>10
<1>13. ASSUME NEW n \in 1..L
       PROVE  LET w == GoWidth[fields[n].kind]
                  x == C[n - 1] + GoWidth[fields[n - 1].kind] * fields[n - 1].len
              IN  C[n] = IF n = 1 THEN 0 ELSE ((x + w - 1) \div w) * w
  <2>1. width(n) = GoWidth[fields[n].kind] /\ (n # 1 => width(n - 1) = GoWidth[fields[n - 1].kind])
    BY <1>2
  <2>2. C[n] = IF n = 1 THEN 0 ELSE up(C[n - 1] + width(n - 1) * fields[n - 1].len, width(n))
    BY <1>11
  <2> HIDE DEF width
  <2> QED
    BY <2>1, <2>2
<1> QED
  BY <1>12, <1>13

\* Rounding up leaves a multiple of the width alone.
LEMMA UpOfMultiple ==
  ASSUME NEW x \in Nat, NEW w \in {1, 2, 4, 8}, x % w = 0
  PROVE  ((x + w - 1) \div w) * w = x
<1>1. CASE w = 1
  BY <1>1
<1>2. CASE w = 2
  BY <1>2
<1>3. CASE w = 4
  BY <1>3
<1>4. CASE w = 8
  BY <1>4
<1> QED
  BY <1>1, <1>2, <1>3, <1>4

LEMMA AlignedAgree ==
  ASSUME NEW fields \in Seq(StructField),
         \A n \in 1..Len(fields) : ReadOffset(fields)[n] % GoWidth[fields[n].kind] = 0
  PROVE  COffset(fields) = ReadOffset(fields)
<1>1. PICK R, C : R = ReadOffset(fields) /\ C = COffset(fields)
  OBVIOUS
<1> DEFINE L == Len(fields)
<1>2. /\ R \in [1..L -> Nat]
      /\ \A n \in 1..L : R[n] = IF n = 1 THEN 0 ELSE R[n - 1] + GoWidth[fields[n - 1].kind] * fields[n - 1].len
  BY <1>1, ReadOffsets
<1>3. /\ C = [n \in 1..L |-> C[n]]
      /\ \A n \in 1..L :
              LET w == GoWidth[fields[n].kind]
                  x == C[n - 1] + GoWidth[fields[n - 1].kind] * fields[n - 1].len
              IN  C[n] = IF n = 1 THEN 0 ELSE ((x + w - 1) \div w) * w
  BY <1>1, COffsets
<1>4. ASSUME NEW i \in 1..L, C[i] # R[i] PROVE FALSE
  <2>1. PICK S : S = {n \in 1..L : C[n] # R[n]}
    OBVIOUS
  <2>s. S \in SUBSET Nat /\ S # {}
    BY <2>1, <1>4
  <2>2. PICK n \in S : \A m \in S : n <= m
    BY <2>s, LeastOf
  <2>3. n \in 1..L /\ C[n] # R[n]
    BY <2>1, <2>2
  <2>4. n # 1
    BY <2>3, <1>2, <1>3
  <2>5. n - 1 \in 1..L /\ n - 1 \notin S
    BY <2>2, <2>3, <2>4
  <2>6. C[n - 1] = R[n - 1]
    BY <2>1, <2>5
  <2>7. PICK x \in Nat : x = R[n]
    BY <2>3, <1>2
  <2>8. x = C[n - 1] + GoWidth[fields[n - 1].kind] * fields[n - 1].len
    BY <2>3, <2>4, <2>6, <2>7, <1>2
  <2>9. PICK w \in {1, 2, 4, 8} : w = GoWidth[fields[n].kind]
    <3>1. fields[n] \in StructField
      BY <2>3
    <3> QED
      BY <3>1, Widths
  <2>10. C[n] = ((x + w - 1) \div w) * w
    BY <2>3, <2>4, <2>8, <2>9, <1>3
  <2>11. x % w = 0
    BY <2>3, <2>7, <2>9, <1>1
  <2>12. ((x + w - 1) \div w) * w = x
    BY <2>11, UpOfMultiple
  <2> QED
    BY <2>3, <2>7, <2>10, <2>12
<1>5. C = R
  BY <1>2, <1>3, <1>4
<1> QED
  BY <1>1, <1>5

\* "Field layout uses only 4-byte-aligned types so Go's binary.Read and clang's
\* struct layout agree without padding surprises" (sysmon.go), for structs of any
\* number of fields and arrays of any length: no gap is read where no field falls
\* off its alignment.
THEOREM AlignedStructsAgree == ArtSpec => []LayoutWhenAligned
<1>1. ASSUME ArtInv PROVE LayoutWhenAligned
  <2> SUFFICES ASSUME NEW k \in Range(types), NEW fields, fields = file[k].fields,
                      \A n \in 1..Len(fields) : ReadOffset(fields)[n] % GoWidth[fields[n].kind] = 0
               PROVE  COffset(fields) = ReadOffset(fields)
    BY DEF LayoutWhenAligned
  <2>1. k \in Types /\ file \in Seq(Decl)
    BY <1>1 DEF ArtInv, FInv, ParseInv, Names
  <2>2. k \in 1..Len(file) /\ file[k].form = "type" /\ fields # NotStruct
    BY <2>1 DEF Types
  <2>3. PICK d \in Decl : d = file[k]
    BY <2>1, <2>2
  <2>4. d \in Type
    <3>1. d.form = "type"
      BY <2>2, <2>3
    <3>2. d \notin Func /\ d \notin Var /\ d \notin Const
      BY <3>1, Forms
    <3> QED
      BY <3>2 DEF Decl
  <2>5. fields \in Structs
    BY <2>2, <2>3, <2>4 DEF Type
  <2>6. fields \in Seq(StructField)
    BY <2>5, StructsAssumption
  <2> QED
    BY <2>6, AlignedAgree
<1> QED
  BY ArtifactsInvariant, <1>1, PTL

=============================================================================
