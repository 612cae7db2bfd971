----------------------------- MODULE ConfigProofs -----------------------------
(***************************************************************************)
(* Theorems about the loading of the configuration, for every file, every  *)
(* length of the line buffer and every value of $HOME.                     *)
(***************************************************************************)
EXTENDS Config, WellFoundedInduction, TLAPS

-----------------------------------------------------------------------------
(* Least and greatest numbers. *)

LEMMA LessIsWellFounded == IsWellFoundedOn({p \in Nat \X Nat : p[1] < p[2]}, Nat)
BY NatLessThanWellFounded DEF OpToRel

LEMMA MinIsLeast ==
    ASSUME NEW S, S \subseteq Nat, S # {}
    PROVE  Min(S) \in S /\ \A m \in S : Min(S) <= m
<1> DEFINE R == {p \in Nat \X Nat : p[1] < p[2]}
<1>1. IsWellFoundedOn(R, Nat)
  BY LessIsWellFounded
<1> HIDE DEF R
<1>2. \E n \in S : \A m \in S : ~(<<m, n>> \in R)
  BY <1>1, WFMin
<1>3. PICK n \in S : \A m \in S : ~(<<m, n>> \in R)
  BY <1>2
<1>4. ASSUME NEW m \in S PROVE n <= m
  <2>1. ~(<<m, n>> \in R)
    BY <1>3
  <2>2. ~(m < n)
    BY <2>1 DEF R
  <2> QED BY <2>2
<1> QED BY <1>4 DEF Min

LEMMA MaxIsGreatest ==
    ASSUME NEW n \in Nat, NEW S, S \subseteq 0 .. n, S # {}
    PROVE  Max(S) \in S /\ \A m \in S : Max(S) >= m
<1> DEFINE T == {m \in Nat : \E x \in S : m = n - x}
<1>1. \A x \in S : n - x \in T
  OBVIOUS
<1>2. T \subseteq Nat /\ T # {}
  BY <1>1
<1>3. Min(T) \in T /\ \A m \in T : Min(T) <= m
  BY <1>2, MinIsLeast
<1>4. PICK x \in S : Min(T) = n - x
  BY <1>3
<1>5. ASSUME NEW m \in S PROVE x >= m
  <2>1. Min(T) <= n - m
    BY <1>1, <1>3
  <2> QED BY <1>4, <2>1
<1> QED BY <1>5 DEF Max

\* A remainder, for a divisor that is a parameter.
LEMMA Division ==
    ASSUME NEW L \in Nat, L > 0, NEW a \in Nat
    PROVE  a = L * (a \div L) + (a % L) /\ a \div L \in Int
OBVIOUS

LEMMA Remainder ==
    ASSUME NEW L \in Nat \ {0}, NEW q \in Int, NEW k \in 0 .. L - 1
    PROVE  (L * q + k) % L = k
OBVIOUS

\* From one multiple of L to the next there is none.
LEMMA NextMultiple ==
    ASSUME NEW L \in Nat \ {0}, NEW a \in Nat, a % L = 0
    PROVE  /\ (a + L) % L = 0
           /\ \A k \in 1 .. L - 1 : (a + k) % L # 0
<1> DEFINE q == a \div L
<1>1. a = L * q /\ q \in Int
  <2>1. L > 0
    OBVIOUS
  <2>2. a = L * q + 0 /\ q \in Int
    BY <2>1, Division
  <2> QED BY <2>2
<1> HIDE DEF q
<1>2. (a + L) % L = 0
  <2>1. (L * (q + 1) + 0) % L = 0
    <3>1. q + 1 \in Int /\ 0 \in 0 .. L - 1
      BY <1>1
    <3> QED BY <3>1, Remainder
  <2>2. a + L = L * (q + 1) + 0
    BY <1>1
  <2> QED BY <2>1, <2>2
<1>3. ASSUME NEW k \in 1 .. L - 1 PROVE (a + k) % L # 0
  <2>1. (L * q + k) % L = k
    <3>1. k \in 0 .. L - 1
      OBVIOUS
    <3> QED BY <1>1, <3>1, Remainder
  <2> QED BY <1>1, <2>1
<1> QED BY <1>2, <1>3

-----------------------------------------------------------------------------
(* Lines. *)

\* The line at p, as the loop of mnet_config_load takes it.
At(p) == Parse(Line(file, p))

\* A part of a text is a text.
LEMMA PartOfText ==
    ASSUME NEW s \in Seq(Token), NEW i \in Nat \ {0}, NEW j \in Int, j <= Len(s)
    PROVE  /\ SubSeq(s, i, j) \in Seq(Token)
           /\ Len(SubSeq(s, i, j)) = IF i <= j THEN j - i + 1 ELSE 0
           /\ \A k \in 1 .. j - i + 1 : SubSeq(s, i, j)[k] = s[i + k - 1]
OBVIOUS

\* fgets stops behind the newline, at the end of the buffer or at the end of the
\* file, and nowhere else.
LEMMA LineIs ==
    ASSUME file \in Seq(Token), NEW p \in 1 .. Len(file)
    PROVE  LET n == Len(Line(file, p))
           IN  /\ Line(file, p) \in Seq(Token)
               /\ n \in 1 .. LineMax /\ p + n <= Len(file) + 1
               /\ \A i \in p .. p + n - 2 : file[i] # Newline
               /\ p + n = Len(file) + 1 \/ n = LineMax \/ file[p + n - 1] = Newline
<1> DEFINE rest == SubSeq(file, p, Len(file))
           I == {i \in 1 .. Len(rest) : rest[i] = Newline}
           nl == SelectInSeq(rest, LAMBDA c : c = Newline)
           m == IF nl = 0 THEN Len(rest) ELSE nl
           n == Min({m, LineMax})
<1>1. LineMax \in Nat /\ LineMax > 0 /\ Len(file) \in Nat /\ p \in Nat \ {0} /\ p <= Len(file)
  BY LineMaxAssumption
<1>2. /\ rest \in Seq(Token) /\ Len(rest) = Len(file) - p + 1
      /\ \A k \in 1 .. Len(rest) : rest[k] = file[p + k - 1]
  BY <1>1, PartOfText
<1>3. nl = IF I # {} THEN Min(I) ELSE 0
  BY DEF SelectInSeq
<1>4. I = {} \/ (Min(I) \in I /\ \A i \in I : Min(I) <= i)
  <2>1. I \subseteq Nat
    OBVIOUS
  <2> QED BY <2>1, MinIsLeast
<1> HIDE DEF rest, nl
<1>5. /\ m \in 1 .. Len(rest)
      /\ \A k \in 1 .. m - 1 : rest[k] # Newline
      /\ m = Len(rest) \/ rest[m] = Newline
  <2>1. Len(rest) \in Nat \ {0}
    BY <1>1, <1>2
  <2>2. CASE I = {}
    BY <1>3, <2>1, <2>2
  <2>3. CASE I # {}
    <3>1. nl = Min(I) /\ nl \in 1 .. Len(rest) /\ rest[nl] = Newline /\ \A i \in I : nl <= i
      BY <1>3, <1>4, <2>3
    <3>2. \A k \in 1 .. nl - 1 : rest[k] # Newline
      BY <3>1, <2>1
    <3> HIDE DEF I
    <3>3. m = nl
      BY <3>1 DEF m
    <3> QED BY <2>1, <3>1, <3>2, <3>3
  <2> QED BY <2>2, <2>3
<1> HIDE DEF m, I
<1>6. n = IF m <= LineMax THEN m ELSE LineMax
  <2>1. {m, LineMax} \subseteq Nat /\ {m, LineMax} # {} /\ m \in Nat
    BY <1>1, <1>2, <1>5
  <2>2. n \in {m, LineMax} /\ n <= m /\ n <= LineMax
    BY <2>1, MinIsLeast
  <2> QED BY <1>1, <2>1, <2>2
<1> HIDE DEF n
<1>7. Line(file, p) = SubSeq(rest, 1, n)
  BY DEF Line, rest, nl, m, n
<1>8. /\ n \in 1 .. LineMax /\ n <= Len(rest) /\ n <= m
      /\ n = m \/ n = LineMax
  BY <1>1, <1>2, <1>5, <1>6
<1>9. Line(file, p) \in Seq(Token) /\ Len(Line(file, p)) = n
  BY <1>2, <1>7, <1>8, PartOfText
<1>10. \A i \in p .. p + n - 2 : file[i] # Newline
  <2> SUFFICES ASSUME NEW i \in p .. p + n - 2 PROVE file[i] # Newline
    OBVIOUS
  <2>1. i - p + 1 \in 1 .. m - 1 /\ i - p + 1 \in 1 .. Len(rest)
    BY <1>1, <1>2, <1>5, <1>8
  <2>2. rest[i - p + 1] = file[p + (i - p + 1) - 1]
    BY <1>2, <2>1
  <2>3. p + (i - p + 1) - 1 = i
    BY <1>1
  <2> QED BY <1>5, <2>1, <2>2, <2>3
<1>11. p + n = Len(file) + 1 \/ n = LineMax \/ file[p + n - 1] = Newline
  <2>1. CASE n = m /\ m = Len(rest)
    BY <1>1, <1>2, <2>1
  <2>2. CASE n = m /\ rest[m] = Newline
    BY <1>2, <1>5, <2>2
  <2> QED BY <1>5, <1>8, <2>1, <2>2
<1>12. p + n <= Len(file) + 1
  BY <1>1, <1>2, <1>8
<1> QED BY <1>8, <1>9, <1>10, <1>11, <1>12

LastNewline(p) == Max({0} \cup {i \in 1 .. p - 1 : file[i] = Newline})

LEMMA LastNewlineIs ==
    ASSUME NEW p \in Nat \ {0}
    PROVE  /\ LastNewline(p) \in 0 .. p - 1
           /\ LastNewline(p) = 0 \/ file[LastNewline(p)] = Newline
           /\ \A i \in 1 .. p - 1 : file[i] = Newline => i <= LastNewline(p)
<1> DEFINE S == {0} \cup {i \in 1 .. p - 1 : file[i] = Newline}
<1>1. p - 1 \in Nat /\ S \subseteq 0 .. p - 1 /\ S # {}
  OBVIOUS
<1> HIDE DEF S
<1>2. Max(S) \in S /\ \A m \in S : Max(S) >= m
  BY <1>1, MaxIsGreatest
<1>3. LastNewline(p) = Max(S)
  BY DEF LastNewline, S
<1> HIDE DEF LastNewline
<1> QED BY <1>1, <1>2, <1>3 DEF S

LEMMA LastNewlineStays ==
    ASSUME NEW p \in Nat \ {0}, NEW q \in Nat, p <= q,
           \A i \in p .. q - 1 : file[i] # Newline
    PROVE  LastNewline(q) = LastNewline(p)
<1>1. /\ LastNewline(p) \in 0 .. p - 1
      /\ LastNewline(p) = 0 \/ file[LastNewline(p)] = Newline
      /\ \A i \in 1 .. p - 1 : file[i] = Newline => i <= LastNewline(p)
  BY LastNewlineIs
<1>2. /\ LastNewline(q) \in 0 .. q - 1
      /\ LastNewline(q) = 0 \/ file[LastNewline(q)] = Newline
      /\ \A i \in 1 .. q - 1 : file[i] = Newline => i <= LastNewline(q)
  <2>1. q \in Nat \ {0}
    OBVIOUS
  <2> QED BY <2>1, LastNewlineIs
<1>3. LastNewline(q) <= LastNewline(p)
  BY <1>1, <1>2
<1>4. LastNewline(p) <= LastNewline(q)
  BY <1>1, <1>2
<1> QED BY <1>1, <1>2, <1>3, <1>4

LEMMA BeginsIs ==
    ASSUME NEW p PROVE Begins(p) <=> (p - 1 - LastNewline(p)) % LineMax = 0
BY DEF Begins, LastNewline

\* A line begins where the one before it ends, and none begins within it.
LEMMA LinesAbut ==
    ASSUME file \in Seq(Token), NEW p \in 1 .. Len(file), Begins(p)
    PROVE  /\ p + Len(Line(file, p)) <= Len(file) => Begins(p + Len(Line(file, p)))
           /\ \A q \in p + 1 .. p + Len(Line(file, p)) - 1 : ~Begins(q)
<1>1. PICK n : n = Len(Line(file, p))
  OBVIOUS
<1>2. /\ n \in 1 .. LineMax /\ p + n <= Len(file) + 1
      /\ \A i \in p .. p + n - 2 : file[i] # Newline
      /\ p + n = Len(file) + 1 \/ n = LineMax \/ file[p + n - 1] = Newline
  BY <1>1, LineIs
<1>3. LineMax \in Nat \ {0} /\ p \in Nat \ {0} /\ Len(file) \in Nat
  BY LineMaxAssumption
<1>4. PICK b : b = LastNewline(p)
  OBVIOUS
<1>5. b \in 0 .. p - 1
  BY <1>3, <1>4, LastNewlineIs
<1>6. PICK a \in Nat : a = p - 1 - b
  BY <1>3, <1>5
<1>7. /\ (a + LineMax) % LineMax = 0
      /\ \A k \in 1 .. LineMax - 1 : (a + k) % LineMax # 0
  <2>1. a % LineMax = 0
    BY <1>4, <1>6, BeginsIs
  <2> QED BY <1>3, <2>1, NextMultiple
<1>8. ASSUME NEW q \in p + 1 .. p + n - 1 PROVE ~Begins(q)
  <2>1. q \in Nat /\ p <= q /\ \A i \in p .. q - 1 : file[i] # Newline
    BY <1>2, <1>3
  <2>2. LastNewline(q) = b
    BY <1>3, <1>4, <2>1, LastNewlineStays
  <2>3. PICK k \in 1 .. LineMax - 1 : k = q - p
    BY <1>2, <1>3
  <2>4. q - 1 - b = a + k
    BY <1>3, <1>5, <1>6, <2>1, <2>3
  <2>5. (q - 1 - LastNewline(q)) % LineMax # 0
    BY <1>7, <2>2, <2>4
  <2> QED BY <2>5, BeginsIs
<1>9. ASSUME p + n <= Len(file) PROVE Begins(p + n)
  <2>1. PICK q \in Nat \ {0} : q = p + n
    BY <1>2, <1>3
  <2>2. CASE file[q - 1] = Newline
    <3>1. LastNewline(q) \in 0 .. q - 1 /\ q - 1 <= LastNewline(q)
      <4>1. q - 1 \in 1 .. q - 1
        BY <1>2, <1>3, <2>1
      <4> QED BY <2>1, <2>2, <4>1, LastNewlineIs
    <3>2. q - 1 - LastNewline(q) = 0
      BY <2>1, <3>1
    <3>3. 0 % LineMax = 0
      BY <1>3
    <3>4. Begins(q)
      BY <3>2, <3>3, BeginsIs
    <3> QED BY <2>1, <3>4
  <2>3. CASE n = LineMax /\ file[q - 1] # Newline
    <3>1. p <= q /\ \A i \in p .. q - 1 : file[i] # Newline
      BY <1>2, <1>3, <2>1, <2>3
    <3>2. LastNewline(q) = b
      BY <1>3, <1>4, <2>1, <3>1, LastNewlineStays
    <3>3. q - 1 - b = a + LineMax
      BY <1>3, <1>5, <1>6, <2>1, <2>3
    <3>4. (q - 1 - LastNewline(q)) % LineMax = 0
      BY <1>7, <3>2, <3>3
    <3>5. Begins(q)
      BY <3>4, BeginsIs
    <3> QED BY <2>1, <3>5
  <2>4. n = LineMax \/ file[q - 1] = Newline
    BY <1>2, <1>3, <1>9, <2>1
  <2> QED BY <2>2, <2>3, <2>4
<1> QED BY <1>1, <1>8, <1>9

-----------------------------------------------------------------------------
(* Values. *)

\* What SelectInSeq finds in a sequence.
LEMMA FoundIn ==
    ASSUME NEW s \in Seq(Token), NEW I \in SUBSET (1 .. Len(s)),
           NEW i, i = IF I # {} THEN Min(I) ELSE 0
    PROVE  (IF i = 0 THEN <<>> ELSE SubSeq(s, i, Len(s))) \in Seq(Token)
<1>1. Len(s) \in Nat /\ I \subseteq Nat
  OBVIOUS
<1>2. i = 0 \/ i \in 1 .. Len(s)
  <2>1. CASE I = {}
    BY <2>1
  <2>2. CASE I # {}
    BY <1>1, <2>2, MinIsLeast
  <2> QED BY <2>1, <2>2
<1>3. CASE i = 0
  BY <1>3
<1>4. CASE i \in 1 .. Len(s)
  <2>1. SubSeq(s, i, Len(s)) \in Seq(Token)
    BY <1>1, <1>4, PartOfText
  <2> QED BY <1>1, <1>4, <2>1
<1> QED BY <1>2, <1>3, <1>4

LEMMA TextBehindSpaces ==
    ASSUME NEW s \in Seq(Token) PROVE SkipSpaces(s) \in Seq(Token)
<1> DEFINE I == {i \in 1 .. Len(s) : s[i] # Space}
           i == SelectInSeq(s, LAMBDA c : c # Space)
<1>1. i = IF I # {} THEN Min(I) ELSE 0
  BY DEF SelectInSeq
<1>2. I \in SUBSET (1 .. Len(s))
  OBVIOUS
<1> HIDE DEF I
<1>3. SkipSpaces(s) = IF i = 0 THEN <<>> ELSE SubSeq(s, i, Len(s))
  BY DEF SkipSpaces, From
<1> HIDE DEF i
<1> QED BY <1>1, <1>2, <1>3, FoundIn

LEMMA TextBehindWord ==
    ASSUME NEW s \in Seq(Token) PROVE From(s, NoChar) \in Seq(Token)
<1> DEFINE I == {i \in 1 .. Len(s) : NoChar(s[i])}
           i == SelectInSeq(s, NoChar)
<1>1. i = IF I # {} THEN Min(I) ELSE 0
  BY DEF SelectInSeq
<1>2. I \in SUBSET (1 .. Len(s))
  OBVIOUS
<1> HIDE DEF I
<1>3. From(s, NoChar) = IF i = 0 THEN <<>> ELSE SubSeq(s, i, Len(s))
  BY DEF From
<1> HIDE DEF i
<1> QED BY <1>1, <1>2, <1>3, FoundIn

LEMMA TextToComment ==
    ASSUME NEW s \in Seq(Token) PROVE ToComment(s) \in Seq(Token)
<1> DEFINE I == {i \in 1 .. Len(s) : s[i] \in {Hash, Newline}}
           i == SelectInSeq(s, LAMBDA c : c \in {Hash, Newline})
           t == IF i = 0 THEN <<>> ELSE SubSeq(s, i, Len(s))
<1>1. i = IF I # {} THEN Min(I) ELSE 0
  BY DEF SelectInSeq
<1>2. I \in SUBSET (1 .. Len(s))
  OBVIOUS
<1> HIDE DEF I
<1>3. ToComment(s) = SubSeq(s, 1, Len(s) - Len(t))
  BY DEF ToComment, UpTo, From
<1> HIDE DEF i
<1>4. t \in Seq(Token)
  BY <1>1, <1>2, FoundIn
<1> HIDE DEF t
<1>5. Len(s) - Len(t) \in Int /\ Len(s) - Len(t) <= Len(s)
  BY <1>4
<1> QED BY <1>3, <1>5, PartOfText

\* An entry's value is text, so none is taken for a pointer that is not set.
LEMMA ValueIsText ==
    ASSUME file \in Seq(Token), NEW p \in 1 .. Len(file), IsEntry(At(p))
    PROVE  At(p).val \in Seq(Token) /\ At(p).val # Null
<1> DEFINE s == SkipSpaces(Line(file, p))
           t == SkipSpaces(From(s, NoChar))
<1>1. Line(file, p) \in Seq(Token)
  BY LineIs
<1>2. s \in Seq(Token)
  BY <1>1, TextBehindSpaces
<1>3. t \in Seq(Token)
  <2> HIDE DEF s
  <2> QED BY <1>2, TextBehindWord, TextBehindSpaces
<1>4. /\ t # <<>>
      /\ At(p) = [key |-> UpTo(s, NoChar), val |-> ToComment(SkipSpaces(Tail(t)))]
  BY DEF At, Parse, IsEntry
<1> HIDE DEF t
<1>5. Tail(t) \in Seq(Token)
  BY <1>3, <1>4
<1>6. ToComment(SkipSpaces(Tail(t))) \in Seq(Token)
  BY <1>5, TextBehindSpaces, TextToComment
<1> QED BY <1>4, <1>6, NullAssumption

-----------------------------------------------------------------------------
(* The inductive invariant. *)

Keys == {CheckKey, LevelKey, DirKey}

\* There is a line for key at p; the first one is.
Gives(key, p) == Begins(p) /\ IsEntry(At(p)) /\ At(p).key = key
FirstFor(key, p) == Gives(key, p) /\ \A r \in 1 .. p - 1 : ~Gives(key, r)

\* The last entry for key is at i of the list.
LastFor(key, i) == list[i].key = key /\ \A j \in i + 1 .. Len(list) : list[j].key # key
NoneListed(key) == \A i \in 1 .. Len(list) : list[i].key # key

\* The last entry that the list has for key is the first of those read.
ListedSoFar(key) ==
    \/ NoneListed(key) /\ \A p \in 1 .. pos - 1 : ~Gives(key, p)
    \/ \E i \in 1 .. Len(list), p \in 1 .. pos - 1 :
            LastFor(key, i) /\ FirstFor(key, p) /\ list[i] = At(p)

\* What the configuration takes from the value v for key.
Taken(key, v) ==
    /\ key = CheckKey => conf.sanity = (v \in {Null, One})
    /\ key = LevelKey => conf.level = v
    /\ key = DirKey => conf.datadir = IF v # Null THEN DirKey ELSE Null

\* The value that decides for key is still in the list, behind all the others
\* for key, or it has been taken.
Decided(key) ==
    \/ NoneListed(key) /\ Taken(key, FirstValue(key))
    \/ FirstValue(key) # Null /\ \E i \in 1 .. Len(list) : LastFor(key, i) /\ list[i].val = FirstValue(key)

CInv ==
    /\ env.home \in Homes
    /\ \/ file = Absent /\ pc \in {"off", "gen", "failed"}
       \/ file \in Seq(Token)
    /\ list \in Seq({At(p) : p \in DOMAIN file})
    /\ conf = [sanity |-> conf.sanity, level |-> conf.level, datadir |-> conf.datadir]
    /\ pc \in {"off", "gen", "write", "load"} => list = <<>> /\ pos = 1
    /\ pc \in {"off", "gen", "write", "load", "read"} => conf = DefaultConf
    /\ pc = "read" =>
            /\ pos \in 1 .. Len(file) + 1
            /\ pos <= Len(file) => Begins(pos)
            /\ \A key \in Keys : ListedSoFar(key)
    /\ pc = "iter" => \A key \in Keys : Decided(key)
    /\ FirstLineWins

-----------------------------------------------------------------------------
(* The steps of the proof. *)

\* As long as nobody writes the file, it has the same lines.
LEMMA SameFile ==
    ASSUME file' = file
    PROVE  /\ \A p : Begins(p)' = Begins(p) /\ At(p)' = At(p)
           /\ \A key, p : Gives(key, p)' = Gives(key, p)
           /\ \A key, p : FirstFor(key, p)' = FirstFor(key, p)
           /\ \A key : FirstValue(key)' = FirstValue(key)
<1>1. \A p : Begins(p)' = Begins(p)
  BY DEF Begins
<1>2. \A p : At(p)' = At(p)
  BY DEF At
<1>3. \A key, p : Gives(key, p)' = Gives(key, p)
  BY <1>1, <1>2 DEF Gives
<1>4. \A key, p : FirstFor(key, p)' = FirstFor(key, p)
  BY <1>3 DEF FirstFor
<1>5. \A key : FirstValue(key)' = FirstValue(key)
  BY <1>1 DEF FirstValue
<1> QED BY <1>1, <1>2, <1>3, <1>4, <1>5

\* The value of a key is that of the first line for it.
LEMMA FirstValueIs ==
    ASSUME file \in Seq(Token), NEW key
    PROVE  /\ (\A p \in 1 .. Len(file) : ~Gives(key, p)) => FirstValue(key) = Null
           /\ \A p \in 1 .. Len(file) : FirstFor(key, p) => FirstValue(key) = At(p).val
<1> DEFINE ps == {p \in 1 .. Len(file) : Gives(key, p)}
<1>1. FirstValue(key) = IF ps = {} THEN Null ELSE At(Min(ps)).val
  <2>1. ps = {p \in DOMAIN file : Begins(p) /\ IsEntry(At(p)) /\ At(p).key = key}
    BY DEF Gives
  <2> HIDE DEF ps
  <2> QED BY <2>1 DEF FirstValue, At
<1>2. ASSUME NEW p \in 1 .. Len(file), FirstFor(key, p) PROVE FirstValue(key) = At(p).val
  <2>1. p \in ps /\ ps \subseteq Nat
    BY <1>2 DEF FirstFor
  <2>2. Min(ps) \in ps /\ \A m \in ps : Min(ps) <= m
    BY <2>1, MinIsLeast
  <2>3. Min(ps) = p
    <3>1. PICK m \in ps : m = Min(ps)
      BY <2>2
    <3>2. m <= p /\ ~(m < p)
      BY <1>2, <2>1, <2>2, <3>1 DEF FirstFor
    <3> QED BY <2>1, <3>1, <3>2
  <2> QED BY <1>1, <2>1, <2>3
<1> QED BY <1>1, <1>2

LEMMA Prepended ==
    ASSUME NEW S, NEW l \in Seq(S), NEW e \in S
    PROVE  /\ <<e>> \o l \in Seq(S) /\ Len(<<e>> \o l) = Len(l) + 1
           /\ (<<e>> \o l)[1] = e
           /\ \A i \in 1 .. Len(l) : (<<e>> \o l)[i + 1] = l[i]
OBVIOUS

\* A line that is read keeps the entries of the list where they are, from the
\* end, and is the last for its key if it is the first.
LEMMA ReadKeepsOrder ==
    ASSUME CInv, LoadLine, NEW key \in Keys, pc' = "read"
    PROVE  ListedSoFar(key)'
<1> DEFINE n == Len(Line(file, pos))
           S == {At(p) : p \in DOMAIN file}
           e == At(pos)
<1>1. /\ pc = "read" /\ pos \in 1 .. Len(file) /\ file' = file
      /\ pos' = pos + n /\ e # Bad
      /\ list' = IF IsEntry(e) THEN <<e>> \o list ELSE list
  BY DEF LoadLine, CInv, AppendEntry, At
<1>2. file \in Seq(Token) /\ list \in Seq(S) /\ Begins(pos) /\ ListedSoFar(key)
  BY <1>1 DEF CInv
<1>3. n \in Nat \ {0} /\ Len(file) \in Nat /\ pos \in Nat /\ Len(list) \in Nat
  BY <1>1, <1>2, LineIs, LineMaxAssumption
<1>4. \A q \in pos + 1 .. pos + n - 1 : ~Begins(q)
  BY <1>1, <1>2, LinesAbut
<1> HIDE DEF n
<1>5. /\ \A p : Gives(key, p)' = Gives(key, p)
      /\ \A p : FirstFor(key, p)' = FirstFor(key, p)
      /\ \A p : At(p)' = At(p)
  BY <1>1, SameFile
<1>6. \A p \in 1 .. pos' - 1 : Gives(key, p) => p \in 1 .. pos - 1 \/ p = pos
  BY <1>1, <1>3, <1>4 DEF Gives
<1>7. Gives(key, pos) <=> IsEntry(e) /\ e.key = key
  BY <1>2 DEF Gives
<1>8. e \in S
  BY <1>1
<1> HIDE DEF e, S
<1>9. /\ 1 .. pos - 1 \subseteq 1 .. pos' - 1 /\ pos \in 1 .. pos' - 1
  BY <1>1, <1>3
<1>10. CASE ~IsEntry(e)
  <2>1. list' = list
    BY <1>1, <1>10
  <2>2. CASE NoneListed(key) /\ \A p \in 1 .. pos - 1 : ~Gives(key, p)
    <3>1. NoneListed(key)'
      BY <2>1, <2>2 DEF NoneListed
    <3>2. \A p \in 1 .. pos' - 1 : ~Gives(key, p)
      BY <1>6, <1>7, <1>10, <2>2
    <3> QED BY <1>5, <3>1, <3>2 DEF ListedSoFar
  <2>3. CASE \E i \in 1 .. Len(list), p \in 1 .. pos - 1 :
                 LastFor(key, i) /\ FirstFor(key, p) /\ list[i] = At(p)
    <3>1. PICK i \in 1 .. Len(list), p \in 1 .. pos - 1 :
              LastFor(key, i) /\ FirstFor(key, p) /\ list[i] = At(p)
      BY <2>3
    <3>2. LastFor(key, i)'
      BY <2>1, <3>1 DEF LastFor
    <3> QED BY <1>5, <1>9, <2>1, <3>1, <3>2 DEF ListedSoFar
  <2> QED BY <1>2, <2>2, <2>3 DEF ListedSoFar
<1>11. CASE IsEntry(e)
  <2>1. /\ Len(list') = Len(list) + 1 /\ list'[1] = e
        /\ \A i \in 1 .. Len(list) : list'[i + 1] = list[i]
    BY <1>1, <1>2, <1>8, <1>11, Prepended
  <2>2. \A j \in 2 .. Len(list') : j - 1 \in 1 .. Len(list) /\ list'[j] = list[j - 1]
    <3>1. \A j \in 2 .. Len(list') : j - 1 \in 1 .. Len(list) /\ j = (j - 1) + 1
      BY <1>3, <2>1
    <3> QED BY <2>1, <3>1
  <2>3. CASE NoneListed(key) /\ (\A p \in 1 .. pos - 1 : ~Gives(key, p)) /\ e.key = key
    <3>1. FirstFor(key, pos)
      BY <1>7, <1>11, <2>3 DEF FirstFor
    <3>2. LastFor(key, 1)'
      BY <2>1, <2>2, <2>3 DEF LastFor, NoneListed
    <3>3. 1 \in 1 .. Len(list') /\ list'[1] = At(pos)
      BY <1>3, <2>1 DEF e
    <3> QED BY <1>5, <1>9, <3>1, <3>2, <3>3 DEF ListedSoFar
  <2>4. CASE NoneListed(key) /\ (\A p \in 1 .. pos - 1 : ~Gives(key, p)) /\ e.key # key
    <3>1. NoneListed(key)'
      <4> SUFFICES ASSUME NEW i \in 1 .. Len(list') PROVE list'[i].key # key
        BY DEF NoneListed
      <4>1. CASE i = 1
        BY <2>1, <2>4, <4>1
      <4>2. CASE i # 1
        <5>1. i \in 2 .. Len(list')
          BY <1>3, <2>1, <4>2
        <5> QED BY <2>2, <2>4, <5>1 DEF NoneListed
      <4> QED BY <4>1, <4>2
    <3>2. \A p \in 1 .. pos' - 1 : ~Gives(key, p)
      BY <1>6, <1>7, <2>4
    <3> QED BY <1>5, <3>1, <3>2 DEF ListedSoFar
  <2>5. CASE \E i \in 1 .. Len(list), p \in 1 .. pos - 1 :
                 LastFor(key, i) /\ FirstFor(key, p) /\ list[i] = At(p)
    <3>1. PICK i \in 1 .. Len(list), p \in 1 .. pos - 1 :
              LastFor(key, i) /\ FirstFor(key, p) /\ list[i] = At(p)
      BY <2>5
    <3>2. LastFor(key, i + 1)'
      <4>1. \A j \in i + 1 + 1 .. Len(list') : j \in 2 .. Len(list') /\ j - 1 \in i + 1 .. Len(list)
        BY <1>3, <2>1
      <4> QED BY <2>1, <2>2, <3>1, <4>1 DEF LastFor
    <3>3. i + 1 \in 1 .. Len(list') /\ list'[i + 1] = At(p)
      BY <1>3, <2>1, <3>1
    <3> QED BY <1>5, <1>9, <3>1, <3>2, <3>3 DEF ListedSoFar
  <2> QED BY <1>2, <2>3, <2>4, <2>5 DEF ListedSoFar
<1> QED BY <1>10, <1>11

LEMMA KeysDiffer == CheckKey # LevelKey /\ CheckKey # DirKey /\ LevelKey # DirKey /\ DirKey # Null
BY DEF CheckKey, LevelKey, DirKey, Null

\* iter_config_main takes the value of the entry that it is given, and leaves
\* what the other keys set.
LEMMA TakesOne ==
    ASSUME CInv, IterConfigMain, NEW key \in Keys, NEW v
    PROVE  /\ list[1].key = key /\ list[1].val = v /\ v # Null => Taken(key, v)'
           /\ list[1].key # key /\ Taken(key, v) => Taken(key, v)'
<1> DEFINE e == list[1]
<1>1. /\ conf = [sanity |-> conf.sanity, level |-> conf.level, datadir |-> conf.datadir]
      /\ conf' = CASE e.key = CheckKey -> [conf EXCEPT !.sanity = e.val = One]
                   [] e.key = LevelKey -> [conf EXCEPT !.level = e.val]
                   [] e.key = DirKey -> [conf EXCEPT !.datadir = e.key]
                   [] OTHER -> conf
  BY DEF CInv, IterConfigMain
<1> HIDE DEF e
<1>2. CASE e.key = CheckKey
  <2>1. conf'.sanity = (e.val = One) /\ conf'.level = conf.level /\ conf'.datadir = conf.datadir
    BY <1>1, <1>2, KeysDiffer
  <2> QED BY <1>2, <2>1, KeysDiffer DEF Taken, e, Keys
<1>3. CASE e.key = LevelKey
  <2>1. conf'.sanity = conf.sanity /\ conf'.level = e.val /\ conf'.datadir = conf.datadir
    BY <1>1, <1>3, KeysDiffer
  <2> QED BY <1>3, <2>1, KeysDiffer DEF Taken, e, Keys
<1>4. CASE e.key = DirKey
  <2>1. conf'.sanity = conf.sanity /\ conf'.level = conf.level /\ conf'.datadir = DirKey
    BY <1>1, <1>4, KeysDiffer
  <2> QED BY <1>4, <2>1, KeysDiffer DEF Taken, e, Keys
<1>5. CASE e.key \notin Keys
  <2>1. conf' = conf
    BY <1>1, <1>5 DEF Keys
  <2> QED BY <1>5, <2>1 DEF Taken, e
<1> QED BY <1>2, <1>3, <1>4, <1>5 DEF Keys

LEMMA IterKeepsDecided ==
    ASSUME CInv, IterConfigMain, NEW key \in Keys
    PROVE  Decided(key)'
<1> DEFINE S == {At(p) : p \in DOMAIN file}
<1>1. /\ file' = file /\ list \in Seq(S) /\ list # <<>> /\ list' = Tail(list)
      /\ Decided(key)
  BY DEF IterConfigMain, CInv
<1> HIDE DEF S
<1>2. /\ Len(list) \in Nat \ {0} /\ Len(list') = Len(list) - 1
      /\ \A i \in 1 .. Len(list) - 1 : list'[i] = list[i + 1]
  BY <1>1
<1>3. FirstValue(key)' = FirstValue(key)
  BY <1>1, SameFile
<1>4. PICK v : v = FirstValue(key)
  OBVIOUS
<1>5. CASE NoneListed(key) /\ Taken(key, v)
  <2>1. list[1].key # key /\ NoneListed(key)'
    BY <1>2, <1>5 DEF NoneListed
  <2>2. Taken(key, v)'
    BY <1>5, <2>1, TakesOne
  <2>3. Taken(key, FirstValue(key))'
    BY <1>3, <1>4, <2>2 DEF Taken
  <2> QED BY <2>1, <2>3 DEF Decided
<1>6. ASSUME v # Null, NEW i \in 1 .. Len(list), LastFor(key, i), list[i].val = v
      PROVE  Decided(key)'
  <2>1. CASE i = 1
    <3>1. NoneListed(key)'
      BY <1>2, <1>6, <2>1 DEF NoneListed, LastFor
    <3>2. Taken(key, v)'
      BY <1>6, <2>1, TakesOne DEF LastFor
    <3>3. Taken(key, FirstValue(key))'
      BY <1>3, <1>4, <3>2 DEF Taken
    <3> QED BY <3>1, <3>3 DEF Decided
  <2>2. CASE i # 1
    <3>1. i - 1 \in 1 .. Len(list') /\ list'[i - 1] = list[i]
      BY <1>2, <1>6, <2>2
    <3>2. LastFor(key, i - 1)'
      BY <1>2, <1>6, <3>1 DEF LastFor
    <3>3. list'[i - 1].val = v /\ FirstValue(key)' = v /\ FirstValue(key)' # Null
      BY <1>3, <1>4, <1>6, <3>1
    <3> QED BY <3>1, <3>2, <3>3 DEF Decided
  <2> QED BY <2>1, <2>2
<1> QED BY <1>1, <1>4, <1>5, <1>6 DEF Decided

\* At the end of the file the last entry of the list for a key is the first
\* line for it.
LEMMA ReadIsDecided ==
    ASSUME CInv, LoadEnd, NEW key \in Keys
    PROVE  Decided(key)'
<1>1. /\ file' = file /\ list' = list /\ conf' = conf /\ conf = DefaultConf
      /\ file \in Seq(Token) /\ ListedSoFar(key) /\ pos = Len(file) + 1
  BY DEF LoadEnd, CInv
<1>2. FirstValue(key)' = FirstValue(key)
  BY <1>1, SameFile
<1>3. pos - 1 = Len(file)
  BY <1>1
<1>4. CASE NoneListed(key) /\ \A p \in 1 .. pos - 1 : ~Gives(key, p)
  <2>1. FirstValue(key) = Null
    BY <1>1, <1>3, <1>4, FirstValueIs
  <2>2. NoneListed(key)'
    BY <1>1, <1>4 DEF NoneListed
  <2>3. Taken(key, FirstValue(key))'
    <3>1. FirstValue(key)' = Null
      BY <1>2, <2>1
    <3> QED BY <1>1, <3>1 DEF Taken, DefaultConf
  <2> QED BY <2>2, <2>3 DEF Decided
<1>5. ASSUME NEW i \in 1 .. Len(list), NEW p \in 1 .. pos - 1,
             LastFor(key, i), FirstFor(key, p), list[i] = At(p)
      PROVE  Decided(key)'
  <2>1. FirstValue(key) = At(p).val /\ At(p).val # Null
    BY <1>1, <1>3, <1>5, FirstValueIs, ValueIsText DEF FirstFor, Gives
  <2>2. LastFor(key, i)'
    BY <1>1, <1>5 DEF LastFor
  <2>3. /\ i \in 1 .. Len(list') /\ list'[i].val = FirstValue(key)'
        /\ FirstValue(key)' # Null
    BY <1>1, <1>2, <1>5, <2>1
  <2> QED BY <2>2, <2>3 DEF Decided
<1> QED BY <1>1, <1>4, <1>5 DEF ListedSoFar

LEMMA Joined ==
    ASSUME NEW s \in Seq(Token), NEW t \in Seq(Token)
    PROVE  s \o t \in Seq(Token) /\ Len(s \o t) = Len(s) + Len(t)
OBVIOUS

LEMMA HomeIsText ==
    ASSUME NEW h \in Homes, h # NoHome PROVE h \in Seq(Token)
BY TextAssumption

LEMMA GeneratedIsText ==
    ASSUME NEW h \in Homes PROVE Generated(h) \in Seq(Token)
<1>1. /\ CheckKey \in Seq(Token) /\ LevelKey \in Seq(Token) /\ GenKey \in Seq(Token)
      /\ One \in Seq(Token)
  BY DEF CheckKey, LevelKey, GenKey, One, Token, Alnum, DirKey
<1>2. ASSUME NEW k \in Seq(Token), NEW v \in Seq(Token) PROVE Entry(k, v) \in Seq(Token)
  <2>1. <<Space, Equals, Space>> \in Seq(Token) /\ <<Newline>> \in Seq(Token)
    BY DEF Token
  <2> QED BY <2>1, Joined DEF Entry
<1>3. GenDir(h) \in Seq(Token)
  <2>1. CASE h = NoHome
    <3>1. \A w : <<Other, Other, w>> \in Seq({Other, w})
      OBVIOUS
    <3> QED BY <2>1 DEF GenDir, Token, Alnum
  <2>2. CASE h # NoHome
    <3>1. <<Other, "config">> \in Seq(Token)
      BY DEF Token, Alnum
    <3> QED BY <2>2, <3>1, Joined, HomeIsText DEF GenDir
  <2> QED BY <2>1, <2>2
<1>4. <<Hash, Newline, Hash, Newline, Newline>> \in Seq(Token)
  BY DEF Token
<1> QED BY <1>1, <1>2, <1>3, <1>4, Joined DEF Generated

LEMMA CInit == CfgInit => CInv
<1> SUFFICES ASSUME CfgInit PROVE CInv
  OBVIOUS
<1>1. conf = [sanity |-> conf.sanity, level |-> conf.level, datadir |-> conf.datadir]
  BY DEF CfgInit, DefaultConf
<1>2. <<>> \in Seq({At(p) : p \in DOMAIN file})
  OBVIOUS
<1> QED BY <1>1, <1>2 DEF CfgInit, CInv, FirstLineWins

\* The file is not written while main reads it, so what is known of a list
\* stays so.
LEMMA StartStep == ASSUME CInv, StartMain PROVE CInv'
<1>1. file' = file /\ list' = list /\ conf' = conf /\ pos' = pos /\ env' = env
  BY DEF StartMain
<1>2. {At(p) : p \in DOMAIN file}' = {At(p) : p \in DOMAIN file}
  BY <1>1, SameFile
<1>3. pc' \in {"gen", "load"} /\ (pc' = "load" => file \in Seq(Token)) /\ pc = "off"
  BY DEF StartMain, CInv
<1>4. FirstLineWins'
  BY <1>3 DEF FirstLineWins
<1> QED BY <1>1, <1>2, <1>3, <1>4 DEF CInv

LEMMA GenOpenStep == ASSUME CInv, GenOpen PROVE CInv'
<1>1. list' = <<>> /\ conf' = conf /\ conf = DefaultConf /\ pos' = 1 /\ env' = env
  BY DEF GenOpen, CInv
<1>2. <<>> \in Seq({At(p) : p \in DOMAIN file}')
  OBVIOUS
<1>3. \/ pc' = "failed" /\ file' = file
      \/ pc' = "write" /\ file' \in Seq(Token)
  <2>1. <<>> \in Seq(Token)
    OBVIOUS
  <2> QED BY <2>1 DEF GenOpen
<1>4. FirstLineWins'
  BY <1>3 DEF FirstLineWins
<1> QED BY <1>1, <1>2, <1>3, <1>4 DEF CInv

LEMMA GenCloseStep == ASSUME CInv, GenClose PROVE CInv'
<1>1. list' = <<>> /\ conf' = conf /\ conf = DefaultConf /\ pos' = 1 /\ env' = env /\ pc' = "load"
  BY DEF GenClose, CInv
<1>2. <<>> \in Seq({At(p) : p \in DOMAIN file}')
  OBVIOUS
<1>3. file' \in Seq(Token)
  <2>1. env.home \in Homes
    BY DEF CInv
  <2>2. PICK g \in Seq(Token) : g = Generated(env.home)
    BY <2>1, GeneratedIsText
  <2>3. PICK n \in 0 .. Len(g) : file' = SubSeq(g, 1, n)
    BY <2>2 DEF GenClose
  <2> QED BY <2>3, PartOfText
<1>4. FirstLineWins'
  BY <1>1 DEF FirstLineWins
<1> QED BY <1>1, <1>2, <1>3, <1>4 DEF CInv

LEMMA LoadStep == ASSUME CInv, Load PROVE CInv'
<1>1. /\ file' = file /\ list' = list /\ conf' = conf /\ pos' = pos /\ env' = env
      /\ list = <<>> /\ conf = DefaultConf /\ pos = 1 /\ file \in Seq(Token)
      /\ pc' \in {"read", "failed"}
  BY DEF Load, CInv
<1>2. {At(p) : p \in DOMAIN file}' = {At(p) : p \in DOMAIN file}
  BY <1>1, SameFile
<1>3. pos' \in 1 .. Len(file') + 1
  BY <1>1
<1>4. Begins(pos)'
  <2>1. LastNewline(1) = 0
    <3>1. LastNewline(1) \in 0 .. 1 - 1
      BY LastNewlineIs
    <3> QED BY <3>1
  <2>2. 0 % LineMax = 0
    BY LineMaxAssumption
  <2>3. Begins(1)
    BY <2>1, <2>2, BeginsIs
  <2> QED BY <1>1, <2>3, SameFile
<1>5. ASSUME NEW key \in Keys PROVE ListedSoFar(key)'
  BY <1>1 DEF ListedSoFar, NoneListed
<1>6. FirstLineWins'
  BY <1>1 DEF FirstLineWins
<1> QED BY <1>1, <1>2, <1>3, <1>4, <1>5, <1>6 DEF CInv

LEMMA LoadLineStep == ASSUME CInv, LoadLine PROVE CInv'
<1> DEFINE S == {At(p) : p \in DOMAIN file}
           n == Len(Line(file, pos))
<1>1. /\ file' = file /\ conf' = conf /\ env' = env /\ pc' \in {"read", "refused"} /\ pc = "read"
      /\ pos \in 1 .. Len(file) /\ pos' = pos + n
      /\ conf = DefaultConf /\ file \in Seq(Token) /\ list \in Seq(S) /\ Begins(pos)
      /\ list' = IF IsEntry(At(pos)) THEN <<At(pos)>> \o list ELSE list
  BY DEF LoadLine, CInv, At, AppendEntry
<1>2. S' = S
  BY <1>1, SameFile
<1>3. At(pos) \in S
  BY <1>1
<1>4. pos' \in 1 .. Len(file') + 1
  BY <1>1, LineIs
<1>5. pos' <= Len(file') => Begins(pos')
  BY <1>1, LinesAbut
<1>6. pos' <= Len(file') => Begins(pos)'
  BY <1>1, <1>5 DEF Begins
<1>7. list' \in Seq(S)
  <2> HIDE DEF S
  <2> QED BY <1>1, <1>3, Prepended
<1>8. pc' = "read" => \A key \in Keys : ListedSoFar(key)'
  BY ReadKeepsOrder
<1>9. FirstLineWins'
  BY <1>1 DEF FirstLineWins
<1>10. /\ env.home \in Homes
       /\ conf = [sanity |-> conf.sanity, level |-> conf.level, datadir |-> conf.datadir]
  BY DEF CInv
<1> QED BY <1>1, <1>2, <1>4, <1>6, <1>7, <1>8, <1>9, <1>10 DEF CInv

LEMMA LoadEndStep == ASSUME CInv, LoadEnd PROVE CInv'
<1>1. /\ file' = file /\ list' = list /\ conf' = conf /\ env' = env
      /\ pc' = "iter" /\ pc = "read"
  BY DEF LoadEnd
<1>2. {At(p) : p \in DOMAIN file}' = {At(p) : p \in DOMAIN file}
  BY <1>1, SameFile
<1>3. \A key \in Keys : Decided(key)'
  BY ReadIsDecided
<1>4. FirstLineWins'
  BY <1>1 DEF FirstLineWins
<1> QED BY <1>1, <1>2, <1>3, <1>4 DEF CInv

LEMMA IterStep == ASSUME CInv, IterConfigMain PROVE CInv'
<1>1. /\ file' = file /\ env' = env /\ pc' = "iter" /\ pc = "iter"
      /\ list # <<>> /\ list' = Tail(list)
  BY DEF IterConfigMain
<1>2. {At(p) : p \in DOMAIN file}' = {At(p) : p \in DOMAIN file}
  BY <1>1, SameFile
<1>3. PICK S : S = {At(p) : p \in DOMAIN file}
  OBVIOUS
<1>4. list' \in Seq(S)
  <2>1. list \in Seq(S)
    BY <1>3 DEF CInv
  <2> QED BY <1>1, <2>1
<1>5. conf' = [sanity |-> conf.sanity, level |-> conf.level, datadir |-> conf.datadir]'
  <2>1. conf = [sanity |-> conf.sanity, level |-> conf.level, datadir |-> conf.datadir]
    BY DEF CInv
  <2> QED BY <2>1 DEF IterConfigMain
<1>6. \A key \in Keys : Decided(key)'
  BY IterKeepsDecided
<1>7. FirstLineWins'
  BY <1>1 DEF FirstLineWins
<1>8. file \in Seq(Token) /\ env.home \in Homes
  BY <1>1 DEF CInv
<1> QED BY <1>1, <1>2, <1>3, <1>4, <1>5, <1>6, <1>7, <1>8 DEF CInv

\* Where main comes up, the list has been gone through, and the directory that
\* it puts together has more tokens than the key that a file would leave there.
LEMMA DefaultDirStep == ASSUME CInv, DefaultDir PROVE CInv'
<1>1. /\ file' = file /\ list' = list /\ env' = env /\ pc = "iter" /\ list = <<>>
      /\ pc' \in {"up", "crashed"}
      /\ file \in Seq(Token) /\ env.home \in Homes
      /\ conf = [sanity |-> conf.sanity, level |-> conf.level, datadir |-> conf.datadir]
      /\ \A key \in Keys : Decided(key)
  BY DEF DefaultDir, CInv
<1>2. {At(p) : p \in DOMAIN file}' = {At(p) : p \in DOMAIN file}
  BY <1>1, SameFile
<1>3. ASSUME NEW key \in Keys PROVE Taken(key, FirstValue(key))
  <2>1. ~\E i \in 1 .. Len(list) : LastFor(key, i) /\ list[i].val = FirstValue(key)
    BY <1>1
  <2> QED BY <1>1, <2>1 DEF Decided
<1>4. /\ conf.sanity = (FirstValue(CheckKey) \in {Null, One})
      /\ conf.level = FirstValue(LevelKey)
      /\ conf.datadir = IF FirstValue(DirKey) # Null THEN DirKey ELSE Null
  BY <1>3 DEF Taken, Keys
<1>5. PICK d : d = IF env.home = NoHome THEN Null \o <<Other, "mnet">>
                   ELSE env.home \o <<Other, "mnet">>
  OBVIOUS
<1>6. d # DirKey
  <2>1. \A x, y : <<x, y>> \in Seq({x, y}) /\ Len(<<x, y>>) = 2
    OBVIOUS
  <2>2. Len(DirKey) = 1
    BY DEF DirKey
  <2>3. CASE env.home = NoHome
    <3>1. Len(d) = 3
      BY <1>5, <2>3 DEF Null
    <3> QED BY <2>2, <3>1
  <2>4. CASE env.home # NoHome
    <3>1. PICK t \in Seq({Other, "mnet"}) : t = <<Other, "mnet">> /\ Len(t) = 2
      BY <2>1
    <3>2. PICK h \in Seq(Token) : h = env.home
      BY <1>1, <2>4, HomeIsText
    <3>3. Len(h \o t) = Len(h) + Len(t) /\ Len(h) \in Nat
      OBVIOUS
    <3>4. d = h \o t
      BY <1>5, <2>4, <3>1, <3>2
    <3>5. Len(d) # 1
      BY <3>1, <3>3, <3>4
    <3> QED BY <2>2, <3>5
  <2> QED BY <2>3, <2>4
<1>7. \/ conf' = conf /\ (pc' = "crashed" => conf.datadir = Null /\ env.root)
      \/ conf.datadir = Null /\ pc' = "up" /\ conf' = [conf EXCEPT !.datadir = d]
  BY <1>5 DEF DefaultDir
<1>8. /\ conf'.sanity = conf.sanity /\ conf'.level = conf.level
      /\ (conf'.datadir = DirKey) = (FirstValue(DirKey) # Null)
      /\ pc' = "crashed" => FirstValue(DirKey) = Null /\ env.root
      /\ conf' = [sanity |-> conf'.sanity, level |-> conf'.level, datadir |-> conf'.datadir]
  <2>1. CASE conf' = conf /\ (pc' = "crashed" => conf.datadir = Null /\ env.root)
    BY <1>1, <1>4, <2>1, KeysDiffer
  <2>2. CASE conf.datadir = Null /\ pc' = "up" /\ conf' = [conf EXCEPT !.datadir = d]
    <3>1. conf' = [sanity |-> conf.sanity, level |-> conf.level, datadir |-> d]
      BY <1>1, <2>2
    <3> QED BY <1>4, <1>6, <2>2, <3>1, KeysDiffer
  <2> QED BY <1>7, <2>1, <2>2
<1>9. FirstLineWins'
  <2>1. \A key : FirstValue(key)' = FirstValue(key)
    BY <1>1, SameFile
  <2>2. /\ conf'.sanity = (FirstValue(CheckKey)' \in {Null, One})
        /\ conf'.level = FirstValue(LevelKey)'
        /\ (conf'.datadir = DirKey) = (FirstValue(DirKey)' # Null)
        /\ pc' = "crashed" => FirstValue(DirKey)' = Null /\ env'.root
    BY <1>1, <1>4, <1>8, <2>1
  <2> QED BY <2>2 DEF FirstLineWins
<1>10. list \in Seq({At(p) : p \in DOMAIN file})
  BY <1>1
<1> QED BY <1>1, <1>2, <1>8, <1>9, <1>10 DEF CInv

LEMMA ExitStep == ASSUME CInv, Exit PROVE CInv'
<1>1. /\ file' = file /\ env' = env /\ list' = <<>> /\ conf' = DefaultConf
      /\ pos' = 1 /\ pc' = "off"
  BY DEF Exit
<1>2. <<>> \in Seq({At(p) : p \in DOMAIN file}')
  OBVIOUS
<1>3. FirstLineWins'
  BY <1>1 DEF FirstLineWins
<1>4. conf' = [sanity |-> conf.sanity, level |-> conf.level, datadir |-> conf.datadir]'
  BY <1>1 DEF DefaultConf
<1>5. env.home \in Homes /\ (file = Absent \/ file \in Seq(Token))
  BY DEF CInv
<1> QED BY <1>1, <1>2, <1>3, <1>4, <1>5 DEF CInv

LEMMA EditStep == ASSUME CInv, NEW c \in Chunks, Edit(c) PROVE CInv'
<1>1. /\ env' = env /\ list' = <<>> /\ conf' = conf /\ conf = DefaultConf
      /\ pos' = 1 /\ pc' = pc /\ pc \in {"off", "gen"}
  BY DEF Edit, CInv
<1>2. <<>> \in Seq({At(p) : p \in DOMAIN file}')
  OBVIOUS
<1>3. file' \in Seq(Token)
  <2>1. c \in Seq(Token)
    BY TextAssumption
  <2>2. PICK s \in Seq(Token) : file' = s \o c
    <3>1. <<>> \in Seq(Token)
      OBVIOUS
    <3> QED BY <3>1 DEF Edit, CInv
  <2> QED BY <2>1, <2>2
<1>4. FirstLineWins'
  BY <1>1 DEF FirstLineWins
<1> QED BY <1>1, <1>2, <1>3, <1>4 DEF CInv

LEMMA StutterStep == ASSUME CInv, UNCHANGED cfgvars PROVE CInv'
<1>1. /\ file' = file /\ env' = env /\ list' = list /\ conf' = conf /\ pos' = pos /\ pc' = pc
  BY DEF cfgvars
<1>2. {At(p) : p \in DOMAIN file}' = {At(p) : p \in DOMAIN file}
  BY <1>1, SameFile
<1>3. pc' = "read" => \A key \in Keys : ListedSoFar(key)'
  <2> SUFFICES ASSUME pc = "read", NEW key \in Keys PROVE ListedSoFar(key)'
    BY <1>1
  <2>1. ListedSoFar(key)
    BY DEF CInv
  <2>2. /\ \A p : Gives(key, p)' = Gives(key, p) /\ FirstFor(key, p)' = FirstFor(key, p)
        /\ \A p : At(p)' = At(p)
    BY <1>1, SameFile
  <2>3. /\ NoneListed(key)' = NoneListed(key) /\ \A i : LastFor(key, i)' = LastFor(key, i)
    BY <1>1 DEF NoneListed, LastFor
  <2> QED BY <1>1, <2>1, <2>2, <2>3 DEF ListedSoFar
<1>4. pc' = "iter" => \A key \in Keys : Decided(key)'
  <2> SUFFICES ASSUME pc = "iter", NEW key \in Keys PROVE Decided(key)'
    BY <1>1
  <2>1. Decided(key)
    BY DEF CInv
  <2>2. FirstValue(key)' = FirstValue(key)
    BY <1>1, SameFile
  <2>3. /\ NoneListed(key)' = NoneListed(key) /\ \A i : LastFor(key, i)' = LastFor(key, i)
    BY <1>1 DEF NoneListed, LastFor
  <2>4. Taken(key, FirstValue(key))' = Taken(key, FirstValue(key))
    BY <1>1, <2>2 DEF Taken
  <2> QED BY <1>1, <2>1, <2>2, <2>3, <2>4 DEF Decided
<1>5. FirstLineWins'
  <2>1. \A key : FirstValue(key)' = FirstValue(key)
    BY <1>1, SameFile
  <2> QED BY <1>1, <2>1 DEF FirstLineWins, CInv
<1>6. \A p : Begins(p)' = Begins(p)
  BY <1>1, SameFile
<1> QED BY <1>1, <1>2, <1>3, <1>4, <1>5, <1>6 DEF CInv

LEMMA CNext == CInv /\ [CfgNext]_cfgvars => CInv'
<1> SUFFICES ASSUME CInv, [CfgNext]_cfgvars PROVE CInv'
  OBVIOUS
<1>1. CASE StartMain
  BY <1>1, StartStep
<1>2. CASE GenOpen
  BY <1>2, GenOpenStep
<1>3. CASE GenClose
  BY <1>3, GenCloseStep
<1>4. CASE Load
  BY <1>4, LoadStep
<1>5. CASE LoadLine
  BY <1>5, LoadLineStep
<1>6. CASE LoadEnd
  BY <1>6, LoadEndStep
<1>7. CASE IterConfigMain
  BY <1>7, IterStep
<1>8. CASE DefaultDir
  BY <1>8, DefaultDirStep
<1>9. CASE Exit
  BY <1>9, ExitStep
<1>10. ASSUME NEW c \in Chunks, Edit(c) PROVE CInv'
  BY <1>10, EditStep
<1>11. CASE UNCHANGED cfgvars
  BY <1>11, StutterStep
<1> QED BY <1>1, <1>2, <1>3, <1>4, <1>5, <1>6, <1>7, <1>8, <1>9, <1>10, <1>11 DEF CfgNext

\* Of several lines for a key the one first in the file decides, and a key
\* without a line keeps the program's default: the lines of any file, cut by a
\* line buffer of any length, are appended at the head of the list by
\* mnet_config_append_entry and gone through from there by iter_config_main.
THEOREM FirstLineDecides == CfgSpec => []FirstLineWins
<1>1. CInv => FirstLineWins
  BY DEF CInv
<1> QED BY <1>1, CInit, CNext, PTL DEF CfgSpec

=============================================================================
