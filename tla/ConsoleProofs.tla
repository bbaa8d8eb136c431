---------------------------- MODULE ConsoleProofs ----------------------------
(***************************************************************************)
(* What the console does with what is typed, for every set of characters,  *)
(* every user and every program: the emulator leaves at the CtrlCExitCount *)
(* last ^Cs in a row and not before, and the line BDOS 10 has stored is    *)
(* what survives of its input.                                             *)
(*                                                                         *)
(* LineIsWhatSurvives counts, for each character, what came after it; the  *)
(* code keeps only the text.  What relates them is a balance: after the    *)
(* i-th of n stored characters, n - i more were stored than deleted.       *)
(***************************************************************************)
EXTENDS Console, FiniteSetTheorems, FunctionTheorems, SequenceTheorems, TLAPS

---------------------------------------------------------------------------
(* Counting                                                                  *)

\* What a line stores.
Text == Printable \cup {CtrlC}

\* Count, Survives and Surviving of Console, for any sequence of characters.
CountIn(s, from, to, S) == Cardinality({j \in from..to : s[j] \in S})

Lives(s, k) ==
  /\ s[k] \in Text
  /\ \A j \in (k + 1)..Len(s) :
       /\ s[j] # CtrlU
       /\ CountIn(s, k + 1, j, {Del}) <= CountIn(s, k + 1, j, Text)

Living(s, from) == {k \in (from + 1)..Len(s) : Lives(s, k)}

\* One element more adds at most one.
LEMMA OneMoreAtMost ==
  ASSUME NEW T, IsFiniteSet(T), NEW e, NEW n \in Nat, Cardinality(T) <= n
  PROVE  IsFiniteSet(T \cup {e}) /\ Cardinality(T \cup {e}) <= n + 1
<1>1. Cardinality(T) \in Nat
  BY FS_CardinalityType
<1>2. IsFiniteSet(T \cup {e})
      /\ Cardinality(T \cup {e}) = IF e \in T THEN Cardinality(T) ELSE Cardinality(T) + 1
  BY FS_AddElement
<1>3. QED  BY <1>1, <1>2

\* The special characters differ, and none is text but ^C.
LEMMA Distinct ==
  /\ CtrlU \notin Text /\ Del \notin Text /\ CtrlU # Del /\ CtrlC # CtrlU /\ CtrlC # Del
  /\ NoChar # CtrlC /\ NoChar \notin Char
<1> DEFINE S == {CtrlC, CtrlU, CtrlZ, Del, Cr, Lf}
<1>1. Cardinality(S) = 6 /\ S \cap (Printable \cup Other) = {} /\ NoChar \notin Char
  BY ConsoleAssumption
<1>2. ASSUME NEW u, NEW v, NEW w, NEW x, NEW y
      PROVE  Cardinality({u, v, w, x, y}) <= 5
  <2>2. IsFiniteSet({u}) /\ Cardinality({u}) <= 1
    BY FS_Singleton
  <2>3. IsFiniteSet({u, v}) /\ Cardinality({u, v}) <= 2
    <3>1. {u, v} = {u} \cup {v}
      OBVIOUS
    <3>2. QED  BY <2>2, <3>1, OneMoreAtMost, 1 + 1 = 2
  <2>4. IsFiniteSet({u, v, w}) /\ Cardinality({u, v, w}) <= 3
    <3>1. {u, v, w} = {u, v} \cup {w}
      OBVIOUS
    <3>2. IsFiniteSet({u, v} \cup {w}) /\ Cardinality({u, v} \cup {w}) <= 2 + 1
      BY <2>3, OneMoreAtMost, 2 \in Nat
    <3>3. QED  BY <3>1, <3>2
  <2>5. IsFiniteSet({u, v, w, x}) /\ Cardinality({u, v, w, x}) <= 4
    <3>1. {u, v, w, x} = {u, v, w} \cup {x}
      OBVIOUS
    <3>2. IsFiniteSet({u, v, w} \cup {x}) /\ Cardinality({u, v, w} \cup {x}) <= 3 + 1
      BY <2>4, OneMoreAtMost, 3 \in Nat
    <3>3. QED  BY <3>1, <3>2
  <2>6. {u, v, w, x, y} = {u, v, w, x} \cup {y}
    OBVIOUS
  <2>7. QED  BY <2>5, <2>6, OneMoreAtMost, 4 + 1 = 5
<1>3. CtrlU # Del
  <2>1. CtrlU = Del => S = {CtrlC, CtrlU, CtrlZ, Cr, Lf}
    OBVIOUS
  <2>2. Cardinality({CtrlC, CtrlU, CtrlZ, Cr, Lf}) <= 5
    BY <1>2
  <2> HIDE DEF S
  <2>3. QED  BY <1>1, <2>1, <2>2
<1>4. CtrlC # CtrlU
  <2>1. CtrlC = CtrlU => S = {CtrlC, CtrlZ, Del, Cr, Lf}
    OBVIOUS
  <2>2. Cardinality({CtrlC, CtrlZ, Del, Cr, Lf}) <= 5
    BY <1>2
  <2> HIDE DEF S
  <2>3. QED  BY <1>1, <2>1, <2>2
<1>5. CtrlC # Del
  <2>1. CtrlC = Del => S = {CtrlC, CtrlU, CtrlZ, Cr, Lf}
    OBVIOUS
  <2>2. Cardinality({CtrlC, CtrlU, CtrlZ, Cr, Lf}) <= 5
    BY <1>2
  <2> HIDE DEF S
  <2>3. QED  BY <1>1, <2>1, <2>2
<1>6. QED  BY <1>1, <1>3, <1>4, <1>5 DEF Text, Char

\* Counting over one more character.
LEMMA CountAppend ==
  ASSUME NEW s \in Seq(Char \cup {NoChar}), NEW c, NEW S, NEW from \in Nat \ {0}
  PROVE  /\ \A to \in 0..Len(s) : /\ CountIn(s, from, to, S) \in Nat
                                  /\ CountIn(Append(s, c), from, to, S) = CountIn(s, from, to, S)
         /\ from <= Len(s) + 1 =>
              CountIn(Append(s, c), from, Len(s) + 1, S)
                = CountIn(s, from, Len(s), S) + (IF c \in S THEN 1 ELSE 0)
         /\ \A to \in Nat : to < from => CountIn(s, from, to, S) = 0
<1> DEFINE n == Len(s)
           t == Append(s, c)
           A(to) == {j \in from..to : s[j] \in S}
           B(to) == {j \in from..to : t[j] \in S}
<1>0. n \in Nat /\ DOMAIN s = 1..n /\ Len(t) = n + 1 /\ t[n + 1] = c
      /\ \A j \in 1..n : t[j] = s[j]
  BY LenProperties, AppendProperties
<1>1. ASSUME NEW to \in Nat  PROVE IsFiniteSet(A(to)) /\ Cardinality(A(to)) \in Nat
  <2>1. IsFiniteSet(from..to)
    BY FS_Interval
  <2>2. QED  BY <2>1, FS_Subset, FS_CardinalityType
<1>2. ASSUME NEW to \in 0..n  PROVE A(to) = B(to)
  BY <1>0
<1>3. ASSUME from <= n + 1
      PROVE  /\ c \in S => B(n + 1) = A(n) \cup {n + 1}
             /\ c \notin S => B(n + 1) = A(n)
  BY <1>0, <1>3
<1>4. n + 1 \notin A(n)
  BY <1>0
<1>5. ASSUME NEW to \in Nat, to < from  PROVE A(to) = {}
  BY <1>5
<1>6. /\ \A to \in 0..n : /\ CountIn(s, from, to, S) = Cardinality(A(to))
                          /\ CountIn(t, from, to, S) = Cardinality(B(to))
      /\ CountIn(t, from, n + 1, S) = Cardinality(B(n + 1))
      /\ CountIn(s, from, n, S) = Cardinality(A(n))
      /\ \A to \in Nat : CountIn(s, from, to, S) = Cardinality(A(to))
  BY DEF CountIn
<1>7. \A to \in 0..n : to \in Nat
  BY <1>0
<1> HIDE DEF A, B, n, t
<1>8. from <= n + 1 =>
        CountIn(t, from, n + 1, S) = CountIn(s, from, n, S) + (IF c \in S THEN 1 ELSE 0)
  <2>1. IsFiniteSet(A(n)) /\ Cardinality(A(n)) \in Nat
    BY <1>0, <1>1
  <2>2. Cardinality(A(n) \cup {n + 1}) = Cardinality(A(n)) + 1
    BY <2>1, <1>4, FS_AddElement
  <2>3. c \in S /\ from <= n + 1 => CountIn(t, from, n + 1, S) = CountIn(s, from, n, S) + 1
    BY <1>3, <1>6, <2>2
  <2>4. c \notin S /\ from <= n + 1 => CountIn(t, from, n + 1, S) = CountIn(s, from, n, S)
    BY <1>3, <1>6
  <2>5. CountIn(s, from, n, S) \in Nat
    BY <1>6, <2>1
  <2>6. QED  BY <2>3, <2>4, <2>5
<1>9. \A to \in 0..n : /\ CountIn(s, from, to, S) \in Nat
                       /\ CountIn(t, from, to, S) = CountIn(s, from, to, S)
  BY <1>1, <1>2, <1>6, <1>7
<1>10. \A to \in Nat : to < from => CountIn(s, from, to, S) = 0
  BY <1>5, <1>6, FS_EmptySet
<1>11. QED  BY <1>8, <1>9, <1>10 DEF n, t

\* How many more characters than deletions follow position k.
Surplus(s, k) == CountIn(s, k + 1, Len(s), Text) - CountIn(s, k + 1, Len(s), {Del})

\* What c does to it.
Change(c) == IF c \in Text THEN 1 ELSE IF c = Del THEN -1 ELSE 0

\* What lives after one more character.
LEMMA LivesNext ==
  ASSUME NEW s \in Seq(Char \cup {NoChar}), NEW c, NEW k \in 1..Len(s)
  PROVE  /\ Surplus(s, k) \in Int
         /\ Surplus(Append(s, c), k) = Surplus(s, k) + Change(c)
         /\ Lives(Append(s, c), k)
              <=> (Lives(s, k) /\ c # CtrlU /\ Surplus(Append(s, c), k) >= 0)
<1> DEFINE n == Len(s)
           t == Append(s, c)
           C(j) == CountIn(s, k + 1, j, Text)
           D(j) == CountIn(s, k + 1, j, {Del})
           CT(j) == CountIn(t, k + 1, j, Text)
           DT(j) == CountIn(t, k + 1, j, {Del})
<1>0. n \in Nat /\ Len(t) = n + 1 /\ t[n + 1] = c /\ k \in 1..n
      /\ \A j \in 1..n : t[j] = s[j]
  BY LenProperties, AppendProperties
<1>1. k + 1 \in Nat \ {0} /\ k + 1 <= n + 1
  BY <1>0
<1>a. ASSUME NEW S
      PROVE  /\ \A j \in 0..n : /\ CountIn(s, k + 1, j, S) \in Nat
                                /\ CountIn(t, k + 1, j, S) = CountIn(s, k + 1, j, S)
             /\ CountIn(t, k + 1, n + 1, S) = CountIn(s, k + 1, n, S) + (IF c \in S THEN 1 ELSE 0)
  BY <1>1, CountAppend
<1>2. /\ \A j \in 0..n : C(j) \in Nat /\ CT(j) = C(j)
      /\ CT(n + 1) = C(n) + (IF c \in Text THEN 1 ELSE 0)
  BY <1>a
<1>3. /\ \A j \in 0..n : D(j) \in Nat /\ DT(j) = D(j)
      /\ DT(n + 1) = D(n) + (IF c \in {Del} THEN 1 ELSE 0)
  BY ONLY <1>a
<1>4. /\ Surplus(s, k) = C(n) - D(n)
      /\ Surplus(t, k) = CT(n + 1) - DT(n + 1)
  BY <1>0 DEF Surplus
<1>5. /\ Lives(s, k) <=> s[k] \in Text /\ \A j \in (k + 1)..n : s[j] # CtrlU /\ D(j) <= C(j)
      /\ Lives(t, k) <=> t[k] \in Text /\ \A j \in (k + 1)..(n + 1) : t[j] # CtrlU /\ DT(j) <= CT(j)
  BY <1>0 DEF Lives
<1> HIDE DEF C, D, CT, DT, n, t
<1>6. C(n) \in Nat /\ D(n) \in Nat /\ CT(n + 1) \in Nat /\ DT(n + 1) \in Nat
  BY SMTT(30), <1>0, <1>2, <1>3
<1>7. Surplus(s, k) \in Int /\ Surplus(t, k) = Surplus(s, k) + Change(c)
  <2>1. c \in Text => c # Del
    BY Distinct
  <2>2. QED  BY <1>2, <1>3, <1>4, <1>6, <2>1 DEF Change
<1>8. DT(n + 1) <= CT(n + 1) <=> Surplus(t, k) >= 0
  BY <1>4, <1>6
<1>9. ASSUME NEW j \in (k + 1)..n
      PROVE  (t[j] # CtrlU /\ DT(j) <= CT(j)) <=> (s[j] # CtrlU /\ D(j) <= C(j))
  <2>1. j \in 1..n /\ j \in 0..n
    BY <1>0
  <2>2. QED  BY <2>1, <1>0, <1>2, <1>3
<1>10. Lives(t, k) => Lives(s, k) /\ c # CtrlU /\ Surplus(t, k) >= 0
  <2>1. \A j \in (k + 1)..n : j \in (k + 1)..(n + 1)
    BY <1>0
  <2>2. n + 1 \in (k + 1)..(n + 1) /\ t[k] = s[k]
    BY <1>0
  <2>3. QED  BY <1>0, <1>5, <1>8, <1>9, <2>1, <2>2
<1>11. Lives(s, k) /\ c # CtrlU /\ Surplus(t, k) >= 0 => Lives(t, k)
  <2>1. ASSUME NEW j \in (k + 1)..(n + 1)  PROVE j \in (k + 1)..n \/ j = n + 1
    BY <1>0
  <2>2. t[k] = s[k]
    BY <1>0
  <2>3. QED  BY <1>0, <1>5, <1>8, <1>9, <2>1, <2>2
<1>12. QED  BY <1>7, <1>10, <1>11 DEF t

\* The new character lives if a line stores it.
LEMMA LivesLast ==
  ASSUME NEW s \in Seq(Char \cup {NoChar}), NEW c
  PROVE  /\ Surplus(Append(s, c), Len(s) + 1) = 0
         /\ Lives(Append(s, c), Len(s) + 1) <=> c \in Text
<1> DEFINE n == Len(s)
           t == Append(s, c)
<1>0. n \in Nat /\ Len(t) = n + 1 /\ t[n + 1] = c
  BY LenProperties, AppendProperties
<1>1. (n + 1 + 1)..(n + 1) = {}
  BY <1>0
<1>2. \A S : CountIn(t, n + 1 + 1, n + 1, S) = 0
  <2>1. \A S : {j \in (n + 1 + 1)..(n + 1) : t[j] \in S} = {}
    BY <1>1
  <2>2. QED  BY <2>1, FS_EmptySet DEF CountIn
<1>3. Surplus(t, n + 1) = CountIn(t, n + 1 + 1, n + 1, Text) - CountIn(t, n + 1 + 1, n + 1, {Del})
  BY <1>0 DEF Surplus
<1>4. Lives(t, n + 1) <=> c \in Text
  BY <1>0, <1>1 DEF Lives
<1> HIDE DEF n, t
<1>5. Surplus(t, n + 1) = 0
  BY <1>2, <1>3
<1>6. QED  BY <1>4, <1>5 DEF n, t

---------------------------------------------------------------------------
(* The stored text                                                           *)

\* The text of a line is what lives of its input, in order; after the i-th of n
\* characters, n - i more were stored than deleted.
Explained(s, from, text, pos) ==
  /\ pos \in [1..Len(text) -> Living(s, from)]
  /\ \A k \in Living(s, from) : \E i \in 1..Len(text) : pos[i] = k
  /\ \A i, j \in 1..Len(text) : i < j => pos[i] < pos[j]
  /\ \A i \in 1..Len(text) : text[i] = s[pos[i]] /\ Surplus(s, pos[i]) = Len(text) - i

\* Explained, with the length of the text named.
LEMMA ExplainedBy ==
  ASSUME NEW s, NEW from, NEW text, NEW m, m = Len(text), NEW p \in [1..m -> Living(s, from)],
         \A k \in Living(s, from) : \E i \in 1..m : p[i] = k,
         \A i, j \in 1..m : i < j => p[i] < p[j],
         \A i \in 1..m : text[i] = s[p[i]] /\ Surplus(s, p[i]) = m - i
  PROVE  Explained(s, from, text, p)
BY DEF Explained

\* A character that a line stores is the last that lives.
LEMMA StoreExplained ==
  ASSUME NEW s \in Seq(Char \cup {NoChar}), NEW c \in Text, NEW from \in 0..Len(s),
         NEW text \in Seq(Char), NEW pos, Explained(s, from, text, pos)
  PROVE  \E p : Explained(Append(s, c), from, Append(text, c), p)
<1> DEFINE n == Len(s)
           t == Append(s, c)
           m == Len(text)
           p == [i \in 1..(m + 1) |-> IF i = m + 1 THEN n + 1 ELSE pos[i]]
           new == Append(text, c)
<1>0. /\ n \in Nat /\ Len(t) = n + 1 /\ t[n + 1] = c /\ from \in Nat /\ from <= n
      /\ \A j \in 1..n : t[j] = s[j]
      /\ m \in Nat /\ Len(new) = m + 1 /\ new[m + 1] = c
      /\ \A j \in 1..m : new[j] = text[j]
  BY LenProperties, AppendProperties
<1>1. /\ pos \in [1..m -> Living(s, from)]
      /\ \A k \in Living(s, from) : \E i \in 1..m : pos[i] = k
      /\ \A i, j \in 1..m : i < j => pos[i] < pos[j]
      /\ \A i \in 1..m : text[i] = s[pos[i]] /\ Surplus(s, pos[i]) = m - i
  BY DEF Explained
<1>2. Living(s, from) = {k \in (from + 1)..n : Lives(s, k)}
      /\ Living(t, from) = {k \in (from + 1)..(n + 1) : Lives(t, k)}
  BY <1>0 DEF Living
<1>3. c # CtrlU /\ Change(c) = 1
  BY Distinct DEF Change
<1>4. \A k \in 1..n : /\ Surplus(t, k) = Surplus(s, k) + 1 /\ Surplus(s, k) \in Int
                      /\ Lives(t, k) <=> (Lives(s, k) /\ Surplus(t, k) >= 0)
  BY <1>3, LivesNext
<1>5. Surplus(t, n + 1) = 0 /\ Lives(t, n + 1)
  BY LivesLast
<1>6. /\ p \in [1..(m + 1) -> Nat \cup Living(s, from)] /\ p[m + 1] = n + 1
      /\ \A i \in 1..m : p[i] = pos[i]
  BY <1>0, <1>1
<1> HIDE DEF n, t, m, p, new
<1>7. ASSUME NEW i \in 1..m
      PROVE  pos[i] \in 1..n /\ pos[i] \in Living(t, from) /\ Surplus(t, pos[i]) = (m + 1) - i
  <2>1. pos[i] \in (from + 1)..n /\ Lives(s, pos[i]) /\ Surplus(s, pos[i]) = m - i
    BY <1>1, <1>2
  <2>2. pos[i] \in 1..n /\ pos[i] \in (from + 1)..(n + 1)
    BY <2>1, <1>0
  <2>3. Surplus(t, pos[i]) = (m + 1) - i /\ (m + 1) - i >= 0
    BY <2>1, <2>2, <1>0, <1>4
  <2>4. QED  BY <2>1, <2>2, <2>3, <1>2, <1>4
<1>8. n + 1 \in Living(t, from)
  BY <1>0, <1>2, <1>5
<1>9. \A i \in 1..(m + 1) : i \in 1..m \/ i = m + 1
  BY <1>0
<1>10. p \in [1..(m + 1) -> Living(t, from)]
  BY <1>6, <1>7, <1>8, <1>9
<1>11. ASSUME NEW k \in Living(t, from)  PROVE \E i \in 1..(m + 1) : p[i] = k
  <2>1. CASE k = n + 1
    BY <2>1, <1>0, <1>6
  <2>2. CASE k # n + 1
    <3>1. k \in 1..n /\ k \in Living(s, from)
      BY <2>2, <1>0, <1>2, <1>4
    <3>2. PICK i \in 1..m : pos[i] = k
      BY <3>1, <1>1
    <3>3. i \in 1..(m + 1)
      BY <1>0
    <3>4. QED  BY <3>2, <3>3, <1>6
  <2>3. QED  BY <2>1, <2>2
<1>12. ASSUME NEW i \in 1..(m + 1), NEW j \in 1..(m + 1), i < j  PROVE p[i] < p[j]
  <2>1. i \in 1..m
    BY <1>0, <1>12
  <2>2. CASE j = m + 1
    <3>1. pos[i] < n + 1
      BY <2>1, <1>0, <1>7
    <3>2. QED  BY <2>1, <2>2, <3>1, <1>6
  <2>3. CASE j \in 1..m
    BY <2>1, <2>3, <1>1, <1>6, <1>12
  <2>4. QED  BY <2>2, <2>3, <1>9
<1>13. ASSUME NEW i \in 1..(m + 1)  PROVE new[i] = t[p[i]] /\ Surplus(t, p[i]) = (m + 1) - i
  <2>1. CASE i = m + 1
    BY <2>1, <1>0, <1>5, <1>6
  <2>2. CASE i \in 1..m
    <3>1. pos[i] \in 1..n /\ Surplus(t, pos[i]) = (m + 1) - i /\ p[i] = pos[i]
      BY <2>2, <1>6, <1>7
    <3>2. new[i] = text[i] /\ text[i] = s[pos[i]]
      BY <2>2, <1>0, <1>1
    <3>3. QED  BY <3>1, <3>2, <1>0
  <2>3. QED  BY <2>1, <2>2, <1>9
<1>14. Explained(t, from, new, p)
  <2> DEFINE q == m + 1
  <2>1. q = Len(new) /\ p \in [1..q -> Living(t, from)]
    BY <1>0, <1>10
  <2>2. \A i, j \in 1..q : i < j => p[i] < p[j]
    BY <1>12
  <2>3. \A k \in Living(t, from) : \E i \in 1..q : p[i] = k
    BY <1>11
  <2>4. \A i \in 1..q : new[i] = t[p[i]] /\ Surplus(t, p[i]) = q - i
    BY <1>13
  <2> HIDE DEF q
  <2>5. QED  BY <2>1, <2>2, <2>3, <2>4, ExplainedBy
<1>15. QED  BY <1>14 DEF t, new

\* A text without its last character.
LEMMA WithoutLast ==
  ASSUME NEW text \in Seq(Char), text # <<>>
  PROVE  /\ Len(SubSeq(text, 1, Len(text) - 1)) = Len(text) - 1
         /\ \A i \in 1..(Len(text) - 1) : SubSeq(text, 1, Len(text) - 1)[i] = text[i]
<1>1. Len(text) \in Nat /\ Len(text) # 0
  BY EmptySeq, LenProperties
<1> DEFINE n == Len(text) - 1
<1>2. n \in Nat /\ \A i \in 1..n : text[i] \in Char
  BY <1>1, ElementOfSeq
<1> HIDE DEF n
<1>3. /\ Len(SubSeq(text, 1, n)) = IF 1 <= n THEN (n - 1) + 1 ELSE 0
      /\ \A i \in 1..((n - 1) + 1) : SubSeq(text, 1, n)[i] = text[1 + (i - 1)]
  BY <1>2, SubSeqProperties
<1>4. \A i \in 1..n : i \in 1..((n - 1) + 1) /\ 1 + (i - 1) = i
  BY <1>2
<1>5. Len(SubSeq(text, 1, n)) = n
  BY <1>2, <1>3
<1>6. \A i \in 1..n : SubSeq(text, 1, n)[i] = text[i]
  BY <1>3, <1>4
<1>7. QED  BY <1>5, <1>6 DEF n

\* A deletion takes the last that lives, ^U all, and other characters none.
LEMMA OtherExplained ==
  ASSUME NEW s \in Seq(Char \cup {NoChar}), NEW c, c \notin Text, NEW from \in 0..Len(s),
         NEW text \in Seq(Char), NEW pos, Explained(s, from, text, pos)
  PROVE  \E p : Explained(Append(s, c), from, Stored(text, c), p)
<1> DEFINE n == Len(s)
           t == Append(s, c)
           m == Len(text)
           new == Stored(text, c)
           q == Len(new)
           p == [i \in 1..q |-> pos[i]]
           d == IF c = Del THEN 1 ELSE 0
<1>0. /\ n \in Nat /\ Len(t) = n + 1 /\ t[n + 1] = c /\ from \in Nat /\ from <= n
      /\ \A j \in 1..n : t[j] = s[j]
      /\ m \in Nat
  BY LenProperties, AppendProperties
<1>1. /\ pos \in [1..m -> Living(s, from)]
      /\ \A k \in Living(s, from) : \E i \in 1..m : pos[i] = k
      /\ \A i, j \in 1..m : i < j => pos[i] < pos[j]
      /\ \A i \in 1..m : text[i] = s[pos[i]] /\ Surplus(s, pos[i]) = m - i
  BY DEF Explained
<1>2. Living(s, from) = {k \in (from + 1)..n : Lives(s, k)}
      /\ Living(t, from) = {k \in (from + 1)..(n + 1) : Lives(t, k)}
  BY <1>0 DEF Living
<1>3. /\ q \in Nat /\ q <= m /\ \A i \in 1..q : new[i] = text[i]
      /\ c = CtrlU => q = 0
      /\ c = Del => q = (IF m = 0 THEN 0 ELSE m - 1)
      /\ c # CtrlU /\ c # Del => q = m
  <2>0. c \notin Printable \cup {CtrlC}
    BY DEF Text
  <2>1. CASE c = CtrlU
    <3>1. new = <<>>
      BY <2>0, <2>1, Distinct DEF Stored
    <3>2. QED  BY <2>1, <3>1, <1>0, Distinct, EmptySeq
  <2>2. CASE c = Del /\ text # <<>>
    <3>1. new = SubSeq(text, 1, m - 1)
      BY <2>0, <2>2, Distinct DEF Stored
    <3>2. m > 0
      BY <2>2, EmptySeq, <1>0
    <3>3. Len(new) = m - 1 /\ \A i \in 1..(m - 1) : new[i] = text[i]
      BY <2>2, <3>1, WithoutLast
    <3>4. QED  BY <2>2, <3>2, <3>3, <1>0, Distinct
  <2>3. CASE c # CtrlU /\ ~(c = Del /\ text # <<>>)
    <3>1. new = text
      BY <2>0, <2>3 DEF Stored
    <3>2. c = Del => m = 0
      BY <2>3, EmptySeq
    <3>3. QED  BY <2>3, <3>1, <3>2, <1>0
  <2>4. QED  BY <2>1, <2>2, <2>3
<1>4. ASSUME NEW k \in 1..n
      PROVE  /\ Surplus(t, k) = Surplus(s, k) - d /\ Surplus(s, k) \in Int
             /\ Lives(t, k) <=> (Lives(s, k) /\ c # CtrlU /\ Surplus(t, k) >= 0)
  <2>1. Change(c) = 0 - d
    BY DEF Change
  <2>2. d \in {0, 1}
    OBVIOUS
  <2> HIDE DEF d
  <2>3. /\ Surplus(t, k) = Surplus(s, k) + Change(c) /\ Surplus(s, k) \in Int
        /\ Lives(t, k) <=> (Lives(s, k) /\ c # CtrlU /\ Surplus(t, k) >= 0)
    BY LivesNext
  <2>4. QED  BY <2>1, <2>2, <2>3
<1>5. ~Lives(t, n + 1)
  BY LivesLast
<1>6. p \in [1..q -> Living(s, from)] /\ \A i \in 1..q : p[i] = pos[i] /\ i \in 1..m
  BY <1>0, <1>1, <1>3
<1>7. d \in {0, 1} /\ (d = 1 <=> c = Del)
  OBVIOUS
<1> HIDE DEF n, t, m, p, new, q, d
<1>8. ASSUME NEW i \in 1..m
      PROVE  /\ pos[i] \in 1..n /\ Surplus(t, pos[i]) = (m - i) - d
             /\ pos[i] \in Living(t, from) <=> i <= q
  <2>1. pos[i] \in (from + 1)..n /\ Lives(s, pos[i]) /\ Surplus(s, pos[i]) = m - i
    BY <1>1, <1>2
  <2>2. pos[i] \in 1..n /\ pos[i] \in (from + 1)..(n + 1)
    BY <2>1, <1>0
  <2>3. Surplus(t, pos[i]) = (m - i) - d
    BY <2>1, <2>2, <1>4
  <2>4. (c # CtrlU /\ (m - i) - d >= 0) <=> i <= q
    BY <1>0, <1>3, <1>7, Distinct
  <2>5. pos[i] \in Living(t, from) <=> (c # CtrlU /\ (m - i) - d >= 0)
    BY <2>1, <2>2, <2>3, <1>2, <1>4
  <2>6. QED  BY <2>2, <2>3, <2>4, <2>5
<1>9. p \in [1..q -> Living(t, from)]
  <2>1. \A i \in 1..q : p[i] \in Living(t, from)
    BY <1>3, <1>6, <1>8
  <2>2. QED  BY <2>1, <1>6
<1>10. ASSUME NEW k \in Living(t, from)  PROVE \E i \in 1..q : p[i] = k
  <2>1. k \in Living(s, from)
    BY SMTT(30), <1>0, <1>2, <1>4, <1>5
  <2>2. PICK i \in 1..m : pos[i] = k
    BY <2>1, <1>1
  <2>3. i \in 1..q
    BY <2>2, <1>0, <1>3, <1>8
  <2>4. QED  BY <2>2, <2>3, <1>6
<1>11. \A i, j \in 1..q : i < j => p[i] < p[j]
  BY <1>1, <1>6
<1>12. ASSUME NEW i \in 1..q  PROVE new[i] = t[p[i]] /\ Surplus(t, p[i]) = q - i
  <2>1. i \in 1..m /\ p[i] = pos[i] /\ pos[i] \in 1..n /\ Surplus(t, pos[i]) = (m - i) - d
    BY <1>6, <1>8
  <2>2. new[i] = text[i] /\ text[i] = s[pos[i]]
    BY <2>1, <1>1, <1>3
  <2>3. (m - i) - d = q - i
    BY <2>1, <1>0, <1>3, <1>7, Distinct
  <2>4. QED  BY <2>1, <2>2, <2>3, <1>0
<1>13. Explained(t, from, new, p)
  <2>1. q = Len(new)
    BY DEF q
  <2>2. QED  BY <2>1, <1>9, <1>10, <1>11, <1>12, ExplainedBy
<1>14. QED  BY <1>13 DEF t, new

\* Positions in increasing order are as many as there are.
LEMMA RankIs ==
  ASSUME NEW m \in Nat, NEW T \in SUBSET Nat, NEW pos \in [1..m -> T],
         \A k \in T : \E i \in 1..m : pos[i] = k,
         \A i, j \in 1..m : i < j => pos[i] < pos[j], NEW i \in 0..m
  PROVE  i > 0 => Cardinality({k \in T : k <= pos[i]}) = i
<1> SUFFICES ASSUME i > 0  PROVE Cardinality({k \in T : k <= pos[i]}) = i
  OBVIOUS
<1> DEFINE K == {k \in T : k <= pos[i]}
           f == [h \in 1..i |-> pos[h]]
<1>1. i \in 1..m /\ \A h \in 1..i : h \in 1..m
  OBVIOUS
<1>2. \A h \in 1..m : pos[h] \in T /\ pos[h] \in Nat
  OBVIOUS
<1>3. ASSUME NEW h \in 1..m  PROVE pos[h] <= pos[i] <=> h <= i
  <2>1. CASE h = i
    BY <2>1, <1>1, <1>2
  <2>2. CASE h < i
    BY <2>2, <1>1, <1>2
  <2>3. CASE i < h
    BY <2>3, <1>1, <1>2
  <2>4. QED  BY <2>1, <2>2, <2>3, <1>1
<1>4. f \in [1..i -> K]
  BY <1>1, <1>2, <1>3
<1>5. \A h, l \in 1..i : f[h] = f[l] => h = l
  <2>1. ASSUME NEW h \in 1..i, NEW l \in 1..i, h < l
        PROVE  f[h] < f[l] /\ f[h] \in Nat /\ f[l] \in Nat
    BY <1>1, <1>2, <2>1
  <2> HIDE DEF f
  <2>2. ASSUME NEW h \in 1..i, NEW l \in 1..i, f[h] = f[l]  PROVE h = l
    BY <2>1, <2>2
  <2>3. QED  BY <2>2
<1>6. ASSUME NEW k \in K  PROVE \E h \in 1..i : f[h] = k
  <2>1. PICK h \in 1..m : pos[h] = k
    OBVIOUS
  <2>2. h \in 1..i /\ f[h] = k
    BY <2>1, <1>3
  <2>3. QED  BY <2>2
<1>7. f \in Bijection(1..i, K)
  <2> HIDE DEF f, K
  <2>1. QED  BY <1>4, <1>5, <1>6, Fun_IsBij
<1>8. ExistsBijection(1..i, K)
  BY <1>7 DEF ExistsBijection
<1>9. IsFiniteSet(1..i) /\ Cardinality(1..i) = i
  BY FS_Interval
<1> HIDE DEF K
<1>10. Cardinality(K) = Cardinality(1..i)
  BY <1>8, <1>9, FS_Bijection
<1>11. QED  BY <1>9, <1>10 DEF K

\* The elements of s at the positions of T, in order.
InOrder(s, T) ==
  [i \in 1..Cardinality(T) |-> s[CHOOSE k \in T : Cardinality({j \in T : j <= k}) = i]]

\* A text that is explained is what LineIsWhatSurvives says.
LEMMA ExplainedText ==
  ASSUME NEW s \in Seq(Char \cup {NoChar}), NEW from \in 0..Len(s), NEW text \in Seq(Char), NEW pos,
         Explained(s, from, text, pos), NEW T, T = Living(s, from)
  PROVE  text = InOrder(s, T)
<1> DEFINE m == Len(text)
           Rank(k) == Cardinality({j \in T : j <= k})
<1>1. /\ pos \in [1..m -> T] /\ \A k \in T : \E i \in 1..m : pos[i] = k
      /\ \A i, j \in 1..m : i < j => pos[i] < pos[j]
      /\ \A i \in 1..m : text[i] = s[pos[i]]
  BY DEF Explained
<1>2. T \in SUBSET Nat
  BY LenProperties DEF Living
<1>3. text = [i \in 1..m |-> text[i]] /\ m \in Nat
  BY LenProperties
<1> HIDE DEF m
<1>4. ASSUME NEW i \in 1..m  PROVE Rank(pos[i]) = i
  <2>1. i \in 0..m /\ i > 0
    BY <1>3
  <2>2. QED  BY <1>1, <1>2, <1>3, <2>1, RankIs
<1>5. Cardinality(T) = m
  <2>1. CASE m = 0
    <3>1. T = {}
      BY <2>1, <1>1
    <3>2. QED  BY <2>1, <3>1, FS_EmptySet
  <2>2. CASE m # 0
    <3>1. m \in 1..m /\ \A i \in 1..m : i < m \/ i = m
      BY <2>2, <1>3
    <3>2. ASSUME NEW k \in T  PROVE k <= pos[m]
      <4>1. PICK i \in 1..m : pos[i] = k
        BY <1>1
      <4>2. CASE i = m
        BY <4>1, <4>2, <1>2
      <4>3. CASE i < m
        <5>1. pos[i] < pos[m]
          BY <4>3, <3>1, <1>1
        <5>2. pos[m] \in Nat /\ k \in Nat
          BY <3>1, <1>1, <1>2
        <5>3. QED  BY <4>1, <5>1, <5>2
      <4>4. QED  BY <4>2, <4>3, <3>1
    <3>3. {j \in T : j <= pos[m]} = T
      BY <3>2
    <3>4. QED  BY <3>1, <3>3, <1>4
  <2>3. QED  BY <2>1, <2>2
<1>6. ASSUME NEW i \in 1..m  PROVE (CHOOSE k \in T : Rank(k) = i) = pos[i]
  <2>1. pos[i] \in T /\ Rank(pos[i]) = i
    BY <1>1, <1>4
  <2>2. ASSUME NEW k \in T, Rank(k) = i  PROVE k = pos[i]
    <3>1. PICK h \in 1..m : pos[h] = k
      BY <1>1
    <3>2. Rank(pos[h]) = h
      BY <1>4
    <3>3. QED  BY <2>2, <3>1, <3>2
  <2> HIDE DEF Rank
  <2>3. QED  BY <2>1, <2>2
<1>7. [i \in 1..m |-> text[i]] = [i \in 1..m |-> s[CHOOSE k \in T : Rank(k) = i]]
  <2> HIDE DEF Rank
  <2>1. QED  BY <1>1, <1>6
<1>8. text = [i \in 1..Cardinality(T) |-> s[CHOOSE k \in T : Rank(k) = i]]
  BY <1>3, <1>5, <1>7
<1>9. QED  BY <1>8 DEF InOrder

\* The line that is read is explained by what was consumed since it began.
LineExplained ==
  line # NoLine =>
    /\ line \in Line /\ line.from <= Len(consumed) /\ Len(line.text) < line.max
    /\ \E pos : Explained(consumed, line.from, line.text, pos)

\* The ^Cs at the end of what was consumed are as many as were counted.
Counted ==
  /\ consecutive \in 0..Len(consumed)
  /\ \A j \in (Len(consumed) - consecutive + 1)..Len(consumed) : consumed[j] = CtrlC
  /\ consecutive < Len(consumed) => consumed[Len(consumed) - consecutive] # CtrlC
  /\ running <=> consecutive < CtrlCExitCount

---------------------------------------------------------------------------
(* The invariant                                                             *)

ConsoleInv == TypeOK /\ Counted /\ LineExplained

\* Nothing is typed, counted or read at first.
LEMMA InitInv == ProgramInit => ConsoleInv
<1> SUFFICES ASSUME ProgramInit  PROVE ConsoleInv
  OBVIOUS
<1> USE DEF ProgramInit, ConsoleInit
<1>1. TypeOK
  <2>1. <<>> \in Seq(Char) /\ <<>> \in Seq(Char \cup {NoChar})
    BY EmptySeq
  <2>2. 0 \in 0..CtrlCExitCount
    BY ConsoleAssumption
  <2>3. QED  BY <2>1, <2>2 DEF TypeOK
<1>2. Counted
  BY ConsoleAssumption DEF Counted
<1>3. LineExplained
  BY DEF LineExplained
<1>4. QED  BY <1>1, <1>2, <1>3 DEF ConsoleInv

\* What getchar and the count of ^Cs leave.
LEMMA GetCharType ==
  ASSUME TypeOK, Counted, GetChar, running
  PROVE  /\ arrived' \in Seq(Char) /\ fetched' \in Seq(Char) /\ closed' \in BOOLEAN
         /\ consumed' \in Seq(Char \cup {NoChar}) /\ NextChar \in Char \cup {NoChar}
         /\ consecutive' \in 0..CtrlCExitCount /\ running' \in BOOLEAN
         /\ Delivered(CtrlZ) \in Char /\ Delivered(Nul) \in Char \cup {Nul}
         /\ NextChar # NoChar => consumed' = Append(consumed, NextChar)
<1>1. arrived \in Seq(Char) /\ fetched \in Seq(Char) /\ consumed \in Seq(Char \cup {NoChar})
      /\ consecutive \in 0..CtrlCExitCount /\ closed \in BOOLEAN
  BY DEF TypeOK
<1>2. NextChar \in Char \cup {NoChar}
  BY <1>1, HeadTailProperties DEF NextChar
<1>3. arrived' \in Seq(Char) /\ fetched' \in Seq(Char) /\ closed' \in BOOLEAN
  BY <1>1, HeadTailProperties, EmptySeq DEF GetChar
<1>4. consumed' \in Seq(Char \cup {NoChar})
  BY <1>1, <1>2, AppendProperties DEF GetChar
<1>5. consecutive < CtrlCExitCount /\ CtrlCExitCount \in Nat
  BY ConsoleAssumption DEF Counted
<1>6. consecutive' = IF NextChar = CtrlC THEN consecutive + 1 ELSE 0
  BY DEF GetChar, CheckCtrlC
<1>7. consecutive' \in 0..CtrlCExitCount
  BY <1>1, <1>5, <1>6
<1>8. running' \in BOOLEAN
  BY DEF GetChar, CheckCtrlC
<1>9. CtrlZ \in Char /\ Cr \in Char
  BY DEF Char
<1>10. Delivered(CtrlZ) \in Char /\ Delivered(Nul) \in Char \cup {Nul}
  BY <1>2, <1>9 DEF Delivered
<1>11. NextChar # NoChar => consumed' = Append(consumed, NextChar)
  BY DEF GetChar
<1>12. QED  BY <1>2, <1>3, <1>4, <1>7, <1>8, <1>10, <1>11

\* The count keeps up with what is taken, whatever call takes it.
LEMMA GetCharCounted ==
  ASSUME TypeOK, Counted, GetChar, running
  PROVE  Counted'
<1> DEFINE n == Len(consumed)
<1>1. /\ consumed \in Seq(Char \cup {NoChar}) /\ n \in Nat /\ consecutive \in 0..n
      /\ \A j \in (n - consecutive + 1)..n : consumed[j] = CtrlC
      /\ consecutive < n => consumed[n - consecutive] # CtrlC
  BY LenProperties DEF TypeOK, Counted
<1>2. /\ consecutive' = IF NextChar = CtrlC THEN consecutive + 1 ELSE 0
      /\ running' = (consecutive' < CtrlCExitCount)
  BY DEF GetChar, CheckCtrlC
<1>3. CASE consumed' = Append(consumed, NextChar)
  <2>1. Len(consumed') = n + 1 /\ consumed'[n + 1] = NextChar
        /\ \A j \in 1..n : consumed'[j] = consumed[j]
    BY <1>1, <1>3, AppendProperties
  <2>2. CASE NextChar = CtrlC
    <3>1. consecutive' = consecutive + 1
      BY <1>2, <2>2
    <3>2. ASSUME NEW j \in ((n + 1) - (consecutive + 1) + 1)..(n + 1)  PROVE consumed'[j] = CtrlC
      <4>1. j = n + 1 \/ (j \in (n - consecutive + 1)..n /\ j \in 1..n)
        BY <1>1
      <4>2. QED  BY <4>1, <1>1, <2>1, <2>2
    <3>3. consecutive + 1 < n + 1 => consumed'[(n + 1) - (consecutive + 1)] # CtrlC
      <4>1. consecutive + 1 < n + 1 => /\ (n + 1) - (consecutive + 1) = n - consecutive
                                       /\ n - consecutive \in 1..n /\ consecutive < n
        BY <1>1
      <4>2. QED  BY <4>1, <1>1, <2>1
    <3>4. consecutive + 1 \in 0..(n + 1)
      BY <1>1
    <3>5. QED  BY <1>2, <2>1, <3>1, <3>2, <3>3, <3>4 DEF Counted
  <2>3. CASE NextChar # CtrlC
    <3>1. consecutive' = 0
      BY <1>2, <2>3
    <3>2. ((n + 1) - 0 + 1)..(n + 1) = {} /\ (n + 1) - 0 = n + 1 /\ 0 \in 0..(n + 1)
      BY <1>1
    <3>3. QED  BY <1>2, <2>1, <2>3, <3>1, <3>2 DEF Counted
  <2>4. QED  BY <2>2, <2>3
<1>4. CASE consumed' # Append(consumed, NextChar)
  <2>1. NextChar = NoChar /\ consumed # <<>> /\ consumed[n] = NoChar /\ consumed' = consumed
    BY <1>4 DEF GetChar
  <2>2. consecutive' = 0 /\ NoChar # CtrlC
    BY <1>2, <2>1, Distinct
  <2>3. (n - 0 + 1)..n = {} /\ n - 0 = n /\ 0 \in 0..n
    BY <1>1
  <2>4. QED  BY <1>2, <2>1, <2>2, <2>3 DEF Counted
<1>5. QED  BY <1>3, <1>4

\* A call that takes a character while no line is read.
LEMMA ReadInv ==
  ASSUME ConsoleInv, Calling, GetChar, a' \in Char \cup {Nul}, line' = line
  PROVE  ConsoleInv'
<1>1. TypeOK /\ Counted /\ running /\ line = NoLine
  BY DEF ConsoleInv, Calling
<1>2. TypeOK'
  BY <1>1, GetCharType DEF TypeOK
<1>3. Counted'
  BY <1>1, GetCharCounted
<1>4. LineExplained'
  BY <1>1 DEF LineExplained
<1>5. QED  BY <1>2, <1>3, <1>4 DEF ConsoleInv

\* A step that takes nothing leaves the count and the line as they are.
LEMMA NothingTaken ==
  ASSUME ConsoleInv, UNCHANGED <<consumed, consecutive, running, line>>, TypeOK'
  PROVE  ConsoleInv'
<1>1. Counted'
  BY DEF ConsoleInv, Counted
<1>2. LineExplained'
  BY DEF ConsoleInv, LineExplained
<1>3. QED  BY <1>1, <1>2 DEF ConsoleInv

\* A line begins with nothing stored and nothing to explain.
LEMMA StartInv ==
  ASSUME ConsoleInv, NEW max \in LineMax, StartLine(max)
  PROVE  ConsoleInv'
<1>1. TypeOK /\ Counted /\ LineExplained /\ max \in Nat
  BY ConsoleAssumption DEF ConsoleInv
<1>2. CASE max = 0
  <2>1. UNCHANGED <<input, consumed, consecutive, running, line>> /\ a' = NotReady
    BY <1>2 DEF StartLine
  <2>2. TypeOK'
    BY <1>1, <2>1 DEF TypeOK, input
  <2>3. QED  BY <2>1, <2>2, NothingTaken
<1>3. CASE max > 0
  <2>1. /\ UNCHANGED <<input, consumed, consecutive, running>> /\ a' = a
        /\ line' = [max |-> max, text |-> <<>>, from |-> Len(consumed)]
    BY <1>1, <1>3 DEF StartLine
  <2>2. Len(consumed) \in Nat /\ <<>> \in Seq(Char) /\ Len(<<>>) = 0
    BY <1>1, LenProperties, EmptySeq DEF TypeOK
  <2>3. /\ line' \in Line /\ line'.max = max /\ line'.text = <<>>
        /\ line'.from = Len(consumed)
    BY <2>1, <2>2 DEF Line
  <2>4. TypeOK'
    BY <1>1, <2>1, <2>3 DEF TypeOK, input
  <2>5. Counted'
    BY <1>1, <2>1 DEF Counted
  <2>6. Living(consumed, Len(consumed)) = {}
    BY <2>2 DEF Living
  <2>7. Explained(consumed, Len(consumed), <<>>, <<>>)
    <3>1. <<>> \in [1..0 -> Living(consumed, Len(consumed))]
      OBVIOUS
    <3>2. QED  BY <2>2, <2>6, <3>1, ExplainedBy
  <2>8. line'.from <= Len(consumed') /\ Len(line'.text) < line'.max
    BY <1>3, <2>1, <2>2, <2>3
  <2>9. Explained(consumed', line'.from, line'.text, <<>>)
    BY <2>1, <2>3, <2>7
  <2>10. LineExplained'
    BY <2>3, <2>8, <2>9 DEF LineExplained
  <2>11. QED  BY <2>4, <2>5, <2>10 DEF ConsoleInv
<1>4. QED  BY <1>1, <1>2, <1>3

\* One turn of the loop that reads a line.
LEMMA EditInv ==
  ASSUME ConsoleInv, EditLine
  PROVE  ConsoleInv'
<1> DEFINE c == NextChar
           text == Stored(line.text, c)
           ends == EndsLine(c) \/ Len(text) = line.max
<1>1. /\ TypeOK /\ Counted /\ running /\ GetChar /\ line # NoLine
      /\ line' = IF ends THEN NoLine ELSE [line EXCEPT !.text = text]
      /\ a' = IF ends THEN NotReady ELSE a
  BY DEF ConsoleInv, EditLine
<1>2. /\ line \in Line /\ line.from <= Len(consumed) /\ Len(line.text) < line.max
      /\ \E pos : Explained(consumed, line.from, line.text, pos)
  BY <1>1 DEF ConsoleInv, LineExplained
<1>3. /\ line.max \in LineMax /\ line.max \in Nat /\ line.text \in Seq(Char) /\ line.from \in Nat
  BY <1>2, ConsoleAssumption DEF Line
<1>4. /\ consumed \in Seq(Char \cup {NoChar}) /\ Len(consumed) \in Nat
      /\ line.from \in 0..Len(consumed) /\ Len(line.text) \in Nat
  BY <1>1, <1>2, <1>3, LenProperties DEF TypeOK
<1>5. Counted'
  BY <1>1, GetCharCounted
<1>6. ~ends => /\ c \in Char /\ c # NoChar /\ consumed' = Append(consumed, c)
  BY <1>1, GetCharType DEF EndsLine
<1>7. ASSUME ~ends
      PROVE  /\ text \in Seq(Char) /\ Len(text) <= Len(line.text) + 1 /\ Len(text) \in Nat
             /\ \E p : Explained(Append(consumed, c), line.from, text, p)
  <2>0. PICK pos : Explained(consumed, line.from, line.text, pos)
    BY <1>2
  <2>1. CASE c \in Text
    <3>1. text = Append(line.text, c)
      BY <2>1 DEF Stored, Text
    <3>2. c \in Char
      BY <1>6, <1>7
    <3> HIDE DEF text, c, ends
    <3>3. text \in Seq(Char) /\ Len(text) = Len(line.text) + 1
      BY <1>3, <3>1, <3>2, AppendProperties
    <3>4. \E p : Explained(Append(consumed, c), line.from, text, p)
      BY <1>3, <1>4, <2>0, <2>1, <3>1, StoreExplained
    <3>5. QED  BY <1>4, <3>3, <3>4
  <2>2. CASE c \notin Text
    <3>1. text \in Seq(Char) /\ Len(text) <= Len(line.text) + 1 /\ Len(text) \in Nat
      <4>1. \/ text = line.text \/ text = <<>>
            \/ line.text # <<>> /\ text = SubSeq(line.text, 1, Len(line.text) - 1)
        BY <2>2 DEF Stored, Text
      <4> HIDE DEF text, c, ends
      <4>2. CASE text = line.text
        BY <4>2, <1>3, <1>4
      <4>3. CASE text = <<>>
        BY <4>3, <1>4, EmptySeq
      <4>4. CASE line.text # <<>> /\ text = SubSeq(line.text, 1, Len(line.text) - 1)
        <5>1. Len(text) = Len(line.text) - 1 /\ Len(line.text) # 0
          BY <4>4, <1>3, WithoutLast, EmptySeq
        <5>2. text \in Seq(Char)
          <6>1. \A i \in 1..(Len(line.text) - 1) : line.text[i] \in Char
            BY <1>3, <1>4, ElementOfSeq
          <6>2. 1 \in Int /\ Len(line.text) - 1 \in Int
            BY <1>4
          <6>3. QED  BY <4>4, <6>1, <6>2, SubSeqProperties
        <5>3. QED  BY <5>1, <5>2, <1>4
      <4>5. QED  BY <4>1, <4>2, <4>3, <4>4
    <3>2. \E p : Explained(Append(consumed, c), line.from, text, p)
      <4> HIDE DEF c
      <4>1. QED  BY <1>3, <1>4, <2>0, <2>2, OtherExplained
    <3>3. QED  BY <3>1, <3>2
  <2>3. QED  BY <2>1, <2>2
<1>8. TypeOK' /\ LineExplained'
  <2> HIDE DEF c, text
  <2>0. NotReady \in Char \cup {Nul, Ready, NotReady} /\ a \in Char \cup {Nul, Ready, NotReady}
    BY <1>1 DEF TypeOK
  <2>1. CASE ends
    <3>1. line' = NoLine /\ a' = NotReady
      BY <1>1, <2>1
    <3>2. LineExplained'
      BY <3>1 DEF LineExplained
    <3>3. TypeOK'
      BY <1>1, <2>0, <3>1, GetCharType DEF TypeOK
    <3>4. QED  BY <3>2, <3>3
  <2>2. CASE ~ends
    <3>1. line' = [line EXCEPT !.text = text] /\ a' = a
      BY <1>1, <2>2
    <3>2. /\ text \in Seq(Char) /\ Len(text) <= Len(line.text) + 1
          /\ Len(text) \in Nat /\ Len(text) # line.max
      BY <1>7, <2>2
    <3>3. line' \in Line /\ line'.max = line.max /\ line'.from = line.from /\ line'.text = text
      BY <1>2, <3>1, <3>2 DEF Line
    <3>4. TypeOK'
      BY <1>1, <2>0, <3>1, <3>3, GetCharType DEF TypeOK
    <3>5. Len(line'.text) < line'.max
      BY <3>2, <3>3, <1>2, <1>3, <1>4
    <3>6. Len(consumed') = Len(consumed) + 1
      BY <1>4, <1>6, <2>2, AppendProperties
    <3>7. line'.from <= Len(consumed')
      BY <1>4, <3>3, <3>6
    <3>8. \E p : Explained(consumed', line'.from, line'.text, p)
      BY <1>6, <1>7, <2>2, <3>3
    <3>9. LineExplained'
      BY <3>3, <3>5, <3>7, <3>8 DEF LineExplained
    <3>10. QED  BY <3>4, <3>9
  <2>3. QED  BY <2>1, <2>2
<1>9. QED  BY <1>5, <1>8 DEF ConsoleInv

\* The user takes nothing and changes no line.
LEMMA UserInv ==
  ASSUME ConsoleInv, UserStep
  PROVE  ConsoleInv'
<1>1. TypeOK /\ UNCHANGED <<fetched, consumed, consecutive, line, a, running>>
  BY DEF ConsoleInv, UserStep, CloseInput, Type
<1>2. closed' \in BOOLEAN /\ arrived' \in Seq(Char)
  <2>1. CASE CloseInput
    BY <2>1, <1>1 DEF CloseInput, TypeOK
  <2>2. ASSUME NEW c \in Keys, Type(c)  PROVE closed' \in BOOLEAN /\ arrived' \in Seq(Char)
    <3>1. c \in Char /\ arrived \in Seq(Char) /\ closed \in BOOLEAN
      BY <1>1, ConsoleAssumption DEF TypeOK
    <3>2. QED  BY <2>2, <3>1, AppendProperties DEF Type
  <2>3. QED  BY <2>1, <2>2 DEF UserStep
<1>3. TypeOK'
  BY <1>1, <1>2 DEF TypeOK
<1>4. QED  BY <1>1, <1>3, NothingTaken

\* Whatever call the program makes.
LEMMA ProgramInv ==
  ASSUME ConsoleInv, ProgramStep
  PROVE  ConsoleInv'
<1>0. TypeOK
  BY DEF ConsoleInv
<1>1. CASE ReadConsole
  <2>1. Calling /\ GetChar /\ a' = Delivered(CtrlZ) /\ line' = line
    BY <1>1 DEF ReadConsole
  <2>2. a' \in Char \cup {Nul}
    BY <2>1, GetCharType DEF ConsoleInv, Calling
  <2>3. QED  BY <2>1, <2>2, ReadInv
<1>2. CASE DirectInput
  <2>1. CASE HasData /\ GetChar /\ a' = Delivered(Nul)
    <3>1. Calling /\ line' = line
      BY <1>2 DEF DirectInput
    <3>2. a' \in Char \cup {Nul}
      BY <2>1, <3>1, GetCharType DEF ConsoleInv, Calling
    <3>3. QED  BY <2>1, <3>1, <3>2, ReadInv
  <2>2. CASE ~HasData /\ a' = Nul /\ UNCHANGED <<input, consumed, consecutive, running>>
    <3>1. line' = line
      BY <1>2 DEF DirectInput
    <3>2. TypeOK'
      BY <1>0, <2>2, <3>1 DEF TypeOK, input
    <3>3. QED  BY <2>2, <3>1, <3>2, NothingTaken
  <2>3. QED  BY <1>2, <2>1, <2>2 DEF DirectInput
<1>3. CASE Status
  <2>1. UNCHANGED <<input, consumed, consecutive, line, running>> /\ a' \in {Ready, NotReady}
    BY <1>3 DEF Status
  <2>2. TypeOK'
    BY <1>0, <2>1 DEF TypeOK, input
  <2>3. QED  BY <2>1, <2>2, NothingTaken
<1>4. CASE EditLine
  BY <1>4, EditInv
<1>5. ASSUME NEW max \in LineMax, StartLine(max)  PROVE ConsoleInv'
  BY <1>5, StartInv
<1>6. ReadConsole \/ DirectInput \/ Status \/ EditLine \/ \E max \in LineMax : StartLine(max)
  BY DEF ProgramStep, AnyCall
<1>7. QED  BY <1>1, <1>2, <1>3, <1>4, <1>5, <1>6

\* The invariant holds always.
LEMMA ConsoleInvHolds == ProgramSpec => []ConsoleInv
<1>1. ProgramInit => ConsoleInv
  BY InitInv
<1>2. ConsoleInv /\ [UserStep \/ ProgramStep]_pvars => ConsoleInv'
  <2> SUFFICES ASSUME ConsoleInv, [UserStep \/ ProgramStep]_pvars  PROVE ConsoleInv'
    OBVIOUS
  <2>1. CASE UserStep
    BY <2>1, UserInv
  <2>2. CASE ProgramStep
    BY <2>2, ProgramInv
  <2>3. CASE UNCHANGED pvars
    <3>1. UNCHANGED <<arrived, fetched, closed, consumed, consecutive, line, a, running>>
      BY <2>3 DEF pvars, consoleVars
    <3>2. TypeOK'
      BY <3>1 DEF ConsoleInv, TypeOK
    <3>3. QED  BY <3>1, <3>2, NothingTaken
  <2>4. QED  BY <2>1, <2>2, <2>3
<1>3. QED  BY <1>1, <1>2, PTL DEF ProgramSpec

---------------------------------------------------------------------------
(* The theorems                                                              *)

\* The emulator has left exactly when the last CtrlCExitCount characters it took, by
\* any mixture of calls, were ^C (141-155).
THEOREM FiveCtrlCExit == ProgramSpec => []ExitsAtFiveCtrlC
<1>1. ConsoleInv => ExitsAtFiveCtrlC
  <2> SUFFICES ASSUME ConsoleInv  PROVE ExitsAtFiveCtrlC
    OBVIOUS
  <2> DEFINE n == Len(consumed)
             K == {k \in DOMAIN consumed : \A j \in k..n : consumed[j] = CtrlC}
  <2>1. /\ n \in Nat /\ DOMAIN consumed = 1..n /\ consecutive \in 0..n
        /\ \A j \in (n - consecutive + 1)..n : consumed[j] = CtrlC
        /\ consecutive < n => consumed[n - consecutive] # CtrlC
        /\ running <=> consecutive < CtrlCExitCount
    BY LenProperties DEF ConsoleInv, TypeOK, Counted
  <2>2. ASSUME NEW k \in 1..n
        PROVE  (\A j \in k..n : consumed[j] = CtrlC) <=> k \in (n - consecutive + 1)..n
    <3>1. CASE k \in (n - consecutive + 1)..n
      <4>1. \A j \in k..n : j \in (n - consecutive + 1)..n
        BY <2>1, <3>1
      <4>2. QED  BY <2>1, <3>1, <4>1
    <3>2. CASE k \notin (n - consecutive + 1)..n
      <4>1. consecutive < n /\ n - consecutive \in k..n
        BY <2>1, <3>2
      <4>2. QED  BY <2>1, <3>2, <4>1
    <3>3. QED  BY <3>1, <3>2
  <2>3. \A k \in (n - consecutive + 1)..n : k \in 1..n
    BY <2>1
  <2>4. K = (n - consecutive + 1)..n
    BY <2>1, <2>2, <2>3
  <2>5. TrailingCtrlC = Cardinality(K)
    BY DEF TrailingCtrlC
  <2> HIDE DEF n, K
  <2>6. Cardinality(K) = consecutive
    <3>1. n - consecutive + 1 \in Int /\ n \in Int
      BY <2>1
    <3>2. Cardinality((n - consecutive + 1)..n)
          = IF n - consecutive + 1 > n THEN 0 ELSE n - (n - consecutive + 1) + 1
      BY <3>1, FS_Interval
    <3>3. QED  BY <2>1, <2>4, <3>2
  <2>7. QED  BY <2>1, <2>5, <2>6 DEF ExitsAtFiveCtrlC
<1>2. QED  BY <1>1, ConsoleInvHolds, PTL

\* The stored line is always what survives of the keys the user typed at it, in
\* order, and shorter than the program's buffer (1321-1402).
THEOREM LineIsExact == ProgramSpec => []LineIsWhatSurvives
<1>1. ConsoleInv => LineIsWhatSurvives
  <2> SUFFICES ASSUME ConsoleInv, line # NoLine
               PROVE  /\ line.text = [i \in 1..Cardinality(Surviving) |->
                           consumed[CHOOSE k \in Surviving :
                                      Cardinality({j \in Surviving : j <= k}) = i]]
                      /\ Len(line.text) < line.max
    BY DEF LineIsWhatSurvives
  <2>1. /\ line \in Line /\ line.from <= Len(consumed) /\ Len(line.text) < line.max
        /\ \E pos : Explained(consumed, line.from, line.text, pos)
    BY DEF ConsoleInv, LineExplained
  <2>2. /\ consumed \in Seq(Char \cup {NoChar}) /\ line.text \in Seq(Char)
        /\ line.from \in 0..Len(consumed)
    BY <2>1, LenProperties DEF ConsoleInv, TypeOK, Line
  <2>3. Surviving = Living(consumed, line.from)
    BY DEF Surviving, Survives, Count, Living, Lives, CountIn, Text
  <2>4. line.text = InOrder(consumed, Surviving)
    BY <2>1, <2>2, <2>3, ExplainedText
  <2>5. QED  BY <2>1, <2>4 DEF InOrder
<1>2. QED  BY <1>1, ConsoleInvHolds, PTL
=============================================================================
