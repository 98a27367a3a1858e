----------------------- MODULE ResponseHeadersProofs ------------------------
(***************************************************************************)
(* Theorems about ResponseHeaders, for any headers a server can send, any  *)
(* number of them, and any body.                                           *)
(*                                                                         *)
(* First what the pieces of text are: where a line is in the text of all   *)
(* lines, and where the parts of a header are in its line.  Then the       *)
(* invariants of the two back-ends.                                        *)
(***************************************************************************)
EXTENDS ResponseHeaders, Induction, SequenceTheorems

\* The characters, those the code looks for among them.
Marks == {":", " ", NUL, "HTTP/", "2", "0", "CR", "LF", "a"}
Char == STRING \cup Marks
Chars == Seq(Char)

-----------------------------------------------------------------------------
\* Where the parts of a text are.
LEMMA ConcatIs ==
  ASSUME NEW X, NEW s \in Seq(X), NEW t \in Seq(X), NEW u, u = s \o t
  PROVE  /\ u \in Seq(X)
         /\ Len(s) \in Nat /\ Len(t) \in Nat
         /\ Len(u) = Len(s) + Len(t)
         /\ \A i \in 1 .. Len(s) : u[i] = s[i]
         /\ \A j \in 1 .. Len(t) : u[Len(s) + j] = t[j]
<1>1. Len(s) \in Nat /\ Len(t) \in Nat
  BY LenProperties
<1>2. /\ u \in Seq(X) /\ Len(u) = Len(s) + Len(t)
      /\ \A i \in 1 .. Len(s) + Len(t) : u[i] = IF i <= Len(s) THEN s[i] ELSE t[i - Len(s)]
  BY ConcatProperties
<1>3. \A i \in 1 .. Len(s) : u[i] = s[i]
  BY <1>1, <1>2
<1>4. \A j \in 1 .. Len(t) : u[Len(s) + j] = t[j]
  <2>1. TAKE j \in 1 .. Len(t)
  <2> DEFINE i == Len(s) + j
  <2>2. i \in 1 .. Len(s) + Len(t) /\ ~ (i <= Len(s)) /\ i - Len(s) = j
    BY <1>1
  <2> HIDE DEF i
  <2>3. u[i] = t[j]
    BY <1>2, <2>2
  <2>4. QED
    BY <2>3 DEF i
<1>5. QED
  BY <1>1, <1>2, <1>3, <1>4

-----------------------------------------------------------------------------
\* The text of the first lines.
Firsts(lines) ==
  LET First[n \in 0 .. Len(lines)] == IF n = 0 THEN <<>> ELSE First[n - 1] \o lines[n]
  IN  First

\* Concat's recursion is well defined.
LEMMA FirstsDef ==
  ASSUME NEW X, NEW lines \in Seq(Seq(X))
  PROVE  /\ Firsts(lines) \in [0 .. Len(lines) -> Seq(X)]
         /\ Firsts(lines)[0] = <<>>
         /\ \A i \in 1 .. Len(lines) : Firsts(lines)[i] = Firsts(lines)[i - 1] \o lines[i]
         /\ Concat(lines) = Firsts(lines)[Len(lines)]
<1> DEFINE n == Len(lines)
           V == Seq(X)
           step == [i \in 1 .. n |-> [v \in V |-> v \o lines[i]]]
           Body(f) == [i \in 0 .. n |-> IF i = 0 THEN <<>> ELSE f[i - 1] \o lines[i]]
<1>1. n \in Nat /\ \A i \in 1 .. n : lines[i] \in V
  BY LenProperties, ElementOfSeq
<1>2. \A v, w \in V : v \o w \in V
  BY ConcatProperties
<1>3. \A i \in 1 .. n, v \in V : v \o lines[i] \in V
  BY <1>1, <1>2
<1> HIDE DEF V
<1>4. step \in [1 .. n -> [V -> V]]
  BY <1>3
<1>5. PICK f \in [0 .. n -> V] : f[0] = <<>> /\ \A i \in 1 .. n : f[i] = step[i][f[i - 1]]
  <2> DEFINE none == <<>>
  <2>1. none \in V
    BY EmptySeq DEF V
  <2>2. n \in Nat
    BY <1>1
  <2> HIDE DEF step, n, none
  <2>3. \E f \in [0 .. n -> V] : f[0] = none /\ \A i \in 1 .. n : f[i] = step[i][f[i - 1]]
    BY <1>4, <2>1, <2>2, Recursion
  <2>4. QED
    BY <2>3, Zenon DEF none
<1>6. \A i \in 1 .. n : f[i] = f[i - 1] \o lines[i]
  <2>1. TAKE i \in 1 .. n
  <2>2. f[i - 1] \in V
    <3>1. i - 1 \in 0 .. n
      BY <1>1
    <3> HIDE DEF n
    <3>2. QED
      BY <1>5, <3>1
  <2>3. QED
    BY <1>5, <2>2
<1>7. f = Body(f)
  <2>1. \A i \in 0 .. n : i = 0 \/ i \in 1 .. n
    BY <1>1
  <2> HIDE DEF step, n
  <2>2. QED
    BY <1>5, <1>6, <2>1
<1>8. Firsts(lines) = CHOOSE g : g = Body(g)
  BY Zenon DEF Firsts
<1>9. Firsts(lines) = Body(Firsts(lines))
  <2> HIDE DEF Body
  <2>1. QED
    BY <1>7, <1>8
<1> DEFINE J == Firsts(lines)
<1>10. J[0] = <<>> /\ \A i \in 1 .. n : J[i] = J[i - 1] \o lines[i]
  <2>1. J = [i \in 0 .. n |-> IF i = 0 THEN <<>> ELSE J[i - 1] \o lines[i]]
    BY <1>9
  <2> HIDE DEF J, n
  <2>2. QED
    BY <1>1, <2>1
<1>11. J \in [0 .. n -> V]
  <2> DEFINE S == {i \in Nat : i \in 0 .. n => J[i] \in V}
  <2>1. 0 \in S
    BY <1>10, EmptySeq DEF V
  <2>2. ASSUME NEW i \in Nat, i \in S PROVE i + 1 \in S
    <3> DEFINE j == i + 1
    <3>1. CASE j > n
      BY <1>1, <3>1
    <3>2. CASE j <= n
      <4>1. j - 1 = i /\ j \in 1 .. n /\ i \in 0 .. n
        BY <1>1, <3>2
      <4> HIDE DEF J, n, j
      <4>2. J[j - 1] \in V
        BY <2>2, <4>1
      <4>3. J[j] \in V
        BY <1>3, <1>10, <4>1, <4>2
      <4>4. QED
        BY <4>3 DEF j
    <3>3. QED
      BY <1>1, <3>1, <3>2
  <2>3. \A i \in Nat : i \in S
    <3> HIDE DEF S
    <3>1. QED
      BY <2>1, <2>2, Induct
  <2>4. \A i \in 0 .. n : J[i] \in V
    BY <2>3
  <2>5. J = [i \in 0 .. n |-> IF i = 0 THEN <<>> ELSE J[i - 1] \o lines[i]]
    BY <1>9
  <2> HIDE DEF J, n
  <2>6. QED
    BY <2>4, <2>5
<1>12. Concat(lines) = Firsts(lines)[n]
  BY Zenon DEF Concat, Firsts
<1>13. QED
  BY <1>10, <1>11, <1>12 DEF V

\* The text from one line on to the next.
LineAt(lines, k) ==
  /\ Len(Firsts(lines)[k]) = Len(Firsts(lines)[k - 1]) + Len(lines[k])
  /\ \A j \in 1 .. Len(lines[k]) : Concat(lines)[Len(Firsts(lines)[k - 1]) + j] = lines[k][j]

\* Each line follows the ones before it in the text.
THEOREM ConcatAt ==
  ASSUME NEW X, NEW lines \in Seq(Seq(X))
  PROVE  /\ Concat(lines) \in Seq(X)
         /\ Concat(lines) = Firsts(lines)[Len(lines)]
         /\ Firsts(lines)[0] = <<>>
         /\ \A k \in 0 .. Len(lines) :
              /\ Firsts(lines)[k] \in Seq(X)
              /\ Len(Firsts(lines)[k]) <= Len(Concat(lines))
         /\ \A k \in 1 .. Len(lines) : LineAt(lines, k)
<1> DEFINE n == Len(lines)
           J == Firsts(lines)
           V == Seq(X)
           L(k) == Len(J[k])
<1>1. /\ n \in Nat /\ J \in [0 .. n -> V] /\ J[0] = <<>> /\ Concat(lines) = J[n]
      /\ \A i \in 1 .. n : J[i] = J[i - 1] \o lines[i] /\ lines[i] \in V
  BY FirstsDef, LenProperties, ElementOfSeq
<1>2. /\ \A k \in 0 .. n : J[k] \in V /\ L(k) \in Nat
      /\ \A k \in 1 .. n : Len(lines[k]) \in Nat
  BY <1>1, LenProperties
<1>3. \A k \in 1 .. n :
        /\ L(k) = L(k - 1) + Len(lines[k])
        /\ \A i \in 1 .. L(k - 1) : J[k][i] = J[k - 1][i]
        /\ \A j \in 1 .. Len(lines[k]) : J[k][L(k - 1) + j] = lines[k][j]
  <2>1. TAKE k \in 1 .. n
  <2> DEFINE s == J[k - 1]
             t == lines[k]
             u == J[k]
  <2>2. k - 1 \in 0 .. n
    BY <1>1
  <2>3. s \in V /\ t \in V /\ u = s \o t
    BY <1>1, <1>2, <2>2
  <2> HIDE DEF s, t, u
  <2>4. /\ Len(u) = Len(s) + Len(t)
        /\ \A i \in 1 .. Len(s) : u[i] = s[i]
        /\ \A j \in 1 .. Len(t) : u[Len(s) + j] = t[j]
    BY <2>3, ConcatIs
  <2>5. QED
    BY <2>4 DEF s, t, u
<1> DEFINE S == {m \in Nat : m \in 0 .. n =>
                   \A k \in 0 .. m : L(k) <= L(m) /\ \A i \in 1 .. L(k) : J[m][i] = J[k][i]}
<1>4. 0 \in S
  <2>1. \A k \in 0 .. 0 : k = 0
    OBVIOUS
  <2>2. QED
    BY <1>1, <1>2, <2>1
<1>5. ASSUME NEW p \in Nat, p \in S PROVE p + 1 \in S
  <2> DEFINE m == p + 1
  <2>1. CASE m > n
    BY <1>1, <2>1
  <2>2. CASE m <= n
    <3>1. p \in 0 .. n /\ m \in 1 .. n /\ m - 1 = p
      BY <1>1, <2>2
    <3>2. \A k \in 0 .. p : L(k) <= L(p) /\ \A i \in 1 .. L(k) : J[p][i] = J[k][i]
      BY <1>5, <3>1
    <3>3. L(m) = L(p) + Len(lines[m]) /\ \A i \in 1 .. L(p) : J[m][i] = J[p][i]
      <4> HIDE DEF L, J, n, m
      <4>1. QED
        BY <1>3, <3>1
    <3>4. \A k \in 0 .. m : k \in 0 .. p \/ k = m
      OBVIOUS
    <3>5. L(m) \in Nat /\ L(p) \in Nat /\ L(p) <= L(m) /\ \A k \in 0 .. p : L(k) \in Nat
      <4> HIDE DEF L, J, n, m
      <4>1. m \in 0 .. n /\ Len(lines[m]) \in Nat /\ \A k \in 0 .. p : k \in 0 .. n
        BY <1>1, <1>2, <3>1
      <4>2. QED
        BY <1>2, <3>1, <3>3, <4>1
    <3> HIDE DEF L, J, n, m
    <3>6. ASSUME NEW k \in 0 .. p
          PROVE  L(k) <= L(m) /\ \A i \in 1 .. L(k) : J[m][i] = J[k][i]
      BY <3>2, <3>3, <3>5
    <3>7. \A k \in 0 .. m : L(k) <= L(m) /\ \A i \in 1 .. L(k) : J[m][i] = J[k][i]
      BY <3>4, <3>5, <3>6
    <3>8. m \in Nat
      BY <3>1, <1>1
    <3>9. m \in S
      BY <3>7, <3>8
    <3>10. QED
      BY <3>9 DEF m
  <2>3. QED
    BY <1>1, <2>1, <2>2
<1>6. \A k \in 0 .. n : L(k) <= L(n) /\ \A i \in 1 .. L(k) : J[n][i] = J[k][i]
  <2>1. n \in S
    <3> HIDE DEF S
    <3>1. QED
      BY <1>1, <1>4, <1>5, Induct
  <2>2. n \in 0 .. n
    BY <1>1
  <2>3. QED
    BY <2>1, <2>2
<1>7. \A k \in 1 .. n : \A j \in 1 .. Len(lines[k]) : J[n][L(k - 1) + j] = lines[k][j]
  <2>1. TAKE k \in 1 .. n
  <2>2. TAKE j \in 1 .. Len(lines[k])
  <2> DEFINE i == L(k - 1) + j
  <2>3. k \in 0 .. n /\ k - 1 \in 0 .. n
    BY <1>1
  <2>4. L(k - 1) \in Nat /\ Len(lines[k]) \in Nat /\ L(k) = L(k - 1) + Len(lines[k])
    <3> HIDE DEF L
    <3>1. QED
      BY <1>2, <1>3, <2>3
  <2>5. i \in 1 .. L(k)
    <3> HIDE DEF L
    <3>1. QED
      BY <2>4
  <2>6. J[k][i] = lines[k][j]
    <3> HIDE DEF L, J
    <3>1. QED
      BY <1>3, Zenon
  <2>7. J[n][i] = J[k][i]
    <3> HIDE DEF L, J, i
    <3>1. QED
      BY <1>6, <2>3, <2>5
  <2>8. QED
    BY <2>6, <2>7
<1>8. n \in 0 .. n
  BY <1>1
<1> DEFINE C == Concat(lines)
<1>9. /\ C = J[n] /\ J[0] = <<>>
      /\ \A k \in 0 .. n : J[k] \in V /\ L(k) <= L(n)
      /\ \A k \in 1 .. n : L(k) = L(k - 1) + Len(lines[k])
      /\ \A k \in 1 .. n : \A j \in 1 .. Len(lines[k]) : J[n][L(k - 1) + j] = lines[k][j]
  BY <1>1, <1>2, <1>3, <1>6, <1>7, Zenon
<1> HIDE DEF J, V, C, n
<1>10. /\ C \in V /\ C = J[n] /\ J[0] = <<>>
       /\ \A k \in 0 .. n : J[k] \in V /\ Len(J[k]) <= Len(C)
       /\ \A k \in 1 .. n :
            /\ Len(J[k]) = Len(J[k - 1]) + Len(lines[k])
            /\ \A j \in 1 .. Len(lines[k]) : C[Len(J[k - 1]) + j] = lines[k][j]
  BY <1>8, <1>9
<1>11. \A k \in 1 .. n : LineAt(lines, k)
  BY <1>10 DEF LineAt, J, C
<1>12. QED
  BY <1>10, <1>11, Zenon DEF J, V, C, n

-----------------------------------------------------------------------------
\* What FirstOf finds: the first place of a character, or nothing.
LEMMA FirstOfIs ==
  ASSUME NEW X, NEW s \in Seq(X), NEW c
  PROVE  /\ FirstOf(s, c) \in 0 .. Len(s)
         /\ FirstOf(s, c) = 0 <=> \A i \in 1 .. Len(s) : s[i] # c
         /\ FirstOf(s, c) > 0 => s[FirstOf(s, c)] = c
         /\ \A j \in 1 .. FirstOf(s, c) - 1 : s[j] # c
<1> DEFINE T == {i \in 1 .. Len(s) : s[i] = c}
<1>1. Len(s) \in Nat /\ DOMAIN s = 1 .. Len(s)
  BY LenProperties
<1>2. FirstOf(s, c) = IF T = {} THEN 0 ELSE CHOOSE i \in T : \A j \in T : i <= j
  BY <1>1 DEF FirstOf
<1>3. CASE T = {}
  BY <1>1, <1>2, <1>3
<1>4. CASE T # {}
  <2>1. T \subseteq Nat
    BY <1>1
  <2>2. FirstOf(s, c) \in T /\ \A j \in T : FirstOf(s, c) <= j
    <3> HIDE DEF T
    <3>1. \E i \in T : \A j \in T : i <= j
      BY <1>4, <2>1, LeastOf
    <3>2. QED
      BY <1>2, <1>4, <3>1
  <2>3. QED
    BY <1>1, <2>2
<1>5. QED
  BY <1>3, <1>4

\* It is known by what it finds.
LEMMA FirstOfAt ==
  ASSUME NEW X, NEW s \in Seq(X), NEW c, NEW n \in 1 .. Len(s),
         s[n] = c, \A j \in 1 .. n - 1 : s[j] # c
  PROVE  FirstOf(s, c) = n
<1> DEFINE f == FirstOf(s, c)
<1>1. /\ f \in 0 .. Len(s) /\ Len(s) \in Nat
      /\ f = 0 <=> \A i \in 1 .. Len(s) : s[i] # c
      /\ f > 0 => s[f] = c
      /\ \A j \in 1 .. f - 1 : s[j] # c
  BY FirstOfIs, LenProperties
<1> HIDE DEF f
<1>2. f # 0
  BY <1>1
<1>3. ~ (f < n)
  BY <1>1, <1>2
<1>4. ~ (n < f)
  BY <1>1
<1>5. f = n
  BY <1>1, <1>3, <1>4
<1>6. QED
  BY <1>5 DEF f

LEMMA OneChar ==
  ASSUME NEW c \in Char
  PROVE  <<c>> \in Chars /\ Len(<<c>>) = 1 /\ <<c>>[1] = c /\ <<c>> # <<>>
<1>1. <<c>> \in Seq(Char) /\ Len(<<c>>) = 1 /\ <<c>>[1] = c
  OBVIOUS
<1>2. <<c>> # <<>>
  BY <1>1, EmptySeq
<1>3. QED
  BY <1>1, <1>2 DEF Chars

LEMMA NoChars == <<>> \in Chars /\ Len(<<>>) = 0
BY EmptySeq DEF Chars

\* A text and another one behind it.
Joined(u, s, t) ==
  /\ u \in Chars
  /\ Len(s) \in Nat /\ Len(t) \in Nat
  /\ Len(u) = Len(s) + Len(t)
  /\ \A i \in 1 .. Len(s) : u[i] = s[i]
  /\ \A j \in 1 .. Len(t) : u[Len(s) + j] = t[j]

LEMMA TextsConcat ==
  ASSUME NEW s \in Chars, NEW t \in Chars
  PROVE  Joined(s \o t, s, t)
<1> DEFINE u == s \o t
<1>1. u = s \o t
  OBVIOUS
<1> HIDE DEF u
<1>2. /\ u \in Chars
      /\ Len(s) \in Nat /\ Len(t) \in Nat
      /\ Len(u) = Len(s) + Len(t)
  BY <1>1, ConcatIs DEF Chars
<1>3. \A i \in 1 .. Len(s) : u[i] = s[i]
  BY <1>1, ConcatIs DEF Chars
<1>4. \A j \in 1 .. Len(t) : u[Len(s) + j] = t[j]
  BY <1>1, ConcatIs DEF Chars
<1>5. Joined(u, s, t)
  BY <1>2, <1>3, <1>4 DEF Joined
<1>6. QED
  BY <1>5 DEF u

\* Where a character of the second text is.
LEMMA JoinedAt ==
  ASSUME NEW u, NEW s, NEW t, Joined(u, s, t), NEW i \in Int, i > Len(s), i <= Len(u)
  PROVE  i - Len(s) \in 1 .. Len(t) /\ u[i] = t[i - Len(s)]
<1>1. /\ Len(s) \in Nat /\ Len(t) \in Nat /\ Len(u) = Len(s) + Len(t)
      /\ \A j \in 1 .. Len(t) : u[Len(s) + j] = t[j]
  BY DEF Joined
<1> DEFINE j == i - Len(s)
<1>2. j \in 1 .. Len(t) /\ Len(s) + j = i
  BY <1>1
<1> HIDE DEF j
<1>3. u[i] = t[j]
  BY <1>1, <1>2
<1>4. QED
  BY <1>2, <1>3 DEF j

\* A header: its name, a colon, perhaps a space, and its value.
Row(t, name, gap, value) ==
  /\ t \in Chars
  /\ Len(name) \in Nat /\ Len(gap) \in Nat /\ Len(value) \in Nat
  /\ Len(t) = Len(name) + 1 + Len(gap) + Len(value)
  /\ \A i \in 1 .. Len(name) : t[i] = name[i]
  /\ \A i \in 1 .. Len(gap) : t[Len(name) + 1 + i] = gap[i]
  /\ \A i \in 1 .. Len(value) : t[Len(name) + 1 + Len(gap) + i] = value[i]

LEMMA RowIs ==
  ASSUME NEW name \in Chars, NEW value \in Chars, NEW gap \in Chars,
         NEW colon \in Chars, Len(colon) = 1
  PROVE  /\ Row(name \o colon \o gap \o value, name, gap, value)
         /\ (name \o colon \o gap \o value)[Len(name) + 1] = colon[1]
<1> DEFINE a == name \o colon
           b == a \o gap
           t == b \o value
<1>1. Joined(a, name, colon)
  BY TextsConcat
<1>2. a \in Chars
  BY <1>1 DEF Joined
<1> HIDE DEF a
<1>3. Joined(b, a, gap)
  BY <1>2, TextsConcat
<1>4. b \in Chars
  BY <1>3 DEF Joined
<1> HIDE DEF b
<1>5. Joined(t, b, value)
  BY <1>4, TextsConcat
<1> HIDE DEF t
<1>6. /\ Len(name) \in Nat /\ Len(gap) \in Nat /\ Len(value) \in Nat
      /\ Len(a) = Len(name) + 1 /\ Len(b) = Len(name) + 1 + Len(gap)
      /\ Len(t) = Len(name) + 1 + Len(gap) + Len(value) /\ t \in Chars
  BY <1>1, <1>3, <1>5 DEF Joined
<1>7. \A i \in 1 .. Len(name) : t[i] = name[i]
  <2>1. TAKE i \in 1 .. Len(name)
  <2>2. a[i] = name[i]
    BY <1>1 DEF Joined
  <2>3. i \in 1 .. Len(a) /\ i \in 1 .. Len(b)
    BY <1>6
  <2>4. b[i] = a[i]
    BY <1>3, <2>3 DEF Joined
  <2>5. t[i] = b[i]
    BY <1>5, <2>3 DEF Joined
  <2>6. QED
    BY <2>2, <2>4, <2>5
<1>8. t[Len(name) + 1] = colon[1]
  <2> DEFINE i == Len(name) + 1
  <2>1. i \in 1 .. Len(a) /\ i \in 1 .. Len(b) /\ 1 \in 1 .. Len(colon)
    BY <1>6
  <2>2. a[i] = colon[1]
    BY <1>1, <2>1 DEF Joined
  <2> HIDE DEF i
  <2>3. b[i] = a[i]
    BY <1>3, <2>1 DEF Joined
  <2>4. t[i] = b[i]
    BY <1>5, <2>1 DEF Joined
  <2>5. t[i] = colon[1]
    BY <2>2, <2>3, <2>4
  <2>6. QED
    BY <2>5 DEF i
<1>9. \A k \in 1 .. Len(gap) : t[Len(name) + 1 + k] = gap[k]
  <2>1. TAKE k \in 1 .. Len(gap)
  <2> DEFINE i == Len(a) + k
  <2>2. i \in 1 .. Len(b) /\ i = Len(name) + 1 + k
    BY <1>6
  <2>3. b[i] = gap[k]
    BY <1>3 DEF Joined
  <2> HIDE DEF i
  <2>4. t[i] = b[i]
    BY <1>5, <2>2 DEF Joined
  <2>5. QED
    BY <2>2, <2>3, <2>4
<1>10. \A k \in 1 .. Len(value) : t[Len(name) + 1 + Len(gap) + k] = value[k]
  <2>1. TAKE k \in 1 .. Len(value)
  <2> DEFINE i == Len(b) + k
  <2>2. i = Len(name) + 1 + Len(gap) + k
    BY <1>6
  <2>3. t[i] = value[k]
    BY <1>5 DEF Joined
  <2> HIDE DEF i
  <2>4. QED
    BY <2>2, <2>3
<1>11. Row(t, name, gap, value)
  BY <1>6, <1>7, <1>9, <1>10 DEF Row
<1>12. QED
  BY <1>8, <1>11 DEF t, b, a

LEMMA MarkIsChar == \A c \in Marks : c \in Char
BY DEF Char

LEMMA Characters ==
  /\ ":" \in Char /\ " " \in Char /\ NUL \in Char /\ "HTTP/" \in Char
  /\ "2" \in Char /\ "0" \in Char /\ "CR" \in Char /\ "LF" \in Char /\ "a" \in Char
<1>1. ":" \in Marks
  BY Zenon DEF Marks
<1>2. " " \in Marks
  BY Zenon DEF Marks
<1>3. NUL \in Marks
  BY Zenon DEF Marks
<1>4. "HTTP/" \in Marks
  BY Zenon DEF Marks
<1>5. "2" \in Marks
  BY Zenon DEF Marks
<1>6. "0" \in Marks
  BY Zenon DEF Marks
<1>7. "CR" \in Marks
  BY Zenon DEF Marks
<1>8. "LF" \in Marks
  BY Zenon DEF Marks
<1>9. "a" \in Marks
  BY Zenon DEF Marks
<1>10. QED
  BY <1>1, <1>2, <1>3, <1>4, <1>5, <1>6, <1>7, <1>8, <1>9, MarkIsChar, Zenon

LEMMA StringsAreChars == \A s \in Seq(STRING) : s \in Chars
<1>1. STRING \subseteq Char
  BY DEF Char
<1> HIDE DEF Char
<1>2. QED
  <2>1. TAKE s \in Seq(STRING)
  <2>2. Len(s) \in Nat /\ s \in [1 .. Len(s) -> STRING]
    BY LenProperties
  <2>3. s \in [1 .. Len(s) -> Char]
    BY <1>1, <2>2
  <2>4. QED
    BY <2>2, <2>3 DEF Chars
\* A text without a NUL.
Line(t) == t \in Chars /\ \A i \in 1 .. Len(t) : t[i] # NUL

LEMMA LineIs ==
  ASSUME NEW t \in Seq(STRING), NUL \notin Range(t)
  PROVE  Line(t)
<1>1. t \in Chars /\ DOMAIN t = 1 .. Len(t)
  BY StringsAreChars, LenProperties
<1>2. QED
  BY <1>1 DEF Line, Range

LEMMA OneCharLine ==
  ASSUME NEW c \in Char, c # NUL
  PROVE  Line(<<c>>)
<1> DEFINE t == <<c>>
<1>1. t \in Chars /\ Len(t) = 1 /\ t[1] = c
  BY OneChar
<1> HIDE DEF t
<1>2. Line(t)
  BY <1>1 DEF Line
<1>3. QED
  BY <1>2 DEF t

LEMMA LinesJoin ==
  ASSUME NEW s, NEW t, Line(s), Line(t)
  PROVE  Line(s \o t)
<1> DEFINE u == s \o t
<1>1. s \in Chars /\ t \in Chars
  BY DEF Line
<1>2. Joined(u, s, t)
  BY <1>1, TextsConcat
<1> HIDE DEF u
<1>3. ASSUME NEW i \in 1 .. Len(u) PROVE u[i] # NUL
  <2>1. CASE i <= Len(s)
    <3>1. i \in 1 .. Len(s)
      BY <2>1, <1>2 DEF Joined
    <3>2. u[i] = s[i]
      BY <1>2, <3>1 DEF Joined
    <3>3. QED
      BY <3>1, <3>2 DEF Line
  <2>2. CASE i > Len(s)
    <3>1. i - Len(s) \in 1 .. Len(t) /\ u[i] = t[i - Len(s)]
      BY <1>2, <2>2, JoinedAt
    <3>2. QED
      BY <3>1 DEF Line
  <2>3. QED
    BY <1>2, <2>1, <2>2 DEF Joined
<1>4. Line(u)
  BY <1>2, <1>3 DEF Line, Joined
<1>5. QED
  BY <1>4 DEF u

\* The parts of a header as it is sent.
LEMMA TextIs ==
  ASSUME NEW h \in Headers
  PROVE  /\ Line(h.name) /\ Line(h.value) /\ Line(Text(h))
         /\ \A i \in 1 .. Len(h.name) : h.name[i] # ":"
         /\ Row(Text(h), h.name, h.gap, h.value)
         /\ Text(h)[Len(h.name) + 1] = ":"
         /\ h.gap = <<>> \/ h.gap = <<" ">>
<1> DEFINE name == h.name
           gap == h.gap
           value == h.value
           colon == <<":">>
           space == <<" ">>
           none == <<>>
<1>1. /\ name \in Seq(STRING) /\ value \in Seq(STRING)
      /\ {":", NUL} \cap Range(name) = {}
      /\ NUL \notin Range(value)
  BY ResponseHeadersAssumption
<1>2. gap = none \/ gap = space
  BY ResponseHeadersAssumption
<1>3. ":" \in Char /\ " " \in Char /\ ":" # NUL /\ " " # NUL
  BY Characters DEF NUL
<1>4. Line(colon) /\ Line(space) /\ Len(colon) = 1 /\ colon[1] = ":"
  BY <1>3, OneChar, OneCharLine
<1>5. Line(none)
  <2>1. none \in Chars /\ Len(none) = 0
    BY NoChars
  <2> HIDE DEF none
  <2>2. QED
    BY <2>1 DEF Line
<1>6. NUL \notin Range(name) /\ ":" \notin Range(name)
  BY <1>1
<1>7. \A i \in 1 .. Len(name) : name[i] # ":"
  <2>1. DOMAIN name = 1 .. Len(name)
    BY <1>1, LenProperties
  <2>2. QED
    BY <1>6, <2>1 DEF Range
<1>8. Text(h) = name \o colon \o gap \o value
  BY DEF Text
<1> HIDE DEF name, gap, value, colon, space, none
<1>9. Line(name) /\ Line(value) /\ Line(gap)
  BY <1>1, <1>2, <1>4, <1>5, <1>6, LineIs
<1>10. Line(name \o colon \o gap \o value)
  BY <1>4, <1>9, LinesJoin
<1>11. /\ Row(name \o colon \o gap \o value, name, gap, value)
       /\ (name \o colon \o gap \o value)[Len(name) + 1] = colon[1]
  <2>1. name \in Chars /\ value \in Chars /\ gap \in Chars /\ colon \in Chars
    BY <1>4, <1>9 DEF Line
  <2>2. Len(colon) = 1
    BY <1>4
  <2>3. QED
    BY <2>1, <2>2, RowIs
<1>12. /\ Line(name) /\ Line(value) /\ Line(Text(h))
       /\ \A i \in 1 .. Len(name) : name[i] # ":"
       /\ Row(Text(h), name, gap, value)
       /\ Text(h)[Len(name) + 1] = ":"
       /\ gap = none \/ gap = space
  BY <1>2, <1>4, <1>7, <1>8, <1>9, <1>10, <1>11
<1>13. QED
  BY <1>12 DEF name, gap, value, none, space
-----------------------------------------------------------------------------
\* A part of a text.
Part(u, s, m, n) ==
  /\ u \in Chars
  /\ Len(u) = IF m <= n THEN n - m + 1 ELSE 0
  /\ \A i \in 1 .. n - m + 1 : u[i] = s[m + i - 1]

LEMMA PartIs ==
  ASSUME NEW s \in Chars, NEW m \in Int, NEW n \in Int, 1 <= m, n <= Len(s)
  PROVE  Part(SubSeq(s, m, n), s, m, n)
<1>1. \A i \in m .. n : s[i] \in Char
  <2>1. Len(s) \in Nat /\ \A i \in 1 .. Len(s) : s[i] \in Char
    BY LenProperties, ElementOfSeq DEF Chars
  <2>2. QED
    BY <2>1
<1> DEFINE u == SubSeq(s, m, n)
<1>2. u \in Seq(Char) /\ Len(u) = IF m <= n THEN n - m + 1 ELSE 0
  BY <1>1, SubSeqProperties
<1>3. \A i \in 1 .. n - m + 1 : u[i] = s[m + i - 1]
  BY <1>1, SubSeqProperties
<1>4. QED
  BY <1>2, <1>3 DEF Part, Chars

LEMMA PrefixIs ==
  ASSUME NEW s \in Chars, NEW n \in Int, n <= Len(s)
  PROVE  Part(SubSeq(s, 1, n), s, 1, n)
<1> DEFINE one == 1
<1>1. one \in Int /\ 1 <= one
  OBVIOUS
<1> HIDE DEF one
<1>2. Part(SubSeq(s, one, n), s, one, n)
  BY <1>1, PartIs
<1>3. QED
  BY <1>2 DEF one

\* Texts are the same if their characters are.
LEMMA SameText ==
  ASSUME NEW s \in Chars, NEW t \in Chars,
         Len(s) = Len(t), \A i \in 1 .. Len(s) : s[i] = t[i]
  PROVE  s = t
BY SeqEqual DEF Chars

LEMMA LenOf == ASSUME NEW s \in Chars PROVE Len(s) \in Nat /\ DOMAIN s = 1 .. Len(s)
BY LenProperties DEF Chars

LEMMA CharOf == ASSUME NEW s \in Chars, NEW i \in 1 .. Len(s) PROVE s[i] \in Char
BY ElementOfSeq DEF Chars

\* What FirstOf finds in a text.
LEMMA FirstIs ==
  ASSUME NEW s \in Chars, NEW c
  PROVE  /\ FirstOf(s, c) \in 0 .. Len(s)
         /\ FirstOf(s, c) = 0 <=> \A i \in 1 .. Len(s) : s[i] # c
         /\ FirstOf(s, c) > 0 => s[FirstOf(s, c)] = c
         /\ \A j \in 1 .. FirstOf(s, c) - 1 : s[j] # c
BY FirstOfIs DEF Chars

LEMMA FirstAt ==
  ASSUME NEW s \in Chars, NEW c, NEW n \in 1 .. Len(s),
         s[n] = c, \A j \in 1 .. n - 1 : s[j] # c
  PROVE  FirstOf(s, c) = n
BY FirstOfAt DEF Chars

\* A part of a text without a NUL has none, either.
LEMMA LinePart ==
  ASSUME NEW s, Line(s), NEW m \in Int, NEW n \in Int, 1 <= m, n <= Len(s)
  PROVE  Line(SubSeq(s, m, n))
<1> DEFINE u == SubSeq(s, m, n)
<1>1. s \in Chars /\ Len(s) \in Nat
  BY LenOf DEF Line
<1>2. Part(u, s, m, n)
  BY <1>1, PartIs
<1> HIDE DEF u
<1>3. ASSUME NEW i \in 1 .. Len(u) PROVE u[i] # NUL
  <2>1. i \in 1 .. n - m + 1
    BY <1>2 DEF Part
  <2>2. u[i] = s[m + i - 1] /\ m + i - 1 \in 1 .. Len(s)
    BY <1>1, <1>2, <2>1 DEF Part
  <2>3. QED
    BY <2>2 DEF Line
<1>4. Line(u)
  BY <1>2, <1>3 DEF Line, Part
<1>5. QED
  BY <1>4 DEF u

\* The C string at a position of a text has no NUL.
LEMMA StringIsLine ==
  ASSUME NEW s \in Chars, NEW i \in 0 .. Len(s), NEW rest, rest = SubSeq(s, i + 1, Len(s))
  PROVE  Line(SubSeq(rest, 1, FirstOf(rest, NUL) - 1))
<1>1. Len(s) \in Nat
  BY LenOf
<1>2. Part(rest, s, i + 1, Len(s))
  BY <1>1, PartIs
<1>3. rest \in Chars /\ Len(rest) \in Nat
  BY <1>2, LenOf DEF Part
<1> DEFINE n == FirstOf(rest, NUL)
           u == SubSeq(rest, 1, n - 1)
<1>4. n \in 0 .. Len(rest) /\ \A j \in 1 .. n - 1 : rest[j] # NUL
  BY <1>3, FirstIs
<1> HIDE DEF n
<1>5. Part(u, rest, 1, n - 1)
  <2> DEFINE m == n - 1
  <2>1. rest \in Chars /\ m \in Int /\ m <= Len(rest)
    BY <1>3, <1>4
  <2> HIDE DEF m
  <2>2. Part(SubSeq(rest, 1, m), rest, 1, m)
    BY <2>1, PrefixIs
  <2>3. QED
    BY <2>2 DEF m
<1> HIDE DEF u
<1>6. ASSUME NEW j \in 1 .. Len(u) PROVE u[j] # NUL
  <2>1. j \in 1 .. n - 1
    BY <1>4, <1>5 DEF Part
  <2>2. u[j] = rest[j]
    BY <1>4, <1>5, <2>1 DEF Part
  <2>3. QED
    BY <1>4, <2>1, <2>2
<1>7. Line(u)
  BY <1>5, <1>6 DEF Line, Part
<1>8. QED
  BY <1>7 DEF u, n

\* It is the line there.
LEMMA StringIs ==
  ASSUME NEW s \in Chars, NEW i \in 0 .. Len(s), NEW rest, rest = SubSeq(s, i + 1, Len(s)),
         NEW v, Line(v), i + Len(v) < Len(s), \A j \in 1 .. Len(v) : s[i + j] = v[j],
         s[i + Len(v) + 1] = NUL
  PROVE  SubSeq(rest, 1, FirstOf(rest, NUL) - 1) = v
<1>1. Len(s) \in Nat /\ v \in Chars /\ Len(v) \in Nat
  BY LenOf DEF Line
<1>2. Part(rest, s, i + 1, Len(s))
  BY <1>1, PartIs
<1>3. rest \in Chars /\ Len(rest) = Len(s) - i
  BY <1>1, <1>2, LenOf DEF Part
<1>4. \A j \in 1 .. Len(rest) : rest[j] = s[i + j]
  BY <1>1, <1>2, <1>3 DEF Part
<1> DEFINE n == Len(v) + 1
<1>5. n \in 1 .. Len(rest)
  BY <1>1, <1>3
<1>6. rest[n] = NUL
  BY <1>1, <1>4, <1>5
<1>7. \A j \in 1 .. n - 1 : rest[j] = v[j] /\ v[j] # NUL
  BY <1>1, <1>4, <1>5 DEF Line
<1> HIDE DEF n
<1>8. FirstOf(rest, NUL) = n
  <2>1. rest \in Chars /\ \A j \in 1 .. n - 1 : rest[j] # NUL
    BY <1>3, <1>7
  <2>2. QED
    BY <1>5, <1>6, <2>1, FirstAt
<1> DEFINE u == SubSeq(rest, 1, n - 1)
<1>9. Part(u, rest, 1, n - 1)
  <2> DEFINE m == n - 1
  <2>1. rest \in Chars /\ m \in Int /\ m <= Len(rest)
    BY <1>1, <1>3, <1>5
  <2> HIDE DEF m
  <2>2. Part(SubSeq(rest, 1, m), rest, 1, m)
    BY <2>1, PrefixIs
  <2>3. QED
    BY <2>2 DEF m
<1> HIDE DEF u
<1>10. u \in Chars /\ Len(u) = Len(v) /\ \A j \in 1 .. Len(u) : u[j] = v[j]
  BY <1>1, <1>7, <1>9 DEF Part, n
<1>11. u = v
  BY <1>1, <1>10, SameText
<1>12. QED
  BY <1>8, <1>11 DEF u
-----------------------------------------------------------------------------
\* A name is a line without a colon.
Name(t) == Line(t) /\ \A i \in 1 .. Len(t) : t[i] # ":"

LEMMA LowerIs ==
  ASSUME NEW name, Name(name)
  PROVE  Name(Lower(name))
<1> DEFINE a == "a"
           low == Lower(name)
<1>1. a \in Char /\ a # ":" /\ a # NUL
  BY Characters DEF NUL
<1>2. name \in Chars /\ Len(name) \in Nat /\ DOMAIN name = 1 .. Len(name)
  BY LenOf DEF Name, Line
<1>3. low = [i \in 1 .. Len(name) |-> IF name[i] = "A" THEN a ELSE name[i]]
  BY <1>2 DEF Lower
<1> HIDE DEF a, low
<1>4. \A i \in 1 .. Len(name) : /\ low[i] = a \/ low[i] = name[i]
                                /\ name[i] \in Char /\ name[i] # ":" /\ name[i] # NUL
  BY <1>2, <1>3, CharOf DEF Name, Line
<1>5. \A i \in 1 .. Len(name) : low[i] \in Char /\ low[i] # ":" /\ low[i] # NUL
  BY <1>1, <1>4
<1>6. low \in [1 .. Len(name) -> Char]
  BY <1>3, <1>5
<1>7. low \in Chars /\ Len(low) = Len(name)
  BY <1>2, <1>6, LenProperties DEF Chars
<1>8. Name(low)
  BY <1>5, <1>7 DEF Name, Line
<1>9. QED
  BY <1>8 DEF low

LEMMA TwoChars ==
  ASSUME NEW c \in Char, NEW d \in Char
  PROVE  /\ <<c, d>> \in Chars /\ Len(<<c, d>>) = 2
         /\ <<c, d>>[1] = c /\ <<c, d>>[2] = d
BY DEF Chars

LEMMA ThreeChars ==
  ASSUME NEW c \in Char, NEW d \in Char, NEW e \in Char
  PROVE  /\ <<c, d, e>> \in Chars /\ Len(<<c, d, e>>) = 3
         /\ <<c, d, e>>[1] = c /\ <<c, d, e>>[2] = d /\ <<c, d, e>>[3] = e
BY DEF Chars

LEMMA CRLFIs ==
  /\ Line(CRLF) /\ CRLF \in Chars /\ Len(CRLF) = 2
  /\ \A i \in 1 .. 2 : CRLF[i] # ":" /\ CRLF[i] # "HTTP/"
<1> DEFINE c == "CR"
           d == "LF"
           end == <<c, d>>
<1>1. /\ c \in Char /\ d \in Char
      /\ c # NUL /\ d # NUL /\ c # ":" /\ d # ":" /\ c # "HTTP/" /\ d # "HTTP/"
  BY Characters DEF NUL
<1>2. CRLF = end
  BY DEF CRLF
<1> HIDE DEF c, d
<1>3. end \in Chars /\ Len(end) = 2 /\ end[1] = c /\ end[2] = d
  BY <1>1, TwoChars
<1> HIDE DEF end
<1>4. \A i \in 1 .. 2 : i = 1 \/ i = 2
  OBVIOUS
<1>5. \A i \in 1 .. 2 : end[i] # ":" /\ end[i] # "HTTP/" /\ end[i] # NUL
  BY <1>1, <1>3, <1>4
<1>6. Line(end)
  BY <1>3, <1>5 DEF Line
<1>7. QED
  BY <1>2, <1>3, <1>5, <1>6

\* A status line.
StatusText(t, reason) ==
  /\ Line(t)
  /\ Len(t) = 5 + Len(reason)
  /\ t[1] = "HTTP/" /\ t[2] = " " /\ t[3] = "2" /\ t[4] = "0" /\ t[5] = "0"
  /\ \A i \in 1 .. Len(reason) : t[5 + i] = reason[i]

LEMMA StatusIs ==
  ASSUME NEW reason, Line(reason)
  PROVE  StatusText(Status(reason), reason)
<1> DEFINE c1 == "HTTP/"
           c2 == " "
           c3 == "2"
           c4 == "0"
           a == <<c1, c2>>
           b == <<c3, c4, c4>>
           ab == a \o b
           t == ab \o reason
<1>1. Status(reason) = t
  BY DEF Status, Code
<1>2. /\ c1 \in Char /\ c2 \in Char /\ c3 \in Char /\ c4 \in Char
      /\ c1 # NUL /\ c2 # NUL /\ c3 # NUL /\ c4 # NUL
  BY Characters DEF NUL
<1> HIDE DEF c1, c2, c3, c4
<1>3. a \in Chars /\ Len(a) = 2 /\ a[1] = c1 /\ a[2] = c2
  BY <1>2, TwoChars
<1>4. b \in Chars /\ Len(b) = 3 /\ b[1] = c3 /\ b[2] = c4 /\ b[3] = c4
  BY <1>2, ThreeChars
<1> HIDE DEF a, b
<1>5. Line(a)
  <2>1. \A i \in 1 .. 2 : i = 1 \/ i = 2
    OBVIOUS
  <2>2. QED
    BY <1>2, <1>3, <2>1 DEF Line
<1>6. Line(b)
  <2>1. \A i \in 1 .. 3 : i = 1 \/ i = 2 \/ i = 3
    OBVIOUS
  <2>2. QED
    BY <1>2, <1>4, <2>1 DEF Line
<1>7. Line(ab) /\ Joined(ab, a, b)
  BY <1>3, <1>4, <1>5, <1>6, LinesJoin, TextsConcat
<1> HIDE DEF ab
<1>8. /\ Len(ab) = 5 /\ ab[1] = c1 /\ ab[2] = c2
      /\ ab[3] = c3 /\ ab[4] = c4 /\ ab[5] = c4
  BY <1>3, <1>4, <1>7 DEF Joined
<1>9. Line(t) /\ Joined(t, ab, reason)
  BY <1>7, LinesJoin, TextsConcat DEF Line
<1> HIDE DEF t
<1>10. /\ Len(t) = 5 + Len(reason) /\ t[1] = c1 /\ t[2] = c2
       /\ t[3] = c3 /\ t[4] = c4 /\ t[5] = c4
       /\ \A i \in 1 .. Len(reason) : t[5 + i] = reason[i]
  BY <1>8, <1>9 DEF Joined
<1>11. StatusText(t, reason)
  BY <1>9, <1>10 DEF StatusText, c1, c2, c3, c4
<1>12. QED
  BY <1>1, <1>11
\* headerCallback finds a name and a value in any line that has a colon.
LEMMA HeaderIsText ==
  ASSUME NEW line, Line(line), FirstOf(line, ":") # 0
  PROVE  Name(HeaderOf(line)[1]) /\ Line(HeaderOf(line)[2])
<1> DEFINE n == FirstOf(line, ":")
           name == SubSeq(line, 1, n - 1)
           value == SubSeq(line, n + 2, Len(line))
           kept == SubSeq(value, 1, Len(value) - 2)
<1>1. line \in Chars /\ Len(line) \in Nat
  BY LenOf DEF Line
<1>2. n \in 1 .. Len(line) /\ \A j \in 1 .. n - 1 : line[j] # ":"
  BY <1>1, FirstIs
<1>3. HeaderOf(line) = <<name, IF Len(value) < 2 THEN value ELSE kept>>
  BY DEF HeaderOf
<1> HIDE DEF n
<1>4. Line(name) /\ Part(name, line, 1, n - 1)
  <2> DEFINE m == n - 1
  <2>1. m \in Int /\ m <= Len(line)
    BY <1>1, <1>2
  <2> HIDE DEF m
  <2>2. Part(SubSeq(line, 1, m), line, 1, m) /\ Line(SubSeq(line, 1, m))
    BY <1>1, <2>1, PrefixIs, LinePart
  <2>3. QED
    BY <2>2 DEF m
<1>5. Line(value)
  <2> DEFINE m == n + 2
             k == Len(line)
  <2>1. m \in Int /\ k \in Int /\ 1 <= m /\ k <= Len(line)
    BY <1>1, <1>2
  <2> HIDE DEF m, k
  <2>2. Line(SubSeq(line, m, k))
    BY <2>1, LinePart
  <2>3. QED
    BY <2>2 DEF m, k
<1> HIDE DEF name, value
<1>6. Name(name)
  <2>1. \A i \in 1 .. Len(name) : i \in 1 .. n - 1
    BY <1>2, <1>4 DEF Part
  <2>2. \A i \in 1 .. n - 1 : name[i] = line[i]
    BY <1>2, <1>4 DEF Part
  <2>3. QED
    BY <1>2, <1>4, <2>1, <2>2 DEF Name
<1>7. Line(kept)
  <2> DEFINE m == 1
             k == Len(value) - 2
  <2>1. m \in Int /\ k \in Int /\ 1 <= m /\ k <= Len(value)
    BY <1>5, LenOf DEF Line
  <2> HIDE DEF m, k
  <2>2. Line(SubSeq(value, m, k))
    BY <1>5, <2>1, LinePart
  <2>3. QED
    BY <2>2 DEF m, k
<1> HIDE DEF kept
<1>8. QED
  BY <1>3, <1>5, <1>6, <1>7

\* It finds those of the header, if a space follows the colon.
LEMMA HeaderIs ==
  ASSUME NEW h \in Headers, NEW line, line = Text(h) \o CRLF
  PROVE  /\ Line(line)
         /\ FirstOf(line, ":") # 0
         /\ FirstOf(line, "HTTP/") = 0 <=> "HTTP/" \notin Range(Text(h))
         /\ HeaderOf(line)[1] = h.name
         /\ h.gap # <<>> => HeaderOf(line)[2] = h.value
<1> DEFINE t == Text(h)
           name == h.name
           value == h.value
           gap == h.gap
           space == <<" ">>
           none == <<>>
           mark == "HTTP/"
           colon == ":"
<1>1. /\ Line(name) /\ Line(value) /\ Line(t)
      /\ \A i \in 1 .. Len(name) : name[i] # colon
      /\ Row(t, name, gap, value)
      /\ t[Len(name) + 1] = colon
      /\ gap = none \/ gap = space
  BY TextIs
<1>2. Len(space) = 1
  BY Characters, OneChar
<1>3. /\ Line(CRLF) /\ Len(CRLF) = 2 /\ \A i \in 1 .. 2 : CRLF[i] # colon /\ CRLF[i] # mark
  BY CRLFIs
<1>4. line = t \o CRLF
  OBVIOUS
<1>5. Len(name) \in Nat /\ Len(gap) \in Nat /\ Len(value) \in Nat
  BY <1>1 DEF Row
<1> HIDE DEF t, name, value, gap, space, none, mark, colon
<1>6. Line(line) /\ Joined(line, t, CRLF)
  BY <1>1, <1>3, <1>4, LinesJoin, TextsConcat DEF Line
<1>7. /\ line \in Chars /\ t \in Chars /\ name \in Chars /\ value \in Chars
      /\ Len(line) = Len(name) + 1 + Len(gap) + Len(value) + 2
      /\ Len(t) = Len(name) + 1 + Len(gap) + Len(value)
  BY <1>1, <1>3, <1>6 DEF Joined, Row, Line
<1> DEFINE n == Len(name) + 1
<1>8. n \in 1 .. Len(t) /\ n \in 1 .. Len(line)
  BY <1>5, <1>7
<1>9. \A i \in 1 .. Len(t) : line[i] = t[i]
  BY <1>6 DEF Joined
<1>10. line[n] = colon
  BY <1>1, <1>8, <1>9
<1>11. \A i \in 1 .. n - 1 : line[i] = name[i] /\ line[i] # colon
  <2>1. TAKE i \in 1 .. n - 1
  <2>2. i \in 1 .. Len(name) /\ i \in 1 .. Len(t)
    BY <1>5, <1>7
  <2>3. t[i] = name[i]
    BY <1>1, <2>2 DEF Row
  <2>4. QED
    BY <1>1, <1>9, <2>2, <2>3
<1> HIDE DEF n
<1>12. FirstOf(line, colon) = n
  <2>1. line \in Chars /\ \A i \in 1 .. n - 1 : line[i] # colon
    BY <1>7, <1>11
  <2>2. QED
    BY <1>8, <1>10, <2>1, FirstAt
<1>13. FirstOf(line, mark) = 0 <=> mark \notin Range(t)
  <2>1. FirstOf(line, mark) = 0 <=> \A i \in 1 .. Len(line) : line[i] # mark
    BY <1>7, FirstIs
  <2>2. ASSUME NEW i \in 1 .. Len(line), i > Len(t) PROVE line[i] # mark
    <3>1. i \in Int /\ i <= Len(line) /\ Joined(line, t, CRLF)
      BY <1>5, <1>6, <1>7
    <3>2. i - Len(t) \in 1 .. Len(CRLF) /\ line[i] = CRLF[i - Len(t)]
      BY <2>2, <3>1, JoinedAt
    <3>3. QED
      BY <1>3, <3>2
  <2>3. DOMAIN t = 1 .. Len(t)
    BY <1>7, LenOf
  <2>4. (\A i \in 1 .. Len(line) : line[i] # mark) <=> (\A i \in 1 .. Len(t) : t[i] # mark)
    <3>1. \A i \in 1 .. Len(t) : i \in 1 .. Len(line)
      BY <1>5, <1>7
    <3>2. \A i \in 1 .. Len(line) : i \in 1 .. Len(t) \/ i > Len(t)
      BY <1>5, <1>7
    <3>3. QED
      BY <1>9, <2>2, <3>1, <3>2
  <2>5. mark \notin Range(t) <=> \A i \in 1 .. Len(t) : t[i] # mark
    BY <2>3 DEF Range
  <2>6. QED
    BY <2>1, <2>4, <2>5
<1> DEFINE rest == SubSeq(line, n + 2, Len(line))
           kept == SubSeq(rest, 1, Len(rest) - 2)
<1>14. HeaderOf(line) = <<SubSeq(line, 1, n - 1), IF Len(rest) < 2 THEN rest ELSE kept>>
  <2>1. FirstOf(line, ":") = n
    BY <1>12 DEF colon
  <2>2. QED
    BY <2>1 DEF HeaderOf
<1>15. SubSeq(line, 1, n - 1) = name
  <2> DEFINE m == n - 1
             u == SubSeq(line, 1, m)
  <2>1. m \in Int /\ m <= Len(line) /\ m = Len(name)
    BY <1>5, <1>7 DEF n
  <2>2. \A i \in 1 .. m : line[i] = name[i]
    BY <1>11
  <2> HIDE DEF m
  <2>3. Part(u, line, 1, m)
    BY <1>7, <2>1, PrefixIs
  <2> HIDE DEF u
  <2>4. u \in Chars /\ Len(u) = Len(name) /\ \A i \in 1 .. m : u[i] = line[i]
    BY <1>5, <2>1, <2>3 DEF Part
  <2>5. u = name
    <3>1. name \in Chars /\ \A i \in 1 .. Len(u) : u[i] = name[i]
      BY <1>7, <2>1, <2>2, <2>4
    <3>2. QED
      BY <2>4, <3>1, SameText
  <2>6. QED
    BY <2>5 DEF u, m
<1>16. ASSUME gap # none PROVE Len(rest) >= 2 /\ kept = value
  <2>1. Len(gap) = 1
    BY <1>1, <1>2, <1>16
  <2> DEFINE m == n + 2
             k == Len(line)
  <2>2. /\ m \in Int /\ k \in Int /\ 1 <= m /\ k <= Len(line)
        /\ k - m + 1 = Len(value) + 2 /\ m <= k /\ m = Len(name) + 1 + Len(gap) + 1
    BY <1>5, <1>7, <2>1 DEF n
  <2> HIDE DEF m, k
  <2>3. Part(SubSeq(line, m, k), line, m, k)
    BY <1>7, <2>2, PartIs
  <2>4. Part(rest, line, m, k)
    BY <2>3 DEF m, k
  <2> HIDE DEF rest
  <2>5. rest \in Chars /\ Len(rest) = Len(value) + 2
    BY <2>2, <2>4 DEF Part
  <2>6. \A i \in 1 .. Len(value) : rest[i] = value[i]
    <3>1. TAKE i \in 1 .. Len(value)
    <3>2. rest[i] = line[m + i - 1]
      <4>1. i \in 1 .. k - m + 1
        BY <1>5, <2>2
      <4>2. QED
        BY <2>4, <4>1 DEF Part
    <3> DEFINE j == Len(name) + 1 + Len(gap) + i
    <3>3. m + i - 1 = j /\ j \in 1 .. Len(t)
      BY <1>5, <1>7, <2>2
    <3>4. t[j] = value[i]
      BY <1>1 DEF Row
    <3> HIDE DEF j
    <3>5. QED
      BY <1>9, <3>2, <3>3, <3>4
  <2> DEFINE e == Len(rest) - 2
             u == SubSeq(rest, 1, e)
  <2>7. e \in Int /\ e <= Len(rest) /\ e = Len(value)
    BY <1>5, <2>5
  <2> HIDE DEF e
  <2>8. Part(u, rest, 1, e)
    BY <2>5, <2>7, PrefixIs
  <2> HIDE DEF u
  <2>9. u \in Chars /\ Len(u) = Len(value) /\ \A i \in 1 .. Len(u) : u[i] = value[i]
    BY <1>5, <2>6, <2>7, <2>8 DEF Part
  <2>10. u = value
    BY <1>7, <2>9, SameText
  <2>11. QED
    BY <1>5, <2>5, <2>10 DEF u, e
<1> HIDE DEF rest, kept
<1>17. gap # none => HeaderOf(line)[2] = value
  <2>1. SUFFICES ASSUME gap # none PROVE HeaderOf(line)[2] = value
    OBVIOUS
  <2>2. Len(rest) >= 2 /\ kept = value
    BY <1>16, <2>1
  <2>3. ~ (Len(rest) < 2)
    <3>1. rest \in Chars
      <4> DEFINE m == n + 2
                 k == Len(line)
      <4>1. m \in Int /\ k \in Int /\ 1 <= m /\ k <= Len(line)
        BY <1>5, <1>7, <1>8
      <4> HIDE DEF m, k
      <4>2. Part(SubSeq(line, m, k), line, m, k)
        BY <1>7, <4>1, PartIs
      <4>3. QED
        BY <4>2 DEF m, k, rest, Part
    <3>2. QED
      BY <2>2, <3>1, LenOf
  <2>4. QED
    BY <1>14, <2>2, <2>3
<1>18. HeaderOf(line)[1] = name
  <2> DEFINE value2 == IF Len(rest) < 2 THEN rest ELSE kept
  <2>1. HeaderOf(line) = <<name, value2>>
    BY <1>14, <1>15
  <2> HIDE DEF value2
  <2>2. QED
    BY <2>1
<1>19. FirstOf(line, colon) # 0
  BY <1>8, <1>12
<1>20. QED
  BY <1>6, <1>13, <1>17, <1>18, <1>19 DEF colon, mark, t, name, gap, value, none
-----------------------------------------------------------------------------
\* The responses a server can send.
Response == [reason : Reasons, headers : Seq(Headers)]

LEMMA ResponseIs ==
  ASSUME NEW last \in Response
  PROVE  /\ last.reason \in Reasons /\ Line(last.reason) /\ Len(last.reason) \in Nat
         /\ last.headers \in Seq(Headers) /\ Len(last.headers) \in Nat
         /\ DOMAIN last.headers = 1 .. Len(last.headers)
         /\ \A i \in 1 .. Len(last.headers) : last.headers[i] \in Headers
<1>1. last.reason \in Reasons /\ last.headers \in Seq(Headers)
  BY DEF Response
<1>2. last.reason \in Seq(STRING) /\ NUL \notin Range(last.reason)
  BY <1>1, ResponseHeadersAssumption
<1>3. Line(last.reason) /\ Len(last.reason) \in Nat
  BY <1>2, LineIs, LenProperties
<1> DEFINE hs == last.headers
<1>4. hs \in Seq(Headers)
  BY <1>1
<1> HIDE DEF hs
<1>5. Len(hs) \in Nat /\ DOMAIN hs = 1 .. Len(hs) /\ \A i \in 1 .. Len(hs) : hs[i] \in Headers
  BY <1>4, LenProperties, ElementOfSeq
<1>6. QED
  BY <1>1, <1>3, <1>5 DEF hs

\* The lines of a response.
LinesOf(lines, last, end) ==
  /\ Len(lines) = Len(last.headers) + 2
  /\ lines[1] = Status(last.reason) \o end
  /\ \A i \in 1 .. Len(last.headers) : lines[i + 1] = Text(last.headers[i]) \o end
  /\ lines[Len(last.headers) + 2] = end

\* A sequence and another one behind it.
Chained(X, u, s, t) ==
  /\ u \in Seq(X)
  /\ Len(s) \in Nat /\ Len(t) \in Nat
  /\ Len(u) = Len(s) + Len(t)
  /\ \A i \in 1 .. Len(s) : u[i] = s[i]
  /\ \A j \in 1 .. Len(t) : u[Len(s) + j] = t[j]

LEMMA Chain ==
  ASSUME NEW X, NEW s \in Seq(X), NEW t \in Seq(X)
  PROVE  Chained(X, s \o t, s, t)
<1> DEFINE u == s \o t
<1>1. u = s \o t
  OBVIOUS
<1> HIDE DEF u
<1>2. /\ u \in Seq(X)
      /\ Len(s) \in Nat /\ Len(t) \in Nat
      /\ Len(u) = Len(s) + Len(t)
  BY <1>1, ConcatIs
<1>3. \A i \in 1 .. Len(s) : u[i] = s[i]
  BY <1>1, ConcatIs
<1>4. \A j \in 1 .. Len(t) : u[Len(s) + j] = t[j]
  BY <1>1, ConcatIs
<1>5. Chained(X, u, s, t)
  BY <1>2, <1>3, <1>4 DEF Chained
<1>6. QED
  BY <1>5 DEF u

LEMMA LinesAre ==
  ASSUME NEW X, NEW last \in Response, NEW end \in X,
         Status(last.reason) \o end \in X,
         \A h \in Headers : Text(h) \o end \in X
  PROVE  Lines(last, end) \in Seq(X) /\ LinesOf(Lines(last, end), last, end)
<1> DEFINE hs == last.headers
           n == Len(hs)
           a == Status(last.reason) \o end
           first == <<a>>
           f == [i \in 1 .. n |-> Text(hs[i]) \o end]
           final == <<end>>
           ff == first \o f
           lines == ff \o final
<1>1. Lines(last, end) = lines
  BY DEF Lines
<1>2. n \in Nat /\ \A i \in 1 .. n : hs[i] \in Headers
  BY ResponseIs
<1> HIDE DEF hs, a
<1>3. first \in Seq(X) /\ Len(first) = 1 /\ first[1] = a
  <2>1. a \in X
    BY DEF a
  <2>2. QED
    BY <2>1
<1>4. final \in Seq(X) /\ Len(final) = 1 /\ final[1] = end
  OBVIOUS
<1>5. f \in Seq(X) /\ Len(f) = n
  <2>1. \A i \in 1 .. n : Text(hs[i]) \o end \in X
    BY <1>2
  <2> HIDE DEF n
  <2>2. f \in [1 .. n -> X]
    BY <2>1
  <2>3. QED
    BY <1>2, <2>2, LenProperties
<1>6. \A i \in 1 .. n : f[i] = Text(hs[i]) \o end
  OBVIOUS
<1> HIDE DEF first, f, final, n
<1>7. Chained(X, ff, first, f)
  BY <1>3, <1>5, Chain
<1>8. ff \in Seq(X) /\ Len(ff) = 1 + n
  BY <1>3, <1>5, <1>7 DEF Chained
<1> HIDE DEF ff
<1>9. Chained(X, lines, ff, final)
  BY <1>4, <1>8, Chain
<1>10. lines \in Seq(X) /\ Len(lines) = 1 + n + 1
  BY <1>4, <1>8, <1>9 DEF Chained
<1>11. \A i \in 1 .. 1 + n : lines[i] = ff[i]
  BY <1>8, <1>9 DEF Chained
<1> HIDE DEF lines
<1>12. lines[1] = a
  BY <1>2, <1>3, <1>7, <1>11 DEF Chained
<1>13. \A i \in 1 .. n : lines[i + 1] = Text(hs[i]) \o end
  <2>1. TAKE i \in 1 .. n
  <2> DEFINE j == 1 + i
  <2>2. j \in 1 .. 1 + n /\ ff[j] = f[i]
    BY <1>2, <1>3, <1>5, <1>7 DEF Chained
  <2> HIDE DEF j
  <2>3. lines[j] = Text(hs[i]) \o end
    BY <1>6, <1>11, <2>2
  <2>4. i + 1 = j
    BY <1>2 DEF j
  <2>5. QED
    BY <2>3, <2>4
<1>14. lines[n + 2] = end
  <2>1. lines[1 + n + 1] = end
    BY <1>4, <1>8, <1>9 DEF Chained
  <2>2. 1 + n + 1 = n + 2
    BY <1>2
  <2>3. QED
    BY <2>1, <2>2
<1>15. Len(lines) = n + 2
  BY <1>2, <1>10
<1>16. LinesOf(lines, last, end)
  BY <1>12, <1>13, <1>14, <1>15 DEF LinesOf, hs, n, a
<1>17. QED
  BY <1>1, <1>16, <1>10
-----------------------------------------------------------------------------
\* What libcurl passes to headerCallback ends with the lines of the last response.
CurlLine == {t \in Chars : Line(t)}

CurlText(b, m, last) ==
  /\ b \in Seq(CurlLine) /\ m \in Nat
  /\ Len(b) = m + 2 + Len(last.headers)
  /\ b[m + 1] = Status(last.reason) \o CRLF
  /\ \A i \in 1 .. Len(last.headers) : b[m + 1 + i] = Text(last.headers[i]) \o CRLF
  /\ b[m + 2 + Len(last.headers)] = CRLF

LEMMA CurlLinesAre ==
  ASSUME NEW last \in Response
  PROVE  /\ Lines(last, CRLF) \in Seq(CurlLine)
         /\ LinesOf(Lines(last, CRLF), last, CRLF)
<1>1. CRLF \in CurlLine
  BY CRLFIs DEF CurlLine
<1>2. Status(last.reason) \o CRLF \in CurlLine
  <2>1. Line(Status(last.reason))
    BY ResponseIs, StatusIs DEF StatusText
  <2>2. Line(Status(last.reason) \o CRLF)
    BY <2>1, CRLFIs, LinesJoin
  <2>3. QED
    BY <2>2 DEF CurlLine, Line
<1>3. ASSUME NEW h \in Headers PROVE Text(h) \o CRLF \in CurlLine
  <2>1. Line(Text(h) \o CRLF)
    BY HeaderIs
  <2>2. QED
    BY <2>1 DEF CurlLine, Line
<1>4. QED
  BY <1>1, <1>2, <1>3, LinesAre

LEMMA CurlTextIs ==
  ASSUME NEW rs \in Seq(Response), Len(rs) > 0,
         NEW ls, ls = [r \in DOMAIN rs |-> Lines(rs[r], CRLF)]
  PROVE  CurlText(Concat(ls), Len(Firsts(ls)[Len(rs) - 1]), rs[Len(rs)])
<1> DEFINE n == Len(rs)
           last == rs[n]
           b == Concat(ls)
           V == Seq(CurlLine)
           J == Firsts(ls)
           m == Len(J[n - 1])
           line == ls[n]
<1>1. n \in Nat /\ n > 0 /\ DOMAIN rs = 1 .. n
  BY LenProperties
<1>2. \A r \in 1 .. n : rs[r] \in Response
  BY ElementOfSeq
<1>3. \A r \in 1 .. n : Lines(rs[r], CRLF) \in V
  BY <1>2, CurlLinesAre
<1>4. ls = [r \in 1 .. n |-> Lines(rs[r], CRLF)]
  BY <1>1
<1>5. ls \in Seq(V) /\ Len(ls) = n
  <2> HIDE DEF V, n
  <2>1. ls \in [1 .. n -> V]
    BY <1>3, <1>4
  <2>2. QED
    BY <1>1, <2>1, LenProperties
<1>6. n \in 1 .. n /\ n - 1 \in 0 .. n
  BY <1>1
<1>7. last \in Response /\ line = Lines(last, CRLF)
  BY <1>2, <1>4, <1>6
<1>8. LinesOf(line, last, CRLF)
  BY <1>7, CurlLinesAre
<1>9. Len(last.headers) \in Nat
  BY <1>7, ResponseIs
<1> HIDE DEF V, J, n, last, b, line
<1>10. b \in V /\ b = J[n] /\ J[n - 1] \in V
  <2>1. b \in Seq(CurlLine) /\ b = Firsts(ls)[Len(ls)]
    BY <1>5, ConcatAt DEF b, V
  <2>2. \A k \in 0 .. Len(ls) : Firsts(ls)[k] \in Seq(CurlLine)
    BY <1>5, ConcatAt DEF V
  <2>3. QED
    BY <1>5, <1>6, <2>1, <2>2 DEF J, V
<1>11. /\ Len(J[n]) = Len(J[n - 1]) + Len(line)
       /\ \A j \in 1 .. Len(line) : b[Len(J[n - 1]) + j] = line[j]
  <2>1. \A k \in 1 .. Len(ls) : LineAt(ls, k)
    BY <1>5, ConcatAt DEF V
  <2>2. LineAt(ls, n)
    BY <1>5, <1>6, <2>1
  <2>3. QED
    BY <2>2 DEF LineAt, J, b, line
<1>12. m \in Nat
  BY <1>10, LenProperties DEF V
<1>13. \A j \in 1 .. Len(line) : b[m + j] = line[j]
  BY <1>11
<1>14. Len(b) = m + Len(line)
  BY <1>10, <1>11
<1> HIDE DEF m
<1> DEFINE c == Len(last.headers)
<1>15. Len(line) = c + 2 /\ c \in Nat
  BY <1>8, <1>9 DEF LinesOf
<1> HIDE DEF c
<1>16. b[m + 1] = line[1]
  BY <1>13, <1>15
<1>17. ASSUME NEW i \in 1 .. c PROVE b[m + 1 + i] = line[i + 1]
  <2> DEFINE j == i + 1
  <2>1. j \in 1 .. Len(line) /\ m + 1 + i = m + j
    BY <1>12, <1>15
  <2> HIDE DEF j
  <2>2. b[m + 1 + i] = line[j]
    BY <1>13, <2>1
  <2>3. QED
    BY <2>2 DEF j
<1>18. b[m + 2 + c] = line[c + 2]
  <2> DEFINE j == c + 2
  <2>1. j \in 1 .. Len(line) /\ m + 2 + c = m + j
    BY <1>12, <1>15
  <2> HIDE DEF j
  <2>2. b[m + 2 + c] = line[j]
    BY <1>13, <2>1
  <2>3. QED
    BY <2>2 DEF j
<1>19. Len(b) = m + 2 + c
  BY <1>12, <1>14, <1>15
<1>20. CurlText(b, m, last)
  <2>1. b \in Seq(CurlLine)
    BY <1>10 DEF V
  <2>2. b[m + 1] = Status(last.reason) \o CRLF
    BY <1>8, <1>16 DEF LinesOf
  <2>3. \A i \in 1 .. c : b[m + 1 + i] = Text(last.headers[i]) \o CRLF
    BY <1>8, <1>17 DEF LinesOf, c
  <2>4. b[m + 2 + c] = CRLF
    BY <1>8, <1>18 DEF LinesOf, c
  <2>5. QED
    BY <1>12, <1>19, <2>1, <2>2, <2>3, <2>4 DEF CurlText, c
<1>21. QED
  BY <1>20 DEF b, m, last, J, n

-----------------------------------------------------------------------------
\* headerCallback on one line.
Callback(found, line) ==
  IF FirstOf(line, "HTTP/") # 0 THEN Nothing
  ELSE IF FirstOf(line, ":") # 0
  THEN Assign(found, Lower(HeaderOf(line)[1]), HeaderOf(line)[2])
  ELSE found

\* What is found are names and values.
Texts(found) == \A k \in DOMAIN found : Name(k) /\ Line(found[k])

\* The last header of each name, of the first headers of a response, as far as no
\* header after it hides it.
HeaderName(hs, i) == Lower(hs[i].name)

Shown(hs, k) == {i \in 1 .. k : \A j \in i .. k : "HTTP/" \notin Range(Text(hs[j]))}

Latest(found, hs, k) ==
  /\ DOMAIN found = {HeaderName(hs, i) : i \in Shown(hs, k)}
  /\ \A i \in Shown(hs, k) :
       (\A j \in Shown(hs, k) : j > i => HeaderName(hs, j) # HeaderName(hs, i))
         /\ hs[i].gap # <<>>
       => found[HeaderName(hs, i)] = hs[i].value

LEMMA NothingIs == DOMAIN Nothing = {} /\ Texts(Nothing)
BY DEF Nothing, Texts

Assigned(next, data, name, value) ==
  /\ DOMAIN next = DOMAIN data \cup {name}
  /\ next[name] = value
  /\ \A k \in DOMAIN data : k # name => next[k] = data[k]

LEMMA AssignIs ==
  ASSUME NEW data, NEW name, NEW value
  PROVE  Assigned(Assign(data, name, value), data, name, value)
BY DEF Assign, Assigned

LEMMA AssignText ==
  ASSUME NEW found, Texts(found), NEW name, Name(name), NEW value, Line(value)
  PROVE  Texts(Assign(found, name, value))
<1> DEFINE next == Assign(found, name, value)
<1>1. Assigned(next, found, name, value)
  BY AssignIs
<1> HIDE DEF next
<1>2. Texts(next)
  BY <1>1 DEF Texts, Assigned
<1>3. QED
  BY <1>2 DEF next

LEMMA CallbackText ==
  ASSUME NEW found, Texts(found), NEW line, Line(line)
  PROVE  Texts(Callback(found, line))
<1>1. CASE FirstOf(line, "HTTP/") # 0
  BY <1>1, NothingIs DEF Callback
<1>2. CASE FirstOf(line, "HTTP/") = 0 /\ FirstOf(line, ":") # 0
  <2> DEFINE name == Lower(HeaderOf(line)[1])
             value == HeaderOf(line)[2]
  <2>1. Name(name) /\ Line(value)
    BY <1>2, HeaderIsText, LowerIs
  <2>2. Callback(found, line) = Assign(found, name, value)
    BY <1>2 DEF Callback
  <2> HIDE DEF name, value
  <2>3. QED
    BY <2>1, <2>2, AssignText
<1>3. CASE FirstOf(line, "HTTP/") = 0 /\ FirstOf(line, ":") = 0
  BY <1>3 DEF Callback
<1>4. QED
  BY <1>1, <1>2, <1>3

\* A status line begins anew.
LEMMA CallbackStatus ==
  ASSUME NEW found, NEW hs, NEW reason, Line(reason),
         NEW line, line = Status(reason) \o CRLF
  PROVE  Latest(Callback(found, line), hs, 0)
<1> DEFINE t == Status(reason)
           mark == "HTTP/"
<1>1. StatusText(t, reason) /\ Len(reason) \in Nat
  BY StatusIs, LenOf DEF Line
<1>2. t \in Chars /\ Len(t) >= 1 /\ Len(t) \in Nat /\ t[1] = mark
  <2>1. t \in Chars /\ Len(t) = 5 + Len(reason)
    BY <1>1 DEF StatusText, Line
  <2>2. t[1] = mark
    BY <1>1, Zenon DEF StatusText
  <2>3. QED
    BY <1>1, <2>1, <2>2
<1> HIDE DEF t, mark
<1>3. Joined(line, t, CRLF)
  BY <1>2, CRLFIs, TextsConcat DEF t
<1>4. line \in Chars /\ 1 \in 1 .. Len(line) /\ line[1] = mark
  BY <1>2, <1>3 DEF Joined
<1>5. FirstOf(line, mark) # 0
  BY <1>4, FirstIs
<1>6. Callback(found, line) = Nothing
  BY <1>5 DEF Callback, mark
<1>7. Shown(hs, 0) = {}
  BY DEF Shown
<1>8. QED
  BY <1>6, <1>7, NothingIs DEF Latest

\* The line that ends a response changes nothing.
LEMMA CallbackEnd ==
  ASSUME NEW found
  PROVE  Callback(found, CRLF) = found
<1>1. FirstOf(CRLF, "HTTP/") = 0 /\ FirstOf(CRLF, ":") = 0
  BY CRLFIs, FirstIs
<1>2. QED
  BY <1>1 DEF Callback

\* The next header.
LEMMA CallbackHeader ==
  ASSUME NEW found, NEW hs, NEW k \in Nat, k > 0, hs[k] \in Headers, Latest(found, hs, k - 1),
         NEW line, line = Text(hs[k]) \o CRLF
  PROVE  Latest(Callback(found, line), hs, k)
<1> DEFINE mark == "HTTP/"
           Bad(i) == mark \in Range(Text(hs[i]))
           none == <<>>
           H(i) == HeaderName(hs, i)
           next == Callback(found, line)
<1>1. /\ FirstOf(line, ":") # 0
      /\ FirstOf(line, "HTTP/") = 0 <=> ~ Bad(k)
      /\ HeaderOf(line)[1] = hs[k].name
      /\ hs[k].gap # none => HeaderOf(line)[2] = hs[k].value
  BY HeaderIs
<1>2. \A m \in Nat : Shown(hs, m) = {i \in 1 .. m : \A j \in i .. m : ~ Bad(j)}
  BY DEF Shown
<1>3. k - 1 \in Nat /\ k \in Nat
  OBVIOUS
<1>4. CASE Bad(k)
  <2>1. Shown(hs, k) = {}
    <3> HIDE DEF Bad
    <3>1. \A i \in 1 .. k : k \in i .. k
      OBVIOUS
    <3>2. QED
      BY <1>2, <1>4, <3>1
  <2>2. next = Nothing
    BY <1>1, <1>4 DEF Callback
  <2>3. QED
    BY <2>1, <2>2, NothingIs DEF Latest
<1>5. CASE ~ Bad(k)
  <2> DEFINE value == HeaderOf(line)[2]
             Old == Shown(hs, k - 1)
             New == Shown(hs, k)
  <2>1. next = Assign(found, H(k), value)
    BY <1>1, <1>5 DEF Callback, HeaderName
  <2>2. New = Old \cup {k}
    <3> HIDE DEF Bad
    <3>1. \A i \in 1 .. k : i \in 1 .. k - 1 \/ i = k
      OBVIOUS
    <3>2. \A i \in 1 .. k - 1 : i \in 1 .. k
      OBVIOUS
    <3>3. \A i \in 1 .. k - 1 : \A j \in i .. k : j \in i .. k - 1 \/ j = k
      OBVIOUS
    <3>4. \A i \in 1 .. k - 1 : \A j \in i .. k - 1 : j \in i .. k
      OBVIOUS
    <3>5. \A j \in k .. k : j = k
      OBVIOUS
    <3>6. \A i \in 1 .. k - 1 : (\A j \in i .. k : ~ Bad(j)) <=> (\A j \in i .. k - 1 : ~ Bad(j))
      BY <1>5, <3>3, <3>4
    <3>7. k \in 1 .. k /\ \A j \in k .. k : ~ Bad(j)
      BY <1>5, <3>5
    <3>8. QED
      BY <1>2, <1>3, <3>1, <3>2, <3>6, <3>7
  <2>3. \A i \in Old : i \in 1 .. k - 1 /\ i < k
    BY DEF Shown
  <2>4. /\ DOMAIN next = DOMAIN found \cup {H(k)} /\ next[H(k)] = value
        /\ \A g \in DOMAIN found : g # H(k) => next[g] = found[g]
    <3> HIDE DEF H, next, value
    <3>1. Assigned(next, found, H(k), value)
      BY <2>1, AssignIs
    <3>2. QED
      BY <3>1 DEF Assigned
  <2>5. /\ DOMAIN found = {H(i) : i \in Old}
        /\ \A i \in Old : (\A j \in Old : j > i => H(j) # H(i)) /\ hs[i].gap # none
                            => found[H(i)] = hs[i].value
    BY DEF Latest
  <2>6. hs[k].gap # none => value = hs[k].value
    BY <1>1
  <2> HIDE DEF H, Old, New, next, value, none
  <2>7. DOMAIN next = {H(i) : i \in New}
    BY <2>2, <2>4, <2>5
  <2>8. ASSUME NEW i \in New, \A j \in New : j > i => H(j) # H(i), hs[i].gap # none
        PROVE  next[H(i)] = hs[i].value
    <3>1. CASE i = k
      BY <2>4, <2>6, <2>8, <3>1
    <3>2. CASE i \in Old
      <4>1. H(k) # H(i)
        BY <2>2, <2>3, <2>8, <3>2
      <4>2. \A j \in Old : j > i => H(j) # H(i)
        BY <2>2, <2>8
      <4>3. found[H(i)] = hs[i].value /\ H(i) \in DOMAIN found
        BY <2>5, <2>8, <3>2, <4>2
      <4>4. QED
        BY <2>4, <4>1, <4>3
    <3>3. QED
      BY <2>2, <3>1, <3>2
  <2>9. QED
    BY <2>7, <2>8 DEF Latest, H, New, next, none
<1>6. QED
  BY <1>4, <1>5
-----------------------------------------------------------------------------
\* Where a line begins in the buffer of WinINet; the list ends with an empty one.
Start(last, k) == Len(Firsts(Lines(last, <<NUL>>))[k])

\* A line of the buffer and its NUL.
WinLine(w, from, to, t) ==
  /\ to = from + Len(t) + 1
  /\ \A j \in 1 .. Len(t) : w[from + j] = t[j]
  /\ w[to] = NUL

WinText(w, last) ==
  /\ w \in Chars
  /\ Start(last, 0) = 0
  /\ \A k \in 0 .. Len(last.headers) + 1 : Start(last, k) \in Nat
  /\ WinLine(w, Start(last, 0), Start(last, 1), Status(last.reason))
  /\ \A k \in 1 .. Len(last.headers) :
       WinLine(w, Start(last, k), Start(last, k + 1), Text(last.headers[k]))
  /\ Len(w) = Start(last, Len(last.headers) + 1) + 1
  /\ w[Len(w)] = NUL
  /\ \A k \in 0 .. Len(last.headers) + 1 : Start(last, k) < Len(w)

LEMMA WinTextIs ==
  ASSUME NEW last \in Response
  PROVE  WinText(WinBuffer(last), last)
<1> DEFINE end == <<NUL>>
           ls == Lines(last, end)
           n == Len(last.headers)
           w == Concat(ls)
           J == Firsts(ls)
           hs == last.headers
<1>1. end \in Chars /\ Len(end) = 1 /\ end[1] = NUL
  BY Characters, OneChar
<1>2. Status(last.reason) \in Chars
  BY ResponseIs, StatusIs DEF StatusText, Line
<1>3. \A h \in Headers : Text(h) \in Chars
  BY TextIs DEF Line
<1> HIDE DEF end
<1>4. Status(last.reason) \o end \in Chars
  BY <1>1, <1>2, TextsConcat DEF Joined
<1>5. \A h \in Headers : Text(h) \o end \in Chars
  BY <1>1, <1>3, TextsConcat DEF Joined
<1>6. ls \in Seq(Chars) /\ LinesOf(ls, last, end)
  BY <1>1, <1>4, <1>5, LinesAre
<1>7. n \in Nat /\ \A i \in 1 .. n : hs[i] \in Headers
  BY ResponseIs
<1> HIDE DEF ls
<1>8. /\ Len(ls) = n + 2
      /\ ls[1] = Status(last.reason) \o end
      /\ \A i \in 1 .. n : ls[i + 1] = Text(hs[i]) \o end
      /\ ls[n + 2] = end
  BY <1>6 DEF LinesOf
<1>9. w \in Chars /\ w = J[Len(ls)] /\ J[0] = <<>>
  BY <1>6, ConcatAt DEF Chars
<1>10. \A k \in 0 .. Len(ls) : J[k] \in Chars
  BY <1>6, ConcatAt DEF Chars
<1>11. \A k \in 1 .. Len(ls) : LineAt(ls, k)
  BY <1>6, ConcatAt DEF Chars
<1> DEFINE S(k) == Len(J[k])
<1>12. \A k \in 0 .. n + 2 : S(k) \in Nat
  BY <1>8, <1>10, LenOf
<1>13. S(0) = 0
  BY <1>9, NoChars
<1>14. ASSUME NEW k \in 1 .. n + 2, NEW t \in Chars, ls[k] = t \o end
       PROVE  WinLine(w, S(k - 1), S(k), t)
  <2> DEFINE from == S(k - 1)
             to == S(k)
             line == ls[k]
  <2>1. LineAt(ls, k)
    BY <1>8, <1>11
  <2>2. to = from + Len(line) /\ \A j \in 1 .. Len(line) : w[from + j] = line[j]
    BY <2>1 DEF LineAt
  <2>3. Joined(line, t, end)
    BY <1>1, <1>14, TextsConcat
  <2>4. from \in Nat
    <3>1. k - 1 \in 0 .. n + 2
      BY <1>7
    <3> HIDE DEF S
    <3>2. QED
      BY <1>12, <3>1
  <2> HIDE DEF from, to, line, w
  <2>5. Len(line) = Len(t) + 1 /\ Len(t) \in Nat
    BY <1>1, <2>3 DEF Joined
  <2>6. \A j \in 1 .. Len(t) : w[from + j] = t[j]
    BY <2>2, <2>3, <2>5 DEF Joined
  <2>7. w[to] = NUL
    <3> DEFINE j == Len(t) + 1
    <3>1. j \in 1 .. Len(line) /\ from + j = to
      BY <2>2, <2>4, <2>5
    <3>2. line[j] = NUL
      BY <1>1, <2>3 DEF Joined
    <3> HIDE DEF j
    <3>3. QED
      BY <2>2, <3>1, <3>2
  <2>8. to = from + Len(t) + 1
    BY <2>2, <2>4, <2>5
  <2>9. WinLine(w, from, to, t)
    BY <2>6, <2>7, <2>8 DEF WinLine
  <2>10. QED
    BY <2>9 DEF from, to
<1> HIDE DEF w, J, n, hs, S
<1>15. WinLine(w, S(0), S(1), Status(last.reason))
  <2> DEFINE k == 1
  <2>1. k \in 1 .. n + 2 /\ k - 1 = 0
    BY <1>7
  <2>2. ls[k] = Status(last.reason) \o end
    BY <1>8
  <2> HIDE DEF k
  <2>3. WinLine(w, S(k - 1), S(k), Status(last.reason))
    BY <1>2, <1>14, <2>1, <2>2
  <2>4. QED
    BY <2>3 DEF k
<1>16. ASSUME NEW i \in 1 .. n PROVE WinLine(w, S(i), S(i + 1), Text(hs[i]))
  <2> DEFINE k == i + 1
  <2>1. k \in 1 .. n + 2 /\ k - 1 = i
    BY <1>7
  <2>2. ls[k] = Text(hs[i]) \o end /\ Text(hs[i]) \in Chars
    BY <1>3, <1>7, <1>8
  <2> HIDE DEF k
  <2>3. WinLine(w, S(k - 1), S(k), Text(hs[i]))
    BY <1>14, <2>1, <2>2
  <2>4. QED
    BY <2>1, <2>3 DEF k
<1>17. /\ S(n + 2) = S(n + 1) + 1
       /\ w[S(n + 2)] = NUL
  <2> DEFINE k == n + 2
             p == n + 1
  <2>1. k \in 1 .. Len(ls) /\ k - 1 = p
    BY <1>7, <1>8
  <2>2. LineAt(ls, k)
    BY <1>11, <2>1
  <2>3. ls[k] = end
    BY <1>8
  <2>4. 1 \in 1 .. Len(end)
    BY <1>1
  <2> HIDE DEF k, p
  <2>5. S(k) = S(p) + 1 /\ w[S(p) + 1] = NUL
    BY <1>1, <2>1, <2>2, <2>3, <2>4 DEF LineAt, S, J, w
  <2>6. QED
    BY <2>5 DEF k, p
<1>18. Len(w) = S(n + 2)
  BY <1>8, <1>9 DEF S
<1>19. \A k \in 0 .. n + 1 : S(k) \in Nat
  BY <1>7, <1>12
<1>20. \A k \in 0 .. n + 1 : Start(last, k) = S(k)
  BY DEF Start, S, J, ls, end
<1>21. /\ 0 \in 0 .. n + 1 /\ 1 \in 0 .. n + 1 /\ n + 1 \in 0 .. n + 1
       /\ \A k \in 1 .. n : k \in 0 .. n + 1 /\ k + 1 \in 0 .. n + 1
  BY <1>7
<1> HIDE DEF S
<1>22. WinText(w, last)
  <2>1. Start(last, 0) = 0 /\ \A k \in 0 .. n + 1 : Start(last, k) \in Nat
    BY <1>13, <1>19, <1>20, <1>21
  <2>2. WinLine(w, Start(last, 0), Start(last, 1), Status(last.reason))
    BY <1>15, <1>20, <1>21
  <2>3. \A k \in 1 .. n : WinLine(w, Start(last, k), Start(last, k + 1), Text(hs[k]))
    BY <1>16, <1>20, <1>21
  <2>4. Len(w) = Start(last, n + 1) + 1 /\ w[Len(w)] = NUL
    BY <1>17, <1>18, <1>20, <1>21
  <2>5. ASSUME NEW k \in 0 .. n + 1 PROVE Start(last, k) < Len(w)
    <3>1. CASE k = n + 1
      BY <1>19, <1>20, <2>4, <3>1
    <3>2. CASE k = 0
      BY <1>20, <1>19, <1>21, <2>1, <2>4, <3>2
    <3>3. CASE k \in 1 .. n
      <4> DEFINE m == k + 1
      <4>1. m \in 0 .. n + 1 /\ m \in 0 .. Len(ls)
        BY <1>7, <1>8, <3>3
      <4>2. Start(last, m) <= Len(w)
        <5>1. Len(Firsts(ls)[m]) <= Len(Concat(ls))
          BY <1>6, <4>1, ConcatAt DEF Chars
        <5>2. QED
          BY <5>1 DEF Start, ls, end, w
      <4>3. Start(last, m) = Start(last, k) + Len(Text(hs[k])) + 1
        BY <2>3, <3>3 DEF WinLine
      <4>4. Start(last, m) \in Nat /\ Start(last, k) \in Nat /\ Len(Text(hs[k])) \in Nat
        <5> HIDE DEF m
        <5>1. QED
          BY <1>3, <1>7, <2>1, <3>3, <4>1, LenOf
      <4>5. Len(w) \in Nat
        BY <1>9, LenOf
      <4> HIDE DEF m
      <4>6. QED
        BY <4>2, <4>3, <4>4, <4>5
    <3>4. QED
      BY <1>7, <3>1, <3>2, <3>3
  <2>6. QED
    BY <1>9, <2>1, <2>2, <2>3, <2>4, <2>5 DEF WinText, n, hs
<1>23. w = WinBuffer(last)
  BY DEF w, ls, end, WinBuffer
<1>24. QED
  BY <1>22, <1>23
\* The places in the buffer of a head: the code is the characters 2 to 4, if it is
\* counted from 0, and something follows it if there is a reason or a header.
LEMMA StatusInBuffer ==
  ASSUME NEW last \in Response, NEW w, w = WinBuffer(last)
  PROVE  /\ w \in Chars /\ Len(w) \in Nat /\ Len(w) >= 7
         /\ w[1] = "HTTP/" /\ w[2] = " " /\ w[3] = "2" /\ w[4] = "0" /\ w[5] = "0"
         /\ Len(w) = 7 => Len(last.reason) = 0 /\ Len(last.headers) = 0
         /\ Start(last, 1) = 6 + Len(last.reason)
         /\ Start(last, 1) < Len(w)
         /\ \A i \in 1 .. Len(last.reason) : w[5 + i] # NUL
         /\ w[Start(last, 1)] = NUL
<1> DEFINE reason == last.reason
           n == Len(last.headers)
           hs == last.headers
           t == Status(reason)
           S(k) == Start(last, k)
<1>1. WinText(w, last)
  BY WinTextIs
<1>2. Line(reason) /\ Len(reason) \in Nat /\ n \in Nat /\ \A i \in 1 .. n : hs[i] \in Headers
  BY ResponseIs
<1>3. StatusText(t, reason)
  BY <1>2, StatusIs
<1>4. WinLine(w, S(0), S(1), t) /\ S(0) = 0 /\ w \in Chars
  BY <1>1 DEF WinText
<1>5. Len(t) = 5 + Len(reason)
  BY <1>3 DEF StatusText
<1>6. Len(w) \in Nat /\ S(1) = 6 + Len(reason) /\ w[S(1)] = NUL
  BY <1>2, <1>4, <1>5, LenOf DEF WinLine
<1>7. 1 \in 0 .. n + 1 /\ S(1) < Len(w)
  BY <1>1, <1>2 DEF WinText
<1>8. \A i \in 1 .. Len(t) : w[i] = t[i]
  <2>1. TAKE i \in 1 .. Len(t)
  <2>2. w[S(0) + i] = t[i]
    BY <1>4 DEF WinLine
  <2>3. S(0) + i = i
    BY <1>4
  <2>4. QED
    BY <2>2, <2>3
<1> HIDE DEF t, n, hs, reason, S
<1>9. w[1] = t[1] /\ w[2] = t[2] /\ w[3] = t[3] /\ w[4] = t[4] /\ w[5] = t[5]
  BY <1>2, <1>5, <1>8
<1>10. /\ t[1] = "HTTP/" /\ t[2] = " " /\ t[3] = "2" /\ t[4] = "0" /\ t[5] = "0"
       /\ \A i \in 1 .. Len(reason) : t[5 + i] = reason[i]
  BY <1>3, Zenon DEF StatusText
<1>11. w[1] = "HTTP/" /\ w[2] = " " /\ w[3] = "2" /\ w[4] = "0" /\ w[5] = "0"
  BY <1>9, <1>10
<1>12. \A i \in 1 .. Len(reason) : w[5 + i] # NUL
  <2>1. TAKE i \in 1 .. Len(reason)
  <2> DEFINE j == 5 + i
  <2>2. j \in 1 .. Len(t)
    BY <1>2, <1>5
  <2>3. t[j] = reason[i]
    BY <1>3 DEF StatusText
  <2> HIDE DEF j
  <2>4. w[j] = reason[i]
    BY <1>8, <2>2, <2>3
  <2>5. QED
    BY <1>2, <2>4 DEF j, Line
<1>13. Len(w) = S(n + 1) + 1
  BY <1>1 DEF WinText, n, S
<1>14. ASSUME Len(w) = 7 PROVE Len(reason) = 0 /\ n = 0
  <2>1. S(1) < 7 /\ Len(reason) = 0
    BY <1>2, <1>6, <1>7, <1>14
  <2>2. ASSUME n > 0 PROVE FALSE
    <3> DEFINE one == 1
               two == 2
    <3>1. one \in 1 .. n /\ two \in 0 .. n + 1 /\ one + 1 = two
      BY <1>2, <2>2
    <3>2. Len(Text(hs[one])) \in Nat
      BY <1>2, <3>1, TextIs, LenOf DEF Line
    <3> HIDE DEF one
    <3>3. WinLine(w, S(one), S(one + 1), Text(hs[one]))
      BY <1>1, <3>1 DEF WinText, n, hs, S
    <3>4. S(one + 1) = S(one) + Len(Text(hs[one])) + 1
      BY <3>3 DEF WinLine
    <3> HIDE DEF two
    <3>5. S(two) < Len(w) /\ S(two) \in Nat
      BY <1>1, <3>1 DEF WinText, n, S
    <3>6. S(two) = S(1) + Len(Text(hs[one])) + 1
      BY <3>1, <3>4 DEF one
    <3>7. QED
      BY <1>6, <1>14, <2>1, <3>2, <3>5, <3>6
  <2>3. QED
    BY <1>2, <2>1, <2>2
<1>15. Len(w) >= 7
  BY <1>2, <1>6, <1>7
<1>16. QED
  BY <1>4, <1>6, <1>7, <1>11, <1>12, <1>14, <1>15 DEF S, reason, n

\* ... and of a header.
Placed(w, h, s, e) ==
  /\ h \in Headers /\ s \in Nat
  /\ Len(h.name) \in Nat /\ Len(h.gap) \in Nat /\ Len(h.value) \in Nat
  /\ e = s + Len(h.name) + Len(h.gap) + Len(h.value) + 2 /\ e < Len(w)
  /\ \A i \in 1 .. Len(h.name) : w[s + i] = h.name[i]
  /\ w[s + Len(h.name) + 1] = ":"
  /\ \A i \in 1 .. Len(h.gap) : w[s + Len(h.name) + 1 + i] = h.gap[i]
  /\ \A i \in 1 .. Len(h.value) : w[s + Len(h.name) + 1 + Len(h.gap) + i] = h.value[i]
  /\ w[e] = NUL

LEMMA HeaderInBuffer ==
  ASSUME NEW last \in Response, NEW w, w = WinBuffer(last),
         NEW k \in 1 .. Len(last.headers), NEW h, h = last.headers[k], NEW s, s = Start(last, k)
  PROVE  Placed(w, h, s, Start(last, k + 1))
<1> DEFINE n == Len(last.headers)
           t == Text(h)
           name == h.name
           gap == h.gap
           value == h.value
           to == Start(last, k + 1)
           colon == ":"
<1>1. WinText(w, last)
  BY WinTextIs
<1>2. n \in Nat /\ h \in Headers
  BY ResponseIs
<1>3. Row(t, name, gap, value) /\ t[Len(name) + 1] = colon
  BY <1>2, TextIs
<1>4. WinLine(w, s, to, t)
  BY <1>1 DEF WinText
<1>5. k \in 0 .. n + 1 /\ k + 1 \in 0 .. n + 1
  BY <1>2
<1>6. s \in Nat /\ to < Len(w)
  <2> DEFINE m == k + 1
  <2> HIDE DEF m
  <2>1. s \in Nat /\ Start(last, m) < Len(w)
    BY <1>1, <1>5 DEF WinText, m
  <2>2. QED
    BY <2>1 DEF m
<1>7. /\ Len(name) \in Nat /\ Len(gap) \in Nat /\ Len(value) \in Nat
      /\ Len(t) = Len(name) + 1 + Len(gap) + Len(value)
  BY <1>3 DEF Row
<1>8. /\ to = s + Len(t) + 1 /\ w[to] = NUL
      /\ \A j \in 1 .. Len(t) : w[s + j] = t[j]
  BY <1>4 DEF WinLine
<1> HIDE DEF n, t, name, gap, value, to, colon
<1>9. to = s + Len(name) + Len(gap) + Len(value) + 2
  BY <1>6, <1>7, <1>8
<1>10. \A i \in 1 .. Len(name) : w[s + i] = name[i]
  BY <1>3, <1>7, <1>8 DEF Row
<1>11. w[s + Len(name) + 1] = colon
  <2> DEFINE j == Len(name) + 1
  <2>1. j \in 1 .. Len(t) /\ s + Len(name) + 1 = s + j
    BY <1>6, <1>7
  <2>2. t[j] = colon
    BY <1>3
  <2> HIDE DEF j
  <2>3. QED
    BY <1>8, <2>1, <2>2
<1>12. \A i \in 1 .. Len(gap) : w[s + Len(name) + 1 + i] = gap[i]
  <2>1. TAKE i \in 1 .. Len(gap)
  <2> DEFINE j == Len(name) + 1 + i
  <2>2. j \in 1 .. Len(t) /\ s + Len(name) + 1 + i = s + j
    BY <1>6, <1>7
  <2>3. t[j] = gap[i]
    BY <1>3 DEF Row
  <2> HIDE DEF j
  <2>4. QED
    BY <1>8, <2>2, <2>3
<1>13. \A i \in 1 .. Len(value) : w[s + Len(name) + 1 + Len(gap) + i] = value[i]
  <2>1. TAKE i \in 1 .. Len(value)
  <2> DEFINE j == Len(name) + 1 + Len(gap) + i
  <2>2. j \in 1 .. Len(t) /\ s + Len(name) + 1 + Len(gap) + i = s + j
    BY <1>6, <1>7
  <2>3. t[j] = value[i]
    BY <1>3 DEF Row
  <2> HIDE DEF j
  <2>4. QED
    BY <1>8, <2>2, <2>3
<1>14. Placed(w, h, s, to)
  BY <1>2, <1>6, <1>7, <1>8, <1>9, <1>10, <1>11, <1>12, <1>13
     DEF Placed, name, gap, value, colon
<1>15. QED
  BY <1>14 DEF to
-----------------------------------------------------------------------------
\* The code is a string if a NUL follows it.
LEMMA CodeIs ==
  ASSUME NEW b \in Chars, Len(b) >= 6, b[3] = "2", b[4] = "0", b[5] = "0", b[6] = NUL,
         NEW rest, rest = SubSeq(b, 3, Len(b))
  PROVE  SubSeq(rest, 1, FirstOf(rest, NUL) - 1) = Code
<1> DEFINE c == "2"
           d == "0"
           code == <<c, d, d>>
           i == 2
<1>1. Code = code
  BY DEF Code
<1>2. c \in Char /\ d \in Char /\ c # NUL /\ d # NUL
  BY Characters DEF NUL
<1>3. b[3] = c /\ b[4] = d /\ b[5] = d /\ b[6] = NUL
  OBVIOUS
<1> HIDE DEF c, d
<1>4. code \in Chars /\ Len(code) = 3 /\ code[1] = c /\ code[2] = d /\ code[3] = d
  BY <1>2, ThreeChars
<1> HIDE DEF code
<1>5. \A j \in 1 .. 3 : j = 1 \/ j = 2 \/ j = 3
  OBVIOUS
<1>6. Line(code)
  BY <1>2, <1>4, <1>5 DEF Line
<1>7. Len(b) \in Nat
  BY LenOf
<1>8. /\ i \in 0 .. Len(b) /\ i + Len(code) < Len(b) /\ rest = SubSeq(b, i + 1, Len(b))
      /\ b[i + Len(code) + 1] = NUL
  BY <1>3, <1>4, <1>7
<1>9. \A j \in 1 .. Len(code) : b[i + j] = code[j]
  BY <1>3, <1>4, <1>5
<1> HIDE DEF i
<1>10. SubSeq(rest, 1, FirstOf(rest, NUL) - 1) = code
  BY <1>6, <1>8, <1>9, StringIs
<1>11. QED
  BY <1>1, <1>10

\* What += appends of a buffer: no more than was read, and all of it if it has no NUL.
LEMMA CStringIs ==
  ASSUME NEW X, NUL \in X, NEW n \in Nat, NEW chars \in [1 .. n -> X]
  PROVE  /\ chars \in Seq(X) /\ Len(chars) = n
         /\ CString(chars) \in Seq(X)
         /\ Len(CString(chars)) \in 0 .. n
         /\ NUL \notin Range(chars) => CString(chars) = chars
<1> DEFINE more == Append(chars, NUL)
           f == FirstOf(more, NUL)
           u == SubSeq(chars, 1, f - 1)
<1>1. chars \in Seq(X) /\ Len(chars) = n /\ DOMAIN chars = 1 .. n
  BY LenProperties
<1>2. /\ more \in Seq(X) /\ Len(more) = n + 1 /\ more[n + 1] = NUL
      /\ \A i \in 1 .. n : more[i] = chars[i]
  BY <1>1, AppendProperties
<1> HIDE DEF more
<1>3. /\ f \in 0 .. n + 1
      /\ f = 0 <=> \A i \in 1 .. n + 1 : more[i] # NUL
      /\ f > 0 => more[f] = NUL
  BY <1>2, FirstOfIs
<1>4. f \in 1 .. n + 1 /\ more[f] = NUL
  BY <1>2, <1>3
<1> HIDE DEF f
<1>5. \A i \in 1 .. f - 1 : chars[i] \in X
  BY <1>4
<1> DEFINE m == f - 1
<1>6. m \in 0 .. n
  BY <1>4
<1>7. u \in Seq(X) /\ Len(u) = m /\ \A i \in 1 .. m : u[i] = chars[i]
  <2> DEFINE one == 1
             v == SubSeq(chars, one, m)
  <2>1. one \in Int /\ m \in Int /\ \A i \in one .. m : chars[i] \in X
    BY <1>5, <1>6
  <2> HIDE DEF one, m
  <2>2. v \in Seq(X)
    BY <2>1, SubSeqProperties
  <2>3. Len(v) = IF one <= m THEN m - one + 1 ELSE 0
    BY <2>1, SubSeqProperties
  <2>4. \A i \in 1 .. m - one + 1 : v[i] = chars[one + i - 1]
    BY <2>1, SubSeqProperties
  <2>5. v = u
    BY DEF one, m
  <2> HIDE DEF v, u
  <2>6. Len(v) = m /\ \A i \in 1 .. m : v[i] = chars[i]
    BY <1>6, <2>3, <2>4 DEF one
  <2>7. QED
    BY <2>2, <2>5, <2>6
<1>8. CString(chars) = u
  BY DEF CString, more, f
<1> HIDE DEF u
<1>9. ASSUME NUL \notin Range(chars) PROVE u = chars
  <2>1. \A i \in 1 .. n : chars[i] # NUL
    BY <1>1, <1>9 DEF Range
  <2>2. f = n + 1
    BY <1>2, <1>4, <2>1
  <2>3. Len(u) = Len(chars) /\ \A i \in 1 .. Len(u) : u[i] = chars[i]
    BY <1>1, <1>7, <2>2
  <2>4. QED
    BY <1>1, <1>7, <2>3, SeqEqual
<1>10. QED
  BY <1>1, <1>6, <1>7, <1>8, <1>9

\* The text read is no longer than the body, and all of it if it has no NUL.
Kept(X, read, arrived) ==
  /\ read \in Seq(X) /\ arrived \in Seq(X)
  /\ Len(read) <= Len(arrived)
  /\ NUL \notin Range(arrived) => read = arrived

LEMMA PieceIsKept ==
  ASSUME NEW X, NUL \in X, NEW read, NEW arrived, Kept(X, read, arrived),
         NEW n \in Nat, NEW chars \in [1 .. n -> X]
  PROVE  Kept(X, read \o CString(chars), arrived \o chars) /\ Len(arrived \o chars) = Len(arrived) + n
<1> DEFINE piece == CString(chars)
           text2 == read \o piece
           body2 == arrived \o chars
<1>1. /\ chars \in Seq(X) /\ Len(chars) = n
      /\ piece \in Seq(X)
      /\ Len(piece) \in 0 .. n
      /\ NUL \notin Range(chars) => piece = chars
  BY CStringIs
<1> HIDE DEF piece
<1>2. Chained(X, text2, read, piece) /\ Chained(X, body2, arrived, chars)
  BY <1>1, Chain DEF Kept
<1> HIDE DEF text2, body2
<1>3. text2 \in Seq(X) /\ body2 \in Seq(X) /\ Len(text2) <= Len(body2) /\ Len(body2) = Len(arrived) + n
  BY <1>1, <1>2 DEF Kept, Chained
<1>4. ASSUME NUL \notin Range(body2) PROVE text2 = body2
  <2>1. DOMAIN body2 = 1 .. Len(body2) /\ DOMAIN arrived = 1 .. Len(arrived) /\ DOMAIN chars = 1 .. Len(chars)
    BY <1>1, <1>3, LenProperties DEF Kept
  <2>2. \A i \in 1 .. Len(body2) : body2[i] # NUL
    BY <1>4, <2>1 DEF Range
  <2>3. \A i \in 1 .. Len(arrived) : arrived[i] # NUL
    <3>1. TAKE i \in 1 .. Len(arrived)
    <3>2. i \in 1 .. Len(body2) /\ body2[i] = arrived[i]
      BY <1>2 DEF Chained
    <3>3. QED
      BY <2>2, <3>2
  <2>4. \A i \in 1 .. Len(chars) : chars[i] # NUL
    <3>1. TAKE i \in 1 .. Len(chars)
    <3> DEFINE j == Len(arrived) + i
    <3>2. j \in 1 .. Len(body2) /\ body2[j] = chars[i]
      BY <1>2 DEF Chained
    <3> HIDE DEF j
    <3>3. QED
      BY <2>2, <3>2
  <2>5. NUL \notin Range(arrived) /\ NUL \notin Range(chars)
    BY <2>1, <2>3, <2>4 DEF Range
  <2>6. read = arrived /\ piece = chars
    BY <1>1, <2>5 DEF Kept
  <2>7. QED
    BY <2>6 DEF text2, body2
<1>5. Kept(X, text2, body2)
  BY <1>3, <1>4 DEF Kept
<1>6. QED
  BY <1>3, <1>5 DEF text2, body2, piece

\* Every error of WinINet is an error.
LEMMA ErrorIsError == \A error : fromWinINetError(error) # "NoError"
BY Zenon DEF fromWinINetError

-----------------------------------------------------------------------------
\* The headers parseHeaders has found before one of them.
FoundBefore(found, hs, k) ==
  /\ DOMAIN found = {HeaderName(hs, i) : i \in 1 .. k - 1}
  /\ \A i \in 1 .. k - 1 :
       /\ Len(found[HeaderName(hs, i)]) = Len(hs[i].value)
       /\ (\A j \in 1 .. i - 1 : HeaderName(hs, j) # HeaderName(hs, i)) =>
            found[HeaderName(hs, i)] = hs[i].value

LEMMA InsertText ==
  ASSUME NEW found, Texts(found), NEW name, Name(name), NEW value, Line(value)
  PROVE  Texts(Insert(found, name, value))
<1>1. CASE name \in DOMAIN found
  BY <1>1 DEF Insert
<1>2. CASE name \notin DOMAIN found
  <2>1. Insert(found, name, value) = Assign(found, name, value)
    BY <1>2 DEF Insert
  <2>2. QED
    BY <2>1, AssignText
<1>3. QED
  BY <1>1, <1>2

LEMMA InsertHeader ==
  ASSUME NEW found, NEW hs, NEW k \in Nat, k > 0, FoundBefore(found, hs, k),
         \A i \in 1 .. k - 1 : HeaderName(hs, i) = HeaderName(hs, k) =>
                                 Len(hs[i].value) = Len(hs[k].value),
         NEW next, next = Insert(found, HeaderName(hs, k), hs[k].value)
  PROVE  /\ FoundBefore(next, hs, k + 1)
         /\ Len(next[HeaderName(hs, k)]) = Len(hs[k].value)
<1> DEFINE H(i) == HeaderName(hs, i)
           V(i) == hs[i].value
<1>1. /\ DOMAIN found = {H(i) : i \in 1 .. k - 1}
      /\ \A i \in 1 .. k - 1 : Len(found[H(i)]) = Len(V(i))
      /\ \A i \in 1 .. k - 1 : (\A j \in 1 .. i - 1 : H(j) # H(i)) => found[H(i)] = V(i)
  BY DEF FoundBefore
<1>2. \A i \in 1 .. k - 1 : H(i) = H(k) => Len(V(i)) = Len(V(k))
  OBVIOUS
<1>3. next = Insert(found, H(k), V(k))
  OBVIOUS
<1> DEFINE m == k + 1
<1>4. \A i \in 1 .. m - 1 : i \in 1 .. k - 1 \/ i = k
  OBVIOUS
<1>5. k \in 1 .. m - 1 /\ \A i \in 1 .. k - 1 : i \in 1 .. m - 1 /\ i # k
  OBVIOUS
<1> HIDE DEF H, V, m
<1>6. /\ DOMAIN next = {H(i) : i \in 1 .. m - 1}
      /\ \A i \in 1 .. m - 1 : Len(next[H(i)]) = Len(V(i))
      /\ \A i \in 1 .. m - 1 : (\A j \in 1 .. i - 1 : H(j) # H(i)) => next[H(i)] = V(i)
  <2>1. CASE H(k) \in DOMAIN found
    <3>1. next = found
      BY <1>3, <2>1 DEF Insert
    <3>2. PICK i \in 1 .. k - 1 : H(i) = H(k)
      BY <1>1, <2>1
    <3>3. Len(next[H(k)]) = Len(V(k))
      BY <1>1, <1>2, <3>1, <3>2
    <3>4. ~ (\A j \in 1 .. k - 1 : H(j) # H(k))
      BY <3>2
    <3>5. DOMAIN next = {H(j) : j \in 1 .. m - 1}
      BY <1>1, <1>4, <1>5, <3>1, <3>2
    <3>6. QED
      BY <1>1, <1>4, <3>1, <3>3, <3>4, <3>5
  <2>2. CASE H(k) \notin DOMAIN found
    <3>1. next = Assign(found, H(k), V(k))
      BY <1>3, <2>2 DEF Insert
    <3>2. Assigned(next, found, H(k), V(k))
      BY <3>1, AssignIs
    <3>3. \A i \in 1 .. k - 1 : H(i) \in DOMAIN found /\ H(i) # H(k)
      BY <1>1, <2>2
    <3>4. DOMAIN next = DOMAIN found \cup {H(k)} /\ next[H(k)] = V(k)
      BY <3>2 DEF Assigned
    <3>5. \A i \in 1 .. k - 1 : next[H(i)] = found[H(i)]
      BY <3>2, <3>3 DEF Assigned
    <3>6. DOMAIN next = {H(i) : i \in 1 .. m - 1}
      BY <1>1, <1>4, <1>5, <3>4
    <3>7. \A i \in 1 .. m - 1 : Len(next[H(i)]) = Len(V(i))
      BY <1>1, <1>4, <3>4, <3>5
    <3>8. \A i \in 1 .. m - 1 : (\A j \in 1 .. i - 1 : H(j) # H(i)) => next[H(i)] = V(i)
      BY <1>1, <1>4, <3>4, <3>5
    <3>9. QED
      BY <3>6, <3>7, <3>8
  <2>3. QED
    BY <2>1, <2>2
<1>7. FoundBefore(next, hs, m)
  BY <1>6 DEF FoundBefore, H, V
<1>8. Len(next[H(k)]) = Len(V(k))
  BY <1>5, <1>6
<1>9. QED
  BY <1>7, <1>8 DEF m, H, V
-----------------------------------------------------------------------------
(***************************************************************************)
(* The invariant.  What the server sent does not change; what is found is  *)
(* text; then, for libcurl, where headerCallback is in the lines, and, for *)
(* WinINet, what send() knows at each step, where the two loops of         *)
(* parseHeaders are, and which headers they have found.                    *)
(***************************************************************************)
Received ==
  /\ backend \in {"curl", "wininet"}
  /\ responses \in Seq(Response) /\ Len(responses) > 0

FoundIsText == Texts(headers)

LoopTypes ==
  /\ length \in Nat
  /\ position \in Nat
  /\ key \in 0 .. length
  /\ statusStr \in -1 .. length - 1
  /\ pc \in {"lines", "open", "send", "query", "fill", "status", "headers", "read", "done"}

BodyChars == {"x", NUL}

SendTypes ==
  /\ request \in BOOLEAN
  /\ err \in {"NoError"} \cup {fromWinINetError(e) : e \in Errors}
  /\ Kept(BodyChars, text, body) /\ Len(body) <= MaxBody
  /\ ending \in {"none", "complete", "broken"}

\* headerCallback: once the lines of the last response have begun, the headers are
\* those of its lines so far.
Before == Len(Firsts(CurlLines)[Len(responses) - 1])
Count  == Len(Last.headers)

CurlReads ==
  /\ \A k \in 0 .. Count : position = Before + 1 + k => Latest(headers, Last.headers, k)
  /\ position > Before + Count => Latest(headers, Last.headers, Count)

CurlInv ==
  backend = "curl" =>
    /\ pc \in {"lines", "done"}
    /\ buffer = Concat(CurlLines)
    /\ pc = "done" => position = Len(buffer)
    /\ CurlReads

\* send(): nothing is read until the head is there, and nothing is kept with an error.
Asked == {"open", "send", "query", "fill"}
Ended == pc = "done" /\ err = "NoError"
Buffer == WinBuffer(Last)

Untouched == headers = Nothing /\ statusStr = -1 /\ text = <<>>

WinSends ==
  backend = "wininet" =>
    /\ pc # "lines"
    /\ pc \in Asked =>
         Untouched /\ buffer = Buffer /\ position = 0 /\ key = 0
    /\ pc # "done" => err = "NoError" /\ ending = "none"
    /\ pc = "done" =>
         /\ ~request
         /\ err # "NoError" => Untouched
         /\ err = "NoError" => ending # "none"

\* parseHeaders: the buffer keeps its length.
WinBuffers ==
  backend = "wininet" =>
    /\ length \in {Len(Buffer) - 1, Len(Buffer)}
    /\ buffer \in Chars /\ Len(buffer) = Len(Buffer)

\* ... its first loop stands at the start of the status line, behind the code, or, if
\* there is nothing but the code, at the end.
CodeIsFound ==
  /\ statusStr = 2
  /\ buffer[3] = "2" /\ buffer[4] = "0" /\ buffer[5] = "0" /\ buffer[6] = NUL
NoCodeIsFound == statusStr = -1 /\ length = 6 /\ Len(Buffer) = 7

WinStatus ==
  backend = "wininet" =>
    /\ pc = "status" =>
         /\ headers = Nothing /\ position <= length
         /\ \/ statusStr = -1 /\ position \in {0, 1} /\ buffer = Buffer
            \/ NoCodeIsFound /\ position = 6 /\ buffer = Buffer
            \/ statusStr = 2 /\ position >= 7 /\ buffer = [Buffer EXCEPT ![6] = NUL]
    /\ pc \in {"headers", "read"} \/ Ended =>
         \/ CodeIsFound /\ position >= 7
         \/ NoCodeIsFound /\ pc # "headers"

\* ... and its second loop is in a name.
WinNames ==
  backend = "wininet" /\ pc = "headers" /\ position < length - 1 =>
    /\ key <= position
    /\ \A i \in key .. position - 1 : At(i) \notin {":", NUL}

\* The heads of which parseHeaders finds all headers.
Regular ==
  /\ Len(Last.reason) > 1
  /\ \A i, j \in DOMAIN Last.headers :
       /\ Last.headers[i].gap # <<>>
       /\ NameOf(i) = NameOf(j) => Len(Last.headers[i].value) = Len(Last.headers[j].value)

\* It is in the name of a header, and has found the ones before it.
InHeader(k) ==
  /\ key = Start(Last, k)
  /\ position \in key .. key + Len(Last.headers[k].name)
  /\ \A i \in key + 1 .. Len(Buffer) : buffer[i] = Buffer[i]
  /\ FoundBefore(headers, Last.headers, k)

AllFound == position >= length - 1 /\ FoundBefore(headers, Last.headers, Count + 1)

WinHeaders ==
  backend = "wininet" /\ Regular =>
    /\ pc = "status" => position < Start(Last, 1)
    /\ pc = "headers" => AllFound \/ \E k \in 1 .. Count : InHeader(k)
    /\ pc = "read" \/ Ended => AllFound

IInv ==
  /\ Received /\ FoundIsText /\ LoopTypes /\ SendTypes /\ CurlInv
  /\ WinSends /\ WinBuffers /\ WinStatus /\ WinNames /\ WinHeaders
-----------------------------------------------------------------------------
\* The initial states.
LEMMA LastIs ==
  ASSUME Received
  PROVE  Last \in Response /\ Count \in Nat /\ Len(responses) \in Nat
<1>1. Len(responses) \in Nat /\ Len(responses) \in 1 .. Len(responses)
  BY LenProperties DEF Received
<1>2. Last \in Response
  BY <1>1, ElementOfSeq DEF Received, Last
<1>3. QED
  BY <1>1, <1>2, ResponseIs DEF Count

LEMMA CurlBuffer ==
  ASSUME Received
  PROVE  CurlText(Concat(CurlLines), Before, Last)
<1>1. CurlLines = [r \in DOMAIN responses |-> Lines(responses[r], CRLF)]
  BY DEF CurlLines
<1>2. QED
  BY <1>1, CurlTextIs DEF Received, Before, Last

LEMMA InitReceived == Init => Received
<1>1. SUFFICES ASSUME Init PROVE Received
  OBVIOUS
<1>2. PICK hs \in UNION {[1 .. n -> Headers] : n \in 0 .. MaxHeaders}, reason \in Reasons :
        LET last == [reason |-> reason, headers |-> hs]
        IN  \/ /\ backend = "curl"
               /\ \E first \in {<<>>} \cup {<<[reason |-> reason, headers |-> <<h>>]>> : h \in Headers} :
                    responses = Append(first, last)
            \/ /\ backend = "wininet"
               /\ responses = <<last>>
  BY <1>1 DEF Init
<1>3. hs \in Seq(Headers)
  <2>1. MaxHeaders \in Nat
    BY ResponseHeadersAssumption
  <2>2. PICK n \in 0 .. MaxHeaders : hs \in [1 .. n -> Headers]
    BY Zenon
  <2>3. n \in Nat
    BY <2>1
  <2>4. QED
    BY <2>2, <2>3, LenProperties
<1> DEFINE last == [reason |-> reason, headers |-> hs]
<1>4. last \in Response
  BY <1>3 DEF Response
<1>5. ASSUME NEW h \in Headers PROVE [reason |-> reason, headers |-> <<h>>] \in Response
  BY DEF Response
<1> HIDE DEF last
<1>6. ASSUME NEW first \in Seq(Response) PROVE Append(first, last) \in Seq(Response) /\ Len(Append(first, last)) > 0
  BY <1>4, AppendProperties, LenProperties
<1>7. ASSUME backend = "curl",
             NEW first \in {<<>>} \cup {<<[reason |-> reason, headers |-> <<h>>]>> : h \in Headers},
             responses = Append(first, last)
      PROVE  Received
  <2>1. CASE first = <<>>
    <3>1. first \in Seq(Response)
      BY <2>1, EmptySeq
    <3>2. QED
      BY <1>6, <1>7, <3>1 DEF Received
  <2>2. CASE \E h \in Headers : first = <<[reason |-> reason, headers |-> <<h>>]>>
    <3>1. PICK h \in Headers : first = <<[reason |-> reason, headers |-> <<h>>]>>
      BY <2>2
    <3> DEFINE r == [reason |-> reason, headers |-> <<h>>]
    <3>2. r \in Response
      BY <1>5
    <3> HIDE DEF r
    <3>3. <<r>> \in Seq(Response)
      BY <3>2
    <3>4. first \in Seq(Response)
      BY <3>1, <3>3 DEF r
    <3>5. QED
      BY <1>6, <1>7, <3>4 DEF Received
  <2>3. QED
    BY <1>7, <2>1, <2>2
<1>8. ASSUME backend = "wininet", responses = <<last>> PROVE Received
  BY <1>4, <1>8 DEF Received
<1>9. QED
  BY <1>2, <1>7, <1>8 DEF last

LEMMA NothingKept == ASSUME NEW X PROVE Kept(X, <<>>, <<>>)
<1> DEFINE none == <<>>
<1>1. none \in Seq(X) /\ Len(none) = 0
  BY EmptySeq
<1> HIDE DEF none
<1>2. Kept(X, none, none)
  BY <1>1 DEF Kept
<1>3. QED
  BY <1>2 DEF none

LEMMA InitInv == Init => IInv
<1>1. SUFFICES ASSUME Init PROVE IInv
  OBVIOUS
<1>2. Received
  BY <1>1, InitReceived
<1>3. Last \in Response /\ Count \in Nat
  BY <1>2, LastIs
<1>4. /\ position = 0 /\ key = 0 /\ statusStr = -1 /\ headers = Nothing
      /\ request = FALSE /\ err = "NoError" /\ text = <<>> /\ body = <<>> /\ ending = "none"
  BY <1>1 DEF Init
<1>5. \/ /\ backend = "curl" /\ buffer = Concat(CurlLines) /\ length = Len(buffer) /\ pc = "lines"
      \/ /\ backend = "wininet" /\ buffer = Buffer /\ length \in {Len(buffer) - 1, Len(buffer)}
         /\ pc = "open"
  <2>1. PICK hs \in UNION {[1 .. n -> Headers] : n \in 0 .. MaxHeaders}, reason \in Reasons :
        LET last == [reason |-> reason, headers |-> hs]
        IN  \/ /\ backend = "curl"
               /\ buffer = Concat(CurlLines)
               /\ length = Len(buffer)
               /\ pc = "lines"
            \/ /\ backend = "wininet"
               /\ responses = <<last>>
               /\ buffer = WinBuffer(last)
               /\ length \in {Len(buffer) - 1, Len(buffer)}
               /\ pc = "open"
    BY <1>1 DEF Init
  <2> DEFINE last == [reason |-> reason, headers |-> hs]
  <2> HIDE DEF last
  <2>2. responses = <<last>> => Last = last
    BY DEF Last
  <2>3. QED
    BY <2>1, <2>2 DEF Buffer, last
<1>6. CurlText(Concat(CurlLines), Before, Last)
  BY <1>2, CurlBuffer
<1>7. /\ Len(Concat(CurlLines)) \in Nat /\ Len(Concat(CurlLines)) >= 2 /\ Before \in Nat
  <2> DEFINE b == Concat(CurlLines)
  <2>1. Before \in Nat /\ Len(b) = Before + 2 + Count
    BY <1>6 DEF CurlText, Count
  <2> HIDE DEF b
  <2>2. QED
    BY <1>3, <2>1 DEF b
<1>8. Buffer \in Chars /\ Len(Buffer) \in Nat /\ Len(Buffer) >= 7
  BY <1>3, StatusInBuffer DEF Buffer
<1>9. length \in Nat /\ length >= 1
  BY <1>5, <1>7, <1>8
<1>10. LoopTypes
  BY <1>4, <1>5, <1>9 DEF LoopTypes
<1>11. SendTypes
  <2>1. Kept(BodyChars, text, body) /\ Len(body) = 0
    BY <1>4, NothingKept, NoChars
  <2>2. MaxBody \in Nat
    BY ResponseHeadersAssumption
  <2>3. Len(body) <= MaxBody
    BY <2>1, <2>2
  <2>4. QED
    BY <1>4, <2>1, <2>3, Zenon DEF SendTypes
<1>12. FoundIsText
  BY <1>4, NothingIs DEF FoundIsText
<1>13. CurlInv
  BY <1>3, <1>4, <1>5, <1>7 DEF CurlInv, CurlReads
<1>14. WinSends
  BY <1>4, <1>5 DEF WinSends, Asked, Untouched
<1>15. WinBuffers
  BY <1>5, <1>8 DEF WinBuffers
<1>16. WinStatus /\ WinNames /\ WinHeaders
  BY <1>5 DEF WinStatus, WinNames, WinHeaders, Ended
<1>17. QED
  BY <1>2, <1>10, <1>11, <1>12, <1>13, <1>14, <1>15, <1>16 DEF IInv
-----------------------------------------------------------------------------
\* What depends on the responses alone.
LEMMA Same ==
  ASSUME UNCHANGED input
  PROVE  /\ backend' = backend /\ responses' = responses /\ length' = length
         /\ Last' = Last /\ CurlLines' = CurlLines /\ Before' = Before /\ Count' = Count
         /\ Buffer' = Buffer /\ Regular' = Regular /\ (Received => Received')
<1>1. backend' = backend /\ responses' = responses /\ length' = length
  BY DEF input
<1>2. Last' = Last /\ CurlLines' = CurlLines
  BY <1>1 DEF Last, CurlLines
<1>3. Before' = Before /\ Count' = Count /\ Buffer' = Buffer
  BY <1>1, <1>2 DEF Before, Count, Buffer
<1>4. Regular' = Regular
  BY <1>2 DEF Regular, NameOf
<1>5. Received => Received'
  BY <1>1 DEF Received
<1>6. QED
  BY <1>1, <1>2, <1>3, <1>4, <1>5

\* A step of libcurl leaves the parts for WinINet alone.
LEMMA CurlIsNotWin ==
  ASSUME backend' = "curl"
  PROVE  WinSends' /\ WinBuffers' /\ WinStatus' /\ WinNames' /\ WinHeaders'
BY DEF WinSends, WinBuffers, WinStatus, WinNames, WinHeaders

LEMMA HeaderCallbackStep == IInv /\ headerCallback => IInv'
<1>1. SUFFICES ASSUME IInv, headerCallback PROVE IInv'
  OBVIOUS
<1> DEFINE line == buffer[position + 1]
           hs == Last.headers
<1>2. /\ Received /\ FoundIsText /\ LoopTypes /\ SendTypes /\ CurlInv /\ WinSends
  BY <1>1 DEF IInv
<1>3. /\ pc = "lines" /\ position < Len(buffer) /\ position' = position + 1
      /\ UNCHANGED <<buffer, key, statusStr, pc>> /\ UNCHANGED input
      /\ UNCHANGED sendVars
  BY <1>1 DEF headerCallback
<1>4. headers' = Callback(headers, line)
  BY <1>1 DEF headerCallback, Callback
<1>5. backend = "curl" /\ backend' = "curl"
  <2>1. backend = "curl"
    BY <1>2, <1>3 DEF Received, WinSends
  <2>2. QED
    BY <2>1, <1>3 DEF input
<1>6. /\ Last' = Last /\ CurlLines' = CurlLines /\ Before' = Before /\ Count' = Count
      /\ length' = length /\ Received'
  BY <1>2, <1>3, Same
<1>7. buffer = Concat(CurlLines) /\ CurlReads
  BY <1>2, <1>5 DEF CurlInv
<1>8. CurlText(buffer, Before, Last)
  BY <1>2, <1>7, CurlBuffer
<1>9. Last \in Response /\ Count \in Nat /\ Line(Last.reason)
  BY <1>2, LastIs, ResponseIs
<1>10. \A k \in 1 .. Count : hs[k] \in Headers
  BY <1>9, ResponseIs DEF Count
<1>11. /\ Before \in Nat /\ Len(buffer) = Before + 2 + Count
       /\ buffer[Before + 1] = Status(Last.reason) \o CRLF
       /\ \A i \in 1 .. Count : buffer[Before + 1 + i] = Text(hs[i]) \o CRLF
       /\ buffer[Before + 2 + Count] = CRLF
  BY <1>8 DEF CurlText, Count
<1>12. position \in Nat
  BY <1>2 DEF LoopTypes
<1>13. Line(line)
  <2>1. buffer \in Seq(CurlLine)
    BY <1>8 DEF CurlText
  <2>2. position + 1 \in 1 .. Len(buffer)
    BY <1>3, <1>9, <1>11, <1>12
  <2>3. line \in CurlLine
    BY <2>1, <2>2, ElementOfSeq
  <2>4. QED
    BY <2>3 DEF CurlLine
<1>14. FoundIsText'
  BY <1>2, <1>4, <1>13, CallbackText DEF FoundIsText
<1> HIDE DEF hs
<1>15. ASSUME NEW k \in 0 .. Count, position + 1 = Before + 1 + k
       PROVE  Latest(headers', hs, k)
  <2>1. CASE k = 0
    <3>1. line = Status(Last.reason) \o CRLF
      BY <1>11, <1>12, <1>15, <2>1
    <3> HIDE DEF line
    <3>2. Latest(Callback(headers, line), hs, 0)
      BY <1>9, <3>1, CallbackStatus
    <3>3. QED
      BY <1>4, <2>1, <3>2
  <2>2. CASE k > 0
    <3> DEFINE m == k - 1
    <3>1. m \in 0 .. Count /\ position = Before + 1 + m /\ k \in Nat /\ k \in 1 .. Count
      BY <1>9, <1>11, <1>12, <1>15, <2>2
    <3> HIDE DEF m
    <3>2. Latest(headers, hs, m)
      BY <1>7, <3>1 DEF CurlReads, hs
    <3>3. Latest(headers, hs, k - 1)
      BY <3>2 DEF m
    <3>4. line = Text(hs[k]) \o CRLF
      BY <1>11, <1>15, <3>1
    <3>5. hs[k] \in Headers
      BY <1>10, <3>1
    <3> HIDE DEF line
    <3>6. Latest(Callback(headers, line), hs, k)
      BY <2>2, <3>1, <3>3, <3>4, <3>5, CallbackHeader
    <3>7. QED
      BY <1>4, <3>6
  <2>3. QED
    BY <1>9, <2>1, <2>2
<1>16. ASSUME position + 1 > Before + Count
       PROVE  Latest(headers', hs, Count)
  <2>1. CASE position + 1 = Before + 1 + Count
    BY <1>9, <1>15, <2>1
  <2>2. CASE position = Before + Count + 1
    <3>1. line = CRLF
      BY <1>9, <1>11, <1>12, <2>2
    <3>2. headers' = headers
      BY <1>4, <3>1, CallbackEnd
    <3>3. position > Before + Count
      BY <1>9, <1>11, <2>2
    <3>4. Latest(headers, hs, Count)
      BY <1>7, <3>3 DEF CurlReads, hs
    <3>5. QED
      BY <3>2, <3>4
  <2>3. QED
    BY <1>3, <1>9, <1>11, <1>12, <1>16, <2>1, <2>2
<1>17. CurlReads'
  <2>1. hs' = hs
    BY <1>6 DEF hs
  <2>2. \A k \in 0 .. Count : position' = Before + 1 + k => Latest(headers', hs, k)
    BY <1>3, <1>15
  <2>3. position' > Before + Count => Latest(headers', hs, Count)
    BY <1>3, <1>16
  <2>4. QED
    BY <1>6, <2>2, <2>3 DEF CurlReads, hs
<1>18. CurlInv'
  BY <1>3, <1>6, <1>7, <1>17 DEF CurlInv
<1>19. LoopTypes' /\ SendTypes'
  <2>1. position' \in Nat
    BY <1>3, <1>12
  <2>2. LoopTypes'
    BY <1>2, <1>3, <1>6, <2>1 DEF LoopTypes
  <2>3. SendTypes'
    BY <1>2, <1>3 DEF SendTypes, sendVars
  <2>4. QED
    BY <2>2, <2>3
<1>20. QED
  BY <1>5, <1>6, <1>14, <1>18, <1>19, CurlIsNotWin DEF IInv

LEMMA EndOfLinesStep == IInv /\ EndOfLines => IInv'
<1>1. SUFFICES ASSUME IInv, EndOfLines PROVE IInv'
  OBVIOUS
<1>2. /\ Received /\ FoundIsText /\ LoopTypes /\ SendTypes /\ CurlInv /\ WinSends
  BY <1>1 DEF IInv
<1>3. /\ pc = "lines" /\ position = Len(buffer) /\ pc' = "done"
      /\ UNCHANGED <<buffer, position, key, statusStr, headers>> /\ UNCHANGED input
      /\ UNCHANGED sendVars
  BY <1>1 DEF EndOfLines
<1>4. backend = "curl" /\ backend' = "curl"
  <2>1. backend = "curl"
    BY <1>2, <1>3 DEF Received, WinSends
  <2>2. QED
    BY <2>1, <1>3 DEF input
<1>5. /\ Last' = Last /\ CurlLines' = CurlLines /\ Before' = Before /\ Count' = Count
      /\ length' = length /\ Received'
  BY <1>2, <1>3, Same
<1>6. CurlReads'
  BY <1>2, <1>3, <1>4, <1>5 DEF CurlInv, CurlReads
<1>7. CurlInv'
  BY <1>2, <1>3, <1>4, <1>5, <1>6 DEF CurlInv
<1>8. LoopTypes' /\ FoundIsText'
  BY <1>2, <1>3, <1>5 DEF LoopTypes, FoundIsText
<1>9. SendTypes'
  BY <1>2, <1>3 DEF SendTypes, sendVars
<1>10. QED
  BY <1>4, <1>5, <1>7, <1>8, <1>9, CurlIsNotWin DEF IInv
-----------------------------------------------------------------------------
\* send() before the head is there.
LEMMA WinIsNotCurl == ASSUME backend' = "wininet" PROVE CurlInv'
BY DEF CurlInv

LEMMA AskedIsWin ==
  ASSUME IInv, pc # "lines", pc # "done"
  PROVE  backend = "wininet"
BY DEF IInv, Received, CurlInv

LEMMA HttpOpenRequestStep == IInv /\ HttpOpenRequest => IInv'
<1>1. SUFFICES ASSUME IInv, HttpOpenRequest PROVE IInv'
  OBVIOUS
<1>2. /\ Received /\ FoundIsText /\ LoopTypes /\ SendTypes
      /\ WinSends /\ WinBuffers
  BY <1>1 DEF IInv
<1>3. /\ pc = "open" /\ pc' = "send" /\ request' = TRUE /\ UNCHANGED input
      /\ UNCHANGED <<buffer, position, key, statusStr, headers, err, text, body, ending>>
  BY <1>1 DEF HttpOpenRequest
<1>4. backend = "wininet" /\ backend' = "wininet"
  <2>1. backend = "wininet"
    BY <1>1, <1>3, AskedIsWin
  <2>2. QED
    BY <2>1, <1>3 DEF input
<1>5. Last' = Last /\ Buffer' = Buffer /\ length' = length /\ Received'
  BY <1>2, <1>3, Same
<1>6. CurlInv'
  BY <1>4, WinIsNotCurl
<1>7. LoopTypes' /\ FoundIsText'
  BY <1>2, <1>3, <1>5 DEF LoopTypes, FoundIsText
<1>8. SendTypes'
  BY <1>2, <1>3, Zenon DEF SendTypes
<1>9. WinSends'
  BY <1>2, <1>3, <1>4, <1>5 DEF WinSends, Asked, Untouched
<1>10. WinBuffers'
  BY <1>2, <1>3, <1>4, <1>5 DEF WinBuffers
<1>11. WinStatus' /\ WinNames' /\ WinHeaders'
  BY <1>3 DEF WinStatus, WinNames, WinHeaders, Ended
<1>12. QED
  BY <1>5, <1>6, <1>7, <1>8, <1>9, <1>10, <1>11 DEF IInv

LEMMA ProceedStep == IInv /\ Proceed => IInv'
<1>1. SUFFICES ASSUME IInv, Proceed PROVE IInv'
  OBVIOUS
<1>2. /\ Received /\ FoundIsText /\ LoopTypes /\ SendTypes
      /\ WinSends /\ WinBuffers
  BY <1>1 DEF IInv
<1>3. /\ pc \in {"send", "query", "fill"} /\ pc' \in {"query", "fill", "status"}
      /\ UNCHANGED input /\ UNCHANGED sendVars
      /\ UNCHANGED <<buffer, position, key, statusStr, headers>>
  BY <1>1 DEF Proceed
<1>4. backend = "wininet" /\ backend' = "wininet"
  <2>1. backend = "wininet"
    BY <1>1, <1>3, AskedIsWin
  <2>2. QED
    BY <2>1, <1>3 DEF input
<1>5. Last' = Last /\ Buffer' = Buffer /\ length' = length /\ Received'
  BY <1>2, <1>3, Same
<1>6. CurlInv'
  BY <1>4, WinIsNotCurl
<1>7. LoopTypes' /\ FoundIsText'
  BY <1>2, <1>3, <1>5 DEF LoopTypes, FoundIsText
<1>8. SendTypes'
  BY <1>2, <1>3 DEF SendTypes, sendVars
<1>9. Untouched /\ buffer = Buffer /\ position = 0 /\ key = 0 /\ err = "NoError" /\ ending = "none"
  BY <1>2, <1>3, <1>4 DEF WinSends, Asked
<1>10. WinSends'
  BY <1>3, <1>5, <1>9 DEF WinSends, Asked, Untouched, sendVars
<1>11. WinBuffers'
  BY <1>2, <1>3, <1>4, <1>5 DEF WinBuffers
<1>12. WinStatus'
  BY <1>2, <1>3, <1>5, <1>9 DEF WinStatus, Untouched, Ended, LoopTypes
<1>13. WinNames'
  BY <1>3 DEF WinNames
<1>14. WinHeaders'
  <2>1. 0 < Start(Last, 1)
    <3>1. Last \in Response
      BY <1>2, LastIs
    <3>2. Len(Last.reason) \in Nat
      BY <3>1, ResponseIs
    <3>3. Start(Last, 1) = 6 + Len(Last.reason)
      BY <3>1, StatusInBuffer
    <3>4. QED
      BY <3>2, <3>3
  <2>2. QED
    BY <1>3, <1>5, <1>9, <2>1 DEF WinHeaders, Ended
<1>15. QED
  BY <1>5, <1>6, <1>7, <1>8, <1>10, <1>11, <1>12, <1>13, <1>14 DEF IInv

LEMMA FailStep == IInv /\ Fail => IInv'
<1>1. SUFFICES ASSUME IInv, Fail PROVE IInv'
  OBVIOUS
<1>2. /\ Received /\ FoundIsText /\ LoopTypes /\ SendTypes
      /\ WinSends /\ WinBuffers
  BY <1>1 DEF IInv
<1>3. /\ pc \in Asked /\ pc' = "done" /\ request' = FALSE
      /\ UNCHANGED input /\ UNCHANGED <<text, body, ending>>
      /\ UNCHANGED <<buffer, position, key, statusStr, headers>>
  BY <1>1 DEF Fail, Return, Asked
<1>4. PICK error \in Errors : err' = fromWinINetError(error)
  BY <1>1 DEF Fail
<1>5. err' # "NoError"
  BY <1>4, ErrorIsError
<1>6. backend = "wininet" /\ backend' = "wininet"
  <2>1. backend = "wininet"
    BY <1>1, <1>3, AskedIsWin DEF Asked
  <2>2. QED
    BY <2>1, <1>3 DEF input
<1>7. Last' = Last /\ Buffer' = Buffer /\ length' = length /\ Received'
  BY <1>2, <1>3, Same
<1>8. CurlInv'
  BY <1>6, WinIsNotCurl
<1>9. LoopTypes' /\ FoundIsText'
  BY <1>2, <1>3, <1>7 DEF LoopTypes, FoundIsText
<1>10. SendTypes'
  BY <1>2, <1>3, <1>4, Zenon DEF SendTypes
<1>11. WinSends'
  BY <1>2, <1>3, <1>5, <1>6, <1>7 DEF WinSends, Asked, Untouched
<1>12. WinBuffers'
  BY <1>2, <1>3, <1>6, <1>7 DEF WinBuffers
<1>13. WinStatus' /\ WinNames' /\ WinHeaders'
  BY <1>3, <1>5 DEF WinStatus, WinNames, WinHeaders, Ended
<1>14. QED
  BY <1>7, <1>8, <1>9, <1>10, <1>11, <1>12, <1>13 DEF IInv

-----------------------------------------------------------------------------
\* The body.
LEMMA ReadFileStep == IInv /\ ReadFile => IInv'
<1>1. SUFFICES ASSUME IInv, ReadFile PROVE IInv'
  OBVIOUS
<1>2. /\ Received /\ FoundIsText /\ LoopTypes /\ SendTypes
      /\ WinSends /\ WinBuffers /\ WinStatus /\ WinNames /\ WinHeaders
  BY <1>1 DEF IInv
<1>3. /\ pc = "read"
      /\ UNCHANGED input /\ UNCHANGED <<pc, request, err, ending>>
      /\ UNCHANGED <<buffer, position, key, statusStr, headers>>
  BY <1>1 DEF ReadFile
<1>4. backend = "wininet" /\ backend' = "wininet"
  <2>1. backend = "wininet"
    BY <1>1, <1>3, AskedIsWin
  <2>2. QED
    BY <2>1, <1>3 DEF input
<1>5. /\ Last' = Last /\ Buffer' = Buffer /\ Regular' = Regular /\ Count' = Count
      /\ length' = length /\ Received'
  BY <1>2, <1>3, Same
<1>6. CurlInv'
  BY <1>4, WinIsNotCurl
<1>7. LoopTypes' /\ FoundIsText'
  BY <1>2, <1>3, <1>5 DEF LoopTypes, FoundIsText
<1>8. SendTypes'
  <2>1. PICK n \in 1 .. BufferLen - 1 : \E chars \in [1 .. n -> BodyChars] :
          /\ Len(body) + n <= MaxBody
          /\ body' = body \o chars
          /\ text' = text \o CString(chars)
    BY <1>1, Zenon DEF ReadFile, BodyChars
  <2>2. PICK chars \in [1 .. n -> BodyChars] :
          /\ Len(body) + n <= MaxBody
          /\ body' = body \o chars
          /\ text' = text \o CString(chars)
    BY <2>1
  <2>3. n \in Nat /\ NUL \in BodyChars
    <3>1. NUL \in BodyChars
      BY DEF BodyChars
    <3>2. BufferLen \in Nat
      BY ResponseHeadersAssumption
    <3>3. QED
      BY <3>1, <3>2
  <2>4. Kept(BodyChars, text, body)
    BY <1>2 DEF SendTypes
  <2>5. /\ Kept(BodyChars, text \o CString(chars), body \o chars)
        /\ Len(body \o chars) = Len(body) + n
    BY <2>3, <2>4, PieceIsKept
  <2>6. Kept(BodyChars, text', body') /\ Len(body') <= MaxBody
    BY <2>2, <2>5
  <2>7. QED
    BY <1>2, <1>3, <2>6, Zenon DEF SendTypes
<1>9. WinSends'
  BY <1>2, <1>3, <1>4 DEF WinSends, Asked
<1>10. WinBuffers'
  BY <1>2, <1>3, <1>4, <1>5 DEF WinBuffers
<1>11. WinStatus'
  BY <1>2, <1>3, <1>4, <1>5 DEF WinStatus, CodeIsFound, NoCodeIsFound, Ended
<1>12. WinNames'
  BY <1>3 DEF WinNames
<1>13. WinHeaders'
  BY <1>2, <1>3, <1>4, <1>5 DEF WinHeaders, AllFound, Ended
<1>14. QED
  BY <1>5, <1>6, <1>7, <1>8, <1>9, <1>10, <1>11, <1>12, <1>13 DEF IInv

LEMMA EndOfBodyStep == IInv /\ (EndOfBody \/ ReadFails) => IInv'
<1>1. SUFFICES ASSUME IInv, EndOfBody \/ ReadFails PROVE IInv'
  OBVIOUS
<1>2. /\ Received /\ FoundIsText /\ LoopTypes /\ SendTypes
      /\ WinSends /\ WinBuffers /\ WinStatus /\ WinNames /\ WinHeaders
  BY <1>1 DEF IInv
<1>3. /\ pc = "read" /\ pc' = "done" /\ request' = FALSE /\ ending' \in {"complete", "broken"}
      /\ UNCHANGED input /\ UNCHANGED <<err, text, body>>
      /\ UNCHANGED <<buffer, position, key, statusStr, headers>>
  BY <1>1 DEF EndOfBody, ReadFails, Return
<1>4. backend = "wininet" /\ backend' = "wininet"
  <2>1. backend = "wininet"
    BY <1>1, <1>3, AskedIsWin
  <2>2. QED
    BY <2>1, <1>3 DEF input
<1>5. /\ Last' = Last /\ Buffer' = Buffer /\ Regular' = Regular /\ Count' = Count
      /\ length' = length /\ Received'
  BY <1>2, <1>3, Same
<1>6. CurlInv'
  BY <1>4, WinIsNotCurl
<1>7. LoopTypes' /\ FoundIsText'
  BY <1>2, <1>3, <1>5 DEF LoopTypes, FoundIsText
<1>8. SendTypes'
  BY <1>2, <1>3, Zenon DEF SendTypes
<1>9. err = "NoError"
  BY <1>2, <1>3, <1>4 DEF WinSends
<1>10. WinSends'
  BY <1>3, <1>9 DEF WinSends, Asked
<1>11. WinBuffers'
  BY <1>2, <1>3, <1>4, <1>5 DEF WinBuffers
<1>12. WinStatus'
  BY <1>2, <1>3, <1>4, <1>5 DEF WinStatus, CodeIsFound, NoCodeIsFound, Ended
<1>13. WinNames'
  BY <1>3 DEF WinNames
<1>14. WinHeaders'
  BY <1>2, <1>3, <1>4, <1>5 DEF WinHeaders, AllFound, Ended
<1>15. QED
  BY <1>5, <1>6, <1>7, <1>8, <1>10, <1>11, <1>12, <1>13, <1>14 DEF IInv
-----------------------------------------------------------------------------
\* What the loops of parseHeaders leave alone.
Loops == {"status", "headers", "read"}

LEMMA LoopFrame ==
  ASSUME IInv, pc \in Loops, pc' \in Loops, UNCHANGED input, UNCHANGED sendVars
  PROVE  /\ backend = "wininet" /\ backend' = "wininet"
         /\ Last' = Last /\ Buffer' = Buffer /\ Regular' = Regular /\ Count' = Count
         /\ length' = length /\ Received' /\ CurlInv' /\ SendTypes' /\ WinSends'
<1>1. Received /\ SendTypes /\ WinSends
  BY DEF IInv
<1>2. backend = "wininet" /\ backend' = "wininet"
  <2>1. backend = "wininet"
    BY AskedIsWin DEF Loops
  <2>2. QED
    BY <2>1 DEF input
<1>3. /\ Last' = Last /\ Buffer' = Buffer /\ Regular' = Regular /\ Count' = Count
      /\ length' = length /\ Received'
  BY <1>1, Same
<1>4. SendTypes'
  BY <1>1 DEF SendTypes, sendVars
<1>5. WinSends'
  BY <1>1, <1>2 DEF WinSends, sendVars, Asked, Loops
<1>6. QED
  BY <1>2, <1>3, <1>4, <1>5, WinIsNotCurl

\* What is known of the buffer.
LEMMA BufferIs ==
  ASSUME Received, WinBuffers, backend = "wininet"
  PROVE  /\ Last \in Response /\ Count \in Nat
         /\ Len(Buffer) \in Nat /\ Len(Buffer) >= 7 /\ Buffer \in Chars
         /\ length \in Nat /\ length <= Len(Buffer) /\ length >= Len(Buffer) - 1
         /\ buffer \in Chars /\ Len(buffer) = Len(Buffer)
         /\ Buffer[1] = "HTTP/" /\ Buffer[2] = " "
         /\ Len(Last.reason) \in Nat
         /\ Len(Buffer) = 7 => Len(Last.reason) = 0 /\ Count = 0
<1>1. Last \in Response /\ Count \in Nat
  BY LastIs
<1>2. /\ Len(Buffer) \in Nat /\ Len(Buffer) >= 7 /\ Buffer \in Chars
      /\ Buffer[1] = "HTTP/" /\ Buffer[2] = " "
  BY <1>1, StatusInBuffer DEF Buffer
<1>3. Len(Buffer) = 7 => Len(Last.reason) = 0 /\ Count = 0
  BY <1>1, StatusInBuffer DEF Buffer, Count
<1>4. Len(Last.reason) \in Nat
  BY <1>1, ResponseIs
<1>5. /\ length \in {Len(Buffer) - 1, Len(Buffer)}
      /\ buffer \in Chars /\ Len(buffer) = Len(Buffer)
  BY DEF WinBuffers
<1>6. length \in Nat /\ length <= Len(Buffer) /\ length >= Len(Buffer) - 1
  <2>1. Len(Buffer) \in Nat /\ Len(Buffer) >= 7
    BY <1>2
  <2>2. length \in {Len(Buffer) - 1, Len(Buffer)}
    BY <1>5
  <2>3. QED
    BY <2>1, <2>2
<1>7. QED
  BY <1>1, <1>2, <1>3, <1>4, <1>5, <1>6, Zenon

\* A NUL put anywhere leaves it a buffer.
LEMMA BufferKeeps ==
  ASSUME NEW b \in Chars, NEW i \in 1 .. Len(b), NEW next, next = [b EXCEPT ![i] = NUL]
  PROVE  /\ next \in Chars /\ Len(next) = Len(b)
         /\ next[i] = NUL /\ \A j \in 1 .. Len(b) : j # i => next[j] = b[j]
<1>1. NUL \in Char /\ Len(b) \in Nat /\ DOMAIN b = 1 .. Len(b)
  BY Characters, LenOf
<1>2. next \in Seq(Char) /\ Len(next) = Len(b)
  <2>1. b \in [1 .. Len(b) -> Char]
    BY LenProperties DEF Chars
  <2>2. next \in [1 .. Len(b) -> Char]
    BY <1>1, <2>1
  <2>3. next \in Seq(Char)
    BY <1>1, <2>2, SeqDef
  <2>4. DOMAIN next = 1 .. Len(b)
    BY <2>2
  <2>5. DOMAIN next = 1 .. Len(next) /\ Len(next) \in Nat
    BY <2>3, LenProperties
  <2>6. QED
    BY <1>1, <2>3, <2>4, <2>5
<1>3. next[i] = NUL /\ \A j \in 1 .. Len(b) : j # i => next[j] = b[j]
  BY <1>1
<1>4. QED
  BY <1>2, <1>3 DEF Chars

\* The places of the status line.
LEMMA StatusPlaces ==
  ASSUME Received
  PROVE  /\ Start(Last, 1) = 6 + Len(Last.reason) /\ Start(Last, 1) < Len(Buffer)
         /\ Buffer[3] = "2" /\ Buffer[4] = "0" /\ Buffer[5] = "0"
         /\ \A i \in 1 .. Len(Last.reason) : Buffer[5 + i] # NUL
         /\ Buffer[Start(Last, 1)] = NUL
<1>1. Last \in Response
  BY LastIs
<1>2. Start(Last, 1) = 6 + Len(Last.reason) /\ Start(Last, 1) < Len(Buffer)
  BY <1>1, StatusInBuffer DEF Buffer
<1>3. Buffer[3] = "2" /\ Buffer[4] = "0" /\ Buffer[5] = "0"
  BY <1>1, StatusInBuffer DEF Buffer
<1>4. \A i \in 1 .. Len(Last.reason) : Buffer[5 + i] # NUL
  BY <1>1, StatusInBuffer DEF Buffer
<1>5. Buffer[Start(Last, 1)] = NUL
  BY <1>1, StatusInBuffer DEF Buffer
<1>6. QED
  BY <1>2, <1>3, <1>4, <1>5

\* The end of the list.
LEMMA LastStart ==
  ASSUME Received
  PROVE  Start(Last, Count + 1) = Len(Buffer) - 1
<1>1. Last \in Response /\ Count \in Nat
  BY LastIs
<1>2. WinText(Buffer, Last)
  BY <1>1, WinTextIs DEF Buffer
<1> DEFINE n == Count + 1
<1>3. n \in 0 .. Count + 1
  BY <1>1
<1>4. Start(Last, n) \in Nat /\ Len(Buffer) = Start(Last, n) + 1
  BY <1>2, <1>3 DEF WinText, Count
<1> HIDE DEF n
<1>5. Start(Last, n) = Len(Buffer) - 1
  BY <1>4
<1>6. QED
  BY <1>5 DEF n

\* The place of a header.
LEMMA HeaderPlaced ==
  ASSUME Received, NEW k \in 1 .. Count
  PROVE  Placed(Buffer, Last.headers[k], Start(Last, k), Start(Last, k + 1))
<1>1. Last \in Response /\ k \in 1 .. Len(Last.headers)
  BY LastIs DEF Count
<1> DEFINE h == Last.headers[k]
           s == Start(Last, k)
<1>2. h = Last.headers[k] /\ s = Start(Last, k) /\ Buffer = WinBuffer(Last)
  BY DEF Buffer
<1> HIDE DEF h, s
<1>3. Placed(Buffer, h, s, Start(Last, k + 1))
  BY <1>1, <1>2, HeaderInBuffer
<1>4. QED
  BY <1>3 DEF h, s

LEMMA HeaderPlaces ==
  ASSUME Received, NEW k \in 1 .. Count
  PROVE  LET h == Last.headers[k]
             s == Start(Last, k)
         IN  /\ h \in Headers /\ s \in Nat
             /\ Len(h.name) \in Nat /\ Len(h.gap) \in Nat /\ Len(h.value) \in Nat
             /\ Start(Last, k + 1) = s + Len(h.name) + Len(h.gap) + Len(h.value) + 2
             /\ Start(Last, k + 1) < Len(Buffer)
BY HeaderPlaced DEF Placed

\* If the list has headers, the status line ends well before the buffer does.
LEMMA FirstStart ==
  ASSUME Received, Count > 0
  PROVE  Start(Last, 1) + 2 < Len(Buffer)
<1> DEFINE k == 1
           h == Last.headers[k]
           s == Start(Last, k)
           m == k + 1
<1>1. k \in 1 .. Count
  BY LastIs
<1>2. Len(Buffer) \in Nat
  BY LastIs, StatusInBuffer DEF Buffer
<1> HIDE DEF k
<1>3. /\ s \in Nat
      /\ Len(h.name) \in Nat /\ Len(h.gap) \in Nat /\ Len(h.value) \in Nat
      /\ Start(Last, m) = s + Len(h.name) + Len(h.gap) + Len(h.value) + 2
      /\ Start(Last, m) < Len(Buffer)
  BY <1>1, HeaderPlaces
<1> DEFINE a == Len(h.name)
           b == Len(h.gap)
           c == Len(h.value)
           e == Start(Last, m)
           w == Len(Buffer)
<1>4. /\ s \in Nat /\ a \in Nat /\ b \in Nat /\ c \in Nat /\ w \in Nat
      /\ e = s + a + b + c + 2 /\ e < w
  BY <1>2, <1>3
<1> HIDE DEF h, s, m, a, b, c, e, w
<1>5. s + 2 < w
  BY <1>4
<1>6. s + 2 < Len(Buffer)
  BY <1>5 DEF w
<1>7. s = Start(Last, k) /\ k = 1
  BY DEF s, k
<1>8. QED
  BY <1>6, <1>7

\* What the first loop knows.
AtStart == statusStr = -1 /\ position \in {0, 1} /\ buffer = Buffer
NoCode  == NoCodeIsFound /\ position = 6 /\ buffer = Buffer
Behind  == statusStr = 2 /\ position >= 7 /\ buffer = [Buffer EXCEPT ![6] = NUL]

LEMMA InStatus ==
  ASSUME IInv, pc = "status"
  PROVE  /\ backend = "wininet" /\ Received /\ WinBuffers /\ LoopTypes /\ FoundIsText
         /\ headers = Nothing /\ position <= length
         /\ AtStart \/ NoCode \/ Behind
         /\ Regular => position < Start(Last, 1)
<1>1. Received /\ WinBuffers /\ LoopTypes /\ FoundIsText /\ WinStatus /\ WinHeaders
  BY DEF IInv
<1>2. backend = "wininet"
  BY AskedIsWin
<1>3. /\ headers = Nothing /\ position <= length
      /\ AtStart \/ NoCode \/ Behind
  BY <1>1, <1>2 DEF WinStatus, AtStart, NoCode, Behind
<1>4. Regular => position < Start(Last, 1)
  BY <1>1, <1>2 DEF WinHeaders
<1>5. QED
  BY <1>1, <1>2, <1>3, <1>4

\* The parts of the invariant that a step of the loops has to keep.
LEMMA LoopStep ==
  ASSUME IInv, pc \in Loops, pc' \in Loops, UNCHANGED input, UNCHANGED sendVars,
         FoundIsText', LoopTypes', WinBuffers', WinStatus', WinNames', WinHeaders'
  PROVE  IInv'
<1>1. Received' /\ CurlInv' /\ SendTypes' /\ WinSends'
  BY LoopFrame
<1>2. QED
  BY <1>1 DEF IInv

LEMMA LoopTypesStep ==
  ASSUME LoopTypes, UNCHANGED input, position' \in Nat, key' \in 0 .. length,
         statusStr' \in -1 .. length - 1, pc' \in Loops
  PROVE  LoopTypes'
<1>1. length' = length /\ length \in Nat
  BY Same DEF LoopTypes
<1>2. pc' \in {"lines", "open", "send", "query", "fill", "status", "headers", "read", "done"}
  BY DEF Loops
<1>3. key' \in 0 .. length' /\ statusStr' \in -1 .. length' - 1
  BY <1>1
<1>4. QED
  BY <1>1, <1>2, <1>3 DEF LoopTypes

LEMMA BufferStep ==
  ASSUME Received, WinBuffers, backend = "wininet", UNCHANGED input,
         NEW i \in 1 .. Len(Buffer), buffer' = [buffer EXCEPT ![i] = NUL]
  PROVE  WinBuffers'
<1>1. length' = length /\ Buffer' = Buffer
  BY Same
<1>2. buffer \in Chars /\ Len(buffer) = Len(Buffer)
  BY DEF WinBuffers
<1>3. i \in 1 .. Len(buffer)
  BY <1>2
<1>4. buffer' \in Chars /\ Len(buffer') = Len(buffer)
  BY <1>2, <1>3, BufferKeeps
<1>5. length' \in {Len(Buffer') - 1, Len(Buffer')}
  BY <1>1 DEF WinBuffers
<1>6. QED
  BY <1>1, <1>2, <1>4, <1>5 DEF WinBuffers

LEMMA SameBuffer ==
  ASSUME Received, WinBuffers, backend = "wininet", UNCHANGED input, buffer' = buffer
  PROVE  WinBuffers'
<1>1. length' = length /\ Buffer' = Buffer
  BY Same
<1>2. QED
  BY <1>1 DEF WinBuffers

\* On a space the first loop finds the code, or that nothing follows it.
LEMMA FindCodeStep == IInv /\ FindCode => IInv'
<1>1. SUFFICES ASSUME IInv, FindCode PROVE IInv'
  OBVIOUS
<1>2. /\ pc = "status" /\ pc' = "status" /\ position < length - 1
      /\ statusStr = -1 /\ At(position) = " " /\ key' = key /\ headers' = headers
      /\ UNCHANGED input /\ UNCHANGED sendVars
  BY <1>1 DEF FindCode
<1>3. /\ backend = "wininet" /\ Received /\ WinBuffers /\ LoopTypes /\ FoundIsText
      /\ headers = Nothing
      /\ AtStart \/ NoCode \/ Behind
  BY <1>1, <1>2, InStatus
<1>4. pc \in Loops /\ pc' \in Loops
  BY <1>2 DEF Loops
<1>5. /\ backend' = "wininet" /\ Last' = Last /\ Buffer' = Buffer /\ Regular' = Regular
      /\ length' = length
  BY <1>1, <1>2, <1>4, LoopFrame
<1>6. /\ Len(Buffer) \in Nat /\ Len(Buffer) >= 7 /\ Buffer \in Chars
      /\ length \in Nat /\ length <= Len(Buffer) /\ length >= Len(Buffer) - 1
      /\ Buffer[1] = "HTTP/"
      /\ Len(Last.reason) \in Nat
      /\ Len(Buffer) = 7 => Len(Last.reason) = 0 /\ Count = 0
  BY <1>3, BufferIs
<1>7. Start(Last, 1) = 6 + Len(Last.reason)
  BY <1>3, StatusPlaces
<1>8. position = 1 /\ buffer = Buffer
  <2>1. CASE AtStart
    <3>1. position # 0
      <4>1. SUFFICES ASSUME position = 0 PROVE FALSE
        OBVIOUS
      <4>2. buffer[1] = " "
        <5>1. buffer[position + 1] = " "
          BY <1>2 DEF At
        <5>2. position + 1 = 1
          BY <4>1
        <5>3. QED
          BY <5>1, <5>2
      <4>3. buffer[1] = "HTTP/"
        BY <1>6, <2>1 DEF AtStart
      <4>4. "HTTP/" # " "
        BY Zenon
      <4>5. QED
        BY <4>2, <4>3, <4>4
    <3>2. QED
      BY <2>1, <3>1 DEF AtStart
  <2>2. ~NoCode
    <3>1. NoCode => position = 6 /\ length = 6
      BY DEF NoCode, NoCodeIsFound
    <3>2. position < length - 1
      BY <1>2
    <3>3. QED
      BY <3>1, <3>2
  <2>3. ~Behind
    <3>1. Behind => statusStr = 2
      BY DEF Behind
    <3>2. statusStr = -1
      BY <1>2
    <3>3. QED
      BY <3>1, <3>2
  <2>4. QED
    BY <1>3, <2>1, <2>2, <2>3
<1>9. FoundIsText'
  BY <1>2, <1>3 DEF FoundIsText
<1>10. WinNames'
  <2>1. pc' # "headers"
    BY <1>2
  <2>2. QED
    BY <2>1 DEF WinNames
<1>11. CASE position + 4 < length - 1
  <2>1. statusStr' = 2 /\ position' = 7 /\ buffer' = [Buffer EXCEPT ![6] = NUL]
    <3>1. /\ statusStr' = position + 1 /\ position' = position + 6
          /\ buffer' = [buffer EXCEPT ![position + 5] = NUL]
      BY <1>1, <1>11 DEF FindCode
    <3>2. position + 1 = 2 /\ position + 6 = 7 /\ position + 5 = 6
      BY <1>8
    <3>3. QED
      BY <1>8, <3>1, <3>2
  <2>2. length >= 7
    BY <1>6, <1>8, <1>11
  <2>3. LoopTypes'
    <3>1. key' \in 0 .. length /\ position' \in Nat
      BY <1>2, <1>3, <2>1 DEF LoopTypes
    <3>2. statusStr' \in -1 .. length - 1
      BY <1>6, <2>1, <2>2
    <3>3. QED
      BY <1>2, <1>3, <1>4, <3>1, <3>2, LoopTypesStep
  <2>4. WinBuffers'
    <3>1. 6 \in 1 .. Len(Buffer)
      BY <1>6
    <3>2. buffer' = [buffer EXCEPT ![6] = NUL]
      BY <1>8, <2>1
    <3>3. QED
      BY <1>2, <1>3, <3>1, <3>2, BufferStep
  <2>5. WinStatus'
    <3>1. pc' = "status" /\ headers' = Nothing
      BY <1>2, <1>3
    <3>2. ~(pc' \in {"headers", "read"}) /\ ~Ended'
      BY <3>1 DEF Ended
    <3>3. position' <= length' /\ position' >= 7
      BY <1>5, <1>6, <2>1, <2>2
    <3>4. statusStr' = 2 /\ buffer' = [Buffer' EXCEPT ![6] = NUL]
      BY <1>5, <2>1
    <3>5. QED
      BY <3>1, <3>2, <3>3, <3>4 DEF WinStatus
  <2>6. WinHeaders'
    <3>1. pc' = "status" /\ ~Ended'
      BY <1>2 DEF Ended
    <3>2. Regular => 7 < Start(Last, 1)
      BY <1>6, <1>7 DEF Regular
    <3>3. Regular' => position' < Start(Last', 1)
      BY <1>5, <2>1, <3>2
    <3>4. QED
      BY <3>1, <3>3 DEF WinHeaders
  <2>7. QED
    BY <1>1, <1>2, <1>4, <1>9, <1>10, <2>3, <2>4, <2>5, <2>6, LoopStep
<1>12. CASE ~(position + 4 < length - 1)
  <2>1. statusStr' = -1 /\ position' = 6 /\ buffer' = Buffer
    <3>1. statusStr' = statusStr /\ position' = position + 5 /\ buffer' = buffer
      BY <1>1, <1>12 DEF FindCode
    <3>2. position + 5 = 6
      BY <1>8
    <3>3. QED
      BY <1>2, <1>8, <3>1, <3>2
  <2>2. length = 6 /\ Len(Buffer) = 7
    <3>1. position = 1
      BY <1>8
    <3>2. ~(5 < length - 1)
      BY <1>12, <3>1
    <3>3. /\ Len(Buffer) \in Nat /\ Len(Buffer) >= 7
          /\ length \in Nat /\ length >= Len(Buffer) - 1
      BY <1>6
    <3>4. \A m, n \in Nat : ~(5 < m - 1) /\ n >= 7 /\ m >= n - 1 => m = 6 /\ n = 7
      OBVIOUS
    <3>5. QED
      BY <3>2, <3>3, <3>4
  <2>3. LoopTypes'
    <3>1. key' \in 0 .. length /\ position' \in Nat
      BY <1>2, <1>3, <2>1 DEF LoopTypes
    <3>2. statusStr' \in -1 .. length - 1
      BY <1>6, <2>1, <2>2
    <3>3. QED
      BY <1>2, <1>3, <1>4, <3>1, <3>2, LoopTypesStep
  <2>4. WinBuffers'
    BY <1>2, <1>3, <1>8, <2>1, SameBuffer
  <2>5. WinStatus'
    <3>1. pc' = "status" /\ headers' = Nothing
      BY <1>2, <1>3
    <3>2. ~(pc' \in {"headers", "read"}) /\ ~Ended'
      BY <3>1 DEF Ended
    <3>3. position' <= length'
      BY <1>5, <2>1, <2>2
    <3>4. NoCodeIsFound' /\ position' = 6 /\ buffer' = Buffer'
      BY <1>5, <2>1, <2>2 DEF NoCodeIsFound
    <3>5. QED
      BY <3>1, <3>2, <3>3, <3>4 DEF WinStatus
  <2>6. WinHeaders'
    <3>1. ~Regular
      BY <1>6, <2>2 DEF Regular
    <3>2. QED
      BY <1>5, <3>1 DEF WinHeaders
  <2>7. QED
    BY <1>1, <1>2, <1>4, <1>9, <1>10, <2>3, <2>4, <2>5, <2>6, LoopStep
<1>13. QED
  BY <1>11, <1>12

\* Behind the code the buffer is as it was, but for the NUL, and the code is there.
LEMMA CodeBehind ==
  ASSUME Received, WinBuffers, backend = "wininet", Behind
  PROVE  CodeIsFound /\ \A i \in 1 .. Len(Buffer) : i # 6 => buffer[i] = Buffer[i]
<1>1. Len(Buffer) \in Nat /\ Len(Buffer) >= 7 /\ Buffer \in Chars
  BY BufferIs
<1>2. Buffer[3] = "2" /\ Buffer[4] = "0" /\ Buffer[5] = "0"
  BY StatusPlaces
<1>3. statusStr = 2 /\ buffer = [Buffer EXCEPT ![6] = NUL]
  BY DEF Behind
<1>4. 6 \in 1 .. Len(Buffer)
  BY <1>1
<1>5. buffer[6] = NUL /\ \A i \in 1 .. Len(Buffer) : i # 6 => buffer[i] = Buffer[i]
  BY <1>1, <1>3, <1>4, BufferKeeps
<1>6. 3 \in 1 .. Len(Buffer) /\ 4 \in 1 .. Len(Buffer) /\ 5 \in 1 .. Len(Buffer)
  BY <1>1
<1>7. buffer[3] = Buffer[3] /\ buffer[4] = Buffer[4] /\ buffer[5] = Buffer[5]
  BY <1>5, <1>6
<1>8. CodeIsFound
  BY <1>2, <1>3, <1>5, <1>7 DEF CodeIsFound
<1>9. QED
  BY <1>5, <1>8

\* No header comes before the first.
LEMMA NoneBefore == \A hs : FoundBefore(Nothing, hs, 1)
<1>1. TAKE hs
<1>2. 1 .. 1 - 1 = {}
  OBVIOUS
<1>3. DOMAIN Nothing = {}
  BY NothingIs
<1>4. QED
  BY <1>2, <1>3 DEF FoundBefore

\* What is left for the end of the first loop to show.
LEMMA BehindStep ==
  ASSUME Received, WinBuffers, backend = "wininet", Behind,
         backend' = "wininet", length' = length, Last' = Last, Regular' = Regular,
         UNCHANGED <<buffer, statusStr>>, pc' \in {"headers", "read"},
         position' \in Nat, position' >= 7
  PROVE  WinStatus'
<1>1. CodeIsFound
  BY CodeBehind
<1>2. CodeIsFound'
  BY <1>1 DEF CodeIsFound
<1>3. pc' # "status"
  OBVIOUS
<1>4. QED
  BY <1>2, <1>3 DEF WinStatus

\* On any other character the first loop goes on, or has found the end of the line.
LEMMA SkipStatusStep == IInv /\ SkipStatus => IInv'
<1>1. SUFFICES ASSUME IInv, SkipStatus PROVE IInv'
  OBVIOUS
<1>2. /\ pc = "status" /\ position < length - 1
      /\ ~(statusStr = -1 /\ At(position) = " ")
      /\ position' = position + 1
      /\ UNCHANGED input /\ UNCHANGED sendVars
      /\ buffer' = buffer /\ statusStr' = statusStr /\ headers' = headers
  BY <1>1 DEF SkipStatus
<1>3. position' = position + 1 /\ position < length - 1
  BY <1>2
<1>4. /\ backend = "wininet" /\ Received /\ WinBuffers /\ LoopTypes /\ FoundIsText
      /\ headers = Nothing
      /\ AtStart \/ NoCode \/ Behind
  BY <1>1, <1>2, InStatus
<1>5. pc' \in {"status", "headers"}
  BY <1>1, <1>2 DEF SkipStatus
<1>6. pc \in Loops /\ pc' \in Loops
  BY <1>2, <1>5 DEF Loops
<1>7. /\ backend' = "wininet" /\ Last' = Last /\ Buffer' = Buffer /\ Regular' = Regular
      /\ length' = length /\ Count' = Count
  BY <1>1, <1>2, <1>6, LoopFrame
<1>8. /\ Len(Buffer) \in Nat /\ Len(Buffer) >= 7 /\ Buffer \in Chars
      /\ length \in Nat /\ length <= Len(Buffer) /\ length >= Len(Buffer) - 1
      /\ Buffer[1] = "HTTP/" /\ Buffer[2] = " "
      /\ Len(Last.reason) \in Nat /\ Count \in Nat
  BY <1>4, BufferIs
<1>9. Len(Buffer) \in Nat /\ length \in Nat /\ Len(Last.reason) \in Nat /\ Count \in Nat
  BY <1>8
<1>10. length' = length /\ length >= 6
  <2>1. Len(Buffer) >= 7 /\ length >= Len(Buffer) - 1
    BY <1>8
  <2>2. QED
    BY <1>7, <1>9, <2>1
<1>11. /\ Start(Last, 1) = 6 + Len(Last.reason) /\ Start(Last, 1) < Len(Buffer)
       /\ \A i \in 1 .. Len(Last.reason) : Buffer[5 + i] # NUL
       /\ Buffer[Start(Last, 1)] = NUL
  BY <1>4, StatusPlaces
<1>12. Start(Last, 1) = 6 + Len(Last.reason)
  BY <1>11
<1>13. position \in Nat
  BY <1>4 DEF LoopTypes
<1>14. FoundIsText'
  BY <1>2, <1>4 DEF FoundIsText
<1>15. WinBuffers'
  BY <1>2, <1>4, SameBuffer
<1>16. LoopTypes'
  <2>1. key' \in 0 .. length
    <3>1. CASE At(position) = NUL
      <4>1. key' = position + 1
        BY <1>1, <3>1 DEF SkipStatus
      <4>2. position < length - 1
        BY <1>2
      <4>3. length \in Nat
        BY <1>8
      <4>4. QED
        BY <1>13, <4>1, <4>2, <4>3
    <3>2. CASE At(position) # NUL
      <4>1. key' = key
        BY <1>1, <3>2 DEF SkipStatus
      <4>2. QED
        BY <1>4, <4>1 DEF LoopTypes
    <3>3. QED
      BY <3>1, <3>2
  <2>2. position' \in Nat
    BY <1>3, <1>13
  <2>3. statusStr' \in -1 .. length - 1
    BY <1>2, <1>4 DEF LoopTypes
  <2>4. QED
    BY <1>2, <1>4, <1>6, <2>1, <2>2, <2>3, LoopTypesStep
<1>17. ~Ended'
  BY <1>5 DEF Ended
<1>18. ~NoCode
  <2>1. NoCode => position = 6 /\ length = 6
    BY DEF NoCode, NoCodeIsFound
  <2>2. position < length - 1
    BY <1>2
  <2>3. QED
    BY <2>1, <2>2
<1>19. CASE AtStart
  <2>1. position = 0
    <3>1. position \in {0, 1} /\ statusStr = -1 /\ buffer = Buffer
      BY <1>19 DEF AtStart
    <3>2. position # 1
      <4>1. SUFFICES ASSUME position = 1 PROVE FALSE
        OBVIOUS
      <4>2. position + 1 = 2
        BY <4>1
      <4>3. At(position) = " "
        BY <1>8, <3>1, <4>2 DEF At
      <4>4. QED
        BY <1>2, <3>1, <4>3
    <3>3. QED
      BY <3>1, <3>2
  <2>2. At(position) # NUL
    <3>1. position + 1 = 1
      BY <2>1
    <3>2. At(position) = "HTTP/"
      BY <1>8, <1>19, <3>1 DEF At, AtStart
    <3>3. "HTTP/" # NUL
      BY Zenon DEF NUL
    <3>4. QED
      BY <3>2, <3>3
  <2>3. pc' = "status"
    BY <1>1, <1>2, <2>2 DEF SkipStatus
  <2>4. position' = 1
    BY <1>3, <2>1
  <2>5. statusStr' = -1 /\ position' \in {0, 1} /\ buffer' = Buffer'
    BY <1>2, <1>7, <1>19, <2>4 DEF AtStart
  <2>6. WinStatus'
    <3>1. position' <= length'
      BY <1>9, <1>10, <2>4
    <3>2. headers' = Nothing
      BY <1>2, <1>4
    <3>3. QED
      BY <1>17, <2>3, <2>5, <3>1, <3>2 DEF WinStatus
  <2>7. WinNames'
    <3>1. pc' # "headers"
      BY <2>3
    <3>2. QED
      BY <3>1 DEF WinNames
  <2>8. WinHeaders'
    <3>1. 1 < Start(Last, 1)
      BY <1>9, <1>12
    <3>2. position' < Start(Last', 1)
      BY <1>7, <2>4, <3>1
    <3>3. QED
      BY <1>17, <2>3, <3>2 DEF WinHeaders
  <2>9. QED
    BY <1>1, <1>2, <1>6, <1>14, <1>15, <1>16, <2>6, <2>7, <2>8, LoopStep
<1>20. CASE Behind
  <2>1. position >= 7 /\ statusStr = 2
    BY <1>20 DEF Behind
  <2>2. \A i \in 1 .. Len(Buffer) : i # 6 => buffer[i] = Buffer[i]
    BY <1>4, <1>20, CodeBehind
  <2>3. At(position) = Buffer[position + 1]
    <3>1. position + 1 \in 1 .. Len(Buffer) /\ position + 1 # 6
      <4>1. position < length - 1 /\ length <= Len(Buffer)
        BY <1>2, <1>8
      <4>2. Len(Buffer) \in Nat /\ length \in Nat
        BY <1>8
      <4>3. QED
        BY <1>13, <2>1, <4>1, <4>2
    <3>2. QED
      BY <2>2, <3>1 DEF At
  <2>4. Regular => position < Start(Last, 1)
    BY <1>1, <1>2, InStatus
  <2>5. position' \in Nat /\ position' >= 7 /\ position' <= length'
    <3>1. position < length - 1 /\ length \in Nat
      BY <1>2, <1>8
    <3>2. QED
      BY <1>2, <1>7, <1>13, <2>1, <3>1
  <2>6. CASE At(position) # NUL
    <3>1. pc' = "status"
      BY <1>1, <1>2, <2>6 DEF SkipStatus
    <3>2. WinStatus'
      <4>1. statusStr' = 2 /\ buffer' = [Buffer' EXCEPT ![6] = NUL]
        BY <1>2, <1>7, <1>20 DEF Behind
      <4>2. headers' = Nothing
        BY <1>2, <1>4
      <4>3. QED
        BY <1>17, <2>5, <3>1, <4>1, <4>2 DEF WinStatus
    <3>3. WinNames'
      <4>1. pc' # "headers"
        BY <3>1
      <4>2. QED
        BY <4>1 DEF WinNames
    <3>4. WinHeaders'
      <4>1. Regular => position' < Start(Last', 1)
        <5>1. SUFFICES ASSUME Regular PROVE position' < Start(Last', 1)
          OBVIOUS
        <5>2. position + 1 # Start(Last, 1)
          BY <1>11, <2>3, <2>6
        <5>3. position < Start(Last, 1)
          BY <2>4, <5>1
        <5>4. Start(Last, 1) \in Nat
          BY <1>9, <1>12
        <5>5. position + 1 < Start(Last, 1)
          BY <1>13, <5>2, <5>3, <5>4
        <5>6. QED
          BY <1>2, <1>7, <5>5
      <4>2. QED
        BY <1>7, <1>17, <3>1, <4>1 DEF WinHeaders
    <3>5. QED
      BY <1>1, <1>2, <1>6, <1>14, <1>15, <1>16, <3>2, <3>3, <3>4, LoopStep
  <2>7. CASE At(position) = NUL
    <3>1. pc' = "headers" /\ key' = position' /\ key' = position + 1
      BY <1>1, <1>2, <2>7 DEF SkipStatus
    <3>2. WinStatus'
      BY <1>2, <1>4, <1>7, <1>20, <2>5, <3>1, BehindStep
    <3>3. WinNames'
      <4>1. key' <= position' /\ key' .. position' - 1 = {}
        BY <1>13, <3>1
      <4>2. QED
        BY <4>1 DEF WinNames
    <3>4. WinHeaders'
      <4>1. SUFFICES ASSUME Regular
                     PROVE  AllFound' \/ \E k \in 1 .. Count' : InHeader(k)'
        BY <1>7, <1>17, <3>1 DEF WinHeaders
      <4>2. position + 1 = Start(Last, 1)
        <5>1. position < Start(Last, 1)
          BY <2>4, <4>1
        <5>2. Start(Last, 1) \in Nat
          BY <1>9, <1>12
        <5>3. SUFFICES ASSUME position + 1 < Start(Last, 1) PROVE FALSE
          BY <1>13, <5>1, <5>2
        <5> DEFINE i == position - 4
        <5>4. i \in 1 .. Len(Last.reason) /\ position + 1 = 5 + i
          <6>1. position + 1 < 6 + Len(Last.reason) /\ Len(Last.reason) \in Nat
            BY <1>8, <1>11, <5>3
          <6>2. QED
            BY <1>13, <2>1, <6>1
        <5> HIDE DEF i
        <5>5. Buffer[5 + i] # NUL
          BY <1>11, <5>4
        <5>6. QED
          BY <2>3, <2>7, <5>4, <5>5
      <4>3. FoundBefore(headers', Last'.headers, 1)
        BY <1>2, <1>4, NoneBefore
      <4>4. CASE Count = 0
        <5>1. Start(Last, Count + 1) = Len(Buffer) - 1
          BY <1>4, LastStart
        <5>2. Count + 1 = 1 /\ Count' + 1 = 1
          BY <1>7, <4>4
        <5>3. position' >= length' - 1
          <6>1. position' = Len(Buffer) - 1
            BY <1>2, <4>2, <5>1, <5>2
          <6>2. length' <= Len(Buffer)
            BY <1>7, <1>8
          <6>3. length' \in Nat
            BY <1>9, <1>10
          <6>4. QED
            BY <1>9, <6>1, <6>2, <6>3
        <5>4. AllFound'
          BY <4>3, <5>2, <5>3 DEF AllFound
        <5>5. QED
          BY <5>4
      <4>5. CASE Count # 0
        <5>1. 1 \in 1 .. Count'
          BY <1>7, <1>9, <4>5
        <5>2. key' = Start(Last', 1)
          BY <1>7, <3>1, <4>2
        <5>3. 1 \in 1 .. Count
          BY <1>9, <4>5
        <5>4. \A i \in key' + 1 .. Len(Buffer') : buffer'[i] = Buffer'[i]
          <6>1. key' + 1 .. Len(Buffer) \subseteq (1 .. Len(Buffer)) \ {6}
            BY <1>13, <2>1, <3>1
          <6>2. QED
            BY <1>2, <1>7, <2>2, <6>1
        <5>5. position' \in key' .. key' + Len(Last'.headers[1].name)
          <6> DEFINE one == 1
          <6>1. one \in 1 .. Count
            BY <5>3
          <6> HIDE DEF one
          <6>2. Len(Last.headers[one].name) \in Nat
            BY <1>4, <6>1, HeaderPlaces
          <6>3. Len(Last.headers[1].name) \in Nat
            BY <6>2 DEF one
          <6>4. position' \in position' .. position' + Len(Last.headers[1].name)
            <7>1. position' \in Nat
              BY <2>5
            <7>2. QED
              BY <6>3, <7>1
          <6>5. QED
            BY <1>7, <3>1, <6>4
        <5>6. InHeader(1)'
          BY <4>3, <5>2, <5>4, <5>5 DEF InHeader
        <5>7. QED
          BY <5>1, <5>6
      <4>6. QED
        BY <4>4, <4>5
    <3>5. QED
      BY <1>1, <1>2, <1>6, <1>14, <1>15, <1>16, <3>2, <3>3, <3>4, LoopStep
  <2>8. QED
    BY <2>6, <2>7
<1>21. QED
  BY <1>4, <1>18, <1>19, <1>20

\* Without a NUL the first loop ends where the buffer does.
LEMMA EndOfStatusStep == IInv /\ EndOfStatus => IInv'
<1>1. SUFFICES ASSUME IInv, EndOfStatus PROVE IInv'
  OBVIOUS
<1>2. /\ pc = "status" /\ UNCHANGED input /\ UNCHANGED sendVars
      /\ buffer' = buffer /\ statusStr' = statusStr /\ headers' = headers
  BY <1>1 DEF EndOfStatus
<1>3. /\ position >= length - 1 /\ key' = position /\ position' = position
      /\ pc' = IF position < length THEN "headers" ELSE "read"
  BY <1>1 DEF EndOfStatus
<1>4. /\ backend = "wininet" /\ Received /\ WinBuffers /\ LoopTypes /\ FoundIsText
      /\ headers = Nothing /\ position <= length
      /\ AtStart \/ NoCode \/ Behind
  BY <1>1, <1>2, InStatus
<1>5. pc' \in {"headers", "read"} /\ pc \in Loops /\ pc' \in Loops
  BY <1>2, <1>3 DEF Loops
<1>6. /\ backend' = "wininet" /\ Last' = Last /\ Buffer' = Buffer /\ Regular' = Regular
      /\ length' = length /\ Count' = Count
  BY <1>1, <1>2, <1>5, LoopFrame
<1>7. /\ length <= Len(Buffer) /\ length >= Len(Buffer) - 1
      /\ Len(Buffer) = 7 => Len(Last.reason) = 0 /\ Count = 0
  BY <1>4, BufferIs
<1>8. /\ Len(Buffer) \in Nat /\ Len(Buffer) >= 7
      /\ length \in Nat /\ Count \in Nat /\ Len(Last.reason) \in Nat
  BY <1>4, BufferIs
<1>9. position \in Nat /\ position <= length /\ position >= length - 1
  BY <1>3, <1>4 DEF LoopTypes
<1>10. FoundIsText'
  BY <1>2, <1>4 DEF FoundIsText
<1>11. WinBuffers'
  BY <1>2, <1>4, SameBuffer
<1>12. LoopTypes'
  <2>1. key' \in 0 .. length /\ position' \in Nat
    BY <1>3, <1>8, <1>9
  <2>2. statusStr' \in -1 .. length - 1
    BY <1>2, <1>4 DEF LoopTypes
  <2>3. QED
    BY <1>2, <1>4, <1>5, <2>1, <2>2, LoopTypesStep
<1>13. WinNames'
  <2>1. ~(position' < length' - 1)
    BY <1>3, <1>6, <1>8, <1>9
  <2>2. QED
    BY <2>1 DEF WinNames
<1>14. ~AtStart
  <2>1. AtStart => position \in {0, 1}
    BY DEF AtStart
  <2>2. length >= 6
    BY <1>7, <1>8
  <2>3. position >= 5
    BY <1>8, <1>9, <2>2
  <2>4. QED
    BY <2>1, <2>3
<1>15. CASE NoCode
  <2>1. NoCodeIsFound /\ position = 6 /\ length = 6 /\ Len(Buffer) = 7
    BY <1>15 DEF NoCode, NoCodeIsFound
  <2>2. ~(position < length)
    BY <2>1
  <2>3. pc' = "read"
    BY <1>3, <2>2
  <2>4. NoCodeIsFound'
    BY <1>2, <1>6, <2>1 DEF NoCodeIsFound
  <2>5. WinStatus'
    BY <2>3, <2>4 DEF WinStatus
  <2>6. WinHeaders'
    <3>1. ~Regular
      BY <1>7, <2>1 DEF Regular
    <3>2. QED
      BY <1>6, <3>1 DEF WinHeaders
  <2>7. QED
    BY <1>1, <1>2, <1>5, <1>10, <1>11, <1>12, <1>13, <2>5, <2>6, LoopStep
<1>16. CASE Behind
  <2>1. position >= 7
    BY <1>16 DEF Behind
  <2>2. WinStatus'
    BY <1>2, <1>3, <1>4, <1>5, <1>6, <1>9, <1>16, <2>1, BehindStep
  <2>3. WinHeaders'
    <3>1. SUFFICES ASSUME Regular PROVE AllFound'
      BY <1>5, <1>6 DEF WinHeaders
    <3>2. position < Start(Last, 1)
      BY <1>1, <1>2, <3>1, InStatus
    <3>3. Start(Last, 1) = 6 + Len(Last.reason)
      BY <1>4, StatusPlaces
    <3>4. Count = 0
      <4>1. SUFFICES ASSUME Count > 0 PROVE FALSE
        BY <1>8
      <4>2. Start(Last, 1) + 2 < Len(Buffer)
        BY <1>4, <4>1, FirstStart
      <4>3. Len(Buffer) <= position + 2
        BY <1>7, <1>8, <1>9
      <4>4. Start(Last, 1) \in Nat
        BY <1>8, <3>3
      <4>5. QED
        BY <1>8, <1>9, <3>2, <4>2, <4>3, <4>4
    <3>5. FoundBefore(headers', Last'.headers, 1)
      BY <1>2, <1>4, NoneBefore
    <3>6. Count' + 1 = 1
      BY <1>6, <3>4
    <3>7. position' >= length' - 1
      BY <1>3, <1>6
    <3>8. QED
      BY <3>5, <3>6, <3>7 DEF AllFound
  <2>4. QED
    BY <1>1, <1>2, <1>5, <1>10, <1>11, <1>12, <1>13, <2>2, <2>3, LoopStep
<1>17. QED
  BY <1>4, <1>14, <1>15, <1>16

\* What the second loop knows.
LEMMA InHeaders ==
  ASSUME IInv, pc = "headers"
  PROVE  /\ backend = "wininet" /\ Received /\ WinBuffers /\ LoopTypes /\ FoundIsText
         /\ CodeIsFound /\ position >= 7
         /\ position < length - 1 =>
              key <= position /\ \A i \in key .. position - 1 : At(i) \notin {":", NUL}
         /\ Regular => AllFound \/ \E k \in 1 .. Count : InHeader(k)
<1>1. /\ Received /\ WinBuffers /\ LoopTypes /\ FoundIsText
      /\ WinStatus /\ WinNames /\ WinHeaders
  BY DEF IInv
<1>2. backend = "wininet"
  BY AskedIsWin
<1>3. CodeIsFound /\ position >= 7
  BY <1>1, <1>2 DEF WinStatus
<1>4. position < length - 1 =>
        key <= position /\ \A i \in key .. position - 1 : At(i) \notin {":", NUL}
  BY <1>1, <1>2 DEF WinNames
<1>5. Regular => AllFound \/ \E k \in 1 .. Count : InHeader(k)
  BY <1>1, <1>2 DEF WinHeaders
<1>6. QED
  BY <1>1, <1>2, <1>3, <1>4, <1>5

\* In the name of a header, that name, its colon and space and its value are ahead.
AtColon(h, next) ==
  /\ At(position) = ":" /\ At(position + 1) = " "
  /\ SubSeq(buffer, key + 1, position) = h.name
  /\ StringAt(position + 2) = h.value
  /\ position + 3 + Len(h.value) = next

LEMMA InHeaderIs ==
  ASSUME Received, WinBuffers, backend = "wininet", Regular,
         NEW k \in 1 .. Count, InHeader(k), NEW h, h = Last.headers[k]
  PROVE  /\ key \in Nat /\ position \in Nat /\ Len(h.name) \in Nat /\ Len(h.value) \in Nat
         /\ position + 2 < length
         /\ position <= key + Len(h.name)
         /\ position < key + Len(h.name) => At(position) \notin {":", NUL}
         /\ position = key + Len(h.name) => AtColon(h, Start(Last, k + 1))
<1> DEFINE s == Start(Last, k)
           n == Len(h.name)
           g == Len(h.gap)
           v == Len(h.value)
           e == Start(Last, k + 1)
           w == Len(Buffer)
<1>1. Last \in Response /\ k \in 1 .. Len(Last.headers)
  BY LastIs DEF Count
<1>2. Placed(Buffer, h, s, e)
  BY HeaderPlaced
<1>3. /\ h \in Headers /\ s \in Nat /\ n \in Nat /\ g \in Nat /\ v \in Nat
      /\ e = s + n + g + v + 2 /\ e < w
  BY <1>2 DEF Placed
<1>4. /\ \A i \in 1 .. n : Buffer[s + i] = h.name[i]
      /\ Buffer[s + n + 1] = ":"
  BY <1>2 DEF Placed
<1>5. /\ \A i \in 1 .. g : Buffer[s + n + 1 + i] = h.gap[i]
      /\ \A i \in 1 .. v : Buffer[s + n + 1 + g + i] = h.value[i]
      /\ Buffer[e] = NUL
  BY <1>2 DEF Placed
<1>6. /\ Line(h.name) /\ Line(h.value)
      /\ \A i \in 1 .. n : h.name[i] # ":"
      /\ h.gap = <<>> \/ h.gap = <<" ">>
  BY <1>3, TextIs
<1>7. g = 1 /\ h.gap[1] = " "
  <2>1. k \in DOMAIN Last.headers
    BY <1>1, ResponseIs
  <2>2. h.gap = <<" ">>
    BY <1>6, <2>1 DEF Regular
  <2>3. QED
    BY <2>2, Characters, OneChar
<1>8. /\ key = s /\ position \in s .. s + n
      /\ \A i \in s + 1 .. w : buffer[i] = Buffer[i]
  BY DEF InHeader
<1>9. w \in Nat /\ length \in Nat /\ length >= w - 1
  BY BufferIs
<1>10. buffer \in Chars /\ Len(buffer) = w
  BY BufferIs
<1>11. e = s + n + v + 3 /\ e < w
  <2>1. s \in Nat /\ n \in Nat /\ v \in Nat /\ e = s + n + g + v + 2 /\ e < w
    BY <1>3
  <2>2. g = 1
    BY <1>7
  <2> HIDE DEF s, n, g, v, e, w
  <2>3. QED
    BY <2>1, <2>2
<1> HIDE DEF s, n, g, v, e, w
<1>12. position \in Nat /\ position <= s + n /\ position >= s
  BY <1>3, <1>8
<1>13. position + 2 < length
  BY <1>3, <1>9, <1>11, <1>12
<1>14. position < s + n => At(position) \notin {":", NUL}
  <2>1. SUFFICES ASSUME position < s + n PROVE At(position) \notin {":", NUL}
    OBVIOUS
  <2> DEFINE i == position - s + 1
  <2>2. i \in 1 .. n /\ s + i = position + 1 /\ position + 1 \in s + 1 .. w
    BY <1>3, <1>9, <1>11, <1>12, <2>1
  <2> HIDE DEF i
  <2>3. At(position) = h.name[i]
    BY <1>4, <1>8, <2>2 DEF At
  <2>4. h.name[i] # ":" /\ h.name[i] # NUL
    BY <1>6, <2>2 DEF Line, n
  <2>5. QED
    BY <2>3, <2>4
<1>15. position = s + n => AtColon(h, e)
  <2>1. SUFFICES ASSUME position = s + n PROVE AtColon(h, e)
    OBVIOUS
  <2>2. At(position) = ":"
    <3>1. position + 1 \in s + 1 .. w /\ position + 1 = s + n + 1
      BY <1>3, <1>9, <1>11, <2>1
    <3>2. QED
      BY <1>4, <1>8, <3>1 DEF At
  <2>3. At(position + 1) = " "
    <3>1. position + 1 + 1 \in s + 1 .. w /\ position + 1 + 1 = s + n + 1 + 1
      BY <1>3, <1>9, <1>11, <2>1
    <3>2. 1 \in 1 .. g
      <4>1. g = 1
        BY <1>7
      <4>2. QED
        BY <4>1
    <3>3. Buffer[s + n + 1 + 1] = " "
      BY <1>5, <1>7, <3>2
    <3>4. QED
      BY <1>8, <3>1, <3>3 DEF At
  <2>4. SubSeq(buffer, key + 1, position) = h.name
    <3> DEFINE t == SubSeq(buffer, key + 1, position)
    <3>1. key + 1 \in Int /\ position \in Int /\ 1 <= key + 1 /\ position <= w
      BY <1>3, <1>8, <1>9, <1>11, <2>1
    <3>2. Part(t, buffer, key + 1, position)
      BY <1>10, <3>1, PartIs
    <3> HIDE DEF t
    <3>3. t \in Chars /\ Len(t) = n
      <4>1. position - (key + 1) + 1 = n /\ (key + 1 <= position <=> n > 0)
        BY <1>3, <1>8, <2>1
      <4>2. t \in Chars /\ Len(t) = IF key + 1 <= position THEN position - (key + 1) + 1 ELSE 0
        BY <3>2 DEF Part
      <4>3. QED
        BY <1>3, <4>1, <4>2
    <3>4. ASSUME NEW i \in 1 .. n PROVE t[i] = h.name[i]
      <4>1. i \in 1 .. position - (key + 1) + 1 /\ key + 1 + i - 1 = s + i
        BY <1>3, <1>8, <2>1, <3>4
      <4>2. t[i] = buffer[s + i]
        BY <3>2, <4>1 DEF Part
      <4>3. s + i \in s + 1 .. w
        BY <1>3, <1>9, <1>11, <3>4
      <4>4. buffer[s + i] = Buffer[s + i]
        BY <1>8, <4>3
      <4>5. QED
        BY <1>4, <3>4, <4>2, <4>4
    <3>5. h.name \in Chars /\ Len(h.name) = n
      BY <1>6 DEF Line, n
    <3>6. t = h.name
      BY <3>3, <3>4, <3>5, SameText
    <3>7. QED
      BY <3>6 DEF t
  <2>5. StringAt(position + 2) = h.value
    <3> DEFINE p == position + 2
               rest == SubSeq(buffer, p + 1, Len(buffer))
    <3>1. p = s + n + 2 /\ p \in 0 .. w /\ p + v < w /\ p + v + 1 = e /\ e \in s + 1 .. w
      BY <1>3, <1>9, <1>11, <2>1
    <3> HIDE DEF p
    <3>2. ASSUME NEW j \in 1 .. v PROVE buffer[p + j] = h.value[j]
      <4>1. p + j = s + n + 1 + g + j /\ p + j \in s + 1 .. w
        <5>1. g = 1 /\ j \in 1 .. v
          BY <1>7, <3>2
        <5>2. p = s + n + 2 /\ p + v < w
          BY <3>1
        <5>3. s \in Nat /\ n \in Nat /\ v \in Nat
          BY <1>3
        <5>4. w \in Nat
          BY <1>9
        <5>5. QED
          BY <5>1, <5>2, <5>3, <5>4
      <4>2. QED
        BY <1>5, <1>8, <3>2, <4>1
    <3>3. buffer[p + v + 1] = NUL
      BY <1>5, <1>8, <3>1
    <3>4. Line(h.value) /\ Len(h.value) = v
      BY <1>6 DEF v
    <3>5. p \in 0 .. Len(buffer) /\ p + Len(h.value) < Len(buffer)
      BY <1>10, <3>1, <3>4
    <3>6. \A j \in 1 .. Len(h.value) : buffer[p + j] = h.value[j]
      BY <3>2, <3>4
    <3>7. buffer[p + Len(h.value) + 1] = NUL
      BY <3>3, <3>4
    <3>8. rest = SubSeq(buffer, p + 1, Len(buffer))
      OBVIOUS
    <3> HIDE DEF rest
    <3>9. SubSeq(rest, 1, FirstOf(rest, NUL) - 1) = h.value
      BY <1>10, <3>4, <3>5, <3>6, <3>7, <3>8, StringIs
    <3>10. QED
      BY <3>9 DEF StringAt, rest, p
  <2>6. position + 3 + v = e
    BY <1>3, <1>11, <2>1
  <2>7. QED
    BY <2>2, <2>3, <2>4, <2>5, <2>6 DEF AtColon, v
<1>16. key \in Nat /\ n \in Nat /\ v \in Nat
  BY <1>3, <1>8
<1>17. QED
  BY <1>8, <1>12, <1>13, <1>14, <1>15, <1>16 DEF n, v, e

\* What a step of the second loop keeps: it writes behind the code.
LEMMA HeadersStep ==
  ASSUME IInv, pc = "headers", UNCHANGED input, UNCHANGED sendVars, statusStr' = statusStr,
         pc' \in {"headers", "read"},
         \/ buffer' = buffer
         \/ position < length - 1 /\ buffer' = [buffer EXCEPT ![position + 1] = NUL],
         position' \in Nat, position' >= position, key' \in 0 .. length,
         FoundIsText', WinNames', WinHeaders'
  PROVE  IInv'
<1>1. pc \in Loops /\ pc' \in Loops
  BY DEF Loops
<1>2. backend' = "wininet" /\ Buffer' = Buffer /\ length' = length
  BY <1>1, LoopFrame
<1>3. /\ backend = "wininet" /\ Received /\ WinBuffers /\ LoopTypes
      /\ CodeIsFound /\ position >= 7
  BY InHeaders
<1>4. Len(Buffer) \in Nat /\ length \in Nat /\ length <= Len(Buffer) /\ Len(Buffer) >= 7
  BY <1>3, BufferIs
<1>5. buffer \in Chars /\ Len(buffer) = Len(Buffer)
  BY <1>3, BufferIs
<1>6. position \in Nat
  BY <1>3 DEF LoopTypes
<1>7. LoopTypes'
  <2>1. statusStr' \in -1 .. length - 1
    BY <1>3 DEF LoopTypes
  <2>2. QED
    BY <1>1, <1>3, <2>1, LoopTypesStep
<1>8. position < length - 1 => position + 1 \in 1 .. Len(Buffer)
  BY <1>4, <1>6
<1>9. WinBuffers'
  <2>1. CASE buffer' = buffer
    BY <1>3, <2>1, SameBuffer
  <2>2. CASE position < length - 1 /\ buffer' = [buffer EXCEPT ![position + 1] = NUL]
    <3> DEFINE j == position + 1
    <3>1. j \in 1 .. Len(Buffer) /\ buffer' = [buffer EXCEPT ![j] = NUL]
      BY <1>8, <2>2
    <3> HIDE DEF j
    <3>2. QED
      BY <1>3, <3>1, BufferStep
  <2>3. QED
    BY <2>1, <2>2
<1>10. CodeIsFound'
  <2>1. CASE buffer' = buffer
    BY <1>3, <2>1 DEF CodeIsFound
  <2>2. CASE position < length - 1 /\ buffer' = [buffer EXCEPT ![position + 1] = NUL]
    <3> DEFINE j == position + 1
    <3>1. j \in 1 .. Len(buffer) /\ buffer' = [buffer EXCEPT ![j] = NUL]
      BY <1>5, <1>8, <2>2
    <3>2. j >= 8
      BY <1>3, <1>6
    <3> HIDE DEF j
    <3>3. \A i \in 1 .. Len(buffer) : i # j => buffer'[i] = buffer[i]
      BY <1>5, <3>1, BufferKeeps
    <3>4. \A i \in 3 .. 6 : i \in 1 .. Len(buffer) /\ i # j
      BY <1>4, <1>5, <3>1, <3>2
    <3>5. \A i \in 3 .. 6 : buffer'[i] = buffer[i]
      BY <3>3, <3>4
    <3>6. /\ buffer'[3] = buffer[3] /\ buffer'[4] = buffer[4]
          /\ buffer'[5] = buffer[5] /\ buffer'[6] = buffer[6]
      BY <3>5
    <3>7. QED
      BY <1>3, <3>6 DEF CodeIsFound
  <2>3. QED
    BY <2>1, <2>2
<1>11. position' >= 7
  BY <1>3, <1>6
<1>12. WinStatus'
  <2>1. pc' # "status"
    OBVIOUS
  <2>2. QED
    BY <1>10, <1>11, <2>1 DEF WinStatus
<1>13. QED
  BY <1>1, <1>7, <1>9, <1>12, LoopStep

\* In a name the second loop goes on.
LEMMA SkipNameStep == IInv /\ SkipName => IInv'
<1>1. SUFFICES ASSUME IInv, SkipName PROVE IInv'
  OBVIOUS
<1>2. /\ pc = "headers" /\ pc' = "headers" /\ UNCHANGED input /\ UNCHANGED sendVars
      /\ buffer' = buffer /\ statusStr' = statusStr /\ headers' = headers /\ key' = key
      /\ At(position) \notin {":", NUL}
  BY <1>1 DEF SkipName
<1>3. position < length - 1 /\ position' = position + 1
  BY <1>1 DEF SkipName
<1>4. /\ backend = "wininet" /\ Received /\ WinBuffers /\ LoopTypes /\ FoundIsText
      /\ key <= position /\ \A i \in key .. position - 1 : At(i) \notin {":", NUL}
      /\ Regular => AllFound \/ \E k \in 1 .. Count : InHeader(k)
  BY <1>1, <1>2, <1>3, InHeaders
<1>5. /\ Last' = Last /\ Buffer' = Buffer /\ Regular' = Regular
      /\ length' = length /\ Count' = Count
  BY <1>2, Same
<1>6. position \in Nat /\ length \in Nat /\ key \in 0 .. length
  BY <1>4 DEF LoopTypes
<1>7. position' \in Nat /\ position' >= position /\ key' \in 0 .. length
  BY <1>2, <1>3, <1>6
<1>8. FoundIsText'
  BY <1>2, <1>4 DEF FoundIsText
<1>9. WinNames'
  <2>1. key' <= position'
    BY <1>2, <1>3, <1>4, <1>6
  <2>2. ASSUME NEW i \in key' .. position' - 1 PROVE At(i)' \notin {":", NUL}
    <3>1. i = position \/ i \in key .. position - 1
      BY <1>2, <1>3, <1>6
    <3>2. At(i) \notin {":", NUL}
      BY <1>2, <1>4, <3>1
    <3>3. QED
      BY <1>2, <3>2 DEF At
  <2>3. QED
    BY <2>1, <2>2 DEF WinNames
<1>10. WinHeaders'
  <2>1. SUFFICES ASSUME Regular PROVE \E k \in 1 .. Count' : InHeader(k)'
    BY <1>2, <1>5 DEF WinHeaders, Ended
  <2>2. ~AllFound
    BY <1>3, <1>6 DEF AllFound
  <2>3. PICK k \in 1 .. Count : InHeader(k)
    BY <1>4, <2>1, <2>2
  <2> DEFINE h == Last.headers[k]
  <2>4. h = Last.headers[k]
    OBVIOUS
  <2> HIDE DEF h
  <2>5. /\ position <= key + Len(h.name) /\ Len(h.name) \in Nat
        /\ position = key + Len(h.name) => AtColon(h, Start(Last, k + 1))
    BY <1>4, <2>1, <2>3, <2>4, InHeaderIs
  <2>6. ~AtColon(h, Start(Last, k + 1))
    BY <1>2 DEF AtColon
  <2>7. position' \in key' .. key' + Len(h.name)
    <3>1. position # key + Len(h.name)
      BY <2>5, <2>6
    <3>2. QED
      BY <1>2, <1>3, <1>4, <1>6, <2>5, <3>1
  <2>8. /\ key = Start(Last, k) /\ FoundBefore(headers, Last.headers, k)
        /\ \A i \in key + 1 .. Len(Buffer) : buffer[i] = Buffer[i]
    BY <2>3 DEF InHeader
  <2>9. InHeader(k)'
    BY <1>2, <1>5, <2>4, <2>7, <2>8 DEF InHeader
  <2>10. QED
    BY <1>5, <2>9
<1>11. QED
  BY <1>1, <1>2, <1>7, <1>8, <1>9, <1>10, HeadersStep

\* At the end of a name that nothing follows, there is no header.
LEMMA SkipValueStep == IInv /\ SkipValue => IInv'
<1>1. SUFFICES ASSUME IInv, SkipValue PROVE IInv'
  OBVIOUS
<1>2. /\ pc = "headers" /\ pc' = "headers" /\ UNCHANGED input /\ UNCHANGED sendVars
      /\ statusStr' = statusStr /\ headers' = headers
      /\ At(position) \in {":", NUL} /\ At(position + 1) = NUL
      /\ buffer' = [buffer EXCEPT ![position + 1] = NUL]
  BY <1>1 DEF SkipValue
<1>3. position < length - 1 /\ position' = position + 1 /\ key' = position + 1
  BY <1>1 DEF SkipValue
<1>4. /\ backend = "wininet" /\ Received /\ WinBuffers /\ LoopTypes /\ FoundIsText
      /\ Regular => AllFound \/ \E k \in 1 .. Count : InHeader(k)
  BY <1>1, <1>2, InHeaders
<1>5. Regular' = Regular
  BY <1>2, Same
<1>6. position \in Nat /\ length \in Nat
  BY <1>4 DEF LoopTypes
<1>7. position' \in Nat /\ position' >= position /\ key' \in 0 .. length
  BY <1>3, <1>6
<1>8. FoundIsText'
  BY <1>2, <1>4 DEF FoundIsText
<1>9. WinNames'
  <2>1. key' <= position' /\ key' .. position' - 1 = {}
    BY <1>3, <1>6
  <2>2. QED
    BY <2>1 DEF WinNames
<1>10. ~Regular
  <2>1. SUFFICES ASSUME Regular PROVE FALSE
    OBVIOUS
  <2>2. ~AllFound
    BY <1>3, <1>6 DEF AllFound
  <2>3. PICK k \in 1 .. Count : InHeader(k)
    BY <1>4, <2>1, <2>2
  <2> DEFINE h == Last.headers[k]
  <2>4. h = Last.headers[k]
    OBVIOUS
  <2> HIDE DEF h
  <2>5. /\ position <= key + Len(h.name) /\ Len(h.name) \in Nat /\ key \in Nat
        /\ position < key + Len(h.name) => At(position) \notin {":", NUL}
        /\ position = key + Len(h.name) => AtColon(h, Start(Last, k + 1))
    BY <1>4, <2>1, <2>3, <2>4, InHeaderIs
  <2>6. ~(position < key + Len(h.name))
    BY <1>2, <2>5
  <2>7. position = key + Len(h.name)
    BY <1>6, <2>5, <2>6
  <2>8. At(position + 1) = " "
    BY <2>5, <2>7 DEF AtColon
  <2>9. NUL # " "
    BY Zenon DEF NUL
  <2>10. QED
    BY <1>2, <2>8, <2>9
<1>11. WinHeaders'
  BY <1>5, <1>10 DEF WinHeaders
<1>12. QED
  BY <1>1, <1>2, <1>3, <1>7, <1>8, <1>9, <1>11, HeadersStep

\* The second loop ends where the buffer does.
LEMMA EndOfHeadersStep == IInv /\ EndOfHeaders => IInv'
<1>1. SUFFICES ASSUME IInv, EndOfHeaders PROVE IInv'
  OBVIOUS
<1>2. /\ pc = "headers" /\ pc' = "read" /\ UNCHANGED input /\ UNCHANGED sendVars
      /\ buffer' = buffer /\ statusStr' = statusStr /\ headers' = headers /\ key' = key
  BY <1>1 DEF EndOfHeaders
<1>3. position >= length - 1 /\ position' = position
  BY <1>1 DEF EndOfHeaders
<1>4. /\ backend = "wininet" /\ Received /\ WinBuffers /\ LoopTypes /\ FoundIsText
      /\ Regular => AllFound \/ \E k \in 1 .. Count : InHeader(k)
  BY <1>1, <1>2, InHeaders
<1>5. /\ Last' = Last /\ Regular' = Regular /\ length' = length /\ Count' = Count
  BY <1>2, Same
<1>6. position \in Nat /\ length \in Nat /\ key \in 0 .. length
  BY <1>4 DEF LoopTypes
<1>7. position' \in Nat /\ position' >= position /\ key' \in 0 .. length
  BY <1>2, <1>3, <1>6
<1>8. FoundIsText'
  BY <1>2, <1>4 DEF FoundIsText
<1>9. WinNames'
  <2>1. pc' # "headers"
    BY <1>2
  <2>2. QED
    BY <2>1 DEF WinNames
<1>10. Regular => AllFound
  <2>1. SUFFICES ASSUME Regular, NEW k \in 1 .. Count, InHeader(k) PROVE FALSE
    BY <1>4
  <2> DEFINE h == Last.headers[k]
  <2>2. h = Last.headers[k]
    OBVIOUS
  <2> HIDE DEF h
  <2>3. position + 2 < length
    BY <1>4, <2>1, <2>2, InHeaderIs
  <2>4. QED
    BY <1>3, <1>6, <2>3
<1>11. WinHeaders'
  <2>1. AllFound => AllFound'
    BY <1>2, <1>3, <1>5 DEF AllFound
  <2>2. QED
    BY <1>2, <1>5, <1>10, <2>1 DEF WinHeaders, Ended
<1>12. QED
  BY <1>1, <1>2, <1>7, <1>8, <1>9, <1>11, HeadersStep

\* The name the second loop cuts out, and the value behind it, are text.
LEMMA NameAhead ==
  ASSUME IInv, pc = "headers", position < length - 1
  PROVE  Name(SubSeq(buffer, key + 1, position))
<1>1. /\ backend = "wininet" /\ Received /\ WinBuffers /\ LoopTypes
      /\ key <= position /\ \A i \in key .. position - 1 : At(i) \notin {":", NUL}
  BY InHeaders
<1>2. buffer \in Chars /\ Len(buffer) = Len(Buffer)
  BY <1>1, BufferIs
<1>3. length \in Nat /\ length <= Len(Buffer) /\ Len(Buffer) \in Nat
  BY <1>1, BufferIs
<1>4. position \in Nat /\ key \in Nat
  BY <1>1, <1>3 DEF LoopTypes
<1> DEFINE m == key + 1
           t == SubSeq(buffer, m, position)
<1>5. m \in Int /\ position \in Int /\ 1 <= m /\ position <= Len(buffer)
  BY <1>2, <1>3, <1>4
<1>6. m = key + 1
  OBVIOUS
<1> HIDE DEF m
<1>7. Part(t, buffer, m, position)
  BY <1>2, <1>5, PartIs
<1> HIDE DEF t
<1>8. /\ t \in Chars /\ Len(t) = IF m <= position THEN position - m + 1 ELSE 0
      /\ \A i \in 1 .. position - m + 1 : t[i] = buffer[m + i - 1]
  BY <1>7 DEF Part
<1>9. Len(t) = position - m + 1
  BY <1>1, <1>4, <1>6, <1>8
<1>10. ASSUME NEW i \in 1 .. Len(t) PROVE t[i] # ":" /\ t[i] # NUL
  <2> DEFINE j == key + i - 1
  <2>1. j \in key .. position - 1 /\ m + i - 1 = j + 1 /\ i \in 1 .. position - m + 1
    BY <1>4, <1>6, <1>9, <1>10
  <2> HIDE DEF j
  <2>2. t[i] = At(j)
    BY <1>8, <2>1 DEF At
  <2>3. At(j) \notin {":", NUL}
    BY <1>1, <2>1
  <2>4. QED
    BY <2>2, <2>3
<1>11. Name(t)
  BY <1>8, <1>10 DEF Name, Line
<1>12. QED
  BY <1>11 DEF t, m

LEMMA ValueAhead ==
  ASSUME IInv, pc = "headers", position + 2 < length
  PROVE  Line(StringAt(position + 2))
<1>1. backend = "wininet" /\ Received /\ WinBuffers /\ LoopTypes
  BY InHeaders
<1>2. buffer \in Chars /\ Len(buffer) = Len(Buffer)
  BY <1>1, BufferIs
<1>3. length \in Nat /\ length <= Len(Buffer) /\ Len(Buffer) \in Nat
  BY <1>1, BufferIs
<1>4. position \in Nat
  BY <1>1 DEF LoopTypes
<1> DEFINE i == position + 2
           rest == SubSeq(buffer, i + 1, Len(buffer))
<1>5. i \in 0 .. Len(buffer)
  BY <1>2, <1>3, <1>4
<1>6. rest = SubSeq(buffer, i + 1, Len(buffer))
  OBVIOUS
<1> HIDE DEF i, rest
<1>7. Line(SubSeq(rest, 1, FirstOf(rest, NUL) - 1))
  BY <1>2, <1>5, <1>6, StringIsLine
<1>8. QED
  BY <1>7 DEF StringAt, rest, i

\* At the end of a name that something follows, there is a header.
LEMMA FindValueStep == IInv /\ FindValue => IInv'
<1>1. SUFFICES ASSUME IInv, FindValue PROVE IInv'
  OBVIOUS
<1>2. /\ pc = "headers" /\ pc' = "headers" /\ UNCHANGED input /\ UNCHANGED sendVars
      /\ statusStr' = statusStr
      /\ At(position) \in {":", NUL}
      /\ buffer' = [buffer EXCEPT ![position + 1] = NUL]
  BY <1>1 DEF FindValue
<1>3. position < length - 1
  BY <1>1 DEF FindValue
<1>4. /\ backend = "wininet" /\ Received /\ WinBuffers /\ LoopTypes /\ FoundIsText
      /\ Regular => AllFound \/ \E k \in 1 .. Count : InHeader(k)
  BY <1>1, <1>2, InHeaders
<1>5. /\ Last' = Last /\ Buffer' = Buffer /\ Regular' = Regular
      /\ length' = length /\ Count' = Count
  BY <1>2, Same
<1>6. position \in Nat /\ length \in Nat /\ key \in 0 .. length
  BY <1>4 DEF LoopTypes
<1>7. CASE ~(position + 2 < length)
  <2>1. position' = position + 3 /\ headers' = headers /\ key' = key
    BY <1>1, <1>7 DEF FindValue
  <2>2. position' \in Nat /\ position' >= position /\ key' \in 0 .. length
    BY <1>6, <2>1
  <2>3. FoundIsText'
    BY <1>4, <2>1 DEF FoundIsText
  <2>4. WinNames'
    <3>1. ~(position' < length' - 1)
      BY <1>5, <1>6, <1>7, <2>1
    <3>2. QED
      BY <3>1 DEF WinNames
  <2>5. WinHeaders'
    <3>1. ~Regular
      <4>1. SUFFICES ASSUME Regular PROVE FALSE
        OBVIOUS
      <4>2. ~AllFound
        BY <1>3, <1>6 DEF AllFound
      <4>3. PICK k \in 1 .. Count : InHeader(k)
        BY <1>4, <4>1, <4>2
      <4> DEFINE h == Last.headers[k]
      <4>4. h = Last.headers[k]
        OBVIOUS
      <4> HIDE DEF h
      <4>5. position + 2 < length
        BY <1>4, <4>1, <4>3, <4>4, InHeaderIs
      <4>6. QED
        BY <1>7, <4>5
    <3>2. QED
      BY <1>5, <3>1 DEF WinHeaders
  <2>6. QED
    BY <1>1, <1>2, <1>3, <2>2, <2>3, <2>4, <2>5, HeadersStep
<1>8. CASE position + 2 < length
  <2> DEFINE name  == SubSeq(buffer, key + 1, position)
             value == StringAt(position + 2)
             lower == Lower(name)
             end   == position + 2 + Len(headers'[lower])
  <2>1. /\ headers' = Insert(headers, lower, value)
        /\ position' = end + 1
        /\ key' = IF end < length - 1 THEN end + 1 ELSE key
    BY <1>1, <1>8 DEF FindValue
  <2>2. Name(lower)
    BY <1>1, <1>2, <1>3, NameAhead, LowerIs
  <2>3. Line(value)
    BY <1>1, <1>2, <1>8, ValueAhead
  <2>4. name = SubSeq(buffer, key + 1, position) /\ value = StringAt(position + 2)
        /\ lower = Lower(name)
    OBVIOUS
  <2> HIDE DEF name, value, lower
  <2>5. Texts(headers')
    BY <1>4, <2>1, <2>2, <2>3, InsertText DEF FoundIsText
  <2>6. lower \in DOMAIN headers'
    <3>1. CASE lower \in DOMAIN headers
      BY <2>1, <3>1 DEF Insert
    <3>2. CASE lower \notin DOMAIN headers
      <4>1. headers' = Assign(headers, lower, value)
        BY <2>1, <3>2 DEF Insert
      <4>2. Assigned(headers', headers, lower, value)
        BY <4>1, AssignIs
      <4>3. QED
        BY <4>2 DEF Assigned
    <3>3. QED
      BY <3>1, <3>2
  <2>7. Len(headers'[lower]) \in Nat
    <3>1. headers'[lower] \in Chars
      BY <2>5, <2>6 DEF Texts, Line
    <3>2. QED
      BY <3>1, LenOf
  <2> DEFINE found == Len(headers'[lower])
  <2>8. end = position + 2 + found /\ found \in Nat /\ found = Len(headers'[lower])
    BY <2>7
  <2> HIDE DEF end, found
  <2>9. end \in Nat /\ end >= position + 2
    <3>1. end = position + 2 + found /\ found \in Nat
      BY <2>8
    <3>2. QED
      BY <1>6, <3>1
  <2>10. position' \in Nat /\ position' >= position
    BY <1>6, <2>1, <2>9
  <2>11. key' \in 0 .. length
    <3>1. CASE end < length - 1
      BY <1>6, <2>1, <2>9, <3>1
    <3>2. CASE ~(end < length - 1)
      BY <1>6, <2>1, <3>2
    <3>3. QED
      BY <3>1, <3>2
  <2>12. FoundIsText'
    BY <2>5 DEF FoundIsText
  <2>13. WinNames'
    <3>1. SUFFICES ASSUME position' < length' - 1
                   PROVE  key' <= position' /\ key' .. position' - 1 = {}
      BY DEF WinNames
    <3>2. end < length - 1
      BY <1>5, <1>6, <2>1, <2>9, <3>1
    <3>3. key' = position'
      BY <2>1, <3>2
    <3>4. \A n \in Nat : n <= n /\ n .. n - 1 = {}
      OBVIOUS
    <3>5. QED
      BY <2>10, <3>3, <3>4
  <2>14. WinHeaders'
    <3>1. SUFFICES ASSUME Regular
                   PROVE  AllFound' \/ \E k \in 1 .. Count' : InHeader(k)'
      BY <1>2, <1>5 DEF WinHeaders, Ended
    <3>2. ~AllFound
      BY <1>3, <1>6 DEF AllFound
    <3>3. PICK k \in 1 .. Count : InHeader(k)
      BY <1>4, <3>1, <3>2
    <3> DEFINE hs == Last.headers
               h == hs[k]
               next == Start(Last, k + 1)
    <3>4. h = Last.headers[k] /\ h = hs[k] /\ next = Start(Last, k + 1) /\ hs = Last.headers
      OBVIOUS
    <3> HIDE DEF hs, h, next
    <3>5. /\ position <= key + Len(h.name) /\ Len(h.name) \in Nat /\ key \in Nat
          /\ Len(h.value) \in Nat
          /\ position < key + Len(h.name) => At(position) \notin {":", NUL}
          /\ position = key + Len(h.name) => AtColon(h, next)
      BY <1>4, <3>1, <3>3, <3>4, InHeaderIs
    <3>6. AtColon(h, next)
      <4>1. ~(position < key + Len(h.name))
        BY <1>2, <3>5
      <4>2. position = key + Len(h.name)
        BY <1>6, <3>5, <4>1
      <4>3. QED
        BY <3>5, <4>2
    <3>7. name = h.name /\ value = h.value /\ position + 3 + Len(h.value) = next
      BY <2>4, <3>6 DEF AtColon
    <3>8. lower = HeaderName(hs, k)
      BY <2>4, <3>4, <3>7 DEF HeaderName
    <3>9. /\ key = Start(Last, k) /\ FoundBefore(headers, hs, k)
          /\ \A i \in key + 1 .. Len(Buffer) : buffer[i] = Buffer[i]
      BY <3>3, <3>4 DEF InHeader
    <3>10. k \in Nat /\ k > 0 /\ Count \in Nat /\ DOMAIN hs = 1 .. Count
      <4>1. Last \in Response /\ Count \in Nat
        BY <1>4, LastIs
      <4>2. DOMAIN hs = 1 .. Count
        BY <3>4, <4>1, ResponseIs DEF Count
      <4>3. QED
        BY <3>3, <4>1, <4>2
    <3>11. \A i \in 1 .. k - 1 : HeaderName(hs, i) = HeaderName(hs, k) =>
                                   Len(hs[i].value) = Len(hs[k].value)
      <4>1. TAKE i \in 1 .. k - 1
      <4>2. i \in DOMAIN hs /\ k \in DOMAIN hs
        BY <3>3, <3>10
      <4>3. NameOf(i) = NameOf(k) => Len(hs[i].value) = Len(hs[k].value)
        BY <3>1, <3>4, <4>2 DEF Regular
      <4>4. QED
        BY <3>4, <4>3 DEF NameOf, HeaderName
    <3>12. headers' = Insert(headers, HeaderName(hs, k), hs[k].value)
      BY <2>1, <3>4, <3>7, <3>8
    <3>13. /\ FoundBefore(headers', hs, k + 1)
           /\ Len(headers'[HeaderName(hs, k)]) = Len(hs[k].value)
      BY <3>9, <3>10, <3>11, <3>12, InsertHeader
    <3>14. found = Len(h.value)
      BY <2>8, <3>4, <3>8, <3>13
    <3>15. end + 1 = next /\ position' = next
      <4>1. end = position + 2 + Len(h.value)
        BY <2>8, <3>14
      <4>2. end + 1 = next
        <5>1. position + 3 + Len(h.value) = next /\ Len(h.value) \in Nat
          BY <3>5, <3>7
        <5> DEFINE v == Len(h.value)
        <5>2. end = position + 2 + v /\ position + 3 + v = next /\ v \in Nat /\ position \in Nat
          BY <1>6, <4>1, <5>1
        <5> HIDE DEF v
        <5>3. QED
          BY <5>2
      <4>3. QED
        BY <2>1, <4>2
    <3>16. Len(Buffer) \in Nat /\ length <= Len(Buffer) /\ length >= Len(Buffer) - 1
      BY <1>4, BufferIs
    <3>17. CASE k = Count
      <4>1. next = Len(Buffer) - 1
        BY <1>4, <3>4, <3>17, LastStart
      <4>2. position' >= length' - 1
        BY <1>5, <1>6, <3>15, <3>16, <4>1
      <4>3. FoundBefore(headers', Last'.headers, Count' + 1)
        BY <1>5, <3>4, <3>13, <3>17
      <4>4. AllFound'
        BY <4>2, <4>3 DEF AllFound
      <4>5. QED
        BY <4>4
    <3>18. CASE k # Count
      <4> DEFINE m == k + 1
      <4>1. m \in 1 .. Count /\ m = k + 1
        BY <3>3, <3>10, <3>18
      <4>2. next = Start(Last, m) /\ FoundBefore(headers', hs, m)
        BY <3>4, <3>13
      <4> HIDE DEF m
      <4> DEFINE g == Last.headers[m]
                 a == Len(g.name)
                 b == Len(g.gap)
                 c == Len(g.value)
                 e == Start(Last, m + 1)
      <4>3. Placed(Buffer, g, next, e)
        BY <1>4, <4>1, <4>2, HeaderPlaced
      <4> HIDE DEF g
      <4>4. /\ a \in Nat /\ b \in Nat /\ c \in Nat /\ next \in Nat
            /\ e = next + a + b + c + 2 /\ e < Len(Buffer)
        BY <4>3 DEF Placed
      <4> HIDE DEF a, b, c, e
      <4>5. next + 2 < Len(Buffer)
        BY <3>16, <4>4
      <4>6. end < length - 1
        BY <1>6, <2>9, <3>15, <3>16, <4>5
      <4>7. key' = next
        BY <2>1, <3>15, <4>6
      <4>8. ASSUME NEW i \in next + 1 .. Len(Buffer) PROVE buffer'[i] = Buffer[i]
        <5>1. i > position + 1 /\ i \in key + 1 .. Len(Buffer)
          <6>1. next >= position + 3 /\ i > next /\ i <= Len(Buffer) /\ i \in Int
            BY <1>6, <2>9, <3>15, <3>16, <4>4, <4>8
          <6>2. key <= position
            <7>1. position \in key .. key + Len(h.name)
              BY <3>3, <3>4 DEF InHeader
            <7>2. QED
              BY <3>5, <7>1
          <6>3. key \in Nat /\ position \in Nat /\ next \in Nat /\ Len(Buffer) \in Nat
            BY <1>6, <3>5, <3>16, <4>4
          <6>4. i > position + 1 /\ i >= key + 1
            BY <6>1, <6>2, <6>3
          <6>5. QED
            BY <6>1, <6>3, <6>4
        <5>2. buffer[i] = Buffer[i]
          BY <3>9, <5>1
        <5>3. buffer \in Chars /\ Len(buffer) = Len(Buffer)
          BY <1>4, BufferIs
        <5> DEFINE j == position + 1
        <5>4. j \in 1 .. Len(buffer) /\ buffer' = [buffer EXCEPT ![j] = NUL]
          BY <1>2, <1>3, <1>6, <3>16, <5>3
        <5>5. i # j /\ i \in 1 .. Len(buffer)
          BY <1>6, <3>5, <3>16, <5>1, <5>3
        <5> HIDE DEF j
        <5>6. buffer'[i] = buffer[i]
          BY <5>3, <5>4, <5>5, BufferKeeps
        <5>7. QED
          BY <5>2, <5>6
      <4>9. position' \in key' .. key' + Len(Last'.headers[m].name)
        <5>1. a = Len(Last'.headers[m].name)
          BY <1>5 DEF a, g
        <5>2. position' = next /\ key' = next
          BY <3>15, <4>7
        <5>3. next \in next .. next + a
          BY <4>4
        <5>4. QED
          BY <5>1, <5>2, <5>3
      <4>10. InHeader(m)'
        <5>1. key' = Start(Last', m)
          BY <1>5, <4>2, <4>7
        <5>2. \A i \in key' + 1 .. Len(Buffer') : buffer'[i] = Buffer'[i]
          BY <1>5, <4>7, <4>8
        <5>3. FoundBefore(headers', Last'.headers, m)
          BY <1>5, <3>4, <4>2
        <5>4. QED
          BY <4>9, <5>1, <5>2, <5>3 DEF InHeader
      <4>11. m \in 1 .. Count'
        BY <1>5, <4>1
      <4>12. QED
        BY <4>10, <4>11
    <3>19. QED
      BY <3>17, <3>18
  <2>15. QED
    BY <1>1, <1>2, <1>3, <2>10, <2>11, <2>12, <2>13, <2>14, HeadersStep
<1>9. QED
  BY <1>7, <1>8
-----------------------------------------------------------------------------
\* A step that changes nothing.
LEMMA StutterStep == IInv /\ UNCHANGED vars => IInv'
<1>1. SUFFICES ASSUME IInv, UNCHANGED vars PROVE IInv'
  OBVIOUS
<1>2. /\ UNCHANGED input /\ UNCHANGED sendVars
      /\ UNCHANGED <<buffer, position, key, statusStr, headers, pc>>
  BY <1>1 DEF vars
<1>3. /\ request' = request /\ err' = err /\ text' = text /\ body' = body
      /\ ending' = ending
  BY <1>2 DEF sendVars
<1>4. /\ backend' = backend /\ Last' = Last /\ Buffer' = Buffer /\ Regular' = Regular
      /\ length' = length /\ Count' = Count /\ Before' = Before /\ CurlLines' = CurlLines
  BY <1>2, Same
<1>5. /\ Received /\ FoundIsText /\ LoopTypes /\ SendTypes /\ CurlInv
      /\ WinSends /\ WinBuffers /\ WinStatus /\ WinNames /\ WinHeaders
  BY <1>1 DEF IInv
<1>6. Received'
  BY <1>2, <1>5, Same
<1>7. FoundIsText'
  BY <1>2, <1>5 DEF FoundIsText
<1>8. LoopTypes'
  BY <1>2, <1>4, <1>5 DEF LoopTypes
<1>9. SendTypes'
  BY <1>3, <1>5 DEF SendTypes
<1>10. CurlReads => CurlReads'
  BY <1>2, <1>4 DEF CurlReads
<1>11. CurlInv'
  BY <1>2, <1>4, <1>5, <1>10 DEF CurlInv
<1>12. Untouched' = Untouched
  BY <1>2, <1>3 DEF Untouched
<1>13. WinSends'
  BY <1>2, <1>3, <1>4, <1>5, <1>12 DEF WinSends
<1>14. WinBuffers'
  BY <1>2, <1>4, <1>5 DEF WinBuffers
<1>15. Ended' = Ended
  BY <1>2, <1>3 DEF Ended
<1>16. (CodeIsFound => CodeIsFound') /\ (NoCodeIsFound => NoCodeIsFound')
  BY <1>2, <1>4 DEF CodeIsFound, NoCodeIsFound
<1>17. WinStatus'
  <2>1. pc' = "status" /\ backend' = "wininet" =>
          /\ headers' = Nothing /\ position' <= length'
          /\ \/ statusStr' = -1 /\ position' \in {0, 1} /\ buffer' = Buffer'
             \/ NoCodeIsFound' /\ position' = 6 /\ buffer' = Buffer'
             \/ statusStr' = 2 /\ position' >= 7 /\ buffer' = [Buffer' EXCEPT ![6] = NUL]
    BY <1>2, <1>4, <1>5, <1>16 DEF WinStatus
  <2>2. backend' = "wininet" /\ (pc' \in {"headers", "read"} \/ Ended') =>
          \/ CodeIsFound' /\ position' >= 7
          \/ NoCodeIsFound' /\ pc' # "headers"
    BY <1>2, <1>4, <1>5, <1>15, <1>16 DEF WinStatus
  <2>3. QED
    BY <2>1, <2>2 DEF WinStatus
<1>18. WinNames'
  <2>1. \A i : At(i)' = At(i)
    BY <1>2 DEF At
  <2>2. QED
    BY <1>2, <1>4, <1>5, <2>1 DEF WinNames
<1>19. WinHeaders'
  <2>1. AllFound => AllFound'
    BY <1>2, <1>4 DEF AllFound
  <2>2. \A k \in 1 .. Count : InHeader(k) => InHeader(k)'
    BY <1>2, <1>4 DEF InHeader
  <2>3. ASSUME backend = "wininet", Regular PROVE
          /\ pc' = "status" => position' < Start(Last', 1)
          /\ pc' = "headers" => AllFound' \/ \E k \in 1 .. Count' : InHeader(k)'
          /\ pc' = "read" \/ Ended' => AllFound'
    <3>1. pc = "status" => position < Start(Last, 1)
      BY <1>5, <2>3 DEF WinHeaders
    <3>2. pc = "headers" => AllFound \/ \E k \in 1 .. Count : InHeader(k)
      BY <1>5, <2>3 DEF WinHeaders
    <3>3. pc = "read" \/ Ended => AllFound
      BY <1>5, <2>3 DEF WinHeaders
    <3>4. pc' = "status" => position' < Start(Last', 1)
      BY <1>2, <1>4, <3>1
    <3>5. pc' = "headers" => AllFound' \/ \E k \in 1 .. Count' : InHeader(k)'
      BY <1>2, <1>4, <2>1, <2>2, <3>2
    <3>6. pc' = "read" \/ Ended' => AllFound'
      BY <1>2, <1>15, <2>1, <3>3
    <3>7. QED
      BY <3>4, <3>5, <3>6
  <2>4. QED
    BY <1>4, <2>3 DEF WinHeaders
<1>20. QED
  BY <1>6, <1>7, <1>8, <1>9, <1>11, <1>13, <1>14, <1>17, <1>18, <1>19 DEF IInv

\* The inductive invariant holds: of libcurl's lines as headerCallback takes them, and
\* of WinINet's buffer as the loops of parseHeaders walk and overwrite it.
THEOREM Invariant == Spec => []IInv
<1>1. IInv /\ [Next]_vars => IInv'
  <2>1. SUFFICES ASSUME IInv, [Next]_vars PROVE IInv'
    OBVIOUS
  <2>2. CASE HttpOpenRequest
    BY <2>1, <2>2, HttpOpenRequestStep
  <2>3. CASE Proceed
    BY <2>1, <2>3, ProceedStep
  <2>4. CASE Fail
    BY <2>1, <2>4, FailStep
  <2>5. CASE ReadFile
    BY <2>1, <2>5, ReadFileStep
  <2>6. CASE EndOfBody \/ ReadFails
    BY <2>1, <2>6, EndOfBodyStep
  <2>7. CASE headerCallback
    BY <2>1, <2>7, HeaderCallbackStep
  <2>8. CASE EndOfLines
    BY <2>1, <2>8, EndOfLinesStep
  <2>9. CASE FindCode
    BY <2>1, <2>9, FindCodeStep
  <2>10. CASE SkipStatus
    BY <2>1, <2>10, SkipStatusStep
  <2>11. CASE EndOfStatus
    BY <2>1, <2>11, EndOfStatusStep
  <2>12. CASE FindValue
    BY <2>1, <2>12, FindValueStep
  <2>13. CASE SkipValue
    BY <2>1, <2>13, SkipValueStep
  <2>14. CASE SkipName
    BY <2>1, <2>14, SkipNameStep
  <2>15. CASE EndOfHeaders
    BY <2>1, <2>15, EndOfHeadersStep
  <2>16. CASE UNCHANGED vars
    BY <2>1, <2>16, StutterStep
  <2>17. QED
    BY <2>1, <2>2, <2>3, <2>4, <2>5, <2>6, <2>7, <2>8, <2>9, <2>10, <2>11, <2>12, <2>13,
       <2>14, <2>15, <2>16 DEF Next
<1>2. QED
  BY InitInv, <1>1, PTL DEF Spec

\* The types of the loops' variables, however they overwrite the buffer, and that the
\* names found have neither colons nor NULs.
THEOREM TypeCorrect == Spec => []TypeOK
<1>1. IInv => TypeOK
  <2>1. SUFFICES ASSUME IInv PROVE TypeOK
    OBVIOUS
  <2>2. Received /\ Texts(headers) /\ LoopTypes /\ SendTypes
    BY <2>1 DEF IInv, FoundIsText
  <2>3. \A k \in DOMAIN headers :
          {":", NUL} \cap (Range(k) \cup (Range(headers[k]) \ {":"})) = {}
    <3>1. TAKE k \in DOMAIN headers
    <3>2. /\ k \in Chars /\ \A i \in 1 .. Len(k) : k[i] # ":" /\ k[i] # NUL
          /\ headers[k] \in Chars /\ \A i \in 1 .. Len(headers[k]) : headers[k][i] # NUL
      BY <2>2 DEF Texts, Name, Line
    <3>3. DOMAIN k = 1 .. Len(k) /\ DOMAIN headers[k] = 1 .. Len(headers[k])
      BY <3>2, LenOf
    <3>4. ":" \notin Range(k) /\ NUL \notin Range(k)
      BY <3>2, <3>3 DEF Range
    <3>5. NUL \notin Range(headers[k])
      BY <3>2, <3>3 DEF Range
    <3>6. QED
      BY <3>4, <3>5
  <2>4. /\ backend \in {"curl", "wininet"}
        /\ length \in Nat
        /\ position \in Nat
        /\ key \in 0 .. length
        /\ statusStr \in -1 .. length - 1
        /\ pc \in {"lines", "open", "send", "query", "fill", "status", "headers", "read", "done"}
    BY <2>2 DEF Received, LoopTypes
  <2>5. /\ request \in BOOLEAN
        /\ err \in {"NoError"} \cup {fromWinINetError(e) : e \in Errors}
        /\ ending \in {"none", "complete", "broken"}
    BY <2>2 DEF SendTypes
  <2>6. Len(text) <= Len(body) /\ Len(body) <= MaxBody
    BY <2>2 DEF SendTypes, Kept
  <2>7. QED
    BY <2>3, <2>4, <2>5, <2>6 DEF TypeOK
<1>2. QED
  BY Invariant, <1>1, PTL

\* headerCallback leaves the headers of the last response, of each name the last.
THEOREM LastResponseKept == Spec => []CurlKeepsTheLastResponse
<1>1. IInv => CurlKeepsTheLastResponse
  <2> DEFINE shown == {i \in DOMAIN Last.headers : \A j \in i .. Len(Last.headers) :
                         "HTTP/" \notin Range(Text(Last.headers[j]))}
  <2>1. SUFFICES ASSUME IInv, backend = "curl", pc = "done"
                 PROVE  /\ DOMAIN headers = {NameOf(i) : i \in shown}
                        /\ \A i \in shown :
                             /\ \A j \in shown : j > i => NameOf(j) # NameOf(i)
                             /\ Last.headers[i].gap # <<>>
                             => headers[NameOf(i)] = Last.headers[i].value
    BY DEF CurlKeepsTheLastResponse
  <2>2. Received /\ buffer = Concat(CurlLines) /\ position = Len(buffer) /\ CurlReads
    BY <2>1 DEF IInv, CurlInv
  <2>3. Before \in Nat /\ Len(buffer) = Before + 2 + Count
    BY <2>2, CurlBuffer DEF CurlText, Count
  <2>4. Last \in Response /\ Count \in Nat
    BY <2>2, LastIs
  <2>5. position > Before + Count
    BY <2>2, <2>3, <2>4
  <2>6. Latest(headers, Last.headers, Count)
    BY <2>2, <2>5 DEF CurlReads
  <2>7. DOMAIN Last.headers = 1 .. Count
    BY <2>4, ResponseIs DEF Count
  <2>8. shown = Shown(Last.headers, Count)
    BY <2>7 DEF Shown, Count
  <2> HIDE DEF shown
  <2>9. \A i : NameOf(i) = HeaderName(Last.headers, i)
    BY DEF NameOf, HeaderName
  <2>10. DOMAIN headers = {NameOf(i) : i \in shown}
    BY <2>6, <2>8, <2>9 DEF Latest
  <2>11. \A i \in shown :
           /\ \A j \in shown : j > i => NameOf(j) # NameOf(i)
           /\ Last.headers[i].gap # <<>>
           => headers[NameOf(i)] = Last.headers[i].value
    BY <2>6, <2>8, <2>9 DEF Latest
  <2>12. QED
    BY <2>10, <2>11
<1>2. QED
  BY Invariant, <1>1, PTL

\* parseHeaders finds each header of a head that is regular, and the code.
THEOREM HeadRead == Spec => []WinReadsTheHead
<1>1. IInv => WinReadsTheHead
  <2>1. SUFFICES ASSUME IInv, backend = "wininet", pc = "done", err = "NoError"
                 PROVE  /\ Regular =>
                             /\ DOMAIN headers = Names
                             /\ \A i \in DOMAIN Last.headers :
                                  (\A j \in 1 .. i - 1 : NameOf(j) # NameOf(i)) =>
                                    headers[NameOf(i)] = Last.headers[i].value
                        /\ Last.reason # <<>> \/ Last.headers # <<>> \/ length = Len(buffer)
                           => StatusRead = Code
    BY DEF WinReadsTheHead, Regular
  <2>2. Received /\ WinBuffers /\ WinStatus /\ WinHeaders
    BY <2>1 DEF IInv
  <2>3. Ended
    BY <2>1 DEF Ended
  <2>4. Last \in Response /\ Count \in Nat
    BY <2>2, LastIs
  <2>5. ASSUME Regular
        PROVE  /\ DOMAIN headers = Names
               /\ \A i \in DOMAIN Last.headers :
                    (\A j \in 1 .. i - 1 : NameOf(j) # NameOf(i)) =>
                      headers[NameOf(i)] = Last.headers[i].value
    <3> DEFINE n == Count + 1
    <3>1. FoundBefore(headers, Last.headers, n)
      BY <2>1, <2>2, <2>3, <2>5 DEF WinHeaders, AllFound
    <3>2. n - 1 = Count
      BY <2>4
    <3> HIDE DEF n
    <3>3. DOMAIN Last.headers = 1 .. n - 1
      BY <2>4, <3>2, ResponseIs DEF Count
    <3>4. \A i : NameOf(i) = HeaderName(Last.headers, i)
      BY DEF NameOf, HeaderName
    <3>5. Names = {HeaderName(Last.headers, i) : i \in DOMAIN Last.headers}
      BY DEF Names, HeaderName
    <3>6. DOMAIN headers = Names
      BY <3>1, <3>3, <3>5 DEF FoundBefore
    <3>7. \A i \in DOMAIN Last.headers :
            (\A j \in 1 .. i - 1 : NameOf(j) # NameOf(i)) =>
              headers[NameOf(i)] = Last.headers[i].value
      BY <3>1, <3>3, <3>4 DEF FoundBefore
    <3>8. QED
      BY <3>6, <3>7
  <2>6. CASE CodeIsFound
    <3> DEFINE rest == SubSeq(buffer, 3, Len(buffer))
    <3>1. /\ statusStr = 2 /\ buffer[3] = "2" /\ buffer[4] = "0" /\ buffer[5] = "0"
          /\ buffer[6] = NUL
      BY <2>6 DEF CodeIsFound
    <3>2. buffer \in Chars /\ Len(buffer) = Len(Buffer)
      BY <2>1, <2>2, BufferIs
    <3>3. Len(buffer) >= 6
      <4>1. Len(Buffer) \in Nat /\ Len(Buffer) >= 7
        BY <2>1, <2>2, BufferIs
      <4>2. QED
        BY <3>2, <4>1
    <3>4. rest = SubSeq(buffer, 3, Len(buffer))
      OBVIOUS
    <3> HIDE DEF rest
    <3>5. SubSeq(rest, 1, FirstOf(rest, NUL) - 1) = Code
      BY <3>1, <3>2, <3>3, <3>4, CodeIs
    <3>6. StringAt(2) = SubSeq(rest, 1, FirstOf(rest, NUL) - 1)
      <4>1. 2 + 1 = 3
        OBVIOUS
      <4>2. QED
        BY <4>1 DEF StringAt, rest
    <3>7. StatusRead = Code
      <4>1. statusStr # -1 /\ statusStr = 2
        BY <3>1
      <4>2. StatusRead = StringAt(2)
        BY <4>1 DEF StatusRead
      <4>3. QED
        BY <3>5, <3>6, <4>2
    <3>8. QED
      BY <2>5, <3>7
  <2>7. CASE NoCodeIsFound
    <3>1. length = 6 /\ Len(Buffer) = 7
      BY <2>7 DEF NoCodeIsFound
    <3>2. Len(buffer) = Len(Buffer) /\ Len(Last.reason) = 0 /\ Count = 0
      BY <2>1, <2>2, <3>1, BufferIs
    <3>3. Last.reason = <<>>
      BY <2>4, <3>2, ResponseIs, NoChars, EmptySeq DEF Line, Chars
    <3>4. Last.headers = <<>>
      BY <2>4, <3>2, ResponseIs, EmptySeq DEF Count
    <3>5. length # Len(buffer)
      BY <3>1, <3>2
    <3>6. QED
      BY <2>5, <3>3, <3>4, <3>5
  <2>8. CodeIsFound \/ NoCodeIsFound
    BY <2>1, <2>2, <2>3 DEF WinStatus
  <2>9. QED
    BY <2>6, <2>7, <2>8
<1>2. QED
  BY Invariant, <1>1, PTL

\* send() closes its request, returns nothing with an error, and the whole body without.
THEOREM BodyRead == Spec => []WinReadsTheBody
<1>1. IInv => WinReadsTheBody
  <2>1. SUFFICES ASSUME IInv, backend = "wininet", pc = "done"
                 PROVE  /\ ~request
                        /\ err # "NoError" =>
                             headers = Nothing /\ StatusRead = <<>> /\ text = <<>>
                        /\ err = "NoError" =>
                             ending # "none" /\ (NUL \notin Range(body) => text = body)
    BY DEF WinReadsTheBody
  <2>2. WinSends /\ SendTypes
    BY <2>1 DEF IInv
  <2>3. /\ ~request /\ (err # "NoError" => Untouched)
        /\ err = "NoError" => ending # "none"
    BY <2>1, <2>2 DEF WinSends
  <2>4. NUL \notin Range(body) => text = body
    BY <2>2 DEF SendTypes, Kept
  <2>5. Untouched => headers = Nothing /\ StatusRead = <<>> /\ text = <<>>
    BY DEF Untouched, StatusRead
  <2>6. QED
    BY <2>3, <2>4, <2>5
<1>2. QED
  BY Invariant, <1>1, PTL

-----------------------------------------------------------------------------
(***************************************************************************)
(* The loops end.                                                          *)
(***************************************************************************)
\* Inside a loop its index grows, up to a bound that stays; it is left for a later one.
LoopsAdvance ==
  /\ pc = "lines" =>
       \/ pc' = "lines" /\ position < Len(buffer) /\ position' = position + 1 /\ buffer' = buffer
       \/ pc' = "done"
  /\ pc \in {"status", "headers"} =>
       /\ length' = length
       /\ \/ pc' = pc /\ position < length - 1 /\ position' > position
          \/ pc = "status" /\ pc' \in {"headers", "read"}
          \/ pc = "headers" /\ pc' = "read"

LEMMA FindValueAdvances ==
  ASSUME LoopTypes, FoundIsText', FindValue
  PROVE  position' > position
<1>1. position \in Nat
  BY DEF LoopTypes
<1>2. CASE ~ (position + 2 < length)
  <2>1. position' = position + 3
    BY <1>2 DEF FindValue
  <2>2. QED
    BY <1>1, <2>1
<1>3. CASE position + 2 < length
  <2> DEFINE lower == Lower(SubSeq(buffer, key + 1, position))
             value == StringAt(position + 2)
             found == Len(headers'[lower])
  <2>1. /\ headers' = Insert(headers, lower, value)
        /\ position' = (position + 2 + found) + 1
    BY <1>3 DEF FindValue
  <2> HIDE DEF lower, value
  <2>2. lower \in DOMAIN headers'
    <3>1. CASE lower \in DOMAIN headers
      BY <2>1, <3>1 DEF Insert
    <3>2. CASE lower \notin DOMAIN headers
      <4>1. headers' = Assign(headers, lower, value)
        BY <2>1, <3>2 DEF Insert
      <4>2. Assigned(headers', headers, lower, value)
        BY <4>1, AssignIs
      <4>3. QED
        BY <4>2 DEF Assigned
    <3>3. QED
      BY <3>1, <3>2
  <2>3. headers'[lower] \in Chars
    BY <2>2 DEF FoundIsText, Texts, Line
  <2>4. found \in Nat
    BY <2>3, LenOf
  <2> HIDE DEF found
  <2>5. QED
    BY <1>1, <2>1, <2>4
<1>4. QED
  BY <1>2, <1>3

\* headerCallback's lines and the loops of parseHeaders come to an end for any head:
\* also where the second one goes on behind the value it keeps, not the one it is at.
THEOREM LoopsEnd == Spec => [][LoopsAdvance]_vars
<1>1. IInv /\ IInv' /\ [Next]_vars => [LoopsAdvance]_vars
  <2>1. SUFFICES ASSUME IInv, IInv', Next PROVE LoopsAdvance
    OBVIOUS
  <2>2. LoopTypes /\ FoundIsText' /\ position \in Nat
    BY <2>1 DEF IInv, LoopTypes
  <2>3. CASE pc \notin {"lines", "status", "headers"}
    BY <2>3 DEF LoopsAdvance
  <2>4. CASE headerCallback
    BY <2>4 DEF headerCallback, LoopsAdvance
  <2>5. CASE EndOfLines
    BY <2>5 DEF EndOfLines, LoopsAdvance
  <2>6. CASE FindCode
    <3>1. pc = "status" /\ pc' = "status" /\ position < length - 1 /\ UNCHANGED input
      BY <2>6, Zenon DEF FindCode
    <3>2. position' = position + 6 \/ position' = position + 5
      BY <2>6, Zenon DEF FindCode
    <3>3. position' > position
      BY <2>2, <3>2
    <3>4. length' = length
      BY <3>1 DEF input
    <3>5. QED
      BY <3>1, <3>3, <3>4 DEF LoopsAdvance
  <2>7. CASE SkipStatus
    <3>1. pc = "status" /\ position < length - 1 /\ UNCHANGED input
      BY <2>7, Zenon DEF SkipStatus
    <3>2. pc' = "headers" \/ pc' = pc
      BY <2>7, Zenon DEF SkipStatus
    <3>3. position' = position + 1
      BY <2>7, Zenon DEF SkipStatus
    <3>4. position' > position
      BY <2>2, <3>3
    <3>5. length' = length
      BY <3>1 DEF input
    <3>6. QED
      BY <3>1, <3>2, <3>4, <3>5 DEF LoopsAdvance
  <2>8. CASE EndOfStatus
    BY <2>8 DEF EndOfStatus, LoopsAdvance, input
  <2>9. CASE FindValue
    <3>1. pc = "headers" /\ pc' = "headers" /\ length' = length /\ position < length - 1
      BY <2>9 DEF FindValue, input
    <3>2. position' > position
      BY <2>2, <2>9, FindValueAdvances
    <3>3. QED
      BY <3>1, <3>2 DEF LoopsAdvance
  <2>10. CASE SkipValue \/ SkipName
    <3>1. /\ pc = "headers" /\ pc' = "headers" /\ length' = length
          /\ position < length - 1 /\ position' = position + 1
      BY <2>10 DEF SkipValue, SkipName, input
    <3>2. position' > position
      BY <2>2, <3>1
    <3>3. QED
      BY <3>1, <3>2 DEF LoopsAdvance
  <2>11. CASE EndOfHeaders
    BY <2>11 DEF EndOfHeaders, LoopsAdvance, input
  <2>12. CASE HttpOpenRequest \/ Proceed \/ Fail \/ ReadFile \/ EndOfBody \/ ReadFails
    <3>1. pc \in {"open", "send", "query", "fill", "read"}
      BY <2>12 DEF HttpOpenRequest, Proceed, Fail, ReadFile, EndOfBody, ReadFails
    <3>2. QED
      BY <2>3, <3>1
  <2>13. QED
    BY <2>1, <2>4, <2>5, <2>6, <2>7, <2>8, <2>9, <2>10, <2>11, <2>12 DEF Next
<1>2. QED
  BY Invariant, <1>1, PTL DEF Spec
=============================================================================
