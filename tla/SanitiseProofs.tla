--------------------------- MODULE SanitiseProofs ---------------------------
(***************************************************************************)
(* Lemmas about what the pipeline does to the bytes of a payload, for      *)
(* every payload: the loops end, stripping removes exactly the terminal    *)
(* sequences, redaction and cleaning yield valid text, and an outcome      *)
(* tells of every change.                                                  *)
(***************************************************************************)
EXTENDS Derivatives, WellFoundedInduction, FiniteSetTheorems, TLAPS

-----------------------------------------------------------------------------
(* Induction over a text *)

\* A set of naturals that is not empty has a smallest member.
LEMMA Smallest ==
  ASSUME NEW T, T \subseteq Nat, T # {}
  PROVE  \E n \in T : \A m \in T : n <= m
<1> DEFINE R == OpToRel(<, Nat)
<1>1. IsWellFoundedOn(R, Nat)
  BY NatLessThanWellFounded
<1>2. PICK n \in T : \A m \in T : <<m, n>> \notin R
  <2> HIDE DEF R
  <2> QED
    BY Zenon, <1>1, WFMin
<1>3. \A m \in T : ~(m < n)
  BY Zenon, <1>2 DEF OpToRel
<1> QED
  BY <1>3

\* What holds of 0 and passes from a number to the next holds of all of them.
LEMMA Upward ==
  ASSUME NEW n \in Nat, NEW S, 0 \in S, \A i \in 1..n : i - 1 \in S => i \in S
  PROVE  \A i \in 0..n : i \in S
<1> DEFINE T == {i \in 0..n : i \notin S}
<1> SUFFICES ASSUME T # {} PROVE FALSE
  BY Zenon
<1>1. T \subseteq Nat
  OBVIOUS
<1>2. \A i : i \in T <=> i \in 0..n /\ i \notin S
  BY Zenon
<1> HIDE DEF T
<1>3. PICK m \in T : \A k \in T : m <= k
  BY Zenon, <1>1, Smallest
<1>4. m \in 1..n /\ m - 1 \in 0..n
  BY <1>2, <1>3
<1>5. m - 1 \notin T
  BY <1>3, <1>4
<1> QED
  BY <1>2, <1>3, <1>4, <1>5

\* What passes to a place from all later ones holds of all places.
LEMMA Downward ==
  ASSUME NEW n \in Nat, NEW S,
         \A i \in 1..n : (\A j \in (i + 1)..n : j \in S) => i \in S
  PROVE  \A i \in 1..n : i \in S
<1> DEFINE T == {k \in 0..n : k < n /\ n - k \notin S}
<1> SUFFICES ASSUME NEW x \in 1..n, x \notin S PROVE FALSE
  BY Zenon
<1>1. T \subseteq Nat
  OBVIOUS
<1>2. n - x \in T
  <2>1. n - x \in 0..n /\ n - x < n /\ n - (n - x) = x
    OBVIOUS
  <2> QED
    BY Zenon, <2>1
<1>3. \A k : k \in T <=> k \in 0..n /\ k < n /\ n - k \notin S
  BY Zenon
<1> HIDE DEF T
<1>4. PICK k \in T : \A j \in T : k <= j
  BY Zenon, <1>1, <1>2, Smallest
<1>5. n - k \in 1..n /\ n - k \notin S
  BY <1>3, <1>4
<1>6. ASSUME NEW j \in (n - k + 1)..n, j \notin S
      PROVE  FALSE
  <2>1. k \in 0..n
    BY Zenon, <1>3, <1>4
  <2>2. n - j \in 0..n /\ n - j < n /\ n - (n - j) = j /\ ~(k <= n - j)
    BY <2>1
  <2> QED
    BY Zenon, <1>3, <1>4, <1>6, <2>2
<1> QED
  BY Zenon, <1>5, <1>6

\* The places that a loop over n bytes can have reached.
LEMMA Places ==
  ASSUME NEW n \in Nat
  PROVE  /\ n \in 0..n /\ 0 \in 0..n
         /\ \A i \in 1..n : i - 1 \in 0..n /\ i \in 0..n /\ i # 0
         /\ \A i \in 0..n : i = 0 \/ i \in 1..n
OBVIOUS

\* A loop over 1..n with a body that keeps its accumulator in A, and its run.
Bodies(n, A) == [(1..n) \X A -> A]
IsRun(f, n, A, start, body) ==
  f \in [0..n -> A] /\ f[0] = start /\ \A i \in 1..n : f[i] = body[<<i, f[i - 1]>>]

\* Every such loop has a run, by the smallest place without one.
LEMMA RunExists ==
  ASSUME NEW n \in Nat, NEW A, NEW start \in A, NEW body \in Bodies(n, A)
  PROVE  \E f : IsRun(f, n, A, start, body)
<1> USE DEF Bodies
<1> DEFINE IsLoop(f, m) ==
             f \in [0..m -> A] /\ f[0] = start /\ \A i \in 1..m : f[i] = body[<<i, f[i - 1]>>]
           S == {m \in 0..n : \E f : IsLoop(f, m)}
<1>1. 0 \in S
  <2>1. IsLoop([i \in 0..0 |-> start], 0)
    OBVIOUS
  <2> HIDE DEF IsLoop
  <2> QED
    BY <2>1
<1>2. ASSUME NEW m \in 1..n, m - 1 \in S
      PROVE  m \in S
  <2>1. PICK f : IsLoop(f, m - 1)
    BY Zenon, <1>2
  <2> DEFINE new == body[<<m, f[m - 1]>>]
             g == [i \in 0..m |-> IF i = m THEN new ELSE f[i]]
  <2>2. /\ m \in Nat /\ m - 1 \in 0..(m - 1) /\ 0 \in 0..(m - 1) /\ m \notin 0..(m - 1)
        /\ \A i \in 0..m : i = m \/ i \in 0..(m - 1)
        /\ \A i \in 1..m : i - 1 \in 0..(m - 1) /\ (i = m \/ i \in 1..(m - 1)) /\ i \in 0..m
        /\ 0 \in 0..m /\ m \in 0..n
    OBVIOUS
  <2>3. f[m - 1] \in A
    BY Zenon, <2>1, <2>2
  <2>4. new \in A
    BY Zenon, <2>3
  <2> HIDE DEF new
  <2>5. g \in [0..m -> A]
    BY Zenon, <2>1, <2>2, <2>4
  <2>6. g[0] = start
    BY Zenon, <2>1, <2>2
  <2>7. \A i \in 0..(m - 1) : g[i] = f[i]
    BY <2>2
  <2>8. g[m] = new
    BY <2>2
  <2> HIDE DEF g
  <2>9. ASSUME NEW i \in 1..m
        PROVE  g[i] = body[<<i, g[i - 1]>>]
    <3>1. CASE i = m
      BY Zenon, <2>2, <2>7, <2>8, <3>1 DEF new
    <3>2. CASE i # m
      <4>1. i \in 1..(m - 1) /\ i \in 0..(m - 1) /\ i - 1 \in 0..(m - 1)
        BY <3>2
      <4> QED
        BY Zenon, <2>1, <2>7, <4>1
    <3> QED
      BY <3>1, <3>2
  <2>10. IsLoop(g, m)
    BY Zenon, <2>5, <2>6, <2>9
  <2> HIDE DEF IsLoop
  <2> QED
    BY Zenon, <2>2, <2>10
<1>3. \A m \in 0..n : m \in S
  <2> HIDE DEF S
  <2> QED
    BY Zenon, <1>1, <1>2, Upward
<1>4. n \in S
  BY <1>3
<1> QED
  BY Zenon, <1>4 DEF IsRun

\* A loop that, at any place of 1..(n + 1), stops or goes on from a later place.
Jumps(n) == {next \in [1..n -> 1..(n + 1)] : \A i \in 1..n : next[i] > i}
IsJumpingRun(f, n, A, stop, last, next, body) ==
  /\ f \in [1..(n + 1) -> A]
  /\ \A i \in 1..(n + 1) : f[i] = IF i \in stop THEN last[i] ELSE body[<<i, f[next[i]]>>]

\* A loop that skips ahead has a run too.
LEMMA JumpingRunExists ==
  ASSUME NEW n \in Nat, NEW A, NEW stop, n + 1 \in stop, NEW last \in [1..(n + 1) -> A],
         NEW next \in Jumps(n), NEW body \in Bodies(n, A)
  PROVE  \E f : IsJumpingRun(f, n, A, stop, last, next, body)
<1> USE DEF Bodies, Jumps
<1> DEFINE Down(m) == (n + 1 - m)..(n + 1)
           IsNext(f, i) == f[i] = IF i \in stop THEN last[i] ELSE body[<<i, f[next[i]]>>]
           IsJump(f, m) == f \in [Down(m) -> A] /\ \A i \in Down(m) : IsNext(f, i)
           S == {m \in 0..n : \E f : IsJump(f, m)}
<1>1. 0 \in S
  <2> DEFINE f == [i \in Down(0) |-> last[n + 1]]
  <2>1. /\ n + 1 \in Down(0) /\ \A i \in Down(0) : i = n + 1
        /\ n + 1 \in 1..(n + 1) /\ 0 \in 0..n
    OBVIOUS
  <2> HIDE DEF Down
  <2>2. last[n + 1] \in A
    BY Zenon, <2>1
  <2>3. IsJump(f, 0)
    BY Zenon, <2>1, <2>2
  <2> HIDE DEF IsJump
  <2> QED
    BY Zenon, <2>1, <2>3
<1>2. ASSUME NEW m \in 1..n, m - 1 \in S
      PROVE  m \in S
  <2>1. PICK f : IsJump(f, m - 1)
    BY Zenon, <1>2
  <2> DEFINE k == n + 1 - m
             new == IF k \in stop THEN last[k] ELSE body[<<k, f[next[k]]>>]
             g == [i \in Down(m) |-> IF i = k THEN new ELSE f[i]]
  <2>2. /\ k \in 1..n /\ k \in 1..(n + 1) /\ m \in 0..n /\ k \notin Down(m - 1) /\ k \in Down(m)
        /\ \A i \in Down(m) : i = k \/ i \in Down(m - 1)
        /\ \A i \in Down(m - 1) : i \in Down(m) /\ (i \in 1..n \/ i = n + 1)
    OBVIOUS
  <2>3. next[k] \in Down(m - 1)
    BY <2>2
  <2>4. \A i \in 1..n : i \in Down(m - 1) => next[i] \in Down(m - 1)
    OBVIOUS
  <2> HIDE DEF Down, k
  <2>5. new \in A
    <3>1. last[k] \in A /\ f[next[k]] \in A
      BY Zenon, <2>1, <2>2, <2>3
    <3>2. body[<<k, f[next[k]]>>] \in A
      BY Zenon, <2>2, <3>1
    <3> QED
      BY Zenon, <3>1, <3>2
  <2> HIDE DEF new
  <2>6. g \in [Down(m) -> A]
    BY Zenon, <2>1, <2>2, <2>5
  <2>7. \A i \in Down(m - 1) : g[i] = f[i]
    BY Zenon, <2>2
  <2>8. g[k] = new
    BY Zenon, <2>2
  <2> HIDE DEF g
  <2>9. ASSUME NEW i \in Down(m)
        PROVE  IsNext(g, i)
    <3>1. CASE i = k
      BY Zenon, <2>3, <2>7, <2>8, <3>1 DEF new
    <3>2. CASE i # k /\ i \in 1..n
      <4>1. i \in Down(m - 1) /\ next[i] \in Down(m - 1)
        BY Zenon, <2>2, <2>4, <3>2
      <4> QED
        BY Zenon, <2>1, <2>7, <4>1
    <3>3. CASE i # k /\ i = n + 1
      BY Zenon, <2>1, <2>2, <2>7, <3>3
    <3> QED
      BY Zenon, <2>2, <3>1, <3>2, <3>3
  <2>10. IsJump(g, m)
    BY Zenon, <2>6, <2>9
  <2> HIDE DEF IsJump
  <2> QED
    BY Zenon, <2>2, <2>10
<1>3. \A m \in 0..n : m \in S
  <2> HIDE DEF S
  <2> QED
    BY Zenon, <1>1, <1>2, Upward
<1>4. Down(n) = 1..(n + 1) /\ n \in 0..n
  OBVIOUS
<1> HIDE DEF Down
<1>5. n \in S
  BY Zenon, <1>3, <1>4
<1> QED
  BY Zenon, <1>4, <1>5 DEF IsJumpingRun

-----------------------------------------------------------------------------
(* Bytes and runes *)

\* Byte is STRING; the bytes that the loops write are named, since the provers do
\* not know a literal for a string.
Byte == STRING \cup {"F", "i", " "}
Bytes == Seq(Byte)

\* The members of a text are bytes, and stay bytes when they are rewritten.
LEMMA RewrittenByte ==
  ASSUME NEW s \in Bytes, NEW i \in 1..Len(s)
  PROVE  s[i] \in Byte /\ Rewritten(s, i) \in Byte
<1>1. s[i] \in Byte
  BY DEF Bytes
<1>2. "F" \in Byte
  BY DEF Byte
<1> QED
  BY Zenon, <1>1, <1>2 DEF Rewritten

\* The loop of ToValidUTF8 builds a text.
LEMMA ValidTextIsText ==
  ASSUME NEW s \in Bytes
  PROVE  ToValidUTF8(s) \in Bytes
<1> DEFINE n == Len(s)
           body == [x \in (1..n) \X Bytes |-> AppendValid(x[2], s, x[1])]
           valid[i \in 0..n] == IF i = 0 THEN <<>> ELSE AppendValid(valid[i - 1], s, i)
<1>1. n \in Nat /\ <<>> \in Bytes
  BY DEF Bytes
<1>2. ToValidUTF8(s) = valid[n]
  BY Zenon DEF ToValidUTF8
<1>3. \A text \in Bytes, i \in 1..n : AppendValid(text, s, i) \in Bytes
  <2> SUFFICES ASSUME NEW text \in Bytes, NEW i \in 1..n PROVE AppendValid(text, s, i) \in Bytes
    BY Zenon
  <2>1. Append(text, Rewritten(s, i)) \in Bytes
    BY RewrittenByte DEF Bytes
  <2> QED
    BY Zenon, <2>1 DEF AppendValid
<1>4. body \in Bodies(n, Bytes)
  BY Zenon, <1>3 DEF Bodies
<1> HIDE DEF n
<1>5. PICK g : IsRun(g, n, Bytes, <<>>, body)
  <2> HIDE DEF body
  <2> QED
    BY Zenon, <1>1, <1>4, RunExists
<1>6. g = [i \in 0..n |-> IF i = 0 THEN <<>> ELSE AppendValid(g[i - 1], s, i)]
  <2>1. \A i \in 1..n : g[i] = AppendValid(g[i - 1], s, i)
    BY Zenon, <1>1, <1>5, Places DEF IsRun
  <2> QED
    BY Zenon, <1>1, <1>5, <2>1, Places DEF IsRun
<1>7. valid = [i \in 0..n |-> IF i = 0 THEN <<>> ELSE AppendValid(valid[i - 1], s, i)]
  BY Zenon, <1>6
<1> HIDE DEF valid
<1> DEFINE S == {i \in 0..n : valid[i] \in Bytes}
<1>8. 0 \in S /\ \A i \in 1..n : i - 1 \in S => i \in S
  BY Zenon, <1>1, <1>3, <1>7, Places
<1>9. n \in S
  <2> HIDE DEF S
  <2> QED
    BY Zenon, <1>1, <1>8, Places, Upward
<1> QED
  BY Zenon, <1>2, <1>9

\* What the loop of stripRawControls has written after i bytes.
LEMMA CleanLoop ==
  ASSUME NEW s \in Bytes
  PROVE  \E clean : /\ \A i \in 0..Len(s) : clean[i] \in Bytes
                    /\ clean[0] = <<>>
                    /\ \A i \in 1..Len(s) : clean[i] = clean[i - 1] \o WrittenByte(s, i)
                    /\ StripRawControls(s) = CleanOf(clean[Len(s)], s)
<1> DEFINE n == Len(s)
           body == [x \in (1..n) \X Bytes |-> x[2] \o WrittenByte(s, x[1])]
           clean[i \in 0..n] == IF i = 0 THEN <<>> ELSE clean[i - 1] \o WrittenByte(s, i)
<1>1. n \in Nat /\ <<>> \in Bytes
  BY DEF Bytes
<1>2. StripRawControls(s) = CleanOf(clean[n], s)
  BY Zenon DEF StripRawControls
<1>3. \A text \in Bytes, i \in 1..n : text \o WrittenByte(s, i) \in Bytes
  <2> SUFFICES ASSUME NEW text \in Bytes, NEW i \in 1..n PROVE text \o WrittenByte(s, i) \in Bytes
    BY Zenon
  <2>1. WrittenByte(s, i) \in Bytes
    BY RewrittenByte DEF Bytes, WrittenByte
  <2> QED
    BY <2>1 DEF Bytes
<1>4. body \in Bodies(n, Bytes)
  BY Zenon, <1>3 DEF Bodies
<1> HIDE DEF n
<1>5. PICK g : IsRun(g, n, Bytes, <<>>, body)
  <2> HIDE DEF body
  <2> QED
    BY Zenon, <1>1, <1>4, RunExists
<1>6. g = [i \in 0..n |-> IF i = 0 THEN <<>> ELSE g[i - 1] \o WrittenByte(s, i)]
  <2>1. \A i \in 1..n : g[i] = g[i - 1] \o WrittenByte(s, i)
    BY Zenon, <1>1, <1>5, Places DEF IsRun
  <2> QED
    BY Zenon, <1>1, <1>5, <2>1, Places DEF IsRun
<1>7. clean = [i \in 0..n |-> IF i = 0 THEN <<>> ELSE clean[i - 1] \o WrittenByte(s, i)]
  BY Zenon, <1>6
<1> HIDE DEF clean
<1> DEFINE S == {i \in 0..n : clean[i] \in Bytes}
<1>8. 0 \in S /\ \A i \in 1..n : i - 1 \in S => i \in S
  BY Zenon, <1>1, <1>3, <1>7, Places
<1>9. \A i \in 0..n : i \in S
  <2> HIDE DEF S
  <2> QED
    BY Zenon, <1>1, <1>8, Places, Upward
<1>10. clean[0] = <<>> /\ \A i \in 1..n : clean[i] = clean[i - 1] \o WrittenByte(s, i)
  BY Zenon, <1>1, <1>7, Places
<1> QED
  BY Zenon, <1>2, <1>9, <1>10 DEF n

\* What stripRawControls returns is valid, and is what it was given when nothing
\* had to be stripped or replaced.  A lead that was written waits for its
\* continuation, which comes next.
LEMMA CleanIsValid ==
  ASSUME NEW s \in Bytes
  PROVE  /\ StripRawControls(s).output \in Bytes
         /\ Valid(StripRawControls(s).output)
         /\ StripRawControls(s).stripped \in Nat
         /\ Valid(s) /\ StripRawControls(s).stripped = 0 => StripRawControls(s).output = s
<1> DEFINE n == Len(s)
<1>1. n \in Nat
  BY DEF Bytes
<1>2. PICK clean : /\ \A i \in 0..n : clean[i] \in Bytes
                   /\ clean[0] = <<>>
                   /\ \A i \in 1..n : clean[i] = clean[i - 1] \o WrittenByte(s, i)
                   /\ StripRawControls(s) = CleanOf(clean[n], s)
  BY Zenon, CleanLoop
<1> DEFINE Waits(i) == i > 0 /\ s[i] \in Leads /\ IsWhole(s, i)
           GoodAt(i, c, j) ==
             /\ c[j] # "X"
             /\ c[j] \in Leads => (j < Len(c) /\ c[j + 1] = "c") \/ (j = Len(c) /\ Waits(i))
             /\ c[j] = "c" => j > 1 /\ c[j - 1] \in Leads
           Good(i, c) ==
             /\ Waits(i) => Len(c) > 0 /\ c[Len(c)] = s[i]
             /\ \A j \in 1..Len(c) : GoodAt(i, c, j)
           Same(i, c) ==
             Len(c) <= i /\ (Len(c) = i /\ Valid(s) => \A j \in 1..i : c[j] = s[j])
           S == {i \in 0..n : Good(i, clean[i]) /\ Same(i, clean[i])}
<1>3. 0 \in S
  BY <1>1, <1>2
<1>4. ASSUME NEW i \in 1..n, i - 1 \in S
      PROVE  i \in S
  <2> DEFINE c == clean[i - 1]
             d == clean[i]
             b == Rewritten(s, i)
  <2>1. c \in Bytes /\ d \in Bytes /\ d = c \o WrittenByte(s, i) /\ s[i] \in Byte /\ b \in Byte
    BY Zenon, <1>1, <1>2, Places, RewrittenByte
  <2>2. Good(i - 1, c) /\ Same(i - 1, c)
    BY Zenon, <1>4
  <2>3. i \in 1..Len(s) /\ i - 1 \in 0..Len(s)
    BY <1>1
  <2> HIDE DEF c, d, b, S
  <2>4. CASE s[i] \in RawControls
    <3>1. d = c
      BY <2>1, <2>4 DEF WrittenByte, Bytes
    <3>2. s[i] \notin Leads /\ s[i] # "c"
      BY <2>4 DEF RawControls, Leads
    <3>3. ~Waits(i - 1)
      BY <2>3, <3>2 DEF IsWhole
    <3>4. Good(i, d)
      BY <2>1, <2>2, <2>3, <3>1, <3>2, <3>3 DEF Bytes
    <3>5. Same(i, d)
      BY <2>1, <2>2, <2>3, <3>1 DEF Bytes
    <3> QED
      BY <3>4, <3>5 DEF S, d
  <2>5. CASE s[i] \notin RawControls
    <3>1. d = Append(c, b)
      BY <2>1, <2>5 DEF WrittenByte, Bytes, b
    <3>2. /\ b # "X"
          /\ b \in Leads => Waits(i)
          /\ b = "c" => IsInside(s, i)
      BY <2>3 DEF b, Rewritten, IsInvalid, Leads
    <3>3. Waits(i) => b = s[i]
      BY DEF b, Rewritten, IsInvalid, Leads
    <3>4. Waits(i - 1) => b = "c"
      BY <2>3 DEF b, Rewritten, IsInvalid, Leads, IsWhole, IsInside
    <3>5. IsInside(s, i) => s[i - 1] \in Leads /\ Waits(i - 1)
      BY <2>3 DEF IsInside, IsWhole
    <3>6. /\ Len(d) = Len(c) + 1 /\ d[Len(c) + 1] = b /\ Len(c) \in Nat
          /\ \A j \in 1..Len(c) : d[j] = c[j]
      BY <2>1, <3>1 DEF Bytes
    <3>7. Good(i, d)
      <4> HIDE DEF Waits
      <4>1. Waits(i) => Len(d) > 0 /\ d[Len(d)] = s[i]
        BY <3>3, <3>6
      <4>2. ASSUME NEW j \in 1..Len(c) PROVE GoodAt(i, d, j)
        <5>1. GoodAt(i - 1, c, j)
          BY Zenon, <2>2
        <5> QED
          BY <3>4, <3>6, <5>1
      <4>3. GoodAt(i, d, Len(c) + 1)
        <5>1. b = "c" => Len(c) > 0 /\ c[Len(c)] \in Leads
          BY Zenon, <2>2, <3>2, <3>5
        <5>2. b = "c" => Len(c) + 1 > 1 /\ d[Len(c) + 1 - 1] \in Leads
          BY <3>6, <5>1
        <5>3. b \in Leads => Len(c) + 1 = Len(d) /\ Waits(i)
          BY <3>2, <3>6
        <5> QED
          BY <3>2, <3>6, <5>2, <5>3
      <4> QED
        BY <3>6, <4>1, <4>2, <4>3
    <3>8. Same(i, d)
      <4>1. Valid(s) => b = s[i]
        BY <2>3 DEF Valid, b, Rewritten
      <4> QED
        BY <2>2, <2>3, <3>6, <4>1
    <3> QED
      BY <3>7, <3>8 DEF S, d
  <2> QED
    BY <2>4, <2>5
<1>5. n \in S
  <2> HIDE DEF S
  <2> QED
    BY Zenon, <1>1, <1>3, <1>4, Places, Upward
<1>6. clean[n] \in Bytes /\ Good(n, clean[n]) /\ Same(n, clean[n])
  BY Zenon, <1>1, <1>2, <1>5, Places
<1>7. /\ StripRawControls(s).output = clean[n]
      /\ StripRawControls(s).stripped = Len(s) - Len(clean[n])
  BY <1>2 DEF CleanOf
<1>8. ~Waits(n)
  BY <1>1 DEF IsWhole
<1>9. Valid(clean[n])
  BY <1>6, <1>8 DEF Valid, IsInvalid, IsWhole, IsInside, Bytes
<1>10. Valid(s) /\ Len(clean[n]) = n => clean[n] = s
  BY <1>1, <1>6 DEF Bytes
<1> QED
  BY <1>1, <1>6, <1>7, <1>9, <1>10 DEF Bytes

-----------------------------------------------------------------------------
(* Places in a text *)

\* What the library calls the minimum is one.
LEMMA MinIs ==
  ASSUME NEW T, T \subseteq Nat, T # {}
  PROVE  Min(T) \in T /\ \A k \in T : Min(T) <= k
<1>1. \E m \in T : \A k \in T : m <= k
  BY Zenon, Smallest
<1> QED
  BY Zenon, <1>1 DEF Min

\* The first escape at or after a place.
LEMMA NextEscape ==
  ASSUME NEW s \in Bytes, NEW i \in 1..(Len(s) + 1), Escapes(s, i) # {}
  PROVE  /\ Min(Escapes(s, i)) \in i..Len(s) /\ s[Min(Escapes(s, i))] = "ESC"
         /\ \A k \in i..(Min(Escapes(s, i)) - 1) : s[k] # "ESC"
<1> DEFINE T == Escapes(s, i)
<1>1. T \subseteq Nat /\ Len(s) \in Nat
  BY DEF Escapes, Bytes
<1>2. Min(T) \in T /\ \A k \in T : Min(T) <= k
  BY Zenon, <1>1, MinIs
<1>3. Min(T) \in i..Len(s) /\ s[Min(T)] = "ESC"
  BY Zenon, <1>2 DEF Escapes
<1> DEFINE m == Min(T)
<1> HIDE DEF m
<1>4. ASSUME NEW k \in i..(m - 1), s[k] = "ESC"
      PROVE  FALSE
  <2>1. m \in i..Len(s) /\ \A x \in Escapes(s, i) : m <= x
    BY Zenon, <1>2, <1>3 DEF m
  <2>2. k \in i..Len(s) /\ ~(m <= k)
    BY <1>1, <2>1
  <2> QED
    BY Zenon, <1>4, <2>1, <2>2 DEF Escapes
<1> QED
  BY Zenon, <1>3, <1>4 DEF m

\* The consumers stop behind the place they are given, within the text.
LEMMA ConsumerAdvances ==
  ASSUME NEW s \in Bytes, NEW i \in 1..(Len(s) + 1)
  PROVE  ConsumeTerminalSequence(s, i) \in i..(Len(s) + 1)
<1> DEFINE end == Len(s) + 1
<1>1. end \in Nat /\ i \in Nat /\ EndOfText(s) = end
  BY DEF Bytes, EndOfText
<1>2. ASSUME NEW T, T \subseteq (i + 1)..end
      PROVE  Min(T \cup {end}) \in i..end
  <2> DEFINE U == T \cup {end}
  <2>1. \A k \in (i + 1)..end : k \in i..end
    BY <1>1
  <2>2. end \in i..end /\ \A k \in i..end : k \in Nat
    BY <1>1
  <2>3. U \subseteq Nat /\ U # {} /\ U \subseteq i..end
    BY Zenon, <1>2, <2>1, <2>2
  <2> HIDE DEF U
  <2>4. Min(U) \in U
    BY Zenon, <2>3, MinIs
  <2> QED
    BY Zenon, <2>3, <2>4 DEF U
<1>3. ASSUME i <= Len(s)
      PROVE  /\ ConsumeCSI(s, i + 1) \in i..end
             /\ ConsumeOSC(s, i + 1) \in i..end
  <2> DEFINE csi == {k + 1 : k \in {j \in (i + 1)..Len(s) : s[j] \in CSIFinal}}
             bel == {k + 1 : k \in {j \in (i + 1)..Len(s) : s[j] = "BEL"}}
             esc == {k + 2 : k \in {j \in (i + 1)..(Len(s) - 1) : s[j] = "ESC" /\ s[j + 1] = "\\"}}
  <2>1. /\ \A k \in (i + 1)..Len(s) : k + 1 \in (i + 1)..end
        /\ \A k \in (i + 1)..(Len(s) - 1) : k + 2 \in (i + 1)..end
    BY <1>1
  <2>2. ConsumeCSI(s, i + 1) = Min(csi \cup {end}) /\ ConsumeOSC(s, i + 1) = Min((bel \cup esc) \cup {end})
    BY Zenon, <1>1 DEF ConsumeCSI, ConsumeOSC
  <2>3. csi \subseteq (i + 1)..end /\ bel \cup esc \subseteq (i + 1)..end
    BY Zenon, <2>1
  <2> HIDE DEF csi, bel, esc
  <2> QED
    BY Zenon, <1>2, <2>2, <2>3
<1>4. CASE i > Len(s)
  BY <1>1, <1>4 DEF ConsumeTerminalSequence
<1>5. CASE ~(i > Len(s))
  <2>1. i <= Len(s) /\ i + 1 \in i..end
    BY <1>1, <1>5
  <2> QED
    BY Zenon, <1>3, <1>5, <2>1 DEF ConsumeTerminalSequence
<1> QED
  BY Zenon, <1>4, <1>5

-----------------------------------------------------------------------------
(* The loops of stripTerminalSequences and of the redactions *)

Stripped == [output: Bytes, stripped: Nat]

\* What the loop of stripTerminalSequences has kept from a place on.
LEMMA StripLoop ==
  ASSUME NEW s \in Bytes
  PROVE  \E strip :
           /\ \A i \in 1..(Len(s) + 1) :
                /\ strip[i] \in Stripped
                /\ strip[i] = IF Escapes(s, i) = {} THEN [output |-> SubSeq(s, i, Len(s)), stripped |-> 0]
                              ELSE StripNext(s, i, strip[AfterSequence(s, i)])
           /\ StripTerminalSequences(s) = strip[1]
<1> DEFINE n == Len(s)
           Rest(i) == [output |-> SubSeq(s, i, Len(s)), stripped |-> 0]
           stop == {i \in 1..(n + 1) : Escapes(s, i) = {}}
           last == [i \in 1..(n + 1) |-> Rest(i)]
           next == [i \in 1..n |-> IF Escapes(s, i) = {} THEN n + 1 ELSE AfterSequence(s, i)]
           body == [x \in (1..n) \X Stripped |->
                      IF Escapes(s, x[1]) = {} THEN x[2] ELSE StripNext(s, x[1], x[2])]
           strip[i \in 1..EndOfText(s)] ==
             IF Escapes(s, i) = {} THEN Rest(i) ELSE StripNext(s, i, strip[AfterSequence(s, i)])
<1>1. n \in Nat /\ EndOfText(s) = n + 1 /\ n + 1 \in 1..(n + 1) /\ 1 \in 1..(n + 1)
  BY DEF Bytes, EndOfText
<1>2. StripTerminalSequences(s) = strip[1]
  BY Zenon DEF StripTerminalSequences
<1>3. n + 1 \in stop
  BY <1>1 DEF Escapes
<1>4. \A i \in 1..(n + 1) : Rest(i) \in Stripped
  BY DEF Stripped, Bytes
<1>5. ASSUME NEW i \in 1..(n + 1), Escapes(s, i) # {}
      PROVE  /\ AfterSequence(s, i) \in 1..(n + 1) /\ AfterSequence(s, i) > i /\ i \in 1..n
             /\ \A rest \in Stripped : StripNext(s, i, rest) \in Stripped
  <2> DEFINE m == Min(Escapes(s, i))
  <2>1. m \in i..Len(s)
    BY Zenon, <1>5, NextEscape
  <2> HIDE DEF m
  <2>2. m + 1 \in 1..(Len(s) + 1)
    BY <1>1, <2>1
  <2>3. ConsumeTerminalSequence(s, m + 1) \in (m + 1)..(Len(s) + 1)
    BY Zenon, <2>2, ConsumerAdvances
  <2>4. AfterSequence(s, i) \in (m + 1)..(Len(s) + 1)
    BY Zenon, <2>3 DEF AfterSequence, m
  <2>5. ASSUME NEW rest \in Stripped
        PROVE  StripNext(s, i, rest) \in Stripped
    <3>1. SubSeq(s, i, m - 1) \o rest.output \in Bytes /\ rest.stripped + 1 \in Nat
      BY <2>1 DEF Stripped, Bytes
    <3> QED
      BY Zenon, <3>1 DEF StripNext, Stripped, m
  <2> QED
    BY <1>1, <2>1, <2>4, <2>5
<1> HIDE DEF n, Rest
<1>6. next \in Jumps(n)
  <2>1. \A i \in 1..n : i \in 1..(n + 1) /\ n + 1 > i
    BY <1>1
  <2>2. \A i \in 1..n : next[i] \in 1..(n + 1) /\ next[i] > i
    BY Zenon, <1>1, <1>5, <2>1
  <2>3. next \in [1..n -> 1..(n + 1)]
    BY Zenon, <2>2
  <2> HIDE DEF next
  <2> QED
    BY Zenon, <2>2, <2>3 DEF Jumps
<1>7. body \in Bodies(n, Stripped)
  <2>1. \A i \in 1..n : i \in 1..(n + 1)
    BY <1>1
  <2> QED
    BY Zenon, <1>5, <2>1 DEF Bodies
<1>8. last \in [1..(n + 1) -> Stripped]
  BY Zenon, <1>4
<1>9. PICK g : IsJumpingRun(g, n, Stripped, stop, last, next, body)
  <2> HIDE DEF body, next, last, stop
  <2> QED
    BY Zenon, <1>1, <1>3, <1>6, <1>7, <1>8, JumpingRunExists
<1>10. \A i \in 1..(n + 1) :
         g[i] = IF Escapes(s, i) = {} THEN Rest(i) ELSE StripNext(s, i, g[AfterSequence(s, i)])
  <2> SUFFICES ASSUME NEW i \in 1..(n + 1)
               PROVE  g[i] = IF Escapes(s, i) = {} THEN Rest(i)
                             ELSE StripNext(s, i, g[AfterSequence(s, i)])
    BY Zenon
  <2>1. CASE Escapes(s, i) = {}
    BY Zenon, <1>9, <2>1 DEF IsJumpingRun
  <2>2. CASE Escapes(s, i) # {}
    <3>1. i \in 1..n /\ i \notin stop /\ next[i] = AfterSequence(s, i)
      BY Zenon, <1>5, <2>2
    <3>2. g[next[i]] \in Stripped
      BY Zenon, <1>5, <1>9, <2>2, <3>1 DEF IsJumpingRun
    <3>3. g[i] = body[<<i, g[next[i]]>>]
      BY Zenon, <1>9, <3>1 DEF IsJumpingRun
    <3> QED
      BY Zenon, <2>2, <3>1, <3>2, <3>3
  <2> QED
    BY Zenon, <2>1, <2>2
<1>11. g = [i \in 1..(n + 1) |->
              IF Escapes(s, i) = {} THEN Rest(i) ELSE StripNext(s, i, g[AfterSequence(s, i)])]
  BY Zenon, <1>9, <1>10 DEF IsJumpingRun
<1>12. strip = [i \in 1..(n + 1) |->
              IF Escapes(s, i) = {} THEN Rest(i) ELSE StripNext(s, i, strip[AfterSequence(s, i)])]
  BY Zenon, <1>1, <1>11
<1> HIDE DEF strip
<1> DEFINE S == {i \in 1..(n + 1) : strip[i] \in Stripped}
<1>13. ASSUME NEW i \in 1..(n + 1), \A j \in (i + 1)..(n + 1) : j \in S
       PROVE  i \in S
  <2>1. CASE Escapes(s, i) = {}
    BY Zenon, <1>4, <1>12, <2>1
  <2>2. CASE Escapes(s, i) # {}
    <3>1. AfterSequence(s, i) \in (i + 1)..(n + 1)
      BY <1>1, <1>5, <2>2
    <3> QED
      BY Zenon, <1>5, <1>12, <1>13, <2>2, <3>1
  <2> QED
    BY Zenon, <2>1, <2>2
<1>14. n + 1 \in Nat
  BY <1>1
<1>15. \A i \in 1..(n + 1) : i \in S
  <2> HIDE DEF S
  <2> QED
    BY Zenon, <1>13, <1>14, Downward
<1> QED
  BY Zenon, <1>2, <1>12, <1>15 DEF n, Rest

Counted == [output: Bytes, count: Nat]

\* bytes.ReplaceAll returns a text.
LEMMA ReplacedIsText ==
  ASSUME NEW s \in Bytes, NEW old \in Bytes, old # <<>>, NEW new \in Bytes
  PROVE  ReplaceBytes(s, old, new) \in Counted
<1> DEFINE n == Len(s)
           Rest(i) == [output |-> SubSeq(s, i, Len(s)), count |-> 0]
           After(i) == Min(Matches(s, i, old)) + Len(old)
           Next1(i, rest) == ReplaceNext(s, i, Min(Matches(s, i, old)), new, rest)
           stop == {i \in 1..(n + 1) : Matches(s, i, old) = {}}
           last == [i \in 1..(n + 1) |-> Rest(i)]
           next == [i \in 1..n |-> IF Matches(s, i, old) = {} THEN n + 1 ELSE After(i)]
           body == [x \in (1..n) \X Counted |->
                      IF Matches(s, x[1], old) = {} THEN x[2] ELSE Next1(x[1], x[2])]
           replaced[i \in 1..EndOfText(s)] ==
             LET match == Min(Matches(s, i, old)) IN
             IF Matches(s, i, old) = {} THEN Rest(i)
             ELSE ReplaceNext(s, i, match, new, replaced[match + Len(old)])
<1>1. n \in Nat /\ EndOfText(s) = n + 1 /\ n + 1 \in 1..(n + 1) /\ 1 \in 1..(n + 1)
  BY DEF Bytes, EndOfText
<1>2. ReplaceBytes(s, old, new) = replaced[1]
  BY Zenon DEF ReplaceBytes
<1>3. Len(old) \in Nat \ {0}
  BY DEF Bytes
<1>4. \A i \in 1..(n + 1) : Rest(i) \in Counted
  BY DEF Counted, Bytes
<1>5. ASSUME NEW i \in 1..(n + 1), Matches(s, i, old) # {}
      PROVE  /\ After(i) \in 1..(n + 1) /\ After(i) > i /\ i \in 1..n
             /\ \A rest \in Counted : Next1(i, rest) \in Counted
  <2> DEFINE m == Min(Matches(s, i, old))
  <2>1. Matches(s, i, old) \subseteq Nat /\ Matches(s, i, old) \subseteq i..(n + 1 - Len(old))
    BY <1>1 DEF Matches
  <2>2. m \in i..(n + 1 - Len(old))
    BY Zenon, <1>5, <2>1, MinIs
  <2> HIDE DEF m
  <2>3. ASSUME NEW rest \in Counted
        PROVE  ReplaceNext(s, i, m, new, rest) \in Counted
    <3>1. SubSeq(s, i, m - 1) \o new \o rest.output \in Bytes /\ rest.count + 1 \in Nat
      <4>1. SubSeq(s, i, m - 1) \in Bytes
        BY <1>1, <1>3, <2>2 DEF Bytes
      <4> QED
        BY <4>1 DEF Counted, Bytes
    <3> QED
      BY Zenon, <3>1 DEF ReplaceNext, Counted
  <2>4. m + Len(old) \in 1..(n + 1) /\ m + Len(old) > i /\ i \in 1..n
    BY <1>1, <1>3, <2>2
  <2> QED
    BY Zenon, <2>3, <2>4 DEF m
<1> HIDE DEF n, Rest, After, Next1
<1>6. next \in Jumps(n)
  <2>1. \A i \in 1..n : i \in 1..(n + 1) /\ n + 1 > i
    BY <1>1
  <2>2. \A i \in 1..n : next[i] \in 1..(n + 1) /\ next[i] > i
    BY Zenon, <1>1, <1>5, <2>1
  <2>3. next \in [1..n -> 1..(n + 1)]
    BY Zenon, <2>2
  <2> HIDE DEF next
  <2> QED
    BY Zenon, <2>2, <2>3 DEF Jumps
<1>7. body \in Bodies(n, Counted)
  <2>1. \A i \in 1..n : i \in 1..(n + 1)
    BY <1>1
  <2> QED
    BY Zenon, <1>5, <2>1 DEF Bodies
<1>8. last \in [1..(n + 1) -> Counted]
  BY Zenon, <1>4
<1>9. n + 1 \in stop
  <2>1. ASSUME Matches(s, n + 1, old) # {} PROVE FALSE
    <3>1. n + 1 \in 1..n
      BY Zenon, <1>1, <1>5, <2>1
    <3> QED
      BY <1>1, <3>1
  <2> QED
    BY Zenon, <1>1, <2>1
<1>10. PICK g : IsJumpingRun(g, n, Counted, stop, last, next, body)
  <2> HIDE DEF body, next, last, stop
  <2> QED
    BY Zenon, <1>1, <1>6, <1>7, <1>8, <1>9, JumpingRunExists
<1>11. \A i \in 1..(n + 1) :
         g[i] = IF Matches(s, i, old) = {} THEN Rest(i) ELSE Next1(i, g[After(i)])
  <2> SUFFICES ASSUME NEW i \in 1..(n + 1)
               PROVE  g[i] = IF Matches(s, i, old) = {} THEN Rest(i) ELSE Next1(i, g[After(i)])
    BY Zenon
  <2>1. CASE Matches(s, i, old) = {}
    BY Zenon, <1>10, <2>1 DEF IsJumpingRun
  <2>2. CASE Matches(s, i, old) # {}
    <3>1. i \in 1..n /\ i \notin stop /\ next[i] = After(i)
      BY Zenon, <1>5, <2>2
    <3>2. g[next[i]] \in Counted
      BY Zenon, <1>5, <1>10, <2>2, <3>1 DEF IsJumpingRun
    <3>3. g[i] = body[<<i, g[next[i]]>>]
      BY Zenon, <1>10, <3>1 DEF IsJumpingRun
    <3> QED
      BY Zenon, <2>2, <3>1, <3>2, <3>3
  <2> QED
    BY Zenon, <2>1, <2>2
<1>12. g = [i \in 1..(n + 1) |->
              IF Matches(s, i, old) = {} THEN Rest(i) ELSE Next1(i, g[After(i)])]
  BY Zenon, <1>10, <1>11 DEF IsJumpingRun
<1>13. replaced = [i \in 1..(n + 1) |->
              IF Matches(s, i, old) = {} THEN Rest(i) ELSE Next1(i, replaced[After(i)])]
  BY Zenon, <1>1, <1>12 DEF After, Next1
<1> HIDE DEF replaced
<1> DEFINE S == {i \in 1..(n + 1) : replaced[i] \in Counted}
<1>14. ASSUME NEW i \in 1..(n + 1), \A j \in (i + 1)..(n + 1) : j \in S
       PROVE  i \in S
  <2>1. CASE Matches(s, i, old) = {}
    BY Zenon, <1>4, <1>13, <2>1
  <2>2. CASE Matches(s, i, old) # {}
    <3>1. After(i) \in (i + 1)..(n + 1)
      BY <1>1, <1>5, <2>2
    <3> QED
      BY Zenon, <1>5, <1>13, <1>14, <2>2, <3>1
  <2> QED
    BY Zenon, <2>1, <2>2
<1>15. n + 1 \in Nat
  BY <1>1
<1>16. 1 \in S
  <2> HIDE DEF S
  <2> QED
    BY Zenon, <1>1, <1>14, <1>15, Downward
<1> QED
  BY Zenon, <1>2, <1>16

-----------------------------------------------------------------------------
(* The transformation of bytes *)

\* The outcomes of a change, and what the steps of the transformation pass on: as
\* long as there is no outcome, the bytes are the captured ones, and valid.
Reasons == {"invalid_utf8_replaced", "terminal_escape_sequence", "raw_control_character",
            "configured_redaction"}
Changes == [action: {"stripped", "redacted"}, reason: Reasons, path: {<<>>}, position: Nat, count: Nat]
Transformed(captive) ==
  {acc \in [output: Bytes, redactions: SUBSET Nat, outcomes: SUBSET Changes] :
     acc.outcomes = {} => acc.output = captive /\ Valid(captive)}
AreRedactions(redactions) ==
  /\ Len(redactions) \in Nat
  /\ \A k \in 1..Len(redactions) : /\ redactions[k][1] \in Bytes /\ redactions[k][1] # <<>>
                                   /\ redactions[k][2] \in Bytes

\* What is noted is told as a change, and nothing is noted only of nothing.
LEMMA NotedIsChange ==
  ASSUME NEW n \in Nat, NEW reason \in Reasons
  PROVE  Noted(n, "stripped", reason) \in SUBSET Changes /\ (Noted(n, "stripped", reason) = {} => n = 0)
<1>1. Outcome("stripped", reason, <<>>, n) \in Changes
  BY DEF Outcome, Changes
<1> QED
  BY Zenon, <1>1 DEF Noted

\* A redaction that changes the bytes is told (transformBytes).
LEMMA RedactKeeps ==
  ASSUME NEW captive, NEW acc \in Transformed(captive), NEW k \in Nat, NEW r,
         r[1] \in Bytes, r[1] # <<>>, r[2] \in Bytes
  PROVE  Redact(acc, k, r) \in Transformed(captive)
<1> DEFINE done == ReplaceBytes(acc.output, r[1], r[2])
           new == [Outcome("redacted", "configured_redaction", <<>>, done.count) EXCEPT !.position = k]
           next == [output |-> done.output, redactions |-> acc.redactions \cup {k},
                    outcomes |-> acc.outcomes \cup {new}]
<1>1. acc.output \in Bytes /\ acc.redactions \in SUBSET Nat /\ acc.outcomes \in SUBSET Changes
  BY DEF Transformed
<1>2. done \in Counted
  BY Zenon, <1>1, ReplacedIsText
<1>3. Redact(acc, k, r) = IF done.count = 0 THEN acc ELSE next
  BY Zenon DEF Redact
<1> HIDE DEF done
<1>4. new \in Changes
  <2>1. new = [action |-> "redacted", reason |-> "configured_redaction", path |-> <<>>,
               position |-> k, count |-> done.count]
    BY DEF Outcome
  <2>2. done.count \in Nat
    BY <1>2 DEF Counted
  <2> HIDE DEF new
  <2> QED
    BY Zenon, <2>1, <2>2 DEF Changes, Reasons
<1> HIDE DEF new
<1>5. /\ acc.redactions \cup {k} \in SUBSET Nat /\ acc.outcomes \cup {new} \in SUBSET Changes
      /\ acc.outcomes \cup {new} # {} /\ done.output \in Bytes
  BY Zenon, <1>1, <1>2, <1>4 DEF Counted
<1>6. next \in Transformed(captive)
  BY Zenon, <1>5 DEF Transformed
<1> QED
  BY Zenon, <1>3, <1>6

\* So are all redactions of a pipeline, in their order.
LEMMA RedactedIsTransformed ==
  ASSUME NEW captive \in Bytes, NEW redactions, AreRedactions(redactions)
  PROVE  Redacted(captive, redactions) \in Transformed(captive)
<1> DEFINE n == Len(redactions)
           A == Transformed(captive)
           start == ReplaceInvalid(captive)
           body == [x \in (1..n) \X A |-> Redact(x[2], x[1], redactions[x[1]])]
           redacted[k \in 0..n] == IF k = 0 THEN start ELSE Redact(redacted[k - 1], k, redactions[k])
<1>1. n \in Nat
  BY DEF AreRedactions
<1>2. start \in A
  <2> DEFINE text == IF Valid(captive) THEN captive ELSE ToValidUTF8(captive)
             noted == Noted(IF Valid(captive) THEN 0 ELSE 1, "stripped", "invalid_utf8_replaced")
  <2>1. text \in Bytes
    BY Zenon, ValidTextIsText
  <2>2. noted \in SUBSET Changes /\ (noted = {} => Valid(captive))
    <3>1. (IF Valid(captive) THEN 0 ELSE 1) \in Nat
      OBVIOUS
    <3>2. "invalid_utf8_replaced" \in Reasons
      BY Zenon DEF Reasons
    <3>3. (IF Valid(captive) THEN 0 ELSE 1) = 0 => Valid(captive)
      OBVIOUS
    <3> QED
      BY Zenon, <3>1, <3>2, <3>3, NotedIsChange
  <2>3. start = [output |-> text, redactions |-> {}, outcomes |-> noted]
    BY Zenon DEF ReplaceInvalid
  <2>4. Valid(captive) => text = captive
    BY Zenon
  <2> HIDE DEF text, noted, start
  <2> QED
    BY Zenon, <2>1, <2>2, <2>3, <2>4 DEF Transformed
<1>3. Redacted(captive, redactions) = redacted[n]
  BY Zenon DEF Redacted
<1>4. \A acc \in A, k \in 1..n : Redact(acc, k, redactions[k]) \in A
  <2>1. \A k \in 1..n : k \in Nat
    OBVIOUS
  <2> QED
    BY Zenon, <2>1, RedactKeeps DEF AreRedactions
<1>5. body \in Bodies(n, A)
  BY Zenon, <1>4 DEF Bodies
<1> HIDE DEF n, A, start
<1>6. PICK g : IsRun(g, n, A, start, body)
  <2> HIDE DEF body
  <2> QED
    BY Zenon, <1>1, <1>2, <1>5, RunExists
<1>7. g = [k \in 0..n |-> IF k = 0 THEN start ELSE Redact(g[k - 1], k, redactions[k])]
  <2>1. \A k \in 1..n : g[k] = Redact(g[k - 1], k, redactions[k])
    BY Zenon, <1>1, <1>6, Places DEF IsRun
  <2> QED
    BY Zenon, <1>1, <1>6, <2>1, Places DEF IsRun
<1>8. redacted = [k \in 0..n |-> IF k = 0 THEN start ELSE Redact(redacted[k - 1], k, redactions[k])]
  BY Zenon, <1>7
<1> HIDE DEF redacted
<1> DEFINE S == {k \in 0..n : redacted[k] \in A}
<1>9. 0 \in S /\ \A k \in 1..n : k - 1 \in S => k \in S
  BY Zenon, <1>1, <1>2, <1>4, <1>8, Places
<1>10. n \in S
  <2> HIDE DEF S
  <2> QED
    BY Zenon, <1>1, <1>9, Places, Upward
<1> QED
  BY Zenon, <1>3, <1>10 DEF A

\* Stripping changes no text without an escape.
LEMMA StripIsText ==
  ASSUME NEW s \in Bytes
  PROVE  /\ StripTerminalSequences(s) \in Stripped
         /\ StripTerminalSequences(s).stripped = 0 => StripTerminalSequences(s).output = s
<1>1. PICK strip :
           /\ \A i \in 1..(Len(s) + 1) :
                /\ strip[i] \in Stripped
                /\ strip[i] = IF Escapes(s, i) = {} THEN [output |-> SubSeq(s, i, Len(s)), stripped |-> 0]
                              ELSE StripNext(s, i, strip[AfterSequence(s, i)])
           /\ StripTerminalSequences(s) = strip[1]
  BY Zenon, StripLoop
<1>2. 1 \in 1..(Len(s) + 1) /\ SubSeq(s, 1, Len(s)) = s
  BY DEF Bytes
<1> DEFINE first == strip[1]
<1>3. /\ first \in Stripped /\ StripTerminalSequences(s) = first
      /\ Escapes(s, 1) = {} => first = [output |-> s, stripped |-> 0]
      /\ Escapes(s, 1) # {} => first = StripNext(s, 1, strip[AfterSequence(s, 1)])
  BY Zenon, <1>1, <1>2
<1> HIDE DEF first
<1>4. CASE Escapes(s, 1) = {}
  BY <1>4, <1>3
<1>5. CASE Escapes(s, 1) # {}
  <2> DEFINE next == AfterSequence(s, 1)
             m == Min(Escapes(s, 1))
  <2>1. m \in 1..Len(s)
    BY Zenon, <1>2, <1>5, NextEscape
  <2> HIDE DEF m
  <2>2. m + 1 \in 1..(Len(s) + 1)
    BY <2>1 DEF Bytes
  <2>3. ConsumeTerminalSequence(s, m + 1) \in (m + 1)..(Len(s) + 1)
    BY Zenon, <2>2, ConsumerAdvances
  <2>4. ConsumeTerminalSequence(s, m + 1) \in 1..(Len(s) + 1)
    BY <2>1, <2>3
  <2>5. strip[next] \in Stripped
    BY Zenon, <1>1, <2>4 DEF AfterSequence, m
  <2> HIDE DEF next
  <2>6. first.stripped = strip[next].stripped + 1
    BY <1>5, <1>3 DEF StripNext, next
  <2>7. first.stripped # 0
    BY <2>5, <2>6 DEF Stripped
  <2> QED
    BY Zenon, <1>3, <2>7
<1> QED
  BY Zenon, <1>4, <1>5

\* Transformed bytes are valid, every change has an outcome, and without one the
\* bytes are the captured ones (transformBytes).
LEMMA TransformedBytes ==
  ASSUME NEW captive \in Bytes, NEW redactions, AreRedactions(redactions)
  PROVE  /\ TransformBytes(captive, redactions) \in Transformed(captive)
         /\ Valid(TransformBytes(captive, redactions).output)
<1> DEFINE a == Redacted(captive, redactions)
           x == StripTerminalSequences(a.output)
           xs == Noted(x.stripped, "stripped", "terminal_escape_sequence")
           b == StripTerminal(a)
           y == StripRawControls(b.output)
           ys == Noted(y.stripped, "stripped", "raw_control_character")
           c == StripRaw(b)
<1>1. a \in Transformed(captive)
  BY Zenon, RedactedIsTransformed
<1>2. b = [a EXCEPT !.output = x.output, !.outcomes = @ \cup xs]
  BY Zenon DEF StripTerminal, StripWith
<1>3. c = [b EXCEPT !.output = y.output, !.outcomes = @ \cup ys]
  BY Zenon DEF StripRaw, StripWith
<1>4. TransformBytes(captive, redactions) = c
  BY Zenon DEF TransformBytes
<1>5. a.output \in Bytes
  BY <1>1 DEF Transformed
<1>6. x \in Stripped /\ (x.stripped = 0 => x.output = a.output)
  BY Zenon, <1>5, StripIsText
<1>7. "terminal_escape_sequence" \in Reasons /\ "raw_control_character" \in Reasons
  BY Zenon DEF Reasons
<1> HIDE DEF a, x
<1>8. xs \in SUBSET Changes /\ (xs = {} => x.stripped = 0)
  BY Zenon, <1>6, <1>7, NotedIsChange DEF Stripped
<1> HIDE DEF xs, b
<1>9. b \in Transformed(captive)
  BY Zenon, <1>1, <1>2, <1>6, <1>8 DEF Transformed, Stripped
<1>10. b.output \in Bytes
  BY <1>9 DEF Transformed
<1>11. /\ y.output \in Bytes /\ Valid(y.output) /\ y.stripped \in Nat
       /\ Valid(b.output) /\ y.stripped = 0 => y.output = b.output
  BY Zenon, <1>10, CleanIsValid
<1> HIDE DEF y
<1>12. ys \in SUBSET Changes /\ (ys = {} => y.stripped = 0)
  BY Zenon, <1>7, <1>11, NotedIsChange
<1> HIDE DEF ys, c
<1>13. c \in Transformed(captive) /\ c.output = y.output
  BY Zenon, <1>3, <1>9, <1>11, <1>12 DEF Transformed
<1> QED
  BY Zenon, <1>4, <1>11, <1>13

-----------------------------------------------------------------------------
(* Terminal sequences *)

\* The first of some ends behind a place, or the end of the text.
IsFirstEnd(b, a, n, ends) ==
  /\ b \in (a + 1)..n /\ \A i \in (a + 2)..(b - 1) : i \notin ends
  /\ b = n \/ b \in ends

\* There is one first end.
LEMMA FirstEndIsUnique ==
  ASSUME NEW n \in Nat, NEW a \in 1..n, NEW ends, ends \subseteq (a + 2)..n,
         NEW b, IsFirstEnd(b, a, n, ends), NEW c, IsFirstEnd(c, a, n, ends)
  PROVE  b = c
<1>1. \A x, y : IsFirstEnd(x, a, n, ends) /\ IsFirstEnd(y, a, n, ends) => ~(x < y)
  <2> SUFFICES ASSUME NEW x \in (a + 1)..n, NEW y \in (a + 1)..n, x = n \/ x \in ends,
                      \A i \in (a + 2)..(y - 1) : i \notin ends, x < y
               PROVE  FALSE
    BY DEF IsFirstEnd
  <2>1. x # n
    OBVIOUS
  <2>2. x \in ends
    BY Zenon, <2>1
  <2>3. x \in (a + 2)..n
    BY Zenon, <2>2
  <2>4. x \in (a + 2)..(y - 1)
    BY <2>3
  <2> QED
    BY Zenon, <2>2, <2>4
<1>2. ~(b < c) /\ ~(c < b)
  BY Zenon, <1>1
<1>3. b \in (a + 1)..n /\ c \in (a + 1)..n
  BY Zenon DEF IsFirstEnd
<1> QED
  BY <1>2, <1>3

\* The minimum that a consumer returns is after the first end.
LEMMA FirstEndIsMin ==
  ASSUME NEW n \in Nat, NEW a \in 1..n, a < n, NEW ends, ends \subseteq (a + 2)..n
  PROVE  IsFirstEnd(Min({e + 1 : e \in ends} \cup {n + 1}) - 1, a, n, ends)
<1> DEFINE U == {e + 1 : e \in ends} \cup {n + 1}
           m == Min(U)
<1>1. \A e \in ends : e \in Nat /\ e + 1 \in Nat /\ e + 1 \in (a + 2)..(n + 1)
  BY SMT
<1>2. n + 1 \in Nat /\ n + 1 \in (a + 2)..(n + 1)
  OBVIOUS
<1>3. U \subseteq Nat /\ U # {} /\ U \subseteq (a + 2)..(n + 1)
  BY Zenon, <1>1, <1>2
<1>4. \A u : u \in U <=> u = n + 1 \/ \E e \in ends : u = e + 1
  BY Zenon
<1> HIDE DEF U
<1>5. m \in U /\ \A k \in U : m <= k
  BY Zenon, <1>3, MinIs
<1>6. m \in (a + 2)..(n + 1)
  BY Zenon, <1>3, <1>5
<1> HIDE DEF m
<1>7. m - 1 \in (a + 1)..n
  BY <1>6
<1>8. ASSUME NEW i \in (a + 2)..(m - 1 - 1), i \in ends
      PROVE  FALSE
  <2>1. i + 1 \in U
    BY Zenon, <1>4, <1>8
  <2>2. m <= i + 1
    BY Zenon, <1>5, <2>1
  <2> QED
    BY <1>6, <2>2
<1>9. m - 1 = n \/ m - 1 \in ends
  <2>1. CASE m = n + 1
    BY <2>1
  <2>2. ASSUME NEW e \in ends, m = e + 1
        PROVE  m - 1 \in ends
    <3>1. e \in Nat
      BY Zenon, <1>1
    <3>2. m - 1 = e
      BY <2>2, <3>1
    <3> QED
      BY Zenon, <2>2, <3>2
  <2> QED
    BY Zenon, <1>4, <1>5, <2>1, <2>2
<1>10. IsFirstEnd(m - 1, a, n, ends)
  BY Zenon, <1>7, <1>8, <1>9 DEF IsFirstEnd
<1> QED
  BY Zenon, <1>10 DEF m, U

FinalsAfter(s, a) == {j \in (a + 2)..Len(s) : s[j] \in CSIFinal}
TerminatorsAfter(s, a) == {j \in (a + 2)..Len(s) : EndsOSC(s, a, j)}

\* The sequences that start with "[" or "]" end at the first of their ends.
LEMMA SequenceIsToFirstEnd ==
  ASSUME NEW s \in Bytes, NEW a \in 1..Len(s), s[a] = "ESC", a < Len(s), NEW b \in a..Len(s)
  PROVE  /\ s[a + 1] = "[" => (IsSequence(s, a, b) <=> IsFirstEnd(b, a, Len(s), FinalsAfter(s, a)))
         /\ s[a + 1] = "]" => (IsSequence(s, a, b) <=> IsFirstEnd(b, a, Len(s), TerminatorsAfter(s, a)))
<1>1. Len(s) \in Nat /\ a \in Nat /\ b \in Nat /\ a # Len(s) /\ "[" # "]"
  BY DEF Bytes
<1>2. /\ b > a <=> b \in (a + 1)..Len(s)
      /\ \A i \in (a + 2)..(b - 1) : i \in (a + 2)..Len(s)
      /\ b \in (a + 2)..Len(s) <=> b > a + 1
  BY <1>1
<1>3. ASSUME s[a + 1] = "["
      PROVE  IsSequence(s, a, b) <=> IsFirstEnd(b, a, Len(s), FinalsAfter(s, a))
  <2>1. IsSequence(s, a, b) <=> /\ b > a
                                /\ \A i \in (a + 2)..(b - 1) : s[i] \notin CSIFinal
                                /\ b = Len(s) \/ (b > a + 1 /\ s[b] \in CSIFinal)
    BY Zenon, <1>1, <1>3 DEF IsSequence
  <2>2. (\A i \in (a + 2)..(b - 1) : s[i] \notin CSIFinal)
          <=> \A i \in (a + 2)..(b - 1) : i \notin FinalsAfter(s, a)
    BY Zenon, <1>2 DEF FinalsAfter
  <2>3. b \in FinalsAfter(s, a) <=> b > a + 1 /\ s[b] \in CSIFinal
    BY Zenon, <1>2 DEF FinalsAfter
  <2> QED
    BY Zenon, <1>2, <2>1, <2>2, <2>3 DEF IsFirstEnd
<1>4. ASSUME s[a + 1] = "]"
      PROVE  IsSequence(s, a, b) <=> IsFirstEnd(b, a, Len(s), TerminatorsAfter(s, a))
  <2>1. IsSequence(s, a, b) <=> /\ b > a
                                /\ \A i \in (a + 2)..(b - 1) : ~EndsOSC(s, a, i)
                                /\ b = Len(s) \/ EndsOSC(s, a, b)
    BY Zenon, <1>1, <1>4 DEF IsSequence
  <2>2. (\A i \in (a + 2)..(b - 1) : ~EndsOSC(s, a, i))
          <=> \A i \in (a + 2)..(b - 1) : i \notin TerminatorsAfter(s, a)
    BY Zenon, <1>2 DEF TerminatorsAfter
  <2>3. b \in TerminatorsAfter(s, a) <=> EndsOSC(s, a, b)
    BY Zenon, <1>2 DEF TerminatorsAfter, EndsOSC
  <2> QED
    BY Zenon, <1>2, <2>1, <2>2, <2>3 DEF IsFirstEnd
<1> QED
  BY Zenon, <1>3, <1>4

\* The consumers find those ends (consumeCSI and consumeOSC).
LEMMA ConsumersFindEnds ==
  ASSUME NEW s \in Bytes, NEW a \in 1..Len(s), a < Len(s)
  PROVE  /\ ConsumeCSI(s, a + 2) = Min({e + 1 : e \in FinalsAfter(s, a)} \cup {Len(s) + 1})
         /\ ConsumeOSC(s, a + 2) = Min({e + 1 : e \in TerminatorsAfter(s, a)} \cup {Len(s) + 1})
<1>1. Len(s) \in Nat /\ a \in Nat /\ EndOfText(s) = Len(s) + 1
  BY DEF Bytes, EndOfText
<1>2. ConsumeCSI(s, a + 2) = Min({e + 1 : e \in FinalsAfter(s, a)} \cup {Len(s) + 1})
  BY Zenon, <1>1 DEF ConsumeCSI, FinalsAfter
<1> DEFINE bel == {k + 1 : k \in {j \in (a + 2)..Len(s) : s[j] = "BEL"}}
           esc == {k + 2 : k \in {j \in (a + 2)..(Len(s) - 1) : s[j] = "ESC" /\ s[j + 1] = "\\"}}
           ends == {e + 1 : e \in TerminatorsAfter(s, a)}
<1>3. ASSUME NEW u \in ends
      PROVE  u \in bel \cup esc
  <2>1. PICK e \in (a + 2)..Len(s) : EndsOSC(s, a, e) /\ u = e + 1
    BY Zenon DEF TerminatorsAfter
  <2>2. CASE s[e] = "BEL"
    BY Zenon, <2>1, <2>2
  <2>3. CASE e > a + 2 /\ s[e - 1] = "ESC" /\ s[e] = "\\"
    <3>1. e - 1 \in (a + 2)..(Len(s) - 1) /\ (e - 1) + 1 = e /\ u = (e - 1) + 2
      BY <1>1, <2>1, <2>3
    <3> QED
      BY Zenon, <2>3, <3>1
  <2> QED
    BY Zenon, <2>1, <2>2, <2>3 DEF EndsOSC
<1>4. ASSUME NEW u \in bel
      PROVE  u \in ends
  <2>1. PICK k \in (a + 2)..Len(s) : s[k] = "BEL" /\ u = k + 1
    BY Zenon
  <2>2. k > a + 1
    BY <1>1
  <2>3. k \in TerminatorsAfter(s, a)
    BY Zenon, <2>1, <2>2 DEF TerminatorsAfter, EndsOSC
  <2> QED
    BY Zenon, <2>1, <2>3
<1>5. ASSUME NEW u \in esc
      PROVE  u \in ends
  <2>1. PICK k \in (a + 2)..(Len(s) - 1) : s[k] = "ESC" /\ s[k + 1] = "\\" /\ u = k + 2
    BY Zenon
  <2> DEFINE e == k + 1
  <2>2. e \in (a + 2)..Len(s) /\ e > a + 1 /\ e > a + 2 /\ e - 1 = k /\ u = e + 1
    BY <1>1, <2>1
  <2>3. s[e] = "\\"
    BY Zenon, <2>1
  <2> HIDE DEF e
  <2>4. e \in TerminatorsAfter(s, a)
    BY Zenon, <2>1, <2>2, <2>3 DEF TerminatorsAfter, EndsOSC
  <2> QED
    BY Zenon, <2>2, <2>4
<1>6. ends = bel \cup esc
  <2> HIDE DEF ends, bel, esc
  <2> QED
    BY Zenon, <1>3, <1>4, <1>5
<1>7. ConsumeOSC(s, a + 2) = Min((bel \cup esc) \cup {Len(s) + 1})
  BY Zenon, <1>1 DEF ConsumeOSC
<1> QED
  BY Zenon, <1>2, <1>6, <1>7

\* The consumer ends where the sequence does, and there is only one such place.
LEMMA SequenceEndIs ==
  ASSUME NEW s \in Bytes, NEW a \in 1..Len(s), s[a] = "ESC"
  PROVE  /\ SequenceEnd(s, a) \in a..Len(s) /\ IsSequence(s, a, SequenceEnd(s, a))
         /\ ConsumeTerminalSequence(s, a + 1) = SequenceEnd(s, a) + 1
<1> DEFINE n == Len(s)
           after == ConsumeTerminalSequence(s, a + 1)
           b == after - 1
<1>1. n \in Nat /\ a \in Nat /\ (a + 1) + 1 = a + 2 /\ (a + 1 > n <=> a = n)
  BY DEF Bytes
<1>2. /\ after \in Nat /\ b \in a..n /\ IsSequence(s, a, b)
      /\ \A c \in a..n : IsSequence(s, a, c) => c = b
  <2>1. CASE a = n
    <3>1. after = a + 1
      BY Zenon, <1>1, <2>1 DEF ConsumeTerminalSequence
    <3> HIDE DEF after
    <3>2. b = a /\ after \in Nat /\ b \in a..n /\ \A c \in a..n : c = b
      BY <1>1, <2>1, <3>1
    <3> HIDE DEF b
    <3> QED
      BY Zenon, <2>1, <3>2 DEF IsSequence
  <2>2. CASE a # n /\ s[a + 1] \notin {"[", "]"}
    <3>1. after = a + 2
      BY Zenon, <1>1, <2>2 DEF ConsumeTerminalSequence
    <3> HIDE DEF after
    <3>2. b = a + 1 /\ after \in Nat /\ b \in a..n
      BY <1>1, <2>2, <3>1
    <3> HIDE DEF b
    <3>3. IsSequence(s, a, b)
      BY Zenon, <2>2, <3>2 DEF IsSequence
    <3>4. \A c \in a..n : IsSequence(s, a, c) => c = b
      BY Zenon, <2>2, <3>2 DEF IsSequence
    <3> QED
      BY Zenon, <3>2, <3>3, <3>4
  <2>3. ASSUME a # n, NEW ends, ends \subseteq (a + 2)..n, after = Min({e + 1 : e \in ends} \cup {n + 1}),
               \A c \in a..n : IsSequence(s, a, c) <=> IsFirstEnd(c, a, n, ends)
        PROVE  /\ after \in Nat /\ b \in a..n /\ IsSequence(s, a, b)
               /\ \A c \in a..n : IsSequence(s, a, c) => c = b
    <3>1. a < n
      BY <1>1, <2>3
    <3>2. IsFirstEnd(b, a, n, ends)
      BY Zenon, <1>1, <2>3, <3>1, FirstEndIsMin
    <3>3. b \in (a + 1)..n
      BY Zenon, <3>2 DEF IsFirstEnd
    <3>4. ConsumeTerminalSequence(s, a + 1) \in (a + 1)..(n + 1)
      <4>1. a + 1 \in 1..(n + 1)
        BY <1>1
      <4> QED
        BY Zenon, <4>1, ConsumerAdvances
    <3> HIDE DEF b, n
    <3>5. after \in Nat
      BY <1>1, <3>4
    <3>6. b \in a..n
      BY <1>1, <3>3
    <3> HIDE DEF after
    <3> QED
      BY Zenon, <1>1, <2>3, <3>2, <3>5, <3>6, FirstEndIsUnique DEF n
  <2>4. CASE a # n /\ s[a + 1] = "["
    <3>1. a < n
      BY <1>1, <2>4
    <3>2. after = Min({e + 1 : e \in FinalsAfter(s, a)} \cup {n + 1})
      BY Zenon, <1>1, <2>4, <3>1, ConsumersFindEnds DEF ConsumeTerminalSequence
    <3>3. \A c \in a..n : IsSequence(s, a, c) <=> IsFirstEnd(c, a, n, FinalsAfter(s, a))
      BY Zenon, <2>4, <3>1, SequenceIsToFirstEnd
    <3> HIDE DEF after
    <3> QED
      BY Zenon, <2>3, <2>4, <3>2, <3>3 DEF FinalsAfter
  <2>5. CASE a # n /\ s[a + 1] = "]"
    <3>1. a < n /\ "]" # "["
      BY <1>1, <2>5
    <3>2. after = Min({e + 1 : e \in TerminatorsAfter(s, a)} \cup {n + 1})
      BY Zenon, <1>1, <2>5, <3>1, ConsumersFindEnds DEF ConsumeTerminalSequence
    <3>3. \A c \in a..n : IsSequence(s, a, c) <=> IsFirstEnd(c, a, n, TerminatorsAfter(s, a))
      BY Zenon, <2>5, <3>1, SequenceIsToFirstEnd
    <3> HIDE DEF after
    <3> QED
      BY Zenon, <2>3, <2>5, <3>2, <3>3 DEF TerminatorsAfter
  <2> HIDE DEF after, b, n
  <2> QED
    BY Zenon, <2>1, <2>2, <2>4, <2>5
<1> HIDE DEF after
<1>3. SequenceEnd(s, a) = b
  <2> HIDE DEF b
  <2> QED
    BY Zenon, <1>2 DEF SequenceEnd
<1>4. after = b + 1
  BY <1>2
<1> HIDE DEF b
<1> QED
  BY Zenon, <1>2, <1>3, <1>4 DEF after

-----------------------------------------------------------------------------
(* What stripping keeps *)

\* Two sets of places that do not meet.
LEMMA SizesAdd ==
  ASSUME NEW S, IsFiniteSet(S), NEW T, IsFiniteSet(T), \A x \in S : x \notin T
  PROVE  /\ IsFiniteSet(S \cup T) /\ Cardinality(S \cup T) = Cardinality(S) + Cardinality(T)
         /\ Cardinality(S) \in Nat /\ Cardinality(T) \in Nat
<1>1. S \cap T = {}
  BY Zenon
<1>2. Cardinality(S \cap T) = 0
  BY Zenon, <1>1, FS_EmptySet
<1>3. Cardinality(S) \in Nat /\ Cardinality(T) \in Nat
  BY Zenon, FS_CardinalityType
<1>4. /\ IsFiniteSet(S \cup T)
      /\ Cardinality(S \cup T) = Cardinality(S) + Cardinality(T) - Cardinality(S \cap T)
  BY Zenon, FS_Union
<1>5. \A x, y \in Nat : x + y - 0 = x + y
  OBVIOUS
<1> QED
  BY Zenon, <1>2, <1>3, <1>4, <1>5

\* A selection behind a stretch that is kept whole.
LEMMA SelectionJoins ==
  ASSUME NEW s \in Bytes, NEW i \in 1..(Len(s) + 1), NEW m \in 0..Len(s), m >= i - 1,
         NEW Q, Q \subseteq (m + 1)..Len(s), NEW rest \in Bytes, IsSelection(rest, Q, s)
  PROVE  IsSelection(SubSeq(s, i, m) \o rest, (i..m) \cup Q, s)
<1> DEFINE head == SubSeq(s, i, m)
           h == m - i + 1
           P == (i..m) \cup Q
           UpTo(k) == {j \in P : j <= k}
<1>1. Len(s) \in Nat /\ i \in Nat /\ m \in Nat /\ h \in Nat
  BY DEF Bytes
<1>2. head \in Bytes /\ Len(head) = h /\ \A k \in i..m : k - i + 1 \in 1..h /\ head[k - i + 1] = s[k]
  <2>1. head \in Bytes /\ Len(head) = h
    BY <1>1 DEF Bytes
  <2>2. ASSUME NEW k \in i..m
        PROVE  k - i + 1 \in 1..h /\ head[k - i + 1] = s[k]
    <3>1. k - i + 1 \in 1..h /\ i + (k - i + 1) - 1 = k
      BY <1>1
    <3>2. \A x \in 1..h : head[x] = s[i + x - 1]
      BY <1>1 DEF Bytes
    <3> QED
      BY Zenon, <3>1, <3>2
  <2> QED
    BY Zenon, <2>1, <2>2
<1>3. IsFiniteSet(i..m) /\ Cardinality(i..m) = h
  <2>1. i \in Int /\ m \in Int /\ (i > m => h = 0)
    BY <1>1
  <2> QED
    BY Zenon, <2>1, FS_Interval
<1>4. /\ IsFiniteSet(Q) /\ Cardinality(Q) = Len(rest)
      /\ \A R \in SUBSET Q : IsFiniteSet(R) /\ Cardinality(R) <= Cardinality(Q)
  <2>1. m + 1 \in Int /\ Len(s) \in Int
    BY <1>1
  <2>2. IsFiniteSet(Q)
    BY Zenon, <2>1, FS_Interval, FS_Subset
  <2> QED
    BY Zenon, <2>2, FS_Subset DEF IsSelection
<1>5. \A j \in Q : j \in Nat /\ j > m /\ j \notin i..m
  BY <1>1
<1> HIDE DEF head, h
<1>6. Cardinality(P) = h + Len(rest)
  <2>1. \A j \in i..m : j \notin Q
    BY Zenon, <1>5
  <2>2. Cardinality(P) = Cardinality(i..m) + Cardinality(Q)
    BY Zenon, <1>3, <1>4, <2>1, SizesAdd
  <2> QED
    BY Zenon, <1>3, <1>4, <2>2
<1>7. /\ Len(head \o rest) = h + Len(rest) /\ Len(rest) \in Nat
      /\ \A x \in 1..h : (head \o rest)[x] = head[x]
      /\ \A x \in 1..Len(rest) : (head \o rest)[h + x] = rest[x]
  <2>1. Len(rest) \in Nat /\ Len(head \o rest) = h + Len(rest)
    BY <1>1, <1>2 DEF Bytes
  <2>2. \A x \in 1..h : (head \o rest)[x] = head[x]
    BY <1>1, <1>2 DEF Bytes
  <2>3. \A x \in 1..Len(rest) : (head \o rest)[h + x] = rest[x]
    BY <1>1, <1>2 DEF Bytes
  <2> QED
    BY Zenon, <2>1, <2>2, <2>3
<1>8. ASSUME NEW k \in i..m
      PROVE  (head \o rest)[Cardinality(UpTo(k))] = s[k]
  <2>1. UpTo(k) = i..k
    <3>1. \A j : j \in i..k <=> j \in i..m /\ j <= k
      BY <1>1
    <3>2. \A j \in Q : ~(j <= k)
      BY <1>1, <1>5
    <3> QED
      BY Zenon, <3>1, <3>2
  <2>2. i \in Int /\ k \in Int /\ ~(i > k)
    BY <1>1
  <2>3. Cardinality(UpTo(k)) = k - i + 1
    BY Zenon, <2>1, <2>2, FS_Interval
  <2> QED
    BY Zenon, <1>2, <1>7, <2>3
<1>9. ASSUME NEW k \in Q
      PROVE  (head \o rest)[Cardinality(UpTo(k))] = s[k]
  <2> DEFINE R == {j \in Q : j <= k}
  <2>1. UpTo(k) = (i..m) \cup R
    <3>1. \A j \in i..m : j <= k
      BY <1>1, <1>5
    <3> QED
      BY Zenon, <3>1
  <2>2. IsFiniteSet(R) /\ R \in SUBSET Q /\ Cardinality(R) <= Len(rest)
    BY Zenon, <1>4
  <2>3. k \in R /\ R # {}
    <3>1. k <= k
      BY <1>5
    <3> QED
      BY Zenon, <3>1
  <2>4. rest[Cardinality(R)] = s[k]
    BY Zenon DEF IsSelection
  <2>5. Cardinality(R) \in Nat /\ Cardinality(R) # 0
    <3> HIDE DEF R
    <3> QED
      BY Zenon, <2>2, <2>3, FS_CardinalityType, FS_EmptySet
  <2>6. Cardinality(UpTo(k)) = h + Cardinality(R)
    <3>1. \A j \in i..m : j \notin R
      BY Zenon, <1>5
    <3> HIDE DEF R
    <3> QED
      BY Zenon, <1>3, <2>1, <2>2, <3>1, SizesAdd
  <2> HIDE DEF R
  <2>7. Cardinality(R) \in 1..Len(rest)
    BY <1>7, <2>2, <2>5
  <2> QED
    BY Zenon, <1>7, <2>4, <2>6, <2>7
<1>10. Len(head \o rest) = Cardinality(P)
  BY Zenon, <1>6, <1>7
<1>11. \A k \in P : (head \o rest)[Cardinality({j \in P : j <= k})] = s[k]
  BY Zenon, <1>8, <1>9
<1> HIDE DEF P
<1>12. IsSelection(head \o rest, P, s)
  BY Zenon, <1>10, <1>11 DEF IsSelection
<1> QED
  BY Zenon, <1>12 DEF P, head

\* The next sequence, and that the loop goes on behind it.
IsNextSequence(x, s, i) ==
  /\ x[1] \in i..Len(s) /\ x[2] \in x[1]..Len(s) /\ IsSequence(s, x[1], x[2])
  /\ x[1] = Min(Escapes(s, i)) /\ AfterSequence(s, i) = x[2] + 1
  /\ \A k \in i..(x[1] - 1) : s[k] # "ESC"
  /\ i \in 1..Len(s) /\ x[2] + 1 \in (i + 1)..(Len(s) + 1) /\ x \in Nat \X Nat

\* The first sequence from a place on starts at the next escape.
LEMMA FirstSequenceIsNext ==
  ASSUME NEW s \in Bytes, NEW i \in 1..(Len(s) + 1), Escapes(s, i) # {}
  PROVE  IsNextSequence(FirstSequence(s, i), s, i)
<1> DEFINE a == Min(Escapes(s, i))
           b == SequenceEnd(s, a)
           x == FirstSequence(s, i)
<1>1. Len(s) \in Nat
  BY DEF Bytes
<1>2. a \in i..Len(s) /\ s[a] = "ESC" /\ \A k \in i..(a - 1) : s[k] # "ESC"
  BY Zenon, NextEscape
<1>3. AfterSequence(s, i) = ConsumeTerminalSequence(s, a + 1)
  BY Zenon DEF AfterSequence
<1>4. x = <<a, b>>
  BY Zenon DEF FirstSequence
<1> HIDE DEF a
<1>5. a \in 1..Len(s)
  BY <1>1, <1>2
<1>6. b \in a..Len(s) /\ IsSequence(s, a, b) /\ ConsumeTerminalSequence(s, a + 1) = b + 1
  BY Zenon, <1>2, <1>5, SequenceEndIs
<1> HIDE DEF b, x
<1>7. i \in 1..Len(s) /\ b + 1 \in (i + 1)..(Len(s) + 1) /\ a \in Nat /\ b \in Nat
  BY <1>1, <1>2, <1>6
<1>8. x[1] = a /\ x[2] = b /\ x \in Nat \X Nat
  BY Zenon, <1>4, <1>7
<1>9. IsNextSequence(x, s, i)
  BY Zenon, <1>2, <1>3, <1>6, <1>7, <1>8 DEF IsNextSequence, a
<1> QED
  BY Zenon, <1>9 DEF x

IsSequencesLoop(from, s) ==
  /\ \A i \in 1..(Len(s) + 1) :
       from[i] = IF Escapes(s, i) = {} THEN {}
                 ELSE {FirstSequence(s, i)} \cup from[FirstSequence(s, i)[2] + 1]
  /\ SequencesOf(s) = from[1]

\* The sequences of a text from a place on.
LEMMA SequencesLoop ==
  ASSUME NEW s \in Bytes
  PROVE  \E from : IsSequencesLoop(from, s)
<1> DEFINE n == Len(s)
           A == SUBSET (Nat \X Nat)
           After(i) == FirstSequence(s, i)[2] + 1
           stop == {i \in 1..(n + 1) : Escapes(s, i) = {}}
           last == [i \in 1..(n + 1) |-> {}]
           next == [i \in 1..n |-> IF Escapes(s, i) = {} THEN n + 1 ELSE After(i)]
           body == [x \in (1..n) \X A |->
                      IF Escapes(s, x[1]) = {} THEN x[2] ELSE {FirstSequence(s, x[1])} \cup x[2]]
           from[i \in 1..EndOfText(s)] ==
             IF Escapes(s, i) = {} THEN {}
             ELSE {FirstSequence(s, i)} \cup from[FirstSequence(s, i)[2] + 1]
<1>1. n \in Nat /\ EndOfText(s) = n + 1 /\ n + 1 \in 1..(n + 1) /\ 1 \in 1..(n + 1)
  BY DEF Bytes, EndOfText
<1>2. SequencesOf(s) = from[1]
  BY Zenon DEF SequencesOf
<1>3. n + 1 \in stop
  BY <1>1 DEF Escapes
<1>4. ASSUME NEW i \in 1..(n + 1), Escapes(s, i) # {}
      PROVE  /\ After(i) \in 1..(n + 1) /\ After(i) > i /\ i \in 1..n
             /\ FirstSequence(s, i) \in Nat \X Nat
  <2>1. IsNextSequence(FirstSequence(s, i), s, i)
    BY Zenon, <1>4, FirstSequenceIsNext
  <2>2. After(i) \in (i + 1)..(n + 1) /\ i \in 1..n /\ FirstSequence(s, i) \in Nat \X Nat
    BY Zenon, <2>1 DEF IsNextSequence
  <2> HIDE DEF After, n
  <2>3. After(i) \in 1..(n + 1) /\ After(i) > i
    BY <1>1, <2>2
  <2> QED
    BY Zenon, <2>2, <2>3
<1> HIDE DEF n
<1>5. next \in Jumps(n)
  <2>1. \A i \in 1..n : i \in 1..(n + 1) /\ n + 1 > i
    BY <1>1
  <2> HIDE DEF After
  <2>2. \A i \in 1..n : next[i] \in 1..(n + 1) /\ next[i] > i
    BY Zenon, <1>1, <1>4, <2>1
  <2>3. next \in [1..n -> 1..(n + 1)]
    BY Zenon, <2>2
  <2> HIDE DEF next
  <2> QED
    BY Zenon, <2>2, <2>3 DEF Jumps
<1>6. body \in Bodies(n, A)
  <2>1. \A i \in 1..n : i \in 1..(n + 1)
    BY <1>1
  <2>2. \A i \in 1..n, xs \in A : Escapes(s, i) # {} => {FirstSequence(s, i)} \cup xs \in A
    BY Zenon, <1>4, <2>1
  <2> HIDE DEF A
  <2> QED
    BY Zenon, <2>2 DEF Bodies
<1>7. last \in [1..(n + 1) -> A]
  BY Zenon
<1>8. PICK g : IsJumpingRun(g, n, A, stop, last, next, body)
  <2> HIDE DEF body, next, last, stop, A
  <2> QED
    BY Zenon, <1>1, <1>3, <1>5, <1>6, <1>7, JumpingRunExists
<1> HIDE DEF A, After
<1>9. \A i \in 1..(n + 1) :
        g[i] = IF Escapes(s, i) = {} THEN {} ELSE {FirstSequence(s, i)} \cup g[After(i)]
  <2> SUFFICES ASSUME NEW i \in 1..(n + 1)
               PROVE  g[i] = IF Escapes(s, i) = {} THEN {} ELSE {FirstSequence(s, i)} \cup g[After(i)]
    BY Zenon
  <2>1. CASE Escapes(s, i) = {}
    BY Zenon, <1>8, <2>1 DEF IsJumpingRun
  <2>2. CASE Escapes(s, i) # {}
    <3>1. i \in 1..n /\ i \notin stop /\ next[i] = After(i)
      BY Zenon, <1>4, <2>2
    <3>2. g[next[i]] \in A
      BY Zenon, <1>4, <1>8, <2>2, <3>1 DEF IsJumpingRun
    <3>3. g[i] = body[<<i, g[next[i]]>>]
      BY Zenon, <1>8, <3>1 DEF IsJumpingRun
    <3> QED
      BY Zenon, <2>2, <3>1, <3>2, <3>3
  <2> QED
    BY Zenon, <2>1, <2>2
<1>10. g = [i \in 1..(n + 1) |->
              IF Escapes(s, i) = {} THEN {} ELSE {FirstSequence(s, i)} \cup g[After(i)]]
  BY Zenon, <1>8, <1>9 DEF IsJumpingRun
<1>11. from = [i \in 1..(n + 1) |->
                 IF Escapes(s, i) = {} THEN {} ELSE {FirstSequence(s, i)} \cup from[After(i)]]
  BY Zenon, <1>1, <1>10 DEF After
<1> HIDE DEF from
<1> QED
  BY Zenon, <1>2, <1>11 DEF n, After, IsSequencesLoop

\* From a place on, the sequences are found and the rest is kept.
KeptFrom(s, i, xs) == {k \in i..Len(s) : \A x \in xs : ~Covers(x, k)}
IsExactFrom(s, i, xs, done) ==
  /\ IsFiniteSet(xs) /\ done.stripped = Cardinality(xs)
  /\ \A x \in xs : x[1] \in i..Len(s) /\ x[2] \in x[1]..Len(s) /\ IsSequence(s, x[1], x[2])
  /\ \A k \in i..Len(s) : s[k] = "ESC" => \E x \in xs : Covers(x, k)
  /\ \A x, y \in xs : x # y => \A k \in DOMAIN s : ~(Covers(x, k) /\ Covers(y, k))
  /\ IsSelection(done.output, KeptFrom(s, i, xs), s)

\* A text without an escape is kept.
LEMMA ExactWithoutEscape ==
  ASSUME NEW s \in Bytes, NEW i \in 1..(Len(s) + 1), Escapes(s, i) = {}
  PROVE  IsExactFrom(s, i, {}, [output |-> SubSeq(s, i, Len(s)), stripped |-> 0])
<1> DEFINE tail == SubSeq(s, i, Len(s))
           done == [output |-> tail, stripped |-> 0]
<1>1. Len(s) \in 0..Len(s) /\ Len(s) >= i - 1
  BY DEF Bytes
<1>2. IsSelection(<<>>, {}, s) /\ <<>> \in Bytes
  <2>1. Len(<<>>) = 0 /\ <<>> \in Bytes
    BY DEF Bytes
  <2> QED
    BY Zenon, <2>1, FS_EmptySet DEF IsSelection
<1>3. IsSelection(tail \o <<>>, (i..Len(s)) \cup {}, s)
  BY Zenon, <1>1, <1>2, SelectionJoins
<1>4. tail \o <<>> = tail
  BY DEF Bytes
<1>5. KeptFrom(s, i, {}) = (i..Len(s)) \cup {}
  BY Zenon DEF KeptFrom
<1> HIDE DEF tail
<1>6. done.output = tail /\ done.stripped = 0
  BY Zenon
<1>7. \A k \in i..Len(s) : s[k] # "ESC"
  BY Zenon DEF Escapes
<1> HIDE DEF done
<1>8. IsExactFrom(s, i, {}, done)
  BY Zenon, <1>3, <1>4, <1>5, <1>6, <1>7, FS_EmptySet DEF IsExactFrom
<1> QED
  BY Zenon, <1>8 DEF done, tail

\* What is kept before a sequence and after it is what is kept of both.
LEMMA ExactBeforeSequence ==
  ASSUME NEW s \in Bytes, NEW i \in 1..(Len(s) + 1), NEW x, IsNextSequence(x, s, i),
         NEW ys, NEW rest \in Stripped, IsExactFrom(s, x[2] + 1, ys, rest)
  PROVE  IsExactFrom(s, i, {x} \cup ys, StripNext(s, i, rest))
<1> DEFINE a == x[1]
           b == x[2]
           xs == {x} \cup ys
           head == SubSeq(s, i, a - 1)
           done == StripNext(s, i, rest)
<1>1. /\ Len(s) \in Nat /\ i \in Nat /\ a \in i..Len(s) /\ b \in a..Len(s) /\ a \in Nat /\ b \in Nat
      /\ IsSequence(s, a, b) /\ DOMAIN s = 1..Len(s)
      /\ \A k \in i..(a - 1) : s[k] # "ESC"
  <2>1. /\ a \in i..Len(s) /\ b \in a..Len(s) /\ IsSequence(s, a, b)
        /\ \A k \in i..(a - 1) : s[k] # "ESC"
    BY Zenon DEF IsNextSequence
  <2> HIDE DEF a, b
  <2>2. Len(s) \in Nat /\ i \in Nat /\ a \in Nat /\ b \in Nat /\ DOMAIN s = 1..Len(s)
    BY <2>1 DEF Bytes
  <2> QED
    BY Zenon, <2>1, <2>2
<1>2. /\ done.output = head \o rest.output /\ done.stripped = rest.stripped + 1
      /\ rest.output \in Bytes
  <2>1. done = [output |-> head \o rest.output, stripped |-> rest.stripped + 1]
    BY Zenon DEF StripNext, IsNextSequence
  <2> HIDE DEF head, done
  <2> QED
    BY Zenon, <2>1 DEF Stripped
<1>3. \A k : Covers(x, k) <=> k \in a..b
  BY Zenon DEF Covers
<1>4. \A y \in ys : /\ y[1] \in (b + 1)..Len(s) /\ y[2] \in y[1]..Len(s)
                    /\ IsSequence(s, y[1], y[2])
  BY Zenon DEF IsExactFrom
<1> HIDE DEF a, b, done, head
<1>5. \A y \in ys : y[1] \in i..Len(s)
  BY <1>1, <1>4
<1>6. ASSUME NEW y \in ys, NEW k \in DOMAIN s, Covers(y, k)
      PROVE  k > b /\ ~Covers(x, k)
  <2>1. y[1] \in (b + 1)..Len(s) /\ k \in y[1]..y[2] /\ k \in Nat
    BY <1>1, <1>4, <1>6 DEF Covers
  <2>2. k > b /\ k \notin a..b
    BY <1>1, <2>1
  <2> QED
    BY Zenon, <1>3, <2>2
<1>7. x \notin ys
  <2>1. x[1] \notin (b + 1)..Len(s)
    BY <1>1 DEF a
  <2> QED
    BY Zenon, <1>4, <2>1
<1>8. IsFiniteSet(xs) /\ done.stripped = Cardinality(xs)
  <2>1. IsFiniteSet(ys) /\ rest.stripped = Cardinality(ys)
    BY Zenon DEF IsExactFrom
  <2>2. xs = ys \cup {x}
    BY Zenon
  <2> QED
    BY Zenon, <1>2, <1>7, <2>1, <2>2, FS_AddElement
<1>9. \A y \in xs : y[1] \in i..Len(s) /\ y[2] \in y[1]..Len(s) /\ IsSequence(s, y[1], y[2])
  BY Zenon, <1>1, <1>4, <1>5 DEF a, b
<1>10. \A k \in i..Len(s) : k \in i..(a - 1) \/ k \in a..b \/ k \in (b + 1)..Len(s)
  BY <1>1
<1>11. ASSUME NEW k \in i..Len(s), s[k] = "ESC"
       PROVE  \E y \in xs : Covers(y, k)
  <2>1. CASE k \in a..b
    BY Zenon, <1>3, <2>1
  <2>2. CASE k \in (b + 1)..Len(s)
    <3>1. \E y \in ys : Covers(y, k)
      BY Zenon, <1>11, <2>2 DEF IsExactFrom, b
    <3> QED
      BY Zenon, <3>1
  <2> QED
    BY Zenon, <1>1, <1>10, <1>11, <2>1, <2>2
<1>12. ASSUME NEW y \in xs, NEW z \in xs, y # z, NEW k \in DOMAIN s, Covers(y, k), Covers(z, k)
       PROVE  FALSE
  <2>1. CASE y \in ys /\ z \in ys
    BY Zenon, <1>12, <2>1 DEF IsExactFrom
  <2> QED
    BY Zenon, <1>6, <1>12, <2>1
<1>13. IsSelection(done.output, KeptFrom(s, i, xs), s)
  <2> DEFINE Q == KeptFrom(s, b + 1, ys)
  <2>1. IsSelection(rest.output, Q, s)
    BY Zenon DEF IsExactFrom, b
  <2>2. a - 1 \in 0..Len(s) /\ a - 1 >= i - 1
    BY <1>1
  <2>3. /\ \A k \in (b + 1)..Len(s) : k \in (a - 1 + 1)..Len(s) /\ k \in i..Len(s) /\ k \notin a..b
        /\ \A k \in i..(a - 1) : k \in i..Len(s) /\ k \notin a..b /\ k \in DOMAIN s /\ ~(k > b)
    BY <1>1
  <2>4. Q \subseteq (a - 1 + 1)..Len(s)
    BY Zenon, <2>3 DEF KeptFrom
  <2>5. IsSelection(head \o rest.output, (i..(a - 1)) \cup Q, s)
    <3> HIDE DEF Q
    <3> QED
      BY Zenon, <1>2, <2>1, <2>2, <2>4, SelectionJoins DEF head
  <2>6. KeptFrom(s, i, xs) = (i..(a - 1)) \cup Q
    <3>1. ASSUME NEW k \in KeptFrom(s, i, xs)
          PROVE  k \in (i..(a - 1)) \cup Q
      <4>1. k \in i..Len(s) /\ k \notin a..b /\ \A y \in ys : ~Covers(y, k)
        BY Zenon, <1>3 DEF KeptFrom
      <4> QED
        BY Zenon, <1>10, <4>1 DEF KeptFrom
    <3>2. ASSUME NEW k \in i..(a - 1)
          PROVE  k \in KeptFrom(s, i, xs)
      <4>1. k \in i..Len(s) /\ ~Covers(x, k) /\ \A y \in ys : ~Covers(y, k)
        BY Zenon, <1>3, <1>6, <2>3
      <4> QED
        BY Zenon, <4>1 DEF KeptFrom
    <3>3. ASSUME NEW k \in Q
          PROVE  k \in KeptFrom(s, i, xs)
      <4>1. k \in (b + 1)..Len(s) /\ \A y \in ys : ~Covers(y, k)
        BY Zenon DEF KeptFrom
      <4>2. k \in i..Len(s) /\ ~Covers(x, k)
        BY Zenon, <1>3, <2>3, <4>1
      <4> QED
        BY Zenon, <4>1, <4>2 DEF KeptFrom
    <3> HIDE DEF Q, xs
    <3> QED
      BY Zenon, <3>1, <3>2, <3>3
  <2> QED
    BY Zenon, <1>2, <2>5, <2>6
<1> HIDE DEF xs
<1>14. IsExactFrom(s, i, xs, done)
  BY Zenon, <1>8, <1>9, <1>11, <1>12, <1>13 DEF IsExactFrom
<1> QED
  BY Zenon, <1>14 DEF xs, done

\* Stripping a text keeps exactly what is in none of its sequences, as they are
\* defined, and counts them (stripTerminalSequences).
THEOREM StrippingIsExact ==
  ASSUME NEW s \in Bytes
  PROVE  IsExactFrom(s, 1, SequencesOf(s), StripTerminalSequences(s))
<1> DEFINE n == Len(s)
<1>1. PICK strip :
        /\ \A i \in 1..(n + 1) :
             /\ strip[i] \in Stripped
             /\ strip[i] = IF Escapes(s, i) = {} THEN [output |-> SubSeq(s, i, n), stripped |-> 0]
                           ELSE StripNext(s, i, strip[AfterSequence(s, i)])
        /\ StripTerminalSequences(s) = strip[1]
  BY Zenon, StripLoop
<1>2. PICK from : IsSequencesLoop(from, s)
  BY Zenon, SequencesLoop
<1>3. n + 1 \in Nat /\ 1 \in 1..(n + 1) /\ \A i \in 1..(n + 1) : \A j \in (i + 1)..(n + 1) : j \in 1..(n + 1)
  BY DEF Bytes
<1> DEFINE S == {i \in 1..(n + 1) : IsExactFrom(s, i, from[i], strip[i])}
<1>4. ASSUME NEW i \in 1..(n + 1), \A j \in (i + 1)..(n + 1) : j \in S
      PROVE  i \in S
  <2>1. CASE Escapes(s, i) = {}
    <3>1. from[i] = {} /\ strip[i] = [output |-> SubSeq(s, i, n), stripped |-> 0]
      BY Zenon, <1>1, <1>2, <2>1 DEF IsSequencesLoop
    <3> QED
      BY Zenon, <2>1, <3>1, ExactWithoutEscape
  <2>2. CASE Escapes(s, i) # {}
    <3> DEFINE x == FirstSequence(s, i)
               j == x[2] + 1
    <3>1. IsNextSequence(x, s, i)
      BY Zenon, <2>2, FirstSequenceIsNext
    <3>2. j \in (i + 1)..(n + 1) /\ AfterSequence(s, i) = j
      BY Zenon, <3>1 DEF IsNextSequence
    <3>3. from[i] = {x} \cup from[j] /\ strip[i] = StripNext(s, i, strip[j])
      BY Zenon, <1>1, <1>2, <2>2, <3>2 DEF IsSequencesLoop
    <3>4. IsExactFrom(s, x[2] + 1, from[j], strip[j]) /\ strip[j] \in Stripped
      BY Zenon, <1>1, <1>3, <1>4, <3>2
    <3> HIDE DEF x, j
    <3>5. IsExactFrom(s, i, {x} \cup from[j], StripNext(s, i, strip[j]))
      BY Zenon, <3>1, <3>4, ExactBeforeSequence
    <3> QED
      BY Zenon, <3>3, <3>5
  <2> QED
    BY Zenon, <2>1, <2>2
<1>5. \A i \in 1..(n + 1) : i \in S
  <2> HIDE DEF S
  <2> QED
    BY Zenon, <1>3, <1>4, Downward
<1> QED
  BY Zenon, <1>1, <1>2, <1>3, <1>5 DEF IsSequencesLoop
=============================================================================
