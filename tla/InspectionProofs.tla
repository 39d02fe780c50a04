-------------------------- MODULE InspectionProofs --------------------------
(***************************************************************************)
(* Lemmas about what the pipeline finds in a text and what the gNMI        *)
(* profile extracts of a response, for every text and response: runs,      *)
(* encoded runs and repetitions are found, a text that passes is harmless  *)
(* also when it is cut, and the state extracted is the one reported.       *)
(***************************************************************************)
EXTENDS SanitiseProofs

-----------------------------------------------------------------------------
(* Inspection of text *)

\* The run lengths after each byte (containsEncodedToken), with what was found.
RunLengths == [base64: Nat, hex: Nat, url: Nat, found: BOOLEAN]

CountsOn(next, run, s, i, minimum) ==
  /\ s[i] \in Base64 => next.base64 = run.base64 + 1
  /\ IsEncodedAt(s, i) => next.url = run.url + 3
  /\ i > 1 /\ (s[i - 1] = "%" \/ (i > 2 /\ s[i - 2] = "%")) => next.url >= run.url
  /\ next.base64 >= minimum \/ next.url >= minimum => next.found

\* One step of the counters of containsEncodedToken.
LEMMA CountRunsAt ==
  ASSUME NEW s \in Bytes, NEW i \in 1..Len(s), NEW minimum \in Nat, NEW run \in RunLengths
  PROVE  /\ RunsAt(run, s, i, minimum) \in RunLengths
         /\ run.found => RunsAt(run, s, i, minimum).found
         /\ i \in Starts(s) => CountsOn(RunsAt(run, s, i, minimum), run, s, i, minimum)
<1> DEFINE base64 == IF s[i] \in Base64 THEN run.base64 + 1 ELSE 0
           hex == IF s[i] \in Hex THEN run.hex + 1 ELSE 0
           url == IF IsEncodedAt(s, i) THEN run.url + 3
                  ELSE IF i = 1 \/ (s[i - 1] # "%" /\ (i < 3 \/ s[i - 2] # "%")) THEN 0 ELSE run.url
           found == run.found \/ base64 >= minimum \/ hex >= minimum \/ url >= minimum
           next == RunsAt(run, s, i, minimum)
<1>1. run.base64 \in Nat /\ run.hex \in Nat /\ run.url \in Nat /\ run.found \in BOOLEAN
  BY DEF RunLengths
<1>2. /\ base64 \in Nat /\ hex \in Nat /\ url \in Nat
  BY <1>1
<1>3. s[i] \in Base64 => base64 = run.base64 + 1
  OBVIOUS
<1>4. IsEncodedAt(s, i) => url = run.url + 3
  OBVIOUS
<1>5. i > 1 /\ (s[i - 1] = "%" \/ (i > 2 /\ s[i - 2] = "%")) => url >= run.url
  BY <1>1
<1>6. CASE i \in Starts(s)
  <2>1. CountRuns(run, s, i) = [base64 |-> base64, hex |-> hex, url |-> url, found |-> run.found]
    BY Zenon DEF CountRuns
  <2> HIDE DEF base64, hex, url
  <2>2. next = [base64 |-> base64, hex |-> hex, url |-> url, found |-> found]
    BY <1>6, <2>1 DEF RunsAt, JudgeRuns
  <2>3. found \in BOOLEAN /\ (run.found => found)
    BY Zenon
  <2>4. base64 >= minimum \/ url >= minimum => found
    BY Zenon
  <2> HIDE DEF next, found
  <2>5. next.base64 = base64 /\ next.url = url /\ next.found = found
    BY Zenon, <2>2
  <2>6. next \in RunLengths
    BY Zenon, <1>2, <2>2, <2>3 DEF RunLengths
  <2>7. CountsOn(next, run, s, i, minimum)
    BY Zenon, <1>3, <1>4, <1>5, <2>4, <2>5 DEF CountsOn
  <2> QED
    BY Zenon, <1>6, <2>3, <2>5, <2>6, <2>7 DEF next
<1>7. CASE i \notin Starts(s)
  <2>1. next = run
    BY Zenon, <1>7 DEF RunsAt
  <2> HIDE DEF next
  <2> QED
    BY Zenon, <1>7, <2>1 DEF next
<1> QED
  BY Zenon, <1>6, <1>7

\* Lengths that are wrapped up, so that a lemma can speak of a whole loop.
IsRunsLoop(run, s, minimum) ==
  /\ \A i \in 0..Len(s) : run[i] \in RunLengths
  /\ \A i \in 1..Len(s) : run[i] = RunsAt(run[i - 1], s, i, minimum)
  /\ \A i \in 0..Len(s) : run[i].found => ContainsEncodedToken(s, minimum)

\* The counters at every place of a text.
LEMMA RunsLoop ==
  ASSUME NEW s \in Bytes, NEW minimum \in Nat
  PROVE  \E run : IsRunsLoop(run, s, minimum)
<1> DEFINE n == Len(s)
           body == [x \in (1..n) \X RunLengths |-> RunsAt(x[2], s, x[1], minimum)]
           run[i \in 0..n] == IF i = 0 THEN NoRuns ELSE RunsAt(run[i - 1], s, i, minimum)
<1>1. n \in Nat /\ NoRuns \in RunLengths
  BY DEF Bytes, NoRuns, RunLengths
<1>2. ContainsEncodedToken(s, minimum) = run[n].found
  BY Zenon DEF ContainsEncodedToken
<1>3. \A r \in RunLengths, i \in 1..n : RunsAt(r, s, i, minimum) \in RunLengths
  BY Zenon, CountRunsAt
<1>4. \A r \in RunLengths, i \in 1..n : r.found => RunsAt(r, s, i, minimum).found
  BY Zenon, CountRunsAt
<1>5. body \in Bodies(n, RunLengths)
  BY Zenon, <1>3 DEF Bodies
<1> HIDE DEF n
<1>6. PICK g : IsRun(g, n, RunLengths, NoRuns, body)
  <2> HIDE DEF body
  <2> QED
    BY Zenon, <1>1, <1>5, RunExists
<1>7. g = [i \in 0..n |-> IF i = 0 THEN NoRuns ELSE RunsAt(g[i - 1], s, i, minimum)]
  <2>1. \A i \in 1..n : g[i] = RunsAt(g[i - 1], s, i, minimum)
    BY Zenon, <1>1, <1>6, Places DEF IsRun
  <2> QED
    BY Zenon, <1>1, <1>6, <2>1, Places DEF IsRun
<1>8. run = [i \in 0..n |-> IF i = 0 THEN NoRuns ELSE RunsAt(run[i - 1], s, i, minimum)]
  BY Zenon, <1>7
<1> HIDE DEF run
<1>9. run[0] = NoRuns /\ \A i \in 1..n : run[i] = RunsAt(run[i - 1], s, i, minimum)
  BY Zenon, <1>1, <1>8, Places
<1> DEFINE S == {i \in 0..n : run[i] \in RunLengths}
<1>10. 0 \in S
  BY Zenon, <1>1, <1>9, Places
<1>11. ASSUME NEW i \in 1..n, i - 1 \in S
       PROVE  i \in S
  <2>1. run[i - 1] \in RunLengths /\ i \in 0..n
    BY Zenon, <1>1, <1>11, Places
  <2>2. run[i] = RunsAt(run[i - 1], s, i, minimum)
    BY Zenon, <1>9
  <2>3. RunsAt(run[i - 1], s, i, minimum) \in RunLengths
    BY Zenon, <1>3, <2>1
  <2> QED
    BY Zenon, <2>1, <2>2, <2>3
<1>12. \A i \in 0..n : i \in S
  <2> HIDE DEF S
  <2> QED
    BY Zenon, <1>1, <1>10, <1>11, Places, Upward
<1> DEFINE T == {i \in 0..n : \A j \in 0..i : run[j].found => run[i].found}
<1>13. 0 \in T
  <2>1. \A j \in 0..0 : j = 0
    OBVIOUS
  <2>2. \A j \in 0..0 : run[j].found => run[0].found
    BY Zenon, <2>1
  <2> QED
    BY Zenon, <1>1, <2>2, Places
<1>14. ASSUME NEW i \in 1..n, i - 1 \in T
       PROVE  i \in T
  <2>1. i \in 0..n /\ \A j \in 0..i : j = i \/ j \in 0..(i - 1)
    BY <1>1
  <2>2. run[i - 1].found => run[i].found
    BY Zenon, <1>1, <1>4, <1>9, <1>12, Places
  <2> QED
    BY Zenon, <1>14, <2>1, <2>2
<1>15. n \in T
  <2> HIDE DEF T
  <2> QED
    BY Zenon, <1>1, <1>13, <1>14, Places, Upward
<1> QED
  BY Zenon, <1>2, <1>9, <1>12, <1>15 DEF IsRunsLoop, n

\* A long run of letters, or of encoded bytes, is found.
LEMMA RunsAreFound ==
  ASSUME NEW s \in Bytes, NEW minimum \in Nat \ {0}, ~ContainsEncodedToken(s, minimum)
  PROVE  ~RunOf(Base64, minimum, s)
<1> SUFFICES ASSUME NEW i \in 1..(Len(s) - minimum + 1),
                    \A j \in i..(i + minimum - 1) : s[j] \in Base64
             PROVE  FALSE
  BY Zenon DEF RunOf
<1>1. PICK run : IsRunsLoop(run, s, minimum)
  BY Zenon, RunsLoop
<1> DEFINE S == {k \in 0..minimum : run[i - 1 + k].base64 >= k}
<1>2. Len(s) \in Nat /\ i - 1 \in 0..Len(s) /\ i - 1 + minimum \in 0..Len(s)
  BY DEF Bytes
<1>3. \A j \in 0..Len(s) : run[j] \in RunLengths /\ run[j].base64 \in Nat
  BY <1>1 DEF IsRunsLoop, RunLengths
<1>4. 0 \in S
  BY <1>2, <1>3
<1>5. ASSUME NEW k \in 1..minimum, k - 1 \in S
      PROVE  k \in S
  <2> DEFINE j == i - 1 + k
  <2>1. j \in 1..Len(s) /\ j \in i..(i + minimum - 1) /\ j - 1 = i - 1 + (k - 1) /\ j - 1 \in 0..Len(s)
    BY <1>2
  <2> HIDE DEF j
  <2>2. s[j] \in Base64
    BY Zenon, <2>1
  <2>3. j \in Starts(s)
    BY <2>1, <2>2 DEF Starts, IsInside, Base64, Hex, Bytes
  <2>4. CountsOn(RunsAt(run[j - 1], s, j, minimum), run[j - 1], s, j, minimum)
    BY Zenon, <1>3, <2>1, <2>3, CountRunsAt
  <2>5. run[j].base64 = run[j - 1].base64 + 1
    BY Zenon, <1>1, <2>1, <2>2, <2>4 DEF CountsOn, IsRunsLoop
  <2>6. run[j - 1].base64 >= k - 1 /\ run[j - 1].base64 \in Nat
    BY Zenon, <1>3, <1>5, <2>1
  <2>7. run[j].base64 >= k
    BY <2>5, <2>6
  <2> QED
    BY <2>7 DEF j
<1>6. minimum \in S
  <2>1. minimum \in Nat /\ minimum \in 0..minimum
    OBVIOUS
  <2> HIDE DEF S
  <2> QED
    BY Zenon, <1>4, <1>5, <2>1, Upward
<1> DEFINE e == i - 1 + minimum
<1>7. e \in 1..Len(s) /\ e \in i..(i + minimum - 1) /\ e - 1 \in 0..Len(s)
  BY <1>2
<1>8. run[e].base64 >= minimum
  BY Zenon, <1>6
<1> HIDE DEF e
<1>9. s[e] \in Base64
  BY Zenon, <1>7
<1>10. e \in Starts(s)
  BY <1>7, <1>9 DEF Starts, IsInside, Base64, Hex, Bytes
<1>11. CountsOn(RunsAt(run[e - 1], s, e, minimum), run[e - 1], s, e, minimum)
  BY Zenon, <1>3, <1>7, <1>10, CountRunsAt
<1>12. run[e].found
  BY Zenon, <1>1, <1>7, <1>8, <1>11 DEF CountsOn, IsRunsLoop
<1>13. e \in 0..Len(s)
  BY <1>7
<1> QED
  BY Zenon, <1>1, <1>12, <1>13 DEF IsRunsLoop

\* A long run of percent-encoded bytes is found as well.
LEMMA EncodedRunsAreFound ==
  ASSUME NEW s \in Bytes, NEW minimum \in Nat \ {0}, ~ContainsEncodedToken(s, minimum)
  PROVE  ~EncodedRun((minimum + 2) \div 3, s)
<1> DEFINE n == (minimum + 2) \div 3
<1>1. n \in Nat \ {0} /\ 3 * n >= minimum
  OBVIOUS
<1> HIDE DEF n
<1> SUFFICES ASSUME NEW i \in 1..(Len(s) - 3 * n + 1),
                    \A k \in 0..(n - 1) : IsEncodedAt(s, i + 3 * k)
             PROVE  FALSE
  BY Zenon DEF EncodedRun, n
<1>2. PICK run : IsRunsLoop(run, s, minimum)
  BY Zenon, RunsLoop
<1> DEFINE S == {k \in 0..n : run[i - 1 + 3 * k].url >= 3 * k}
<1>3. Len(s) \in Nat /\ i - 1 \in 0..Len(s) /\ i - 1 + 3 * n \in 0..Len(s)
  BY <1>1 DEF Bytes
<1>4. \A j \in 0..Len(s) : run[j] \in RunLengths /\ run[j].url \in Nat
  BY <1>2 DEF IsRunsLoop, RunLengths
<1>5. 0 \in S
  BY <1>1, <1>3, <1>4
\* A place of an encoded byte, and the two after it.
<1>6. ASSUME NEW j \in 1..Len(s), IsEncodedAt(s, j)
      PROVE  /\ run[j].url = run[j - 1].url + 3
             /\ run[j].url >= minimum => run[j].found
             /\ run[j + 1].url >= run[j].url
             /\ run[j + 2].url >= run[j + 1].url
  <2>1. s[j] = "%" /\ j + 1 \in 1..Len(s) /\ j + 2 \in 1..Len(s) /\ s[j + 1] = "a" /\ s[j + 2] = "a"
    BY <1>3, <1>6 DEF IsEncodedAt, Hex
  <2>2. j \in Starts(s) /\ j + 1 \in Starts(s) /\ j + 2 \in Starts(s)
    BY <2>1 DEF Starts, IsInside, Bytes
  <2>3. /\ j - 1 \in 0..Len(s) /\ j \in 0..Len(s) /\ j + 1 \in 0..Len(s)
        /\ j + 1 - 1 = j /\ j + 2 - 1 = j + 1 /\ j + 2 - 2 = j
        /\ j + 1 > 1 /\ j + 2 > 2 /\ j + 2 > 1
    BY <1>3, <2>1
  <2>4. \A m \in Starts(s) : m \in 1..Len(s) /\ m - 1 \in 0..Len(s)
    BY DEF Starts, Bytes
  <2>5. ASSUME NEW m \in Starts(s)
        PROVE  CountsOn(run[m], run[m - 1], s, m, minimum)
    <3>1. CountsOn(RunsAt(run[m - 1], s, m, minimum), run[m - 1], s, m, minimum)
      BY Zenon, <1>4, <2>4, CountRunsAt
    <3> QED
      BY Zenon, <1>2, <2>4, <3>1 DEF IsRunsLoop
  <2>6. run[j].url = run[j - 1].url + 3 /\ (run[j].url >= minimum => run[j].found)
    BY Zenon, <1>6, <2>2, <2>5 DEF CountsOn
  <2> DEFINE k == j + 1
             l == j + 2
  <2>7. run[k].url >= run[j].url
    <3>1. k - 1 = j /\ k > 1 /\ k \in Starts(s)
      BY <2>2, <2>3
    <3> HIDE DEF k
    <3>2. CountsOn(run[k], run[j], s, k, minimum)
      BY Zenon, <2>5, <3>1
    <3> QED
      BY Zenon, <2>1, <3>1, <3>2 DEF CountsOn
  <2>8. run[l].url >= run[k].url
    <3>1. l - 1 = k /\ l - 2 = j /\ l > 2 /\ l > 1 /\ l \in Starts(s)
      BY <2>2, <2>3
    <3> HIDE DEF k, l
    <3>2. CountsOn(run[l], run[k], s, l, minimum)
      BY Zenon, <2>5, <3>1
    <3> QED
      BY Zenon, <2>1, <3>1, <3>2 DEF CountsOn
  <2> QED
    BY Zenon, <2>6, <2>7, <2>8
<1>7. ASSUME NEW k \in 1..n, k - 1 \in S
      PROVE  k \in S
  <2> DEFINE j == i + 3 * (k - 1)
  <2>1. /\ k - 1 \in 0..(n - 1) /\ j \in 1..Len(s) /\ j - 1 = i - 1 + 3 * (k - 1)
        /\ j + 2 = i - 1 + 3 * k /\ j - 1 \in 0..Len(s) /\ j \in 0..Len(s) /\ j + 1 \in 0..Len(s)
        /\ j + 2 \in 0..Len(s)
    BY <1>1, <1>3
  <2>2. IsEncodedAt(s, j)
    BY Zenon, <2>1
  <2>3. run[j - 1].url >= 3 * (k - 1)
    BY Zenon, <1>7, <2>1
  <2> HIDE DEF j
  <2>4. /\ run[j].url = run[j - 1].url + 3
        /\ run[j + 1].url >= run[j].url
        /\ run[j + 2].url >= run[j + 1].url
    BY Zenon, <1>6, <2>1, <2>2
  <2>5. /\ run[j - 1].url \in Nat /\ run[j].url \in Nat /\ run[j + 1].url \in Nat
        /\ run[j + 2].url \in Nat
    BY Zenon, <1>4, <2>1
  <2>6. run[j + 2].url >= 3 * k
    <3>1. \A a, b, c, d, m \in Nat : a >= 3 * (m - 1) /\ b = a + 3 /\ c >= b /\ d >= c => d >= 3 * m
      OBVIOUS
    <3>2. k \in Nat
      BY <1>1
    <3> QED
      BY Zenon, <2>3, <2>4, <2>5, <3>1, <3>2
  <2>7. k \in 0..n
    OBVIOUS
  <2> QED
    BY Zenon, <2>1, <2>6, <2>7
<1>8. n - 1 \in S
  <2>1. n \in Nat /\ n - 1 \in 0..n
    BY <1>1
  <2> HIDE DEF S
  <2> QED
    BY Zenon, <1>5, <1>7, <2>1, Upward
<1> DEFINE e == i + 3 * (n - 1)
<1>9. /\ e \in 1..Len(s) /\ e - 1 \in 0..Len(s) /\ n - 1 \in 0..(n - 1) /\ e - 1 = i - 1 + 3 * (n - 1)
      /\ e \in 0..Len(s)
  BY <1>1, <1>3
<1>10. IsEncodedAt(s, e)
  BY Zenon, <1>9
<1>11. run[e - 1].url >= 3 * (n - 1)
  BY Zenon, <1>8, <1>9
<1> HIDE DEF e
<1>12. run[e].url = run[e - 1].url + 3 /\ (run[e].url >= minimum => run[e].found)
  BY Zenon, <1>6, <1>9, <1>10
<1>13. run[e - 1].url \in Nat /\ run[e].url \in Nat
  BY Zenon, <1>4, <1>9
<1>14. run[e].url >= minimum
  <2>1. \A a, b, m, k \in Nat : a >= 3 * (m - 1) /\ b = a + 3 /\ 3 * m >= k => b >= k
    OBVIOUS
  <2> QED
    BY Zenon, <1>1, <1>11, <1>12, <1>13, <2>1
<1> QED
  BY Zenon, <1>2, <1>9, <1>12, <1>14 DEF IsRunsLoop

\* The last rune and its repetitions after each byte (hasAbnormalRepetition).
Rune == Seq(Byte)
Repetitions == [previous: Rune, length: Nat, found: BOOLEAN]

\* A rune is a lead with its continuation, or one byte.
LEMMA RuneAtIs ==
  ASSUME NEW s \in Bytes, NEW i \in 1..Len(s)
  PROVE  /\ RuneAt(s, i) \in Rune
         /\ \/ /\ s[i] \in Leads /\ i < Len(s) /\ s[i + 1] = "c"
               /\ RuneAt(s, i) = <<s[i], "c">> /\ Len(RuneAt(s, i)) = 2
            \/ /\ ~(s[i] \in Leads /\ IsWhole(s, i))
               /\ RuneAt(s, i) = <<s[i]>> /\ Len(RuneAt(s, i)) = 1
<1>1. s[i] \in Byte
  BY DEF Bytes
<1>2. CASE s[i] \in Leads /\ IsWhole(s, i)
  <2>1. i < Len(s) /\ s[i + 1] = "c" /\ RuneAt(s, i) = <<s[i], "c">>
    BY Zenon, <1>2 DEF RuneAt, IsWhole
  <2>2. i + 1 \in 1..Len(s)
    BY <2>1 DEF Bytes
  <2>3. s[i + 1] \in Byte
    BY <2>2 DEF Bytes
  <2> QED
    BY <1>1, <1>2, <2>1, <2>3 DEF Rune
<1>3. CASE ~(s[i] \in Leads /\ IsWhole(s, i))
  <2>1. RuneAt(s, i) = <<s[i]>>
    BY Zenon, <1>3 DEF RuneAt
  <2> QED
    BY <1>1, <1>3, <2>1 DEF Rune
<1> QED
  BY Zenon, <1>2, <1>3

RepeatsOn(next, run, r, limit) ==
  /\ next.previous = r
  /\ next.length >= 1
  /\ r = run.previous => next.length = run.length + 1
  /\ next.length > limit => next.found

\* One step of the counter of hasAbnormalRepetition.
LEMMA CountRepeatedAt ==
  ASSUME NEW s \in Bytes, NEW i \in 1..Len(s), NEW limit \in Nat, NEW run \in Repetitions
  PROVE  /\ RepeatedAt(run, s, i, limit) \in Repetitions
         /\ run.found => RepeatedAt(run, s, i, limit).found
         /\ i \notin Starts(s) => RepeatedAt(run, s, i, limit) = run
         /\ i \in Starts(s) => RepeatsOn(RepeatedAt(run, s, i, limit), run, RuneAt(s, i), limit)
<1> DEFINE r == RuneAt(s, i)
           length == IF r = run.previous THEN run.length + 1 ELSE 1
           found == run.found \/ length > limit
           next == RepeatedAt(run, s, i, limit)
<1>1. run.length \in Nat /\ run.found \in BOOLEAN /\ r \in Rune
  BY Zenon, RuneAtIs DEF Repetitions
<1>2. length \in Nat /\ length >= 1 /\ (r = run.previous => length = run.length + 1)
  <2>1. run.length + 1 \in Nat /\ run.length + 1 >= 1 /\ 1 \in Nat /\ 1 >= 1
    BY <1>1
  <2> QED
    BY Zenon, <2>1
<1>3. CASE i \in Starts(s)
  <2>1. CountRepeated(run, r) = [previous |-> r, length |-> length, found |-> run.found]
    BY Zenon DEF CountRepeated
  <2> HIDE DEF length, r
  <2>2. next = [previous |-> r, length |-> length, found |-> found]
    BY <1>3, <2>1 DEF RepeatedAt, JudgeRepeated, r
  <2>3. found \in BOOLEAN /\ (run.found => found) /\ (length > limit => found)
    BY Zenon
  <2> HIDE DEF next, found
  <2>4. next.previous = r /\ next.length = length /\ next.found = found
    BY Zenon, <2>2
  <2>5. next \in Repetitions
    BY Zenon, <1>1, <1>2, <2>2, <2>3 DEF Repetitions
  <2>6. RepeatsOn(next, run, r, limit)
    BY Zenon, <1>2, <2>3, <2>4 DEF RepeatsOn
  <2> QED
    BY Zenon, <1>3, <2>3, <2>4, <2>5, <2>6 DEF next, r
<1>4. CASE i \notin Starts(s)
  <2>1. next = run
    BY Zenon, <1>4 DEF RepeatedAt
  <2> HIDE DEF next
  <2> QED
    BY Zenon, <1>4, <2>1 DEF next
<1> QED
  BY Zenon, <1>3, <1>4

IsRepetitionLoop(run, s, limit) ==
  /\ \A i \in 0..Len(s) : run[i] \in Repetitions
  /\ \A i \in 1..Len(s) : run[i] = RepeatedAt(run[i - 1], s, i, limit)
  /\ \A i \in 0..Len(s) : run[i].found => HasAbnormalRepetition(s, limit)

\* The counter at every place of a text.
LEMMA RepetitionLoop ==
  ASSUME NEW s \in Bytes, NEW limit \in Nat
  PROVE  \E run : IsRepetitionLoop(run, s, limit)
<1> DEFINE n == Len(s)
           body == [x \in (1..n) \X Repetitions |-> RepeatedAt(x[2], s, x[1], limit)]
           run[i \in 0..n] == IF i = 0 THEN NotRepeated ELSE RepeatedAt(run[i - 1], s, i, limit)
<1>1. n \in Nat /\ NotRepeated \in Repetitions
  BY DEF Bytes, NotRepeated, Repetitions, Rune
<1>2. HasAbnormalRepetition(s, limit) = run[n].found
  BY Zenon DEF HasAbnormalRepetition
<1>3. \A r \in Repetitions, i \in 1..n : RepeatedAt(r, s, i, limit) \in Repetitions
  BY Zenon, CountRepeatedAt
<1>4. \A r \in Repetitions, i \in 1..n : r.found => RepeatedAt(r, s, i, limit).found
  BY Zenon, CountRepeatedAt
<1>5. body \in Bodies(n, Repetitions)
  BY Zenon, <1>3 DEF Bodies
<1> HIDE DEF n
<1>6. PICK g : IsRun(g, n, Repetitions, NotRepeated, body)
  <2> HIDE DEF body
  <2> QED
    BY Zenon, <1>1, <1>5, RunExists
<1>7. g = [i \in 0..n |-> IF i = 0 THEN NotRepeated ELSE RepeatedAt(g[i - 1], s, i, limit)]
  <2>1. \A i \in 1..n : g[i] = RepeatedAt(g[i - 1], s, i, limit)
    BY Zenon, <1>1, <1>6, Places DEF IsRun
  <2> QED
    BY Zenon, <1>1, <1>6, <2>1, Places DEF IsRun
<1>8. run = [i \in 0..n |-> IF i = 0 THEN NotRepeated ELSE RepeatedAt(run[i - 1], s, i, limit)]
  BY Zenon, <1>7
<1> HIDE DEF run
<1>9. run[0] = NotRepeated /\ \A i \in 1..n : run[i] = RepeatedAt(run[i - 1], s, i, limit)
  BY Zenon, <1>1, <1>8, Places
<1> DEFINE S == {i \in 0..n : run[i] \in Repetitions}
<1>10. 0 \in S
  BY Zenon, <1>1, <1>9, Places
<1>11. ASSUME NEW i \in 1..n, i - 1 \in S
       PROVE  i \in S
  <2>1. run[i - 1] \in Repetitions /\ i \in 0..n
    BY Zenon, <1>1, <1>11, Places
  <2>2. run[i] = RepeatedAt(run[i - 1], s, i, limit)
    BY Zenon, <1>9
  <2>3. RepeatedAt(run[i - 1], s, i, limit) \in Repetitions
    BY Zenon, <1>3, <2>1
  <2> QED
    BY Zenon, <2>1, <2>2, <2>3
<1>12. \A i \in 0..n : i \in S
  <2> HIDE DEF S
  <2> QED
    BY Zenon, <1>1, <1>10, <1>11, Places, Upward
<1> DEFINE T == {i \in 0..n : \A j \in 0..i : run[j].found => run[i].found}
<1>13. 0 \in T
  <2>1. \A j \in 0..0 : j = 0
    OBVIOUS
  <2>2. \A j \in 0..0 : run[j].found => run[0].found
    BY Zenon, <2>1
  <2> QED
    BY Zenon, <1>1, <2>2, Places
<1>14. ASSUME NEW i \in 1..n, i - 1 \in T
       PROVE  i \in T
  <2>1. i \in 0..n /\ \A j \in 0..i : j = i \/ j \in 0..(i - 1)
    BY <1>1
  <2>2. run[i - 1].found => run[i].found
    BY Zenon, <1>1, <1>4, <1>9, <1>12, Places
  <2> QED
    BY Zenon, <1>14, <2>1, <2>2
<1>15. n \in T
  <2> HIDE DEF T
  <2> QED
    BY Zenon, <1>1, <1>13, <1>14, Places, Upward
<1> QED
  BY Zenon, <1>2, <1>9, <1>12, <1>15 DEF IsRepetitionLoop, n

\* A rune that is repeated too often is found.  w is its width.
LEMMA RepetitionsAreFound ==
  ASSUME NEW s \in Bytes, NEW limit \in Nat, ~HasAbnormalRepetition(s, limit)
  PROVE  ~Repeats(limit + 1, s)
<1> DEFINE n == Len(s)
<1> SUFFICES ASSUME NEW i \in Starts(s), RepeatsAt(s, i, limit + 1, Len(RuneAt(s, i)))
             PROVE  FALSE
  BY Zenon DEF Repeats
<1> DEFINE w == Len(RuneAt(s, i))
           r == RuneAt(s, i)
           At(k) == i + k * w
<1>1. PICK run : IsRepetitionLoop(run, s, limit)
  BY Zenon, RepetitionLoop
<1>2. n \in Nat /\ i \in 1..n
  BY DEF Bytes, Starts
<1>3. w \in {1, 2} /\ r \in Rune
  BY Zenon, <1>2, RuneAtIs
<1>4. i + (limit + 1) * w <= n + 1
  BY Zenon DEF EndOfText, RepeatsAt
<1>5. \A k \in 0..limit : k \in 0..((limit + 1) - 1)
  OBVIOUS
<1>6. \A k \in 0..limit : RuneAt(s, At(k)) = r
  BY Zenon, <1>5 DEF RepeatsAt
<1> HIDE DEF w, r
<1>7. \A k \in 0..limit : At(k) \in 1..n /\ At(k) + w - 1 \in 1..n
  <2>1. CASE w = 1
    BY <1>2, <1>4, <2>1
  <2>2. CASE w = 2
    BY <1>2, <1>4, <2>2
  <2> QED
    BY Zenon, <1>3, <2>1, <2>2
<1>8. \A k \in 1..limit : k - 1 \in 0..limit /\ At(k) - 1 = At(k - 1) + w - 1 /\ k \in 0..limit
  <2>1. CASE w = 1
    BY <1>2, <2>1
  <2>2. CASE w = 2
    BY <1>2, <2>2
  <2> QED
    BY Zenon, <1>3, <2>1, <2>2
<1> HIDE DEF At
\* What the loop has counted after the rune at a place, continuation included.
<1> DEFINE After(k) == At(k) + w - 1
           S == {k \in 0..limit : run[After(k)].previous = r /\ run[After(k)].length >= k + 1}
<1>9. \A k \in 0..limit : After(k) \in 1..n /\ At(k) - 1 \in 0..n /\ At(k) \in 0..n
  BY <1>2, <1>7
<1>10. \A k \in 0..limit : At(k) \in Starts(s) /\ run[After(k)] = run[At(k)]
  <2> SUFFICES ASSUME NEW k \in 0..limit PROVE At(k) \in Starts(s) /\ run[After(k)] = run[At(k)]
    BY Zenon
  <2>1. At(k) \in 1..n /\ RuneAt(s, At(k)) = r /\ RuneAt(s, i) = r
    BY Zenon, <1>6, <1>7 DEF r
  <2>2. CASE w = 1
    <3>1. r = <<s[i]>> /\ r = <<s[At(k)]>>
      BY <1>2, <2>1, <2>2, RuneAtIs DEF w, r
    <3>2. s[At(k)] = s[i]
      BY <3>1
    <3>3. After(k) = At(k)
      BY <2>1, <2>2
    <3>4. CASE k = 0
      <4>1. At(k) = i
        BY <1>2, <2>2, <3>4 DEF At
      <4> QED
        BY Zenon, <3>3, <4>1
    <3>5. CASE k # 0
      <4>1. k \in 1..limit
        BY <3>5
      <4>2. k - 1 \in 0..limit /\ At(k) - 1 = At(k - 1)
        BY <1>2, <1>7, <1>8, <2>2, <4>1 DEF At
      <4>3. At(k - 1) \in 1..n /\ RuneAt(s, At(k - 1)) = r
        BY Zenon, <1>6, <1>7, <4>2
      <4>4. r = <<s[At(k - 1)]>>
        BY <2>2, <4>3, RuneAtIs DEF w, r
      <4>5. s[At(k) - 1] = s[i]
        BY <3>1, <4>2, <4>4
      <4>6. At(k) \in Starts(s)
        BY <2>1, <3>2, <4>5 DEF Starts, IsInside, Leads, Bytes
      <4> QED
        BY Zenon, <3>3, <4>6
    <3> QED
      BY Zenon, <3>4, <3>5
  <2>3. CASE w = 2
    <3>1. s[At(k)] \in Leads /\ At(k) < n /\ s[At(k) + 1] = "c"
      <4>1. Len(RuneAt(s, At(k))) = 2 /\ 2 # 1
        BY <2>1, <2>3 DEF w
      <4> QED
        BY Zenon, <2>1, <4>1, RuneAtIs
    <3>2. At(k) \in Starts(s)
      BY <2>1, <3>1 DEF Starts, IsInside, Leads, Bytes
    <3> DEFINE j == At(k) + 1
    <3>3. After(k) = j /\ j \in 1..n /\ j - 1 = At(k) /\ j - 1 \in 0..n
      BY <1>2, <2>1, <2>3, <3>1
    <3>4. s[j] = "c" /\ s[j - 1] \in Leads /\ j > 1
      BY <2>1, <3>1, <3>3
    <3> HIDE DEF j
    <3>5. j \notin Starts(s)
      BY Zenon, <3>4 DEF Starts, IsInside
    <3>6. run[j] = run[j - 1]
      BY Zenon, <1>1, <3>3, <3>5, CountRepeatedAt DEF IsRepetitionLoop
    <3> QED
      BY Zenon, <3>2, <3>3, <3>6
  <2> QED
    BY Zenon, <1>3, <2>2, <2>3
<1>11. \A j \in 0..n : run[j] \in Repetitions /\ run[j].length \in Nat
  BY <1>1 DEF IsRepetitionLoop, Repetitions
<1>12. \A k \in 0..limit : RepeatsOn(run[At(k)], run[At(k) - 1], r, limit)
  BY Zenon, <1>1, <1>6, <1>7, <1>9, <1>10, <1>11, CountRepeatedAt DEF IsRepetitionLoop
<1>13. 0 \in S
  <2>1. 0 \in 0..limit
    OBVIOUS
  <2>2. run[After(0)].previous = r /\ run[After(0)].length >= 1
    BY Zenon, <1>10, <1>12, <2>1 DEF RepeatsOn
  <2> QED
    BY <2>1, <2>2
<1>14. ASSUME NEW k \in 1..limit, k - 1 \in S
       PROVE  k \in S
  <2>1. k \in 0..limit /\ k - 1 \in 0..limit /\ At(k) - 1 = After(k - 1)
    BY Zenon, <1>8
  <2>2. run[After(k - 1)].previous = r /\ run[After(k - 1)].length >= k - 1 + 1
    BY Zenon, <1>14
  <2>3. /\ run[After(k)].previous = r
        /\ run[After(k)].length = run[After(k - 1)].length + 1
    BY Zenon, <1>10, <1>12, <2>1, <2>2 DEF RepeatsOn
  <2>4. run[After(k - 1)].length \in Nat
    BY Zenon, <1>9, <1>11, <2>1
  <2> DEFINE a == run[After(k)].length
             b == run[After(k - 1)].length
  <2>5. a = b + 1 /\ b \in Nat /\ b >= k - 1 + 1
    BY Zenon, <2>2, <2>3, <2>4
  <2> HIDE DEF a, b
  <2>6. a >= k + 1
    BY <2>5
  <2> QED
    BY Zenon, <2>1, <2>3, <2>6 DEF a
<1>15. limit \in S
  <2>1. limit \in 0..limit
    OBVIOUS
  <2> HIDE DEF S
  <2> QED
    BY Zenon, <1>13, <1>14, <2>1, Upward
<1>16. limit \in 0..limit /\ run[After(limit)].length >= limit + 1
  BY Zenon, <1>15
<1>17. run[After(limit)].length \in Nat
  <2>1. \A j \in 1..n : j \in 0..n
    BY <1>2
  <2> QED
    BY Zenon, <1>9, <1>11, <1>16, <2>1
<1> DEFINE c == run[After(limit)].length
<1>18. c > limit
  <2>1. c \in Nat /\ c >= limit + 1
    BY Zenon, <1>16, <1>17
  <2> HIDE DEF c
  <2> QED
    BY <2>1
<1>19. run[At(limit)].found
  BY Zenon, <1>10, <1>12, <1>16, <1>18 DEF RepeatsOn
<1> QED
  BY Zenon, <1>1, <1>9, <1>16, <1>19 DEF IsRepetitionLoop

\* The normalised text after each byte grows at its end (normalizedText).
Texts == [output: Bytes, gap: BOOLEAN]
Continues(b, a) == Len(a) <= Len(b) /\ \A j \in 1..Len(a) : b[j] = a[j]

\* Folding one more rune only adds to the text (normalizedText).
LEMMA FoldContinues ==
  ASSUME NEW s \in Bytes, NEW i \in 1..Len(s), NEW text \in Texts
  PROVE  FoldAt(text, s, i) \in Texts /\ Continues(FoldAt(text, s, i).output, text.output)
<1> DEFINE r == RuneAt(s, i)
           left == IF text.gap THEN Append(text.output, " ") ELSE text.output
           right == IF r = <<"W", "c">> THEN <<"i">> ELSE r
           kept == [text EXCEPT !.gap = text.output # <<>>]
           folded == [output |-> left \o right, gap |-> FALSE]
<1>1. text.output \in Bytes /\ text.gap \in BOOLEAN
  BY DEF Texts
<1>2. Continues(text.output, text.output)
  BY <1>1 DEF Continues, Bytes
<1>3. kept \in Texts /\ kept.output = text.output
  BY Zenon, <1>1 DEF Texts
<1>4. folded \in Texts /\ Continues(folded.output, text.output)
  <2>1. left \in Bytes /\ Continues(left, text.output)
    <3>1. " " \in Byte
      BY Zenon DEF Byte
    <3>2. \A a \in Bytes, b \in Byte : Append(a, b) \in Bytes /\ Continues(Append(a, b), a)
      BY DEF Continues, Bytes
    <3> QED
      BY Zenon, <1>1, <1>2, <3>1, <3>2
  <2>2. right \in Bytes
    <3>1. "i" \in Byte
      BY Zenon DEF Byte
    <3>2. <<"i">> \in Bytes
      BY <3>1 DEF Bytes
    <3>3. r \in Bytes
      BY Zenon, RuneAtIs DEF Rune, Bytes
    <3> QED
      BY Zenon, <3>2, <3>3
  <2> HIDE DEF left, right
  <2>3. left \o right \in Bytes /\ Continues(left \o right, text.output)
    BY <1>1, <2>1, <2>2 DEF Continues, Bytes
  <2> QED
    BY Zenon, <2>3 DEF Texts
<1>5. FoldRune(text, r) = IF r[1] \in Whitespace THEN kept ELSE folded
  BY Zenon DEF FoldRune
<1> HIDE DEF kept, folded, r
<1>6. FoldRune(text, r) \in Texts /\ Continues(FoldRune(text, r).output, text.output)
  BY Zenon, <1>2, <1>3, <1>4, <1>5
<1> QED
  BY Zenon, <1>2, <1>6 DEF FoldAt, r

NoText == [output |-> <<>>, gap |-> FALSE]
IsTextLoop(text, s) ==
  /\ \A i \in 0..Len(s) : text[i] \in Texts
  /\ text[0] = NoText
  /\ \A i \in 1..Len(s) : text[i] = FoldAt(text[i - 1], s, i)
  /\ \A i \in 0..Len(s) : Continues(NormalizedText(s), text[i].output)
  /\ NormalizedText(s) = text[Len(s)].output

\* The folded text at every place.
LEMMA TextLoop ==
  ASSUME NEW s \in Bytes
  PROVE  \E text : IsTextLoop(text, s)
<1> DEFINE n == Len(s)
           body == [x \in (1..n) \X Texts |-> FoldAt(x[2], s, x[1])]
           text[i \in 0..n] == IF i = 0 THEN [output |-> <<>>, gap |-> FALSE] ELSE FoldAt(text[i - 1], s, i)
<1>1. n \in Nat /\ NoText \in Texts
  BY DEF Bytes, NoText, Texts
<1>2. NormalizedText(s) = text[n].output
  BY Zenon DEF NormalizedText
<1>3. \A r \in Texts, i \in 1..n : FoldAt(r, s, i) \in Texts
  BY Zenon, FoldContinues
<1>4. \A r \in Texts, i \in 1..n : Continues(FoldAt(r, s, i).output, r.output)
  BY Zenon, FoldContinues
<1>5. body \in Bodies(n, Texts)
  BY Zenon, <1>3 DEF Bodies
<1> HIDE DEF n
<1>6. PICK g : IsRun(g, n, Texts, NoText, body)
  <2> HIDE DEF body
  <2> QED
    BY Zenon, <1>1, <1>5, RunExists
<1>7. g = [i \in 0..n |-> IF i = 0 THEN NoText ELSE FoldAt(g[i - 1], s, i)]
  <2>1. \A i \in 1..n : g[i] = FoldAt(g[i - 1], s, i)
    BY Zenon, <1>1, <1>6, Places DEF IsRun
  <2> QED
    BY Zenon, <1>1, <1>6, <2>1, Places DEF IsRun
<1>8. text = [i \in 0..n |-> IF i = 0 THEN NoText ELSE FoldAt(text[i - 1], s, i)]
  BY Zenon, <1>7 DEF NoText
<1> HIDE DEF text
<1>9. text[0] = NoText /\ \A i \in 1..n : text[i] = FoldAt(text[i - 1], s, i)
  BY Zenon, <1>1, <1>8, Places
<1> DEFINE S == {i \in 0..n : text[i] \in Texts}
<1>10. 0 \in S
  BY Zenon, <1>1, <1>9, Places
<1>11. ASSUME NEW i \in 1..n, i - 1 \in S
       PROVE  i \in S
  <2>1. text[i - 1] \in Texts /\ i \in 0..n
    BY Zenon, <1>1, <1>11, Places
  <2>2. text[i] = FoldAt(text[i - 1], s, i)
    BY Zenon, <1>9
  <2>3. FoldAt(text[i - 1], s, i) \in Texts
    BY Zenon, <1>3, <2>1
  <2> QED
    BY Zenon, <2>1, <2>2, <2>3
<1>12. \A i \in 0..n : i \in S
  <2> HIDE DEF S
  <2> QED
    BY Zenon, <1>1, <1>10, <1>11, Places, Upward
<1> DEFINE T == {i \in 0..n : \A j \in 0..i : Continues(text[i].output, text[j].output)}
<1>13. \A x \in Texts : Continues(x.output, x.output)
  BY DEF Continues, Texts, Bytes
<1>14. 0 \in T
  <2>1. \A j \in 0..0 : j = 0
    OBVIOUS
  <2>2. \A j \in 0..0 : Continues(text[0].output, text[j].output)
    BY Zenon, <1>1, <1>9, <1>13, <2>1
  <2> QED
    BY Zenon, <1>1, <2>2, Places
<1>15. \A x, y, z \in Texts : Continues(z.output, y.output) /\ Continues(y.output, x.output)
                               => Continues(z.output, x.output)
  BY DEF Continues, Texts, Bytes
<1>16. ASSUME NEW i \in 1..n, i - 1 \in T
       PROVE  i \in T
  <2>1. i \in 0..n /\ i - 1 \in 0..n /\ \A j \in 0..i : j \in 0..n /\ (j = i \/ j \in 0..(i - 1))
    BY <1>1
  <2>2. text[i] \in Texts /\ text[i - 1] \in Texts /\ Continues(text[i].output, text[i - 1].output)
    BY Zenon, <1>4, <1>9, <1>12, <2>1
  <2>3. ASSUME NEW j \in 0..i
        PROVE  Continues(text[i].output, text[j].output)
    <3>1. CASE j = i
      BY Zenon, <1>13, <2>2, <3>1
    <3>2. CASE j \in 0..(i - 1)
      <4>1. text[j] \in Texts /\ Continues(text[i - 1].output, text[j].output)
        BY Zenon, <1>12, <1>16, <2>1, <3>2
      <4> QED
        BY Zenon, <1>15, <2>2, <4>1
    <3> QED
      BY Zenon, <2>1, <3>1, <3>2
  <2> QED
    BY Zenon, <2>1, <2>3
<1>17. n \in T
  <2> HIDE DEF T
  <2> QED
    BY Zenon, <1>1, <1>14, <1>16, Places, Upward
<1>18. \A i \in 0..n : Continues(text[n].output, text[i].output)
  BY Zenon, <1>17
<1>19. \A i \in 0..n : text[i] \in Texts
  BY Zenon, <1>12
<1> QED
  BY Zenon, <1>2, <1>9, <1>18, <1>19 DEF IsTextLoop, n

-----------------------------------------------------------------------------
(* Harmless text, and its valid prefixes *)

IsCut(t, s) ==
  t \in Bytes /\ Valid(t) /\ Len(t) <= Len(s) /\ \A i \in 1..Len(t) : t[i] = s[i]

\* A valid prefix has the runes of the text.
LEMMA CutAgrees ==
  ASSUME NEW s \in Bytes, NEW t, IsCut(t, s), NEW i \in 1..Len(t)
  PROVE  /\ i \in 1..Len(s) /\ t[i] = s[i]
         /\ i \in Starts(t) <=> i \in Starts(s)
         /\ RuneAt(t, i) = RuneAt(s, i)
         /\ IsEncodedAt(t, i) => IsEncodedAt(s, i)
<1>1. Len(s) \in Nat /\ Len(t) \in Nat /\ DOMAIN t = 1..Len(t) /\ DOMAIN s = 1..Len(s) /\ t \in Bytes
  BY DEF IsCut, Bytes
<1>2. i \in 1..Len(s) /\ \A j \in 1..Len(t) : t[j] = s[j]
  BY <1>1 DEF IsCut
<1>3. t[i] = s[i] /\ (i > 1 => t[i - 1] = s[i - 1]) /\ (i < Len(t) => t[i + 1] = s[i + 1] /\ i < Len(s))
  <2>1. i > 1 => i - 1 \in 1..Len(t)
    BY <1>1
  <2>2. i < Len(t) => i + 1 \in 1..Len(t) /\ i < Len(s)
    BY <1>1 DEF IsCut
  <2> QED
    BY Zenon, <1>2, <2>1, <2>2
<1>4. i \in Starts(t) <=> i \in Starts(s)
  BY Zenon, <1>1, <1>2, <1>3 DEF Starts, IsInside
<1>5. IsWhole(t, i)
  BY Zenon, <1>1 DEF IsCut, Valid, IsInvalid
<1>6. RuneAt(t, i) = RuneAt(s, i)
  BY Zenon, <1>3, <1>5 DEF RuneAt, IsWhole
<1>7. ASSUME IsEncodedAt(t, i) PROVE IsEncodedAt(s, i)
  <2>1. /\ i + 1 \in 1..Len(t) /\ i + 2 \in 1..Len(t) /\ i + 2 <= Len(s)
    BY <1>1, <1>7 DEF IsEncodedAt, IsCut
  <2> QED
    BY Zenon, <1>2, <1>3, <1>7, <2>1 DEF IsEncodedAt
<1> QED
  BY Zenon, <1>2, <1>4, <1>6, <1>7

\* So its normalised text is a prefix of the text's.
LEMMA CutText ==
  ASSUME NEW s \in Bytes, NEW t, IsCut(t, s)
  PROVE  Continues(NormalizedText(s), NormalizedText(t))
<1>1. t \in Bytes /\ Len(t) \in Nat /\ Len(s) \in Nat
  BY DEF IsCut, Bytes
<1>2. PICK whole : IsTextLoop(whole, s)
  BY Zenon, TextLoop
<1>3. PICK part : IsTextLoop(part, t)
  BY Zenon, <1>1, TextLoop
<1> DEFINE S == {i \in 0..Len(t) : part[i] = whole[i]}
<1>4. 0 \in S
  BY Zenon, <1>1, <1>2, <1>3, Places DEF IsTextLoop
<1>5. ASSUME NEW i \in 1..Len(t), i - 1 \in S
      PROVE  i \in S
  <2>1. i \in 0..Len(t) /\ part[i - 1] = whole[i - 1]
    BY Zenon, <1>1, <1>5, Places
  <2>2. /\ i \in 1..Len(s)
        /\ i \in Starts(t) <=> i \in Starts(s)
        /\ RuneAt(t, i) = RuneAt(s, i)
    BY Zenon, CutAgrees
  <2>3. part[i] = FoldAt(part[i - 1], t, i) /\ whole[i] = FoldAt(whole[i - 1], s, i)
    BY Zenon, <1>2, <1>3, <2>2 DEF IsTextLoop
  <2>4. FoldAt(part[i - 1], t, i) = FoldAt(whole[i - 1], s, i)
    BY Zenon, <2>1, <2>2 DEF FoldAt
  <2> QED
    BY Zenon, <2>1, <2>3, <2>4
<1>6. part[Len(t)] = whole[Len(t)]
  <2>1. Len(t) \in S
    <3> HIDE DEF S
    <3> QED
      BY Zenon, <1>1, <1>4, <1>5, Places, Upward
  <2> QED
    BY Zenon, <2>1
<1>7. Len(t) \in 0..Len(s)
  BY <1>1 DEF IsCut
<1> QED
  BY Zenon, <1>2, <1>3, <1>6, <1>7 DEF IsTextLoop

\* What a text contains, its continuations contain.
LEMMA ContainsInContinued ==
  ASSUME NEW a \in Bytes, NEW b \in Bytes, NEW p \in Bytes, Continues(b, a), ContainsSeq(a, p)
  PROVE  ContainsSeq(b, p)
<1>1. PICK i \in 0..(Len(a) - Len(p)) : SubSeq(a, i + 1, i + Len(p)) = p
  BY Zenon DEF ContainsSeq
<1>2. Len(a) \in Nat /\ Len(b) \in Nat /\ Len(p) \in Nat /\ Len(a) <= Len(b)
  BY DEF Continues, Bytes
<1>3. i \in 0..(Len(b) - Len(p)) /\ i \in Nat /\ i + Len(p) <= Len(a)
  BY <1>2
<1> DEFINE x == SubSeq(a, i + 1, i + Len(p))
           y == SubSeq(b, i + 1, i + Len(p))
<1>4. /\ x \in Bytes /\ y \in Bytes /\ Len(x) = Len(p) /\ Len(y) = Len(p)
      /\ \A j \in 1..Len(p) : x[j] = a[i + j]
      /\ \A j \in 1..Len(p) : y[j] = b[i + j]
  BY <1>2, <1>3 DEF Bytes
<1>5. \A j \in 1..Len(p) : i + j \in 1..Len(a)
  BY <1>2, <1>3
<1>6. \A j \in 1..Len(p) : x[j] = y[j]
  BY Zenon, <1>4, <1>5 DEF Continues
<1> HIDE DEF x, y
<1>7. x = y
  BY <1>4, <1>6 DEF Bytes
<1> QED
  BY Zenon, <1>1, <1>3, <1>7 DEF ContainsSeq, x, y

\* What the inspections leave to a text is harmless by the definitions.
AreRules(rules) ==
  /\ rules.encodedTokenMinimum \in Nat \ {0} /\ rules.repeatedCharacterLimit \in Nat
  /\ rules.maximumStringBytes \in Nat
  /\ \A k \in DOMAIN rules.patterns : rules.patterns[k] \in Bytes

\* What inspectString lets pass is plain, and what inspectTaintedString lets pass is
\* not encoded.
LEMMA InspectedIsHarmless ==
  ASSUME NEW s \in Bytes, NEW path, NEW rules, AreRules(rules)
  PROVE  /\ InspectString(s, path, rules) = {} => Plain(s, rules)
         /\ InspectTaintedString(s, path, rules) = {} => Unencoded(s, rules)
<1>1. ASSUME InspectString(s, path, rules) = {} PROVE Plain(s, rules)
  <2>1. ~ContainsTerminalOrControl(s) /\ ~(Len(s) > rules.maximumStringBytes)
    BY Zenon, <1>1 DEF InspectString
  <2>2. {k \in DOMAIN rules.patterns :
           ContainsSeq(NormalizedText(s), NormalizedText(rules.patterns[k]))} = {}
    BY Zenon, <1>1 DEF InspectString
  <2>3. Len(s) <= rules.maximumStringBytes
    BY <2>1 DEF AreRules, Bytes
  <2>4. \A i \in Starts(s) : IsControl(RuneAt(s, i)) => s[i] \in Whitespace
    BY Zenon, <2>1 DEF ContainsTerminalOrControl
  <2>5. \A k \in DOMAIN rules.patterns :
          ~ContainsSeq(NormalizedText(s), NormalizedText(rules.patterns[k]))
    BY Zenon, <2>2
  <2> QED
    BY Zenon, <2>3, <2>4, <2>5 DEF Plain
<1>2. ASSUME InspectTaintedString(s, path, rules) = {} PROVE Unencoded(s, rules)
  <2>1. /\ ~ContainsEncodedToken(s, rules.encodedTokenMinimum)
        /\ ~HasAbnormalRepetition(s, rules.repeatedCharacterLimit)
    BY Zenon, <1>2 DEF InspectTaintedString
  <2> QED
    BY Zenon, <2>1, RunsAreFound, EncodedRunsAreFound, RepetitionsAreFound DEF AreRules, Unencoded
<1> QED
  BY Zenon, <1>1, <1>2

\* What the library calls the maximum is one.
LEMMA MaxIs ==
  ASSUME NEW n \in Nat, NEW T, T \subseteq 0..n, T # {}
  PROVE  Max(T) \in T /\ \A k \in T : k <= Max(T)
<1> DEFINE U == {n - k : k \in T}
<1>1. \A k \in T : k \in 0..n /\ n - k \in Nat
  <2>1. \A k \in 0..n : n - k \in Nat
    OBVIOUS
  <2> QED
    BY Zenon, <2>1
<1>2. U \subseteq Nat /\ U # {}
  BY Zenon, <1>1
<1>3. PICK x \in U : \A y \in U : x <= y
  <2> HIDE DEF U
  <2> QED
    BY Zenon, <1>2, Smallest
<1>4. PICK m \in T : x = n - m
  BY Zenon
<1>5. \A k \in T : n - m <= n - k
  BY Zenon, <1>3, <1>4
<1>6. \A k \in T : m >= k
  BY <1>1, <1>5
<1>7. Max(T) \in T /\ \A k \in T : Max(T) >= k
  BY Zenon, <1>6 DEF Max
<1> QED
  BY <1>1, <1>7

\* A valid prefix of what is not JSON does not look like JSON either.
LEMMA CutIsText ==
  ASSUME NEW s \in Bytes, NEW t, IsCut(t, s), ~LooksLikeJSON(s)
  PROVE  ~LooksLikeJSON(t)
<1> DEFINE Shown(x) == {i \in DOMAIN x : x[i] \notin Whitespace}
<1>1. /\ t \in Bytes /\ Len(t) \in Nat /\ Len(s) \in Nat /\ Len(t) <= Len(s)
      /\ DOMAIN t = 1..Len(t) /\ DOMAIN s = 1..Len(s)
      /\ \A i \in 1..Len(t) : t[i] = s[i]
  BY DEF IsCut, Bytes
<1>2. CASE Shown(t) = {}
  <2>1. TrimSpace(t) = <<>>
    BY Zenon, <1>2 DEF TrimSpace
  <2> QED
    BY Zenon, <2>1 DEF LooksLikeJSON
<1>3. CASE Shown(t) # {}
  <2>1. \A i \in 1..Len(t) : i \in 1..Len(s)
    BY <1>1
  <2>2. Shown(t) \subseteq Shown(s) /\ \A i \in Shown(s) : i \in 1..Len(t) => i \in Shown(t)
    BY Zenon, <1>1, <2>1
  <2>3. Shown(t) \subseteq 1..Len(t) /\ Shown(s) \subseteq 1..Len(s) /\ Shown(s) # {}
    BY Zenon, <1>1, <1>3, <2>2
  <2>4. ASSUME NEW x \in Bytes, Shown(x) # {}, Shown(x) \subseteq 1..Len(x)
        PROVE  /\ Min(Shown(x)) \in Shown(x) /\ \A k \in Shown(x) : Min(Shown(x)) <= k
               /\ TrimSpace(x) # <<>> /\ TrimSpace(x)[1] = x[Min(Shown(x))]
    <3> DEFINE K == Shown(x)
               a == Min(K)
               b == Max(K)
    <3>1. TrimSpace(x) = SubSeq(x, a, b)
      BY Zenon, <2>4 DEF TrimSpace
    <3> HIDE DEF Shown
    <3>2. Len(x) \in Nat /\ K \subseteq Nat /\ K \subseteq 0..Len(x) /\ K # {}
      BY <2>4 DEF Bytes
    <3>3. K \subseteq 1..Len(x)
      BY Zenon, <2>4
    <3> HIDE DEF K
    <3>4. a \in K /\ (\A k \in K : a <= k) /\ b \in K
      BY Zenon, <3>2, MinIs, MaxIs
    <3>5. a \in 1..Len(x) /\ b \in 1..Len(x) /\ a <= b
      BY Zenon, <3>3, <3>4
    <3> HIDE DEF a, b
    <3>6. SubSeq(x, a, b) # <<>> /\ SubSeq(x, a, b)[1] = x[a]
      BY <3>5 DEF Bytes
    <3> QED
      BY Zenon, <3>1, <3>4, <3>6 DEF a, K
  <2> DEFINE m == Min(Shown(t))
             n == Min(Shown(s))
  <2>5. /\ m \in Shown(t) /\ (\A k \in Shown(t) : m <= k) /\ TrimSpace(t)[1] = t[m]
        /\ n \in Shown(s) /\ (\A k \in Shown(s) : n <= k)
        /\ TrimSpace(s) # <<>> /\ TrimSpace(s)[1] = s[n]
    BY Zenon, <1>1, <1>3, <2>3, <2>4
  <2> HIDE DEF Shown, m, n
  <2>6. m \in 1..Len(t) /\ n \in 1..Len(s) /\ n <= m
    BY Zenon, <2>2, <2>3, <2>5
  <2>7. n \in 1..Len(t)
    BY <1>1, <2>6
  <2>8. m <= n
    BY Zenon, <2>2, <2>5, <2>7
  <2>9. m = n
    BY <1>1, <2>6, <2>8
  <2>10. t[m] = s[m]
    BY Zenon, <1>1, <2>6
  <2> QED
    BY Zenon, <2>5, <2>9, <2>10 DEF LooksLikeJSON
<1> QED
  BY Zenon, <1>2, <1>3

\* Truncation, which comes after the inspection, keeps a text harmless.
LEMMA CutIsHarmless ==
  ASSUME NEW s \in Bytes, NEW t, IsCut(t, s), NEW rules, AreRules(rules), HarmlessText(s, rules)
  PROVE  HarmlessText(t, rules)
<1>1. /\ t \in Bytes /\ Len(t) \in Nat /\ Len(s) \in Nat /\ Len(t) <= Len(s)
      /\ DOMAIN t = 1..Len(t) /\ DOMAIN s = 1..Len(s)
      /\ \A i \in 1..Len(t) : t[i] = s[i]
  BY DEF IsCut, Bytes
<1>2. ASSUME NEW i \in Starts(t) PROVE IsControl(RuneAt(t, i)) => t[i] \in Whitespace
  <2>1. i \in 1..Len(t)
    BY Zenon, <1>1 DEF Starts
  <2> QED
    BY Zenon, <1>2, <2>1, CutAgrees DEF HarmlessText, Plain
<1>3. \A n \in Nat : RunOf(Base64, n, t) => RunOf(Base64, n, s)
  <2> SUFFICES ASSUME NEW n \in Nat, NEW i \in 1..(Len(t) - n + 1),
                      \A j \in i..(i + n - 1) : t[j] \in Base64
               PROVE  RunOf(Base64, n, s)
    BY Zenon DEF RunOf
  <2>1. i \in 1..(Len(s) - n + 1) /\ \A j \in i..(i + n - 1) : j \in 1..Len(t)
    BY <1>1
  <2> QED
    BY Zenon, <1>1, <2>1 DEF RunOf
<1>4. \A n \in Nat : EncodedRun(n, t) => EncodedRun(n, s)
  <2> SUFFICES ASSUME NEW n \in Nat, NEW i \in 1..(Len(t) - 3 * n + 1),
                      \A k \in 0..(n - 1) : IsEncodedAt(t, i + 3 * k)
               PROVE  EncodedRun(n, s)
    BY Zenon DEF EncodedRun
  <2>1. i \in 1..(Len(s) - 3 * n + 1) /\ \A k \in 0..(n - 1) : i + 3 * k \in 1..Len(t)
    BY <1>1
  <2>2. ASSUME NEW k \in 0..(n - 1) PROVE IsEncodedAt(s, i + 3 * k)
    <3> DEFINE m == i + 3 * k
    <3>1. m \in 1..Len(t) /\ IsEncodedAt(t, m)
      BY Zenon, <2>1
    <3> HIDE DEF m
    <3>2. IsEncodedAt(s, m)
      BY Zenon, <3>1, CutAgrees
    <3> QED
      BY Zenon, <3>2 DEF m
  <2> QED
    BY Zenon, <2>1, <2>2 DEF EncodedRun
<1>5. \A n \in Nat \ {0} : Repeats(n, t) => Repeats(n, s)
  <2> SUFFICES ASSUME NEW n \in Nat \ {0}, NEW i \in Starts(t), RepeatsAt(t, i, n, Len(RuneAt(t, i)))
               PROVE  Repeats(n, s)
    BY Zenon DEF Repeats
  <2> DEFINE w == Len(RuneAt(t, i))
  <2>1. i \in 1..Len(t)
    BY Zenon, <1>1 DEF Starts
  <2>2. i \in Starts(s) /\ RuneAt(t, i) = RuneAt(s, i) /\ w \in {1, 2}
    BY Zenon, <1>1, <2>1, CutAgrees, RuneAtIs
  <2>3. i + n * w <= Len(t) + 1 /\ EndOfText(s) = Len(s) + 1
    BY Zenon DEF EndOfText, RepeatsAt
  <2> HIDE DEF w
  <2>4. \A k \in 0..(n - 1) : i + k * w \in 1..Len(t)
    <3>1. CASE w = 1
      BY <1>1, <2>1, <2>3, <3>1
    <3>2. CASE w = 2
      BY <1>1, <2>1, <2>3, <3>2
    <3> QED
      BY Zenon, <2>2, <3>1, <3>2
  <2>5. i + n * w <= EndOfText(s)
    <3>1. CASE w = 1
      BY <1>1, <2>1, <2>3, <3>1
    <3>2. CASE w = 2
      BY <1>1, <2>1, <2>3, <3>2
    <3> QED
      BY Zenon, <2>2, <3>1, <3>2
  <2>6. ASSUME NEW k \in 0..(n - 1) PROVE RuneAt(s, i + k * w) = RuneAt(s, i)
    <3> DEFINE m == i + k * w
    <3>1. RuneAt(t, m) = RuneAt(t, i) /\ m \in 1..Len(t)
      BY Zenon, <2>4 DEF w, RepeatsAt
    <3> HIDE DEF m
    <3>2. RuneAt(s, m) = RuneAt(s, i)
      BY Zenon, <2>2, <3>1, CutAgrees
    <3> QED
      BY Zenon, <3>2 DEF m
  <2>7. RepeatsAt(s, i, n, w)
    BY Zenon, <2>5, <2>6 DEF RepeatsAt
  <2> QED
    BY Zenon, <2>2, <2>7 DEF Repeats, w
<1>6. ASSUME NEW k \in DOMAIN rules.patterns
      PROVE  ~ContainsSeq(NormalizedText(t), NormalizedText(rules.patterns[k]))
  <2>1. \A x \in Bytes : NormalizedText(x) \in Bytes
    <3> SUFFICES ASSUME NEW x \in Bytes PROVE NormalizedText(x) \in Bytes
      BY Zenon
    <3>1. PICK text : IsTextLoop(text, x)
      BY Zenon, TextLoop
    <3>2. Len(x) \in 0..Len(x)
      BY DEF Bytes
    <3> QED
      BY Zenon, <3>1, <3>2 DEF IsTextLoop, Texts
  <2>2. ~ContainsSeq(NormalizedText(s), NormalizedText(rules.patterns[k]))
    BY Zenon DEF HarmlessText, Plain
  <2> QED
    BY Zenon, <1>1, <2>1, <2>2, CutText, ContainsInContinued DEF AreRules
<1>7. /\ rules.encodedTokenMinimum \in Nat /\ rules.repeatedCharacterLimit \in Nat
      /\ (rules.encodedTokenMinimum + 2) \div 3 \in Nat
      /\ rules.repeatedCharacterLimit + 1 \in Nat \ {0}
  <2>1. \A n \in Nat : (n + 2) \div 3 \in Nat /\ n + 1 \in Nat \ {0}
    OBVIOUS
  <2> QED
    BY Zenon, <2>1 DEF AreRules
<1>8. Len(t) <= rules.maximumStringBytes
  BY <1>1 DEF HarmlessText, Plain, AreRules
<1>9. Plain(t, rules)
  BY Zenon, <1>2, <1>6, <1>8 DEF Plain
<1>10. Unencoded(t, rules)
  BY Zenon, <1>3, <1>4, <1>5, <1>7 DEF HarmlessText, Unencoded
<1> QED
  BY Zenon, <1>9, <1>10 DEF HarmlessText

\* The longest valid prefix of a valid text (truncateUTF8).
LEMMA TruncatedIsCut ==
  ASSUME NEW s \in Bytes, Valid(s), NEW limit \in Nat, limit >= 2, Len(s) > limit
  PROVE  /\ IsCut(TruncateUTF8(s, limit), s)
         /\ TruncateUTF8(s, limit) # <<>>
         /\ Len(TruncateUTF8(s, limit)) <= limit
<1> DEFINE Part(n) == SubSeq(s, 1, n)
           T == {n \in 0..limit : Valid(Part(n))}
<1>1. Len(s) \in Nat /\ DOMAIN s = 1..Len(s) /\ \A n \in 0..limit : n <= Len(s)
  BY DEF Bytes
<1>2. \A n \in 0..limit : /\ Part(n) \in Bytes /\ Len(Part(n)) = n
                          /\ \A i \in 1..n : Part(n)[i] = s[i]
  BY <1>1 DEF Bytes
<1>3. T \subseteq 0..limit
  BY Zenon
<1> HIDE DEF Part
<1>4. 1 \in T \/ 2 \in T
  <2>1. 1 \in 0..limit /\ 2 \in 0..limit /\ 1 \in DOMAIN s /\ 2 \in DOMAIN s
    BY <1>1
  <2>2. DOMAIN Part(1) = 1..1 /\ DOMAIN Part(2) = 1..2 /\ Len(Part(1)) = 1 /\ Len(Part(2)) = 2
    <3>1. \A x \in Bytes : DOMAIN x = 1..Len(x)
      BY DEF Bytes
    <3> QED
      BY Zenon, <1>2, <2>1, <3>1
  <2>3. Part(1)[1] = s[1] /\ Part(2)[1] = s[1] /\ Part(2)[2] = s[2]
    BY <1>2, <2>1
  <2>4. s[1] # "X" /\ s[1] # "c" /\ (s[1] \in Leads => s[2] = "c")
    <3> DEFINE i == 1
    <3>1. ~IsInvalid(s, i) /\ i \in Nat
      BY Zenon, <2>1 DEF Valid
    <3>2. ~(i > 1) /\ i + 1 = 2
      OBVIOUS
    <3> HIDE DEF i
    <3>3. s[i] # "X" /\ s[i] # "c" /\ (s[i] \in Leads => s[2] = "c")
      BY Zenon, <3>1, <3>2 DEF IsInvalid, IsWhole, IsInside
    <3> QED
      BY Zenon, <3>3 DEF i
  <2>5. s[1] \notin Leads => Valid(Part(1))
    BY <2>2, <2>3, <2>4 DEF Valid, IsInvalid, IsWhole, IsInside
  <2>6. s[1] \in Leads => Valid(Part(2))
    BY <2>2, <2>3, <2>4 DEF Valid, IsInvalid, IsWhole, IsInside, Leads
  <2> QED
    BY Zenon, <2>1, <2>5, <2>6
<1>5. Max(T) \in T /\ \A k \in T : k <= Max(T)
  <2> HIDE DEF T
  <2> QED
    BY Zenon, <1>3, <1>4, MaxIs
<1> DEFINE m == Max(T)
           t == Part(m)
<1>6. m \in 0..limit /\ Valid(t) /\ TruncateUTF8(s, limit) = t
  BY Zenon, <1>5 DEF TruncateUTF8, Part
<1>7. m >= 1
  <2>1. m \in Nat /\ (1 <= m \/ 2 <= m)
    BY <1>4, <1>5, <1>6
  <2> HIDE DEF m
  <2> QED
    BY <2>1
<1> HIDE DEF m
<1>8. t \in Bytes /\ Len(t) = m /\ \A i \in 1..m : t[i] = s[i]
  BY Zenon, <1>2, <1>6
<1>9. Len(t) <= Len(s) /\ Len(t) <= limit /\ Len(t) # 0
  BY <1>1, <1>6, <1>7, <1>8
<1>10. t # <<>>
  BY <1>9
<1> QED
  BY Zenon, <1>6, <1>8, <1>9, <1>10 DEF IsCut

\* The text of a string is a text of bytes.
LEMMA TextIsBytes ==
  ASSUME NEW s \in Seq(STRING)
  PROVE  s \in Bytes
<1>1. \A S, T : (\A x \in S : x \in T) => \A t \in Seq(S) : t \in Seq(T)
  OBVIOUS
<1> QED
  BY Zenon, <1>1 DEF Bytes, Byte

\* What a leaf holds that is not rejected is plain, and not encoded in a field of
\* free text (inspectString and inspectTaintedString).
LEMMA LeafIsHarmless ==
  ASSUME NEW leaf, leaf.value \in Bytes, NEW rules, AreRules(rules),
         ~InspectLeaf(leaf, rules).quarantine
  PROVE  /\ Plain(leaf.value, rules)
         /\ leaf.field \in rules.freeText => Unencoded(leaf.value, rules)
<1> DEFINE isTainted == leaf.field \in rules.freeText
           plain == InspectString(leaf.value, leaf.path, rules)
           tainted == IF isTainted THEN InspectTaintedString(leaf.value, leaf.path, rules) ELSE {}
           rejections == FirstOf(plain, tainted)
<1>1. InspectLeaf(leaf, rules) = LeafReport(leaf.path, isTainted, rejections)
  BY Zenon DEF InspectLeaf
<1>2. rejections = {}
  <2> HIDE DEF rejections, isTainted
  <2>1. LeafReport(leaf.path, isTainted, rejections).quarantine = (rejections # {})
    BY Zenon DEF LeafReport
  <2> QED
    BY Zenon, <1>1, <2>1
<1>3. plain = {} /\ tainted = {}
  BY Zenon, <1>2 DEF FirstOf
<1> QED
  BY Zenon, <1>3, InspectedIsHarmless

\* The calls of inspectJSONValue at each depth.
LEMMA CallsLoop ==
  ASSUME NEW v
  PROVE  /\ CallsAt(v)[0] = {Call(<<>>, "", v)}
         /\ \A n \in 1..DecoderDepth : CallsAt(v)[n] = UNION {Calls(x) : x \in CallsAt(v)[n - 1]}
<1> DEFINE N == DecoderDepth
           first == {Call(<<>>, "", v)}
           After(S) == UNION {Calls(x) : x \in S}
           IsLoop(f, m) ==
             f = [i \in 0..m |-> IF i = 0 THEN first ELSE After(f[i - 1])]
           calls[n \in 0..N] == IF n = 0 THEN first ELSE After(calls[n - 1])
           S == {m \in 0..N : \E f : IsLoop(f, m)}
<1>1. N \in Nat /\ CallsAt(v) = calls
  BY Zenon, DecoderAssumption DEF CallsAt
<1> HIDE DEF N, first, After
<1>2. 0 \in S
  <2>1. IsLoop([i \in 0..0 |-> first], 0)
    OBVIOUS
  <2> HIDE DEF IsLoop
  <2> QED
    BY Zenon, <1>1, <2>1, Places
<1>3. ASSUME NEW m \in 1..N, m - 1 \in S
      PROVE  m \in S
  <2>1. PICK f : IsLoop(f, m - 1)
    BY Zenon, <1>3
  <2> DEFINE g == [i \in 0..m |-> IF i = m THEN After(f[m - 1]) ELSE f[i]]
  <2>2. /\ m \in 0..N /\ m # 0 /\ m \in 0..m /\ m - 1 \in 0..(m - 1)
        /\ \A i \in 0..(m - 1) : i \in 0..m /\ i # m
        /\ \A i \in 0..m : i = m \/ i \in 0..(m - 1)
        /\ \A i \in 0..(m - 1) : i # 0 => i - 1 \in 0..(m - 1)
    BY <1>1
  <2>3. \A i \in 0..(m - 1) : g[i] = f[i]
    BY Zenon, <2>2
  <2>4. g[m] = After(g[m - 1])
    BY Zenon, <2>2, <2>3
  <2> HIDE DEF g
  <2>5. \A i \in 0..(m - 1) : g[i] = IF i = 0 THEN first ELSE After(g[i - 1])
    BY Zenon, <2>1, <2>2, <2>3
  <2>6. \A i \in 0..m : g[i] = IF i = 0 THEN first ELSE After(g[i - 1])
    BY Zenon, <2>2, <2>4, <2>5
  <2>7. IsLoop(g, m)
    BY Zenon, <2>6 DEF g
  <2> HIDE DEF IsLoop
  <2> QED
    BY Zenon, <2>2, <2>7
<1>4. N \in S
  <2> HIDE DEF S
  <2> QED
    BY Zenon, <1>1, <1>2, <1>3, Places, Upward
<1>5. calls = [n \in 0..N |-> IF n = 0 THEN first ELSE After(calls[n - 1])]
  BY Zenon, <1>4
<1> HIDE DEF calls
<1>6. calls[0] = first /\ \A n \in 1..N : calls[n] = After(calls[n - 1])
  BY Zenon, <1>1, <1>5, Places
<1> QED
  BY Zenon, <1>1, <1>6 DEF N, first, After

\* Every part of a document at every depth is visited (inspectJSONValue).
LEMMA AllPartsAreVisited ==
  ASSUME NEW v \in Documents
  PROVE  HasAllParts(PartsOf(v), v)
<1>1. DecoderDepth \in Nat /\ \A x \in CallsAt(v)[DecoderDepth] : Calls(x) = {}
  BY Zenon, DecoderAssumption
<1>2. <<"", v>> \in PartsOf(v)
  <2> DEFINE x == Call(<<>>, "", v)
  <2>1. x \in Visited(v)
    BY Zenon, <1>1, CallsLoop, Places DEF Visited
  <2>2. x.field = "" /\ x.value = v
    BY Zenon DEF Call
  <2> HIDE DEF x
  <2> QED
    BY Zenon, <2>1, <2>2 DEF PartsOf
<1>3. ASSUME NEW y \in Visited(v) PROVE Calls(y) \subseteq Visited(v)
  <2>1. PICK n \in 0..DecoderDepth : y \in CallsAt(v)[n]
    BY Zenon DEF Visited
  <2>2. CASE n = DecoderDepth
    BY Zenon, <1>1, <2>1, <2>2
  <2>3. CASE n # DecoderDepth
    <3> DEFINE k == n + 1
    <3>1. k \in 1..DecoderDepth /\ k \in 0..DecoderDepth /\ k - 1 = n
      BY <1>1, <2>3
    <3> HIDE DEF k
    <3>2. CallsAt(v)[k] = UNION {Calls(x) : x \in CallsAt(v)[n]}
      BY Zenon, <3>1, CallsLoop
    <3> QED
      BY Zenon, <2>1, <3>1, <3>2 DEF Visited
  <2> QED
    BY Zenon, <2>2, <2>3
<1>4. ASSUME NEW y \in Visited(v) PROVE Held(<<y.field, y.value>>) \subseteq PartsOf(v)
  <2>1. ASSUME NEW z \in Calls(y) PROVE <<z.field, z.value>> \in PartsOf(v)
    BY Zenon, <1>3, <2>1 DEF PartsOf
  <2>2. CASE Has(y.value, "array")
    <3> SUFFICES ASSUME NEW i \in DOMAIN y.value.array
                 PROVE  <<y.field, y.value.array[i]>> \in PartsOf(v)
      BY Zenon, <2>2 DEF Held, Range
    <3> DEFINE z == Call(Append(y.path, ToString(i - 1)), y.field, y.value.array[i])
    <3>1. z \in Calls(y)
      BY Zenon, <2>2 DEF Calls
    <3>2. z.field = y.field /\ z.value = y.value.array[i]
      BY DEF Call
    <3> HIDE DEF z
    <3> QED
      BY Zenon, <2>1, <3>1, <3>2
  <2>3. CASE ~Has(y.value, "array") /\ Has(y.value, "object")
    <3> SUFFICES ASSUME NEW f \in Range(y.value.object)
                 PROVE  <<f[1], f[2]>> \in PartsOf(v)
      BY Zenon, <2>3 DEF Held
    <3> DEFINE z == Call(Append(y.path, f[1]), f[1], f[2])
    <3>1. z \in Calls(y)
      BY Zenon, <2>3 DEF Calls, FieldsOf
    <3>2. z.field = f[1] /\ z.value = f[2]
      BY DEF Call
    <3> HIDE DEF z
    <3> QED
      BY Zenon, <2>1, <3>1, <3>2
  <2>4. CASE ~Has(y.value, "array") /\ ~Has(y.value, "object")
    BY Zenon, <2>4 DEF Held
  <2> QED
    BY Zenon, <2>2, <2>3, <2>4
<1> QED
  BY Zenon, <1>2, <1>4 DEF HasAllParts, PartsOf

\* So a document that is not quarantined is harmless in all its strings.
LEMMA ValueIsHarmless ==
  ASSUME NEW v \in Documents, NEW rules, AreRules(rules), ~InspectValue(v, rules).quarantine
  PROVE  HarmlessValue(v, rules)
<1> SUFFICES ASSUME NEW x \in Visited(v) PROVE HarmlessPart(<<x.field, x.value>>, rules)
  BY Zenon, AllPartsAreVisited DEF HarmlessValue, PartsOf
<1> SUFFICES ASSUME Has(x.value, "string")
             PROVE  /\ Plain(x.value.string, rules)
                    /\ x.field \in rules.freeText => Unencoded(x.value.string, rules)
  BY DEF HarmlessPart
<1> DEFINE leaf == [path |-> x.path, field |-> x.field, value |-> x.value.string]
           reports == {InspectLeaf(l, rules) : l \in StringsOf(v)}
<1>1. leaf \in StringsOf(v)
  BY Zenon DEF StringsOf
<1>2. leaf.field = x.field /\ leaf.value = x.value.string /\ x.value.string \in Bytes
  BY Zenon, DecoderAssumption, TextIsBytes
<1>3. InspectValue(v, rules).quarantine = (\E r \in reports : r.quarantine)
  <2>1. InspectValue(v, rules) = Merged(reports)
    BY Zenon DEF InspectValue
  <2> HIDE DEF reports
  <2>2. Merged(reports).quarantine = (\E r \in reports : r.quarantine)
    BY Zenon DEF Merged
  <2> QED
    BY Zenon, <2>1, <2>2
<1> HIDE DEF leaf
<1>4. ~InspectLeaf(leaf, rules).quarantine
  BY Zenon, <1>1, <1>3
<1> QED
  BY Zenon, <1>2, <1>4, LeafIsHarmless

\* A payload that is not quarantined is harmless (inspectPayload).
LEMMA KeptIsHarmless ==
  ASSUME NEW s \in Bytes, NEW rules \in Rules, AreRules(rules),
         ~InspectPayload(s, rules).quarantine
  PROVE  Harmless(s, rules)
<1>1. CASE ~LooksLikeJSON(s)
  <2> DEFINE free == [rules EXCEPT !.freeText = {"$"}]
             leaf == [path |-> <<>>, field |-> "$", value |-> s]
  <2>1. /\ free.freeText = {"$"} /\ free.patterns = rules.patterns
        /\ free.maximumStringBytes = rules.maximumStringBytes
        /\ free.encodedTokenMinimum = rules.encodedTokenMinimum
        /\ free.repeatedCharacterLimit = rules.repeatedCharacterLimit
    BY DEF Rules
  <2>2. InspectPayload(s, rules) = InspectLeaf(leaf, free)
    BY Zenon, <1>1 DEF InspectPayload
  <2>3. leaf.field = "$" /\ leaf.value = s
    BY Zenon
  <2> HIDE DEF leaf, free
  <2>4. AreRules(free)
    BY Zenon, <2>1 DEF AreRules
  <2>5. Plain(s, free) /\ Unencoded(s, free)
    BY Zenon, <2>1, <2>2, <2>3, <2>4, LeafIsHarmless
  <2>6. Plain(s, rules)
    BY Zenon, <2>1, <2>5 DEF Plain
  <2>7. Unencoded(s, rules)
    BY Zenon, <2>1, <2>5 DEF Unencoded
  <2> QED
    BY Zenon, <1>1, <2>6, <2>7 DEF Harmless, HarmlessText
<1>2. CASE LooksLikeJSON(s)
  <2> DEFINE decoded == Decode(s)
             v == CHOOSE w \in decoded : TRUE
  <2>1. \A reason : Rejected(reason).quarantine
    BY Zenon DEF Rejected
  <2>2. ~InspectDecoded(decoded, s, rules).quarantine
    BY Zenon, <1>2, <2>1 DEF InspectPayload
  <2>3. v \in decoded /\ ~InspectValue(v, rules).quarantine
    <3> HIDE DEF decoded
    <3>1. decoded # {}
      BY Zenon, <2>1, <2>2 DEF InspectDecoded
    <3> QED
      BY Zenon, <2>2, <3>1 DEF InspectDecoded
  <2> HIDE DEF v
  <2>4. v \in Documents
    <3>1. PICK d \in Rendered : v = d.value
      BY Zenon, <2>3 DEF Decode
    <3>2. PICK w \in Documents : d = [text |-> Render(w), value |-> w]
      BY Zenon DEF Rendered
    <3> QED
      BY Zenon, <3>1, <3>2
  <2>5. HarmlessValue(v, rules)
    BY Zenon, <2>3, <2>4, ValueIsHarmless
  <2> QED
    BY Zenon, <1>2, <2>3, <2>5 DEF Harmless
<1> QED
  BY Zenon, <1>1, <1>2

-----------------------------------------------------------------------------
(* The updates of a response *)

ElementMessage == [name: STRING, keys: Seq(Seq(STRING))]

\* A path with one interface, named by one key.
IsNamedPath(elements, at) ==
  /\ at.name \in Seq(STRING) /\ at.name # <<>>
  /\ {e.keys : e \in {x \in Range(elements) : x.name = "interface"}} = {<<at.name>>}
  /\ at.leaf = elements[Len(elements)].name

\* A path that interfaceUpdatePath accepts names one interface, by one key.
LEMMA PathIsNamed ==
  ASSUME NEW prefix \in PathMessage, NEW path \in PathMessage, InterfaceUpdatePath(prefix, path).ok
  PROVE  IsNamedPath(prefix.elements \o path.elements, InterfaceUpdatePath(prefix, path))
<1> DEFINE elements == prefix.elements \o path.elements
           named == {i \in DOMAIN elements : elements[i].name = "interface"}
           at == InterfaceUpdatePath(prefix, path)
           isOk == /\ ~path.foreign /\ ~prefix.foreign
                   /\ \E i \in named : /\ named = {i} /\ Len(elements[i].keys) = 1
                                       /\ elements[i].keys[1] # <<>>
                   /\ \A i \in DOMAIN elements \ named : elements[i].keys = <<>>
           name == IF \A i \in named : elements[i].keys = <<>> THEN <<>>
                   ELSE elements[Min(named)].keys[1]
           leaf == IF elements = <<>> THEN "" ELSE elements[Len(elements)].name
<1>1. at = [ok |-> isOk, name |-> name, leaf |-> leaf]
  BY Zenon DEF InterfaceUpdatePath
<1>2. elements \in Seq(ElementMessage)
  BY DEF PathMessage, ElementMessage
<1>3. \A i \in DOMAIN elements : elements[i].keys \in Seq(Seq(STRING)) /\ i \in Nat
  <2> HIDE DEF elements
  <2>1. \A i \in DOMAIN elements : elements[i] \in ElementMessage /\ i \in Nat
    BY <1>2
  <2>2. \A e \in ElementMessage : e.keys \in Seq(Seq(STRING))
    BY DEF ElementMessage
  <2> QED
    BY Zenon, <2>1, <2>2
<1>4. named \subseteq DOMAIN elements /\ named \subseteq Nat
  BY Zenon, <1>3
<1>5. \A i : i \in named <=> i \in DOMAIN elements /\ elements[i].name = "interface"
  BY Zenon
<1> HIDE DEF elements, named
<1>6. at.ok = isOk /\ at.name = name /\ at.leaf = leaf
  <2> HIDE DEF isOk, name, leaf, at
  <2> QED
    BY Zenon, <1>1
<1>7. isOk
  BY Zenon, <1>6
<1>8. PICK k \in named : /\ named = {k} /\ Len(elements[k].keys) = 1 /\ elements[k].keys[1] # <<>>
  BY Zenon, <1>7
<1>9. Min(named) = k
  BY Zenon, <1>4, <1>8, MinIs
<1>10. elements[k].keys # <<>>
  BY <1>8
<1>11. name = elements[k].keys[1]
  BY Zenon, <1>8, <1>9, <1>10
<1>12. elements[k].keys \in Seq(Seq(STRING)) /\ k \in DOMAIN elements
  BY Zenon, <1>3, <1>4
<1>13. elements[k].keys = <<name>> /\ name \in Seq(STRING)
  <2> DEFINE keys == elements[k].keys
  <2>1. keys \in Seq(Seq(STRING)) /\ Len(keys) = 1 /\ name = keys[1]
    BY Zenon, <1>8, <1>11, <1>12
  <2> HIDE DEF keys, name
  <2>2. keys = <<name>> /\ name \in Seq(STRING)
    BY <2>1
  <2> QED
    BY Zenon, <2>2 DEF keys
<1>14. elements # <<>>
  <2>1. elements = <<>> => DOMAIN elements = {}
    BY <1>2
  <2> QED
    BY Zenon, <1>12, <2>1
<1>15. leaf = elements[Len(elements)].name
  BY Zenon, <1>14
<1>16. {x \in Range(elements) : x.name = "interface"} = {elements[k]}
  <2>1. \A x : x \in Range(elements) <=> \E i \in DOMAIN elements : x = elements[i]
    BY Zenon DEF Range
  <2>2. elements[k].name = "interface" /\ k \in DOMAIN elements
    BY Zenon, <1>5
  <2>3. \A i \in DOMAIN elements : elements[i].name = "interface" => i = k
    BY Zenon, <1>5, <1>8
  <2> QED
    BY <2>1, <2>2, <2>3
<1> HIDE DEF name, leaf, at
<1>17. {e.keys : e \in {x \in Range(elements) : x.name = "interface"}} = {<<name>>}
  BY Zenon, <1>13, <1>16
<1> QED
  BY Zenon, <1>6, <1>8, <1>11, <1>13, <1>15, <1>17 DEF IsNamedPath, at, elements

Findings == [name: Seq(STRING), state: {"", "up", "down", "unknown"}, ok: BOOLEAN]

\* What an accepted update says, and what it adds to what was found before.
TakesOn(next, acc, at, value) ==
  next.ok =>
    /\ acc.ok /\ at.ok /\ acc.name \in {<<>>, at.name} /\ next.name = at.name
    /\ \/ at.leaf = "name" /\ value = at.name /\ next.state = acc.state
       \/ /\ at.leaf = "oper-status" /\ acc.state = "" /\ next.state # ""
          /\ next.state = MapOperationalState[value]

\* Every state that is mapped is one of the three of an observation.
LEMMA StatesAreMapped ==
  ASSUME NEW v \in DOMAIN MapOperationalState
  PROVE  MapOperationalState[v] \in {"up", "down", "unknown"}
<1>1. v \in {<<"UP">>, <<"DOWN">>, <<"DORMANT">>, <<"TESTING">>}
  BY Zenon DEF MapOperationalState
<1>2. MapOperationalState[v] = CASE v = <<"UP">> -> "up" [] v \in {<<"DOWN">>, <<"DORMANT">>} -> "down"
                                 [] v = <<"TESTING">> -> "unknown"
  BY Zenon, <1>1 DEF MapOperationalState
<1> QED
  BY Zenon, <1>1, <1>2

\* One step of the loop of extract.
LEMMA UpdateTakesOn ==
  ASSUME NEW n \in NotificationMessage, NEW u \in UpdateMessage, NEW acc \in Findings
  PROVE  /\ ExtractUpdate(acc, n, u) \in Findings
         /\ TakesOn(ExtractUpdate(acc, n, u), acc, InterfaceUpdatePath(n.prefix, u.path), u.value)
<1> DEFINE at == InterfaceUpdatePath(n.prefix, u.path)
           value == ScalarString(u)
           mayState == acc.state = ""
           next == ExtractUpdate(acc, n, u)
           failed == [acc EXCEPT !.ok = FALSE]
<1>1. value.text = u.value /\ value.ok \in BOOLEAN
  BY Zenon DEF ScalarString
<1>2. n.prefix \in PathMessage /\ u.path \in PathMessage
  BY DEF NotificationMessage, UpdateMessage
<1>3. at.ok => at.name \in Seq(STRING)
  BY Zenon, <1>2, PathIsNamed DEF IsNamedPath
<1>4. failed \in Findings /\ ~failed.ok
  BY DEF Findings
<1>5. next = ExtractUpdateAs(acc, n, u, mayState)
  BY Zenon DEF ExtractUpdate
<1> HIDE DEF at, value, failed
<1>6. CASE ~acc.ok \/ ~at.ok \/ acc.name \notin {<<>>, at.name}
  <2>1. next = failed
    BY Zenon, <1>5, <1>6 DEF ExtractUpdateAs, at, failed
  <2> QED
    BY Zenon, <1>4, <2>1 DEF TakesOn
<1>7. CASE acc.ok /\ at.ok /\ acc.name \in {<<>>, at.name}
  <2> DEFINE named == [acc EXCEPT !.name = at.name, !.ok = value.ok /\ value.text = at.name]
             stated == [acc EXCEPT !.name = at.name, !.state = MapOperationalState[value.text]]
  <2>1. CASE at.leaf = "name"
    <3>1. next = named
      BY Zenon, <1>5, <1>7, <2>1 DEF ExtractUpdateAs, at, value
    <3>2. /\ named.name = at.name /\ named.state = acc.state
          /\ named.ok = (value.ok /\ value.text = at.name)
      BY DEF Findings
    <3>3. named \in Findings
      BY Zenon, <1>1, <1>3, <1>7 DEF Findings
    <3> HIDE DEF named
    <3> QED
      BY Zenon, <1>1, <1>7, <2>1, <3>1, <3>2, <3>3 DEF TakesOn, at
  <2>2. CASE at.leaf = "oper-status" /\ mayState /\ value.ok /\ value.text \in DOMAIN MapOperationalState
    <3>1. at.leaf # "name"
      BY <2>2
    <3>2. next = stated
      BY Zenon, <1>5, <1>7, <2>2, <3>1 DEF ExtractUpdateAs, at, value
    <3>3. MapOperationalState[value.text] \in {"up", "down", "unknown"}
      BY Zenon, <2>2, StatesAreMapped
    <3>4. /\ stated.name = at.name /\ stated.state = MapOperationalState[value.text]
          /\ stated.ok = acc.ok
      BY DEF Findings
    <3>5. MapOperationalState[value.text] # ""
      BY <3>3
    <3>6. stated \in Findings
      BY Zenon, <1>3, <1>7, <3>3 DEF Findings
    <3> HIDE DEF stated
    <3> QED
      BY Zenon, <1>1, <1>7, <2>2, <3>2, <3>4, <3>5, <3>6 DEF TakesOn, at
  <2>3. CASE /\ at.leaf # "name"
             /\ ~(at.leaf = "oper-status" /\ mayState /\ value.ok
                  /\ value.text \in DOMAIN MapOperationalState)
    <3>1. next = failed
      BY Zenon, <1>5, <1>7, <2>3 DEF ExtractUpdateAs, at, value, failed
    <3> QED
      BY Zenon, <1>4, <3>1 DEF TakesOn
  <2> QED
    BY Zenon, <2>1, <2>2, <2>3
<1> QED
  BY Zenon, <1>6, <1>7

PathAt(n, i) == InterfaceUpdatePath(n.prefix, n.updates[i].path)
IsUpdatesLoop(found, n) ==
  /\ \A i \in 0..Len(n.updates) : found[i] \in Findings
  /\ found[0] = NoUpdate
  /\ \A i \in 1..Len(n.updates) : TakesOn(found[i], found[i - 1], PathAt(n, i), n.updates[i].value)
  /\ ExtractUpdates(n) = found[Len(n.updates)]

\* What the loop of extract has found after each update.
LEMMA UpdatesLoop ==
  ASSUME NEW n \in NotificationMessage
  PROVE  \E found : IsUpdatesLoop(found, n)
<1> DEFINE m == Len(n.updates)
           body == [x \in (1..m) \X Findings |-> ExtractUpdate(x[2], n, n.updates[x[1]])]
           found[i \in 0..m] == IF i = 0 THEN NoUpdate ELSE ExtractUpdate(found[i - 1], n, n.updates[i])
<1>1. m \in Nat /\ NoUpdate \in Findings /\ \A i \in 1..m : n.updates[i] \in UpdateMessage
  BY DEF NotificationMessage, NoUpdate, Findings
<1>2. ExtractUpdates(n) = found[m]
  BY Zenon DEF ExtractUpdates
<1>3. \A r \in Findings, i \in 1..m :
        /\ ExtractUpdate(r, n, n.updates[i]) \in Findings
        /\ TakesOn(ExtractUpdate(r, n, n.updates[i]), r, PathAt(n, i), n.updates[i].value)
  BY Zenon, <1>1, UpdateTakesOn DEF PathAt
<1>4. body \in Bodies(m, Findings)
  BY Zenon, <1>3 DEF Bodies
<1> HIDE DEF m
<1>5. PICK g : IsRun(g, m, Findings, NoUpdate, body)
  <2> HIDE DEF body
  <2> QED
    BY Zenon, <1>1, <1>4, RunExists
<1>6. g = [i \in 0..m |-> IF i = 0 THEN NoUpdate ELSE ExtractUpdate(g[i - 1], n, n.updates[i])]
  <2>1. \A i \in 1..m : g[i] = ExtractUpdate(g[i - 1], n, n.updates[i])
    BY Zenon, <1>1, <1>5, Places DEF IsRun
  <2> QED
    BY Zenon, <1>1, <1>5, <2>1, Places DEF IsRun
<1>7. found = [i \in 0..m |-> IF i = 0 THEN NoUpdate
                              ELSE ExtractUpdate(found[i - 1], n, n.updates[i])]
  BY Zenon, <1>6
<1> HIDE DEF found
<1>8. found[0] = NoUpdate /\ \A i \in 1..m : found[i] = ExtractUpdate(found[i - 1], n, n.updates[i])
  BY Zenon, <1>1, <1>7, Places
<1> DEFINE S == {i \in 0..m : found[i] \in Findings}
<1>9. 0 \in S
  BY Zenon, <1>1, <1>8, Places
<1>10. ASSUME NEW i \in 1..m, i - 1 \in S
       PROVE  i \in S
  <2>1. found[i - 1] \in Findings /\ i \in 0..m
    BY Zenon, <1>1, <1>10, Places
  <2>2. found[i] \in Findings
    BY Zenon, <1>3, <1>8, <2>1
  <2> QED
    BY Zenon, <2>1, <2>2
<1>11. \A i \in 0..m : i \in S
  <2> HIDE DEF S
  <2> QED
    BY Zenon, <1>1, <1>9, <1>10, Upward
<1>12. \A i \in 0..m : found[i] \in Findings
  BY Zenon, <1>11
<1>13. \A i \in 1..m : TakesOn(found[i], found[i - 1], PathAt(n, i), n.updates[i].value)
  <2>1. \A i \in 1..m : found[i - 1] \in Findings
    BY Zenon, <1>1, <1>12, Places
  <2> QED
    BY Zenon, <1>3, <1>8, <2>1
<1> QED
  BY Zenon, <1>2, <1>8, <1>12, <1>13 DEF IsUpdatesLoop, m

\* What was found agrees with all the updates up to a place.
Agree(acc, n, i) ==
  /\ \A j \in 1..i : /\ PathAt(n, j).ok /\ PathAt(n, j).name = acc.name
                     /\ \/ PathAt(n, j).leaf = "name" /\ n.updates[j].value = acc.name
                        \/ /\ PathAt(n, j).leaf = "oper-status"
                           /\ acc.state = MapOperationalState[n.updates[j].value]
  /\ \A j, k \in 1..i :
       PathAt(n, j).leaf = "oper-status" /\ PathAt(n, k).leaf = "oper-status" => j = k
  /\ acc.state = "" <=> \A j \in 1..i : PathAt(n, j).leaf # "oper-status"

\* At the end of the loop, what was found is what every update says.
LEMMA FoundAgrees ==
  ASSUME NEW n \in NotificationMessage, ExtractUpdates(n).ok
  PROVE  Agree(ExtractUpdates(n), n, Len(n.updates))
<1> DEFINE m == Len(n.updates)
           Path(i) == PathAt(n, i)
           Value(i) == n.updates[i].value
<1>1. PICK found : IsUpdatesLoop(found, n)
  BY Zenon, UpdatesLoop
<1>2. m \in Nat /\ n.prefix \in PathMessage /\ \A i \in 1..m : n.updates[i].path \in PathMessage
  <2>1. m \in Nat /\ n.prefix \in PathMessage /\ \A i \in 1..m : n.updates[i] \in UpdateMessage
    BY DEF NotificationMessage
  <2>2. \A u \in UpdateMessage : u.path \in PathMessage
    BY DEF UpdateMessage
  <2> QED
    BY Zenon, <2>1, <2>2
<1>3. \A i \in 1..m : Path(i).ok => Path(i).name # <<>>
  BY Zenon, <1>2, PathIsNamed DEF PathAt, IsNamedPath
<1>4. /\ found[0] = NoUpdate /\ ExtractUpdates(n) = found[m]
      /\ \A i \in 1..m : TakesOn(found[i], found[i - 1], Path(i), Value(i))
  BY Zenon, <1>1 DEF IsUpdatesLoop
<1> DEFINE S == {i \in 0..m : found[i].ok => Agree(found[i], n, i)}
<1>5. 0 \in S
  <2>1. NoUpdate.state = ""
    BY DEF NoUpdate
  <2>2. \A j \in 1..0 : FALSE
    OBVIOUS
  <2>3. Agree(found[0], n, 0)
    BY Zenon, <1>4, <2>1, <2>2 DEF Agree
  <2> QED
    BY Zenon, <1>2, <2>3, Places
<1> HIDE DEF m
<1>6. ASSUME NEW i \in 1..m, i - 1 \in S
      PROVE  i \in S
  <2> DEFINE acc == found[i - 1]
             next == found[i]
  <2>1. i \in 0..m /\ (acc.ok => Agree(acc, n, i - 1))
    BY Zenon, <1>2, <1>6, Places
  <2> SUFFICES ASSUME next.ok PROVE Agree(next, n, i)
    BY Zenon, <2>1
  <2>2. /\ acc.ok /\ Path(i).ok /\ acc.name \in {<<>>, Path(i).name} /\ next.name = Path(i).name
        /\ \/ Path(i).leaf = "name" /\ Value(i) = Path(i).name /\ next.state = acc.state
           \/ /\ Path(i).leaf = "oper-status" /\ acc.state = "" /\ next.state # ""
              /\ next.state = MapOperationalState[Value(i)]
    BY Zenon, <1>4 DEF TakesOn
  <2>3. Agree(acc, n, i - 1)
    BY Zenon, <2>1, <2>2
  <2>4. \A j \in 1..i : j = i \/ j \in 1..(i - 1)
    BY <1>2
  <2>5. \A j \in 1..(i - 1) : j \in 1..m /\ j \in 1..i
    BY <1>2
  <2>6. i \in 1..i
    BY <1>2
  <2> HIDE DEF acc, next, Path, Value
  <2>7. \A j \in 1..(i - 1) :
          /\ Path(j).ok /\ Path(j).name = acc.name
          /\ \/ Path(j).leaf = "name" /\ Value(j) = acc.name
             \/ Path(j).leaf = "oper-status" /\ acc.state = MapOperationalState[Value(j)]
    BY Zenon, <2>3 DEF Agree, Path, Value
  <2>8. \A j \in 1..(i - 1) : acc.name = next.name
    BY Zenon, <1>3, <2>2, <2>5, <2>7
  <2>9. /\ \A j, k \in 1..(i - 1) : Path(j).leaf = "oper-status" /\ Path(k).leaf = "oper-status" => j = k
        /\ acc.state = "" <=> \A j \in 1..(i - 1) : Path(j).leaf # "oper-status"
    BY Zenon, <2>3 DEF Agree, Path
  <2>10. "name" # "oper-status"
    OBVIOUS
  <2>11. CASE Path(i).leaf = "name" /\ Value(i) = Path(i).name /\ next.state = acc.state
    <3>1. \A j \in 1..i : /\ Path(j).ok /\ Path(j).name = next.name
                          /\ \/ Path(j).leaf = "name" /\ Value(j) = next.name
                             \/ /\ Path(j).leaf = "oper-status"
                                /\ next.state = MapOperationalState[Value(j)]
      BY Zenon, <2>2, <2>4, <2>7, <2>8, <2>11
    <3>2. \A j, k \in 1..i : Path(j).leaf = "oper-status" /\ Path(k).leaf = "oper-status" => j = k
      BY Zenon, <2>4, <2>9, <2>10, <2>11
    <3>3. next.state = "" <=> \A j \in 1..i : Path(j).leaf # "oper-status"
      BY Zenon, <2>4, <2>5, <2>9, <2>10, <2>11
    <3> QED
      BY Zenon, <3>1, <3>2, <3>3 DEF Agree, Path, Value
  <2>12. CASE /\ Path(i).leaf = "oper-status" /\ acc.state = "" /\ next.state # ""
              /\ next.state = MapOperationalState[Value(i)]
    <3>1. \A j \in 1..(i - 1) : Path(j).leaf # "oper-status"
      BY Zenon, <2>9, <2>12
    <3>2. \A j \in 1..i : /\ Path(j).ok /\ Path(j).name = next.name
                          /\ \/ Path(j).leaf = "name" /\ Value(j) = next.name
                             \/ /\ Path(j).leaf = "oper-status"
                                /\ next.state = MapOperationalState[Value(j)]
      BY Zenon, <2>2, <2>4, <2>7, <2>8, <2>12, <3>1
    <3>3. \A j, k \in 1..i : Path(j).leaf = "oper-status" /\ Path(k).leaf = "oper-status" => j = k
      BY Zenon, <2>4, <3>1
    <3>4. next.state = "" <=> \A j \in 1..i : Path(j).leaf # "oper-status"
      BY Zenon, <2>6, <2>12
    <3> QED
      BY Zenon, <3>2, <3>3, <3>4 DEF Agree, Path, Value
  <2> QED
    BY Zenon, <2>2, <2>11, <2>12
<1>7. \A i \in 0..m : i \in S
  <2> HIDE DEF S
  <2> QED
    BY Zenon, <1>2, <1>5, <1>6, Upward
<1>8. m \in 0..m
  BY <1>2
<1> QED
  BY Zenon, <1>4, <1>7, <1>8 DEF m

\* What is extracted of a response is what all of its updates say, in whatever
\* order they come (extract of internal/normalise).
THEOREM ExtractedIsReported ==
  ASSUME NEW r \in Responses, Extract(r).ok
  PROVE  Reports(r, Extract(r).observation)
<1> DEFINE n == r.notifications[1]
           isShaped == /\ ~r.error /\ Len(r.notifications) = 1
                       /\ n.timestamp \in Timestamps /\ ~n.deletes
                       /\ Len(n.updates) \in 1..MaximumUpdates
           found == IF isShaped THEN ExtractUpdates(n) ELSE [NoUpdate EXCEPT !.ok = FALSE]
           o == [name |-> found.name, state |-> found.state,
                 at |-> IF isShaped THEN n.timestamp ELSE ""]
           isOk == found.ok /\ found.name # <<>> /\ found.state # ""
           PathOf(i) == n.prefix.elements \o n.updates[i].path.elements
           LeafOf(i) == PathOf(i)[Len(PathOf(i))].name
           statuses == {i \in DOMAIN n.updates : LeafOf(i) = "oper-status"}
<1>1. Extract(r) = [ok |-> isOk, observation |-> o]
  BY Zenon DEF Extract
<1>2. [NoUpdate EXCEPT !.ok = FALSE].ok = FALSE
  BY DEF NoUpdate
<1>3. r.notifications \in Seq(NotificationMessage)
  <2>1. r \in [error: BOOLEAN, notifications: Seq(NotificationMessage)]
    BY Zenon, ResponsesAssumption
  <2> QED
    BY Zenon, <2>1
<1>4. found.ok /\ found.state # "" /\ Extract(r).observation = o
  <2> HIDE DEF found, o, isOk
  <2>1. isOk /\ Extract(r).observation = o
    BY <1>1
  <2> QED
    BY Zenon, <2>1 DEF isOk
<1>5. isShaped
  BY Zenon, <1>2, <1>4
<1>6. found = ExtractUpdates(n)
  BY Zenon, <1>5
<1>7. n \in NotificationMessage
  <2> DEFINE ns == r.notifications
  <2>1. ns \in Seq(NotificationMessage) /\ Len(ns) = 1
    BY Zenon, <1>3, <1>5
  <2> HIDE DEF ns
  <2>2. \A M : \A x \in Seq(M) : Len(x) = 1 => x[1] \in M
    OBVIOUS
  <2> QED
    BY Zenon, <2>1, <2>2 DEF ns
<1>8. o.name = found.name /\ o.state = found.state /\ o.at = n.timestamp
  <2> HIDE DEF found, n
  <2> QED
    BY Zenon, <1>5
<1> HIDE DEF n, found, o
<1>9. Agree(found, n, Len(n.updates))
  BY Zenon, <1>4, <1>6, <1>7, FoundAgrees
<1>10. n.prefix \in PathMessage /\ n.updates \in Seq(UpdateMessage)
  BY Zenon, <1>7 DEF NotificationMessage
<1>11. /\ DOMAIN n.updates = 1..Len(n.updates)
       /\ \A i \in DOMAIN n.updates : n.updates[i] \in UpdateMessage
  BY <1>10
<1>12. \A i \in DOMAIN n.updates : n.updates[i].path \in PathMessage
  BY Zenon, <1>11 DEF UpdateMessage
<1>13. \A i \in DOMAIN n.updates :
         /\ PathAt(n, i).ok /\ PathAt(n, i).name = o.name
         /\ \/ PathAt(n, i).leaf = "name" /\ n.updates[i].value = o.name
            \/ PathAt(n, i).leaf = "oper-status" /\ o.state = MapOperationalState[n.updates[i].value]
  BY Zenon, <1>8, <1>9, <1>11 DEF Agree
<1>14. \A i \in DOMAIN n.updates : IsNamedPath(PathOf(i), PathAt(n, i))
  BY Zenon, <1>10, <1>12, <1>13, PathIsNamed DEF PathAt
<1>15. \A i \in DOMAIN n.updates :
         /\ {e.keys : e \in {x \in Range(PathOf(i)) : x.name = "interface"}} = {<<o.name>>}
         /\ LeafOf(i) = PathAt(n, i).leaf
  BY Zenon, <1>13, <1>14 DEF IsNamedPath
<1>16. PICK k \in DOMAIN n.updates : PathAt(n, k).leaf = "oper-status"
  BY Zenon, <1>4, <1>9, <1>11 DEF Agree
<1>17. \A i \in DOMAIN n.updates : PathAt(n, i).leaf = "oper-status" => i = k
  BY Zenon, <1>9, <1>11, <1>16 DEF Agree
<1>18. "name" # "oper-status"
  OBVIOUS
<1>19. k \in statuses /\ statuses = {k}
  <2>1. \A i : i \in statuses <=> i = k
    BY Zenon, <1>15, <1>16, <1>17
  <2> HIDE DEF statuses
  <2> QED
    BY Zenon, <2>1
<1>20. o.state = MapOperationalState[n.updates[k].value]
  BY Zenon, <1>13, <1>16, <1>18
<1>21. \A i \in DOMAIN n.updates \ statuses : LeafOf(i) = "name" /\ n.updates[i].value = o.name
  BY Zenon, <1>13, <1>15
<1>22. Len(r.notifications) = 1 /\ ~r.error
  BY Zenon, <1>5
<1>23. Reports(r, o)
  BY Zenon, <1>8, <1>15, <1>19, <1>20, <1>21, <1>22 DEF Reports, n
<1> QED
  BY Zenon, <1>4, <1>23
=============================================================================
