--------------------------- MODULE RecordsProofs ----------------------------
(***************************************************************************)
(* Proofs about what is recorded of the work: the lists of task debugging  *)
(* and collected errors, and the statistics.                               *)
(***************************************************************************)
EXTENDS DebugLists, Statistics, FiniteSetTheorems, TLAPS

\* Induction over the naturals, by a set and its least counterexample.
LEMMA NatBySet ==
    ASSUME NEW S, 0 \in S, \A n \in Nat : n \in S => n + 1 \in S
    PROVE  \A n \in Nat : n \in S
<1>1. SUFFICES ASSUME NEW k \in Nat, k \notin S PROVE FALSE
  OBVIOUS
<1> DEFINE T == {n \in Nat : n \notin S}
           R == OpToRel(<, Nat)
<1>2. IsWellFoundedOn(R, Nat)
  BY NatLessThanWellFounded, Zenon
<1>3. T \subseteq Nat /\ T # {}
  BY <1>1, Zenon
<1>4. \E x \in T : \A y \in T : ~ (<<y, x>> \in R)
  <2>. HIDE DEF R, T
  <2>. QED BY <1>2, <1>3, WFMin, Zenon
<1>5. PICK x \in T : \A y \in T : ~ (<<y, x>> \in R)
  BY <1>4, Zenon
<1>6. x \in Nat /\ x # 0 /\ x - 1 \in Nat /\ x - 1 \in T
  <2>. HIDE DEF R
  <2>1. x \in Nat /\ x \notin S
    BY <1>5, Zenon
  <2>2. x # 0
    BY <2>1, Zenon
  <2>3. x - 1 \in Nat /\ (x - 1) + 1 = x
    BY <2>1, <2>2
  <2>. QED BY <2>1, <2>2, <2>3, Zenon
<1>7. <<x - 1, x>> \in R
  BY <1>6 DEF OpToRel
<1>. QED BY <1>5, <1>6, <1>7, Zenon

\* A loop of n rounds over states of D, of which round i takes state x to G[i][x],
\* and its course from the state b.
Rounds(D, n, G) == \A x \in D, i \in 1 .. n : G[i][x] \in D
Course(D, b, n, G) == {h \in [0 .. n -> D] : h[0] = b /\ \A i \in 1 .. n : h[i] = G[i][h[i - 1]]}

\* Such a loop has a course.
LEMMA LoopRuns ==
    ASSUME NEW D, NEW b \in D, NEW n \in Nat, NEW G, Rounds(D, n, G)
    PROVE  Course(D, b, n, G) # {}
<1> DEFINE Runs(h, m) == h[0] = b /\ \A i \in 1 .. m : h[i] = G[i][h[i - 1]]
           S == {m \in Nat : m <= n => \E h \in [0 .. m -> D] : Runs(h, m)}
<1>1. 0 \in S
  <2> DEFINE h == [i \in 0 .. 0 |-> b]
  <2>1. h \in [0 .. 0 -> D]
    OBVIOUS
  <2>2. Runs(h, 0)
    OBVIOUS
  <2>. HIDE DEF h, Runs
  <2>. QED BY <2>1, <2>2, Zenon
<1>2. ASSUME NEW m \in Nat, m \in S PROVE m + 1 \in S
  <2>1. SUFFICES ASSUME m + 1 <= n PROVE \E h \in [0 .. m + 1 -> D] : Runs(h, m + 1)
    <3>1. m + 1 \in Nat
      OBVIOUS
    <3>. HIDE DEF Runs
    <3>. QED BY <3>1, Zenon
  <2>2. PICK g \in [0 .. m -> D] : Runs(g, m)
    BY <1>2, <2>1
  <2> DEFINE h == [i \in 0 .. m + 1 |-> IF i = m + 1 THEN G[m + 1][g[m]] ELSE g[i]]
  <2>3. g[m] \in D /\ m + 1 \in 1 .. n
    BY <2>1, <2>2
  <2>4. G[m + 1][g[m]] \in D
    BY <2>3, Zenon DEF Rounds
  <2>5. h \in [0 .. m + 1 -> D]
    BY <2>2, <2>4
  <2>6. h[0] = b /\ h[m + 1] = G[m + 1][g[m]] /\ \A i \in 0 .. m : h[i] = g[i]
    BY <2>2
  <2>7. ASSUME NEW i \in 1 .. m + 1 PROVE h[i] = G[i][h[i - 1]]
    <3>1. CASE i = m + 1
      <4>1. i - 1 = m /\ m \in 0 .. m
        BY <3>1
      <4>. HIDE DEF h, Runs
      <4>. QED BY <2>6, <3>1, <4>1, Zenon
    <3>2. CASE i # m + 1
      <4>1. i \in 1 .. m /\ i \in 0 .. m /\ i - 1 \in 0 .. m
        BY <3>2
      <4>2. g[i] = G[i][g[i - 1]]
        BY <2>2, <4>1, Zenon
      <4>. HIDE DEF h, Runs
      <4>. QED BY <2>6, <4>1, <4>2, Zenon
    <3>. QED BY <3>1, <3>2, Zenon
  <2>. HIDE DEF h
  <2>. QED BY <2>5, <2>6, <2>7, Zenon
<1>3. \A m \in Nat : m \in S
  <2>. HIDE DEF S
  <2>. QED BY <1>1, <1>2, NatBySet, Zenon
<1>. QED BY <1>3 DEF Course

Entries == [no : Nat, fields : Nat]
Newest(l) == \A i, j \in 1 .. Len(l) : i < j => l[i].no >= l[j].no

\* What the loop has appended before and after each entry.
Appended(l, fields, r) ==
  /\ Fitting(l, fields) = r[Len(l)]
  /\ r[0] = <<>>
  /\ \A i \in 1 .. Len(l) :
       r[i] = IF l[i].fields \in fields THEN Append(r[i - 1], l[i]) ELSE r[i - 1]

LEMMA FittingCourse ==
    ASSUME NEW l \in Seq(Entries), NEW fields
    PROVE  \E r \in [0 .. Len(l) -> Seq(Entries)] : Appended(l, fields, r)
<1> DEFINE n == Len(l)
           D == Seq(Entries)
           Step(x, i) == IF l[i].fields \in fields THEN Append(x, l[i]) ELSE x
           G == [i \in 1 .. n |-> [x \in D |-> Step(x, i)]]
           Ret(f) == [i \in 0 .. n |-> IF i = 0 THEN <<>>
                        ELSE IF l[i].fields \in fields THEN Append(f[i - 1], l[i])
                        ELSE f[i - 1]]
           r == CHOOSE f : f = Ret(f)
<1>1. n \in Nat /\ <<>> \in D
  OBVIOUS
<1>2. ASSUME NEW x \in D, NEW i \in 1 .. n PROVE G[i][x] = Step(x, i) /\ Step(x, i) \in D
  OBVIOUS
<1>3. PICK h \in [0 .. n -> D] : h[0] = <<>> /\ \A i \in 1 .. n : h[i] = G[i][h[i - 1]]
  <2>1. Rounds(D, n, G)
    <3>. HIDE DEF G, D, n, Step
    <3>. QED BY <1>2, Zenon DEF Rounds
  <2>2. Course(D, <<>>, n, G) # {}
    <3>. HIDE DEF G, D, n
    <3>. QED BY <1>1, <2>1, LoopRuns, Zenon
  <2>. HIDE DEF G, D, n
  <2>. QED BY <2>2, Zenon DEF Course
<1>4. ASSUME NEW i \in 1 .. n PROVE h[i] = Step(h[i - 1], i)
  <2>1. h[i - 1] \in D
    <3>1. i - 1 \in 0 .. n
      BY <1>1
    <3>. HIDE DEF G, D, n
    <3>. QED BY <1>3, <3>1, Zenon
  <2>. HIDE DEF G, D, n, Step
  <2>. QED BY <1>2, <1>3, <2>1, Zenon
<1>5. h = Ret(h)
  <2>1. h = [i \in 0 .. n |-> h[i]]
    BY <1>3, Zenon
  <2>2. ASSUME NEW i \in 0 .. n
        PROVE  h[i] = IF i = 0 THEN <<>>
                      ELSE IF l[i].fields \in fields THEN Append(h[i - 1], l[i])
                      ELSE h[i - 1]
    <3>1. CASE i = 0
      BY <1>3, <3>1, Zenon
    <3>2. CASE i # 0
      <4>1. i \in 1 .. n
        BY <3>2, <1>1
      <4>2. h[i] = Step(h[i - 1], i)
        BY <4>1, <1>4, Zenon
      <4>. QED BY <3>2, <4>2, Zenon
    <3>. QED BY <3>1, <3>2, Zenon
  <2>. HIDE DEF n
  <2>. QED BY <2>1, <2>2, Zenon
<1>6. r = Ret(r)
  <2>. HIDE DEF Ret
  <2>. QED BY <1>5, Zenon
<1>7. Fitting(l, fields) = r[n]
  BY Zenon DEF Fitting
<1>. HIDE DEF r
<1>8. /\ r = [i \in 0 .. n |-> r[i]]
      /\ r[0] = <<>>
      /\ \A i \in 1 .. n : r[i] = Step(r[i - 1], i)
  <2>1. r = [i \in 0 .. n |-> IF i = 0 THEN <<>> ELSE Step(r[i - 1], i)]
    BY <1>6, Zenon
  <2>. HIDE DEF n, Step
  <2>2. \A i \in 0 .. n : r[i] = IF i = 0 THEN <<>> ELSE Step(r[i - 1], i)
    BY <2>1, Zenon
  <2>3. 0 \in 0 .. n /\ \A i \in 1 .. n : i \in 0 .. n /\ i # 0
    BY <1>1
  <2>4. r = [i \in 0 .. n |-> r[i]]
    BY <2>1, Zenon
  <2>. QED BY <2>2, <2>3, <2>4, Zenon
<1>9. r \in [0 .. n -> D]
  <2> DEFINE S == {i \in Nat : i <= n => r[i] \in D}
  <2>1. 0 \in S
    BY <1>1, <1>8, Zenon
  <2>2. ASSUME NEW i \in Nat, i \in S PROVE i + 1 \in S
    <3>1. SUFFICES ASSUME i + 1 <= n PROVE r[i + 1] \in D
      OBVIOUS
    <3>2. i + 1 \in 1 .. n /\ (i + 1) - 1 = i /\ r[i] \in D
      BY <2>2, <3>1, <1>1
    <3>. HIDE DEF n, Step, D
    <3>3. r[i + 1] = Step(r[i], i + 1)
      BY <1>8, <3>2, Zenon
    <3>. QED BY <1>2, <3>2, <3>3, Zenon
  <2>3. \A i \in Nat : i \in S
    <3>. HIDE DEF S
    <3>. QED BY <2>1, <2>2, NatBySet, Zenon
  <2>4. \A i \in 0 .. n : r[i] \in D
    BY <2>3
  <2>. HIDE DEF n, D
  <2>. QED BY <1>8, <2>4, Zenon
<1>. QED BY <1>7, <1>8, <1>9, Zenon DEF Appended

\* What the loop of GetTask and GetError returns is in the order of the list.
LEMMA FittingInOrder ==
    ASSUME NEW l \in Seq(Entries), NEW fields, Newest(l)
    PROVE  /\ Fitting(l, fields) \in Seq(Entries)
           /\ Len(Fitting(l, fields)) <= Len(l)
           /\ Newest(Fitting(l, fields))
<1>0. PICK r \in [0 .. Len(l) -> Seq(Entries)] : Appended(l, fields, r)
  BY FittingCourse, Zenon
<1>1. /\ Fitting(l, fields) = r[Len(l)]
      /\ r[0] = <<>>
      /\ \A i \in 1 .. Len(l) :
           r[i] = IF l[i].fields \in fields THEN Append(r[i - 1], l[i]) ELSE r[i - 1]
  BY <1>0, Zenon DEF Appended
<1> DEFINE n == Len(l)
           From(s, i) == /\ Len(s) <= i
                         /\ \A a \in 1 .. Len(s) : \E k \in 1 .. i : s[a] = l[k]
                         /\ Newest(s)
           S == {i \in Nat : i <= n => From(r[i], i)}
<1>2. n \in Nat
  OBVIOUS
<1>3. 0 \in S
  <2>1. From(<<>>, 0)
    BY DEF Newest
  <2>. QED BY <1>1, <2>1, Zenon
<1>4. ASSUME NEW i \in Nat, i \in S PROVE i + 1 \in S
  <2>1. SUFFICES ASSUME i + 1 <= n PROVE From(r[i + 1], i + 1)
    OBVIOUS
  <2>2. i + 1 \in 1 .. n /\ (i + 1) - 1 = i /\ From(r[i], i) /\ i \in 0 .. n
    <3>1. i + 1 \in 1 .. n /\ (i + 1) - 1 = i /\ i <= n /\ i \in 0 .. n
      <4>. HIDE DEF From
      <4>. QED BY <1>2, <2>1
    <3>. HIDE DEF From
    <3>. QED BY <1>4, <3>1, Zenon
  <2>3. r[i] \in Seq(Entries) /\ l[i + 1] \in Entries
    <3>1. l[i + 1] \in Entries
      <4>. HIDE DEF S, From
      <4>. QED BY <2>2
    <3>. HIDE DEF S, From
    <3>. QED BY <1>1, <2>2, <3>1, Zenon
  <2>4. CASE l[i + 1].fields \notin fields
    <3>1. r[i + 1] = r[i]
      BY <1>1, <2>2, <2>4, Zenon
    <3>. QED BY <2>2, <2>3, <3>1
  <2>5. CASE l[i + 1].fields \in fields
    <3> DEFINE s == r[i]
               t == Append(s, l[i + 1])
    <3>1. r[i + 1] = t
      BY <1>1, <2>2, <2>5, Zenon
    <3>2. Len(s) \in Nat /\ Len(t) = Len(s) + 1 /\ t[Len(s) + 1] = l[i + 1]
          /\ \A a \in 1 .. Len(s) : t[a] = s[a]
      BY <2>3
    <3>. HIDE DEF s, t
    <3>3. Len(s) <= i /\ Newest(s) /\ \A a \in 1 .. Len(s) : \E k \in 1 .. i : s[a] = l[k]
      BY <2>2, Zenon DEF s
    <3>4. Len(t) <= i + 1
      BY <3>2, <3>3
    <3>5. ASSUME NEW a \in 1 .. Len(t) PROVE \E k \in 1 .. i + 1 : t[a] = l[k]
      <4>1. CASE a \in 1 .. Len(s)
        BY <3>2, <3>3, <4>1
      <4>2. CASE a = Len(s) + 1
        BY <3>2, <4>2
      <4>3. a \in 1 .. Len(s) \/ a = Len(s) + 1
        BY <3>2
      <4>. QED BY <4>1, <4>2, <4>3, Zenon
    <3>6. ASSUME NEW a \in 1 .. Len(t), NEW b \in 1 .. Len(t), a < b
          PROVE  t[a].no >= t[b].no
      <4>1. a \in 1 .. Len(s) /\ t[a] = s[a]
        BY <3>2, <3>6
      <4>2. CASE b \in 1 .. Len(s)
        BY <3>2, <3>3, <3>6, <4>1, <4>2, Zenon DEF Newest
      <4>3. CASE b = Len(s) + 1
        <5>1. PICK k \in 1 .. i : s[a] = l[k]
          BY <3>3, <4>1, Zenon
        <5>2. k \in 1 .. n /\ k < i + 1
          BY <2>2
        <5>3. l[k].no >= l[i + 1].no
          BY <5>2, <2>2, Zenon DEF Newest
        <5>4. t[a] = l[k] /\ t[b] = l[i + 1]
          BY <3>2, <4>1, <4>3, <5>1, Zenon
        <5>. QED BY <5>3, <5>4, Zenon
      <4>. QED BY <3>2, <4>2, <4>3
    <3>7. From(t, i + 1)
      BY <3>4, <3>5, <3>6, Zenon DEF Newest
    <3>. QED BY <3>1, <3>7, Zenon
  <2>. QED BY <2>4, <2>5, Zenon
<1>5. n \in S
  <2>. HIDE DEF S, n
  <2>. QED BY <1>2, <1>3, <1>4, NatBySet, Zenon
<1>6. From(r[n], n) /\ r[n] \in Seq(Entries)
  BY <1>1, <1>2, <1>5
<1>. QED BY <1>1, <1>6, Zenon

-----------------------------------------------------------------------------
Inside == {c \in Callers : at[c] # "idle"}
States == {"idle", "llen", "ltrim"}

\* A list with the newest entry first, none newer than no.
Recent(l, no) ==
  /\ Newest(l)
  /\ \A i \in 1 .. Len(l) : l[i].no <= no

\* As a list of tasks: it begins with task no and has no gap.
Gapless(l, no) ==
  /\ l # <<>> => l[1].no = no
  /\ \A i \in 1 .. Len(l) - 1 : l[i].no - l[i + 1].no \in {0, 1}

\* The inductive invariant of the debug lists.
DebugInv ==
  /\ at \in [Callers -> States]
  /\ tasks \in Seq(Entries) /\ errors \in Seq(Entries)
  /\ calls \in Nat /\ taskNo \in Nat /\ errorNo \in Nat
  /\ missed \in Nat /\ callFaults \in Nat
  /\ shown \in [count : Nat, entries : Seq(Entries)]
  /\ taskNo <= calls /\ calls <= MaxTasks
  /\ missed <= callFaults /\ callFaults <= MaxCallFaults
  /\ Recent(tasks, taskNo) /\ Gapless(tasks, taskNo)
  /\ Recent(errors, errorNo) /\ Len(errors) <= errorNo + callFaults
  /\ Len(tasks) > DebugKeep \/ Len(tasks) >= taskNo
  /\ Len(tasks) < DebugMax + missed + Cardinality(Inside)
  /\ Newest(shown.entries) /\ Len(shown.entries) <= shown.count

LEMMA PushedParts ==
    ASSUME NEW l \in Seq(Entries), NEW e \in Entries
    PROVE  /\ LpushTo(l, e) \in Seq(Entries)
           /\ Len(LpushTo(l, e)) = Len(l) + 1
           /\ LpushTo(l, e)[1] = e
           /\ \A i \in 2 .. Len(l) + 1 : LpushTo(l, e)[i] = l[i - 1]
           /\ LpushTo(l, e) # <<>>
BY DEF LpushTo

LEMMA PushedRecent ==
    ASSUME NEW l \in Seq(Entries), NEW e \in Entries, NEW no \in Nat, Recent(l, no),
           NEW new \in Nat, new >= no, e.no = new
    PROVE  Recent(LpushTo(l, e), new)
<1> DEFINE m == LpushTo(l, e)
<1>1. /\ m \in Seq(Entries) /\ Len(l) \in Nat /\ Len(m) = Len(l) + 1 /\ m[1] = e
      /\ \A i \in 2 .. Len(l) + 1 : m[i] = l[i - 1]
  <2>1. Len(l) \in Nat
    OBVIOUS
  <2>. QED BY <2>1, PushedParts, Zenon
<1>2. \A i \in 1 .. Len(l) : l[i].no \in Nat /\ l[i].no <= no
  <2>1. \A i \in 1 .. Len(l) : l[i] \in Entries
    OBVIOUS
  <2>. QED BY <2>1, Zenon DEF Recent, Entries
<1>. HIDE DEF m
<1>3. ASSUME NEW i \in 1 .. Len(m) PROVE m[i].no <= new /\ m[i].no \in Nat
  <2>1. CASE i = 1
    BY <2>1, <1>1
  <2>2. CASE i # 1
    <3>1. i - 1 \in 1 .. Len(l) /\ m[i] = l[i - 1]
      BY <2>2, <1>1
    <3>. QED BY <3>1, <1>2
  <2>. QED BY <2>1, <2>2, Zenon
<1>4. ASSUME NEW i \in 1 .. Len(m), NEW j \in 1 .. Len(m), i < j PROVE m[i].no >= m[j].no
  <2>1. j - 1 \in 1 .. Len(l) /\ m[j] = l[j - 1]
    BY <1>1, <1>4
  <2>2. CASE i = 1
    BY <2>1, <2>2, <1>1, <1>2, <1>3, Zenon
  <2>3. CASE i # 1
    <3>1. i - 1 \in 1 .. Len(l) /\ m[i] = l[i - 1] /\ i - 1 < j - 1
      BY <2>3, <1>1, <1>4
    <3>. QED BY <2>1, <3>1, Zenon DEF Recent, Newest
  <2>. QED BY <2>2, <2>3, Zenon
<1>. QED BY <1>3, <1>4, Zenon DEF Recent, Newest, m

LEMMA PushedGapless ==
    ASSUME NEW l \in Seq(Entries), NEW e \in Entries, NEW no \in Nat, Gapless(l, no),
           e.no - no \in {0, 1}
    PROVE  Gapless(LpushTo(l, e), e.no)
<1> DEFINE m == LpushTo(l, e)
<1>1. /\ m \in Seq(Entries) /\ Len(l) \in Nat /\ Len(m) = Len(l) + 1 /\ m[1] = e
      /\ \A i \in 2 .. Len(l) + 1 : m[i] = l[i - 1]
  <2>1. Len(l) \in Nat
    OBVIOUS
  <2>. QED BY <2>1, PushedParts, Zenon
<1>. HIDE DEF m
<1>2. ASSUME NEW i \in 1 .. Len(m) - 1 PROVE m[i].no - m[i + 1].no \in {0, 1}
  <2>1. m[i + 1] = l[i] /\ i \in 1 .. Len(l)
    <3>1. i + 1 \in 2 .. Len(l) + 1 /\ (i + 1) - 1 = i /\ i \in 1 .. Len(l)
      BY <1>1
    <3>. QED BY <1>1, <3>1, Zenon
  <2>2. CASE i = 1
    <3>1. l # <<>>
      BY <2>1
    <3>. QED BY <2>1, <2>2, <3>1, <1>1, Zenon DEF Gapless
  <2>3. CASE i # 1
    <3>1. i - 1 \in 1 .. Len(l) - 1 /\ (i - 1) + 1 = i /\ m[i] = l[i - 1]
      BY <2>1, <2>3, <1>1
    <3>. QED BY <2>1, <3>1, Zenon DEF Gapless
  <2>. QED BY <2>2, <2>3, Zenon
<1>. QED BY <1>1, <1>2, Zenon DEF Gapless, m

LEMMA TrimmedParts ==
    ASSUME NEW l \in Seq(Entries), NEW no \in Nat, Recent(l, no), Gapless(l, no),
           Len(l) > DebugKeep \/ Len(l) >= no
    PROVE  /\ Trimmed(l) \in Seq(Entries)
           /\ Recent(Trimmed(l), no)
           /\ Gapless(Trimmed(l), no)
           /\ Len(Trimmed(l)) > DebugKeep \/ Len(Trimmed(l)) >= no
           /\ Len(Trimmed(l)) <= DebugKeep + 1
<1>0. DebugKeep \in Nat /\ Len(l) \in Nat
  BY DebugAssumption
<1>1. CASE Len(l) > DebugKeep + 1
  <2> DEFINE m == SubSeq(l, 1, DebugKeep + 1)
  <2>1. m \in Seq(Entries) /\ Len(m) = DebugKeep + 1 /\ \A i \in 1 .. DebugKeep + 1 : m[i] = l[i]
    BY <1>0, <1>1
  <2>2. Trimmed(l) = m
    BY <1>1, Zenon DEF Trimmed
  <2>. HIDE DEF m
  <2>3. Recent(m, no)
    <3>1. \A i \in 1 .. Len(m) : i \in 1 .. Len(l) /\ m[i] = l[i]
      BY <1>0, <1>1, <2>1
    <3>2. Newest(m)
      <4>1. Newest(l)
        BY Zenon DEF Recent
      <4>. SUFFICES ASSUME NEW i \in 1 .. Len(m), NEW j \in 1 .. Len(m), i < j
                    PROVE  m[i].no >= m[j].no
        BY Zenon DEF Newest
      <4>. QED BY <3>1, <4>1, Zenon DEF Newest
    <3>3. \A i \in 1 .. Len(m) : m[i].no <= no
      BY <3>1, Zenon DEF Recent
    <3>. QED BY <3>2, <3>3, Zenon DEF Recent
  <2>4. Gapless(m, no)
    <3>1. m[1] = l[1] /\ l # <<>>
      BY <1>0, <1>1, <2>1
    <3>2. ASSUME NEW i \in 1 .. Len(m) - 1 PROVE m[i].no - m[i + 1].no \in {0, 1}
      <4>1. m[i] = l[i] /\ m[i + 1] = l[i + 1] /\ i \in 1 .. Len(l) - 1
        BY <1>0, <1>1, <2>1
      <4>. QED BY <4>1, Zenon DEF Gapless
    <3>. QED BY <3>1, <3>2, Zenon DEF Gapless
  <2>. QED BY <1>0, <2>1, <2>2, <2>3, <2>4
<1>2. CASE ~ (Len(l) > DebugKeep + 1)
  <2>1. Trimmed(l) = l
    BY <1>2, Zenon DEF Trimmed
  <2>. QED BY <1>0, <1>2, <2>1
<1>. QED BY <1>1, <1>2, Zenon

LEMMA ReadInOrder ==
    ASSUME NEW l \in Seq(Entries), Newest(l), NEW count \in {0, 1}, NEW fields
    PROVE  /\ Read(l, count, fields) \in [count : Nat, entries : Seq(Entries)]
           /\ Newest(Read(l, count, fields).entries)
           /\ Len(Read(l, count, fields).entries) <= Read(l, count, fields).count
<1> DEFINE length == IF count <= 0 THEN DefaultCount ELSE count
           k == IF Len(l) < length THEN Len(l) ELSE length
           range == SubSeq(l, 1, k)
           ret == Fitting(range, fields)
<1>1. Len(l) \in Nat /\ length \in Nat
  BY DebugAssumption
<1>2. k \in Nat /\ k <= Len(l) /\ k <= length
  <2>. HIDE DEF length
  <2>. QED BY <1>1
<1>3. Read(l, count, fields) = [count |-> length, entries |-> ret]
  BY Zenon DEF Read
<1>. HIDE DEF k, length
<1>4. range \in Seq(Entries) /\ Len(range) = k /\ \A i \in 1 .. k : range[i] = l[i]
  BY <1>1, <1>2
<1>. HIDE DEF range
<1>5. Newest(range)
  BY <1>1, <1>2, <1>4 DEF Newest
<1>6. ret \in Seq(Entries) /\ Len(ret) <= Len(range) /\ Newest(ret)
  BY <1>4, <1>5, FittingInOrder, Zenon
<1>. HIDE DEF ret
<1>7. Len(ret) \in Nat
  BY <1>6
<1>8. Len(ret) <= length
  BY <1>1, <1>2, <1>4, <1>6, <1>7
<1>. QED BY <1>1, <1>3, <1>6, <1>8

\* Who is inside AddTask.
LEMMA InsideCounted ==
    ASSUME at \in [Callers -> States], NEW c \in Callers, NEW v \in States,
           at' = [at EXCEPT ![c] = v]
    PROVE  /\ at' \in [Callers -> States]
           /\ Cardinality(Inside) \in Nat
           /\ Cardinality(Inside') \in Nat
           /\ at[c] = "idle" /\ v # "idle" => Cardinality(Inside') = Cardinality(Inside) + 1
           /\ at[c] # "idle" /\ v # "idle" => Cardinality(Inside') = Cardinality(Inside)
           /\ at[c] # "idle" /\ v = "idle" => Cardinality(Inside') = Cardinality(Inside) - 1
<1>1. IsFiniteSet(Inside) /\ IsFiniteSet(Inside') /\ at' \in [Callers -> States]
  <2>1. IsFiniteSet(Callers) /\ Inside \in SUBSET Callers /\ Inside' \in SUBSET Callers
    BY DebugAssumption, Zenon DEF Inside
  <2>2. at' \in [Callers -> States]
    OBVIOUS
  <2>. QED BY <2>1, <2>2, FS_Subset, Zenon
<1>2. Cardinality(Inside) \in Nat /\ Cardinality(Inside') \in Nat
  BY <1>1, FS_CardinalityType, Zenon
<1>3. c \in Inside <=> at[c] # "idle"
  BY Zenon DEF Inside
<1>4. CASE v = "idle"
  <2>1. Inside' = Inside \ {c}
    BY <1>4, Zenon DEF Inside
  <2>2. Cardinality(Inside \ {c}) =
          IF c \in Inside THEN Cardinality(Inside) - 1 ELSE Cardinality(Inside)
    BY <1>1, FS_RemoveElement, Zenon
  <2>. QED BY <1>1, <1>2, <1>3, <1>4, <2>1, <2>2, Zenon
<1>5. CASE v # "idle"
  <2>1. Inside' = Inside \cup {c}
    BY <1>5, Zenon DEF Inside
  <2>2. Cardinality(Inside \cup {c}) =
          IF c \in Inside THEN Cardinality(Inside) ELSE Cardinality(Inside) + 1
    BY <1>1, FS_AddElement, Zenon
  <2>. QED BY <1>1, <1>2, <1>3, <1>5, <2>1, <2>2, Zenon
<1>. QED BY <1>4, <1>5, Zenon

-----------------------------------------------------------------------------
\* Each operation keeps the invariant.
LEMMA AddTaskKeeps == ASSUME DebugInv, NEW c \in Callers, AddTask(c) PROVE DebugInv'
<1> DEFINE f2 == Entry(taskNo + 1, 2)
<1>1. /\ at[c] = "idle" /\ calls < MaxTasks /\ calls' = calls + 1
      /\ at' = [at EXCEPT ![c] = "llen"]
      /\ UNCHANGED <<errors, errorNo, shown>>
  BY Zenon DEF AddTask
<1>2. /\ at' \in [Callers -> States]
      /\ Cardinality(Inside) \in Nat /\ Cardinality(Inside') = Cardinality(Inside) + 1
  <2>1. at \in [Callers -> States] /\ "llen" \in States
    BY Zenon DEF DebugInv, States
  <2>. QED BY <2>1, <1>1, InsideCounted, Zenon
<1>3. /\ tasks \in Seq(Entries) /\ Len(tasks) \in Nat /\ taskNo \in Nat /\ taskNo + 1 \in Nat
      /\ Recent(tasks, taskNo) /\ Gapless(tasks, taskNo)
  BY DEF DebugInv
<1>4. DebugMax \in Nat /\ DebugKeep \in Nat /\ MaxTasks \in Nat /\ MaxCallFaults \in Nat
  BY DebugAssumption, Zenon
<1>5. ASSUME NEW l \in Seq(Entries), Recent(l, taskNo) \/ Recent(l, taskNo + 1),
             Gapless(l, taskNo) \/ Gapless(l, taskNo + 1), NEW f \in {2, 3}
      PROVE  /\ LpushTo(l, Entry(taskNo + 1, f)) \in Seq(Entries)
             /\ Len(LpushTo(l, Entry(taskNo + 1, f))) = Len(l) + 1
             /\ Recent(LpushTo(l, Entry(taskNo + 1, f)), taskNo + 1)
             /\ Gapless(LpushTo(l, Entry(taskNo + 1, f)), taskNo + 1)
  <2> DEFINE e == Entry(taskNo + 1, f)
  <2>1. e \in Entries /\ e.no = taskNo + 1
    BY <1>3 DEF Entry, Entries
  <2>. HIDE DEF e
  <2>2. LpushTo(l, e) \in Seq(Entries) /\ Len(LpushTo(l, e)) = Len(l) + 1
    BY <2>1, PushedParts, Zenon
  <2>3. Recent(LpushTo(l, e), taskNo + 1)
    <3>1. taskNo + 1 >= taskNo /\ taskNo + 1 >= taskNo + 1
      BY <1>3
    <3>. QED BY <1>3, <1>5, <2>1, <3>1, PushedRecent, Zenon
  <2>4. Gapless(LpushTo(l, e), taskNo + 1)
    <3>1. e.no - taskNo \in {0, 1} /\ e.no - (taskNo + 1) \in {0, 1}
      BY <1>3, <2>1
    <3>2. Gapless(LpushTo(l, e), e.no)
      BY <1>3, <1>5, <2>1, <3>1, PushedGapless, Zenon
    <3>. QED BY <3>2, <2>1, Zenon
  <2>. QED BY <2>2, <2>3, <2>4, Zenon DEF e
<1>6. CASE /\ \E f \in {2, 3} : tasks' = LpushTo(tasks, Entry(taskNo + 1, f))
           /\ taskNo' = taskNo + 1
           /\ UNCHANGED <<missed, callFaults>>
  <2>1. /\ tasks' \in Seq(Entries) /\ Len(tasks') = Len(tasks) + 1
        /\ Recent(tasks', taskNo') /\ Gapless(tasks', taskNo')
    BY <1>3, <1>5, <1>6, Zenon
  <2>2. /\ taskNo' \in Nat /\ calls' \in Nat /\ taskNo' <= calls' /\ calls' <= MaxTasks
        /\ Len(tasks') > DebugKeep \/ Len(tasks') >= taskNo'
    <3>1. taskNo <= calls /\ calls \in Nat /\ (Len(tasks) > DebugKeep \/ Len(tasks) >= taskNo)
      BY Zenon DEF DebugInv
    <3>. QED BY <1>1, <1>3, <1>4, <1>6, <2>1, <3>1
  <2>3. Len(tasks') < DebugMax + missed' + Cardinality(Inside')
    <3>1. Len(tasks) < DebugMax + missed + Cardinality(Inside) /\ missed \in Nat
      BY Zenon DEF DebugInv
    <3>. QED BY <1>2, <1>3, <1>4, <1>6, <2>1, <3>1
  <2>. QED BY <1>1, <1>2, <1>6, <2>1, <2>2, <2>3, Zenon DEF DebugInv
<1>7. CASE FaultyCall /\ UNCHANGED <<tasks, taskNo, missed>>
  BY <1>1, <1>2, <1>3, <1>4, <1>7 DEF DebugInv, FaultyCall
<1>8. CASE /\ FaultyCall
           /\ tasks' = LpushTo(LpushTo(tasks, f2), f2)
           /\ taskNo' = taskNo + 1
           /\ missed' = missed + 1
  <2>1. /\ LpushTo(tasks, f2) \in Seq(Entries) /\ Len(LpushTo(tasks, f2)) = Len(tasks) + 1
        /\ Recent(LpushTo(tasks, f2), taskNo + 1) /\ Gapless(LpushTo(tasks, f2), taskNo + 1)
    BY <1>3, <1>5, Zenon
  <2>2. /\ tasks' \in Seq(Entries) /\ Len(tasks') = Len(tasks) + 1 + 1
        /\ Recent(tasks', taskNo') /\ Gapless(tasks', taskNo')
    BY <1>5, <1>8, <2>1, Zenon
  <2>3. /\ callFaults' \in Nat /\ missed' \in Nat /\ taskNo' \in Nat /\ calls' \in Nat
        /\ taskNo' <= calls' /\ calls' <= MaxTasks
        /\ missed' <= callFaults' /\ callFaults' <= MaxCallFaults
        /\ Len(errors) <= errorNo + callFaults'
    BY <1>1, <1>3, <1>4, <1>8 DEF DebugInv, FaultyCall
  <2>4. /\ Len(tasks') > DebugKeep \/ Len(tasks') >= taskNo'
        /\ Len(tasks') < DebugMax + missed' + Cardinality(Inside')
    <3>1. /\ Len(tasks) > DebugKeep \/ Len(tasks) >= taskNo
          /\ Len(tasks) < DebugMax + missed + Cardinality(Inside)
          /\ missed \in Nat
      BY Zenon DEF DebugInv
    <3>2. Len(tasks') = Len(tasks) + 2 /\ taskNo' = taskNo + 1 /\ missed' = missed + 1
      BY <1>3, <1>8, <2>2
    <3>. QED BY <1>2, <1>3, <1>4, <3>1, <3>2
  <2>. QED BY <1>1, <1>2, <2>2, <2>3, <2>4, Zenon DEF DebugInv
<1>. QED BY <1>6, <1>7, <1>8, Zenon DEF AddTask

LEMMA CountTasksKeeps == ASSUME DebugInv, NEW c \in Callers, CountTasks(c) PROVE DebugInv'
<1>1. /\ at[c] = "llen"
      /\ UNCHANGED <<tasks, errors, calls, taskNo, errorNo, shown>>
  BY Zenon DEF CountTasks
<1>2. at \in [Callers -> States] /\ "ltrim" \in States /\ "idle" \in States
  BY Zenon DEF DebugInv, States
<1>3. DebugMax \in Nat /\ MaxCallFaults \in Nat /\ Len(tasks) \in Nat
  BY DebugAssumption DEF DebugInv
<1>4. CASE /\ at' = [at EXCEPT ![c] = IF Len(tasks) >= DebugMax THEN "ltrim" ELSE "idle"]
           /\ UNCHANGED <<missed, callFaults>>
  <2>1. CASE Len(tasks) >= DebugMax
    <3>1. at' = [at EXCEPT ![c] = "ltrim"]
      BY <1>4, <2>1, Zenon
    <3>2. /\ at' \in [Callers -> States] /\ Cardinality(Inside) \in Nat
          /\ Cardinality(Inside') = Cardinality(Inside)
      BY <1>1, <1>2, <3>1, InsideCounted, Zenon
    <3>. QED BY <1>1, <1>3, <1>4, <3>2, Zenon DEF DebugInv
  <2>2. CASE ~ (Len(tasks) >= DebugMax)
    <3>1. at' = [at EXCEPT ![c] = "idle"]
      BY <1>4, <2>2, Zenon
    <3>2. at' \in [Callers -> States] /\ Cardinality(Inside') \in Nat
      BY <1>2, <3>1, InsideCounted, Zenon
    <3>. QED BY <1>1, <1>3, <1>4, <2>2, <3>2 DEF DebugInv
  <2>. QED BY <2>1, <2>2, Zenon
<1>5. CASE FaultyCall /\ at' = [at EXCEPT ![c] = "idle"] /\ missed' = missed + 1
  <2>1. /\ at' \in [Callers -> States] /\ Cardinality(Inside) \in Nat
        /\ Cardinality(Inside') = Cardinality(Inside) - 1
    BY <1>1, <1>2, <1>5, InsideCounted, Zenon
  <2>. QED BY <1>1, <1>3, <1>5, <2>1 DEF DebugInv, FaultyCall
<1>. QED BY <1>4, <1>5, Zenon DEF CountTasks

LEMMA TrimTasksKeeps == ASSUME DebugInv, NEW c \in Callers, TrimTasks(c) PROVE DebugInv'
<1>1. /\ at[c] = "ltrim" /\ at' = [at EXCEPT ![c] = "idle"]
      /\ UNCHANGED <<errors, calls, taskNo, errorNo, shown>>
  BY Zenon DEF TrimTasks
<1>2. DebugMax \in Nat /\ DebugKeep \in Nat /\ DebugKeep + 1 < DebugMax /\ MaxCallFaults \in Nat
  BY DebugAssumption, Zenon
<1>3. /\ at' \in [Callers -> States] /\ Cardinality(Inside) \in Nat
      /\ Cardinality(Inside') \in Nat
      /\ Cardinality(Inside') = Cardinality(Inside) - 1
  <2>1. at \in [Callers -> States] /\ "idle" \in States
    BY Zenon DEF DebugInv, States
  <2>. QED BY <2>1, <1>1, InsideCounted, Zenon
<1>4. CASE tasks' = Trimmed(tasks) /\ missed' = 0 /\ (UNCHANGED callFaults \/ FaultyCall)
  <2>1. /\ tasks' \in Seq(Entries) /\ Recent(tasks', taskNo) /\ Gapless(tasks', taskNo)
        /\ Len(tasks') > DebugKeep \/ Len(tasks') >= taskNo
        /\ Len(tasks') <= DebugKeep + 1
    BY <1>4, TrimmedParts, Zenon DEF DebugInv
  <2>2. Len(tasks') \in Nat
    BY <2>1
  <2>3. Len(tasks') < DebugMax + missed' + Cardinality(Inside')
    BY <1>2, <1>3, <1>4, <2>1, <2>2
  <2>4. callFaults' \in Nat /\ missed' <= callFaults' /\ callFaults <= callFaults'
        /\ callFaults' <= MaxCallFaults
    BY <1>2, <1>4 DEF DebugInv, FaultyCall
  <2>5. Len(errors) <= errorNo + callFaults'
    BY <2>4 DEF DebugInv
  <2>. QED BY <1>1, <1>3, <1>4, <2>1, <2>3, <2>4, <2>5, Zenon DEF DebugInv
<1>5. CASE FaultyCall /\ missed' = missed + 1 /\ UNCHANGED tasks
  <2>1. /\ tasks \in Seq(Entries) /\ Len(tasks) \in Nat
        /\ missed \in Nat /\ callFaults \in Nat /\ taskNo \in Nat /\ errorNo \in Nat
        /\ Recent(tasks, taskNo) /\ Gapless(tasks, taskNo)
        /\ Len(tasks) > DebugKeep \/ Len(tasks) >= taskNo
    BY DEF DebugInv
  <2>2. Len(tasks) < DebugMax + missed' + Cardinality(Inside')
    <3>1. Len(tasks) < DebugMax + missed + Cardinality(Inside)
      BY Zenon DEF DebugInv
    <3>. QED BY <1>2, <1>3, <1>5, <2>1, <3>1
  <2>3. /\ callFaults' \in Nat /\ missed' \in Nat /\ missed' <= callFaults'
        /\ callFaults' <= MaxCallFaults /\ callFaults' = callFaults + 1
    <3>1. missed <= callFaults
      BY Zenon DEF DebugInv
    <3>. QED BY <1>2, <1>5, <2>1, <3>1 DEF FaultyCall
  <2>4. Len(errors) <= errorNo + callFaults'
    <3>1. Len(errors) <= errorNo + callFaults /\ Len(errors) \in Nat
      BY DEF DebugInv
    <3>. QED BY <2>1, <2>3, <3>1
  <2>. QED BY <1>1, <1>3, <1>5, <2>1, <2>2, <2>3, <2>4, Zenon DEF DebugInv
<1>. QED BY <1>4, <1>5, Zenon DEF TrimTasks

LEMMA AddErrorKeeps == ASSUME DebugInv, AddError PROVE DebugInv'
<1>1. /\ errorNo' = errorNo + 1
      /\ UNCHANGED <<at, tasks, calls, taskNo, missed, shown>>
  BY Zenon DEF AddError
<1>2. PICK f \in 5 .. 7 :
        LET e == Entry(errorNo + 1, f)
        IN  \/ errors' = LpushTo(errors, e) /\ UNCHANGED callFaults
            \/ errors' \in {errors, LpushTo(LpushTo(errors, e), e)} /\ FaultyCall
  BY Zenon DEF AddError
<1> DEFINE e == Entry(errorNo + 1, f)
<1>3. errors \in Seq(Entries) /\ errorNo \in Nat /\ errorNo + 1 \in Nat /\ Recent(errors, errorNo)
  BY DEF DebugInv
<1>4. e \in Entries /\ e.no = errorNo + 1
  BY <1>3 DEF Entry, Entries
<1>5. \/ errors' = LpushTo(errors, e) /\ UNCHANGED callFaults
      \/ errors' \in {errors, LpushTo(LpushTo(errors, e), e)} /\ FaultyCall
  BY <1>2, Zenon
<1>6. Inside' = Inside
  BY <1>1, Zenon DEF Inside
<1>. HIDE DEF e
<1>7. errorNo + 1 >= errorNo /\ errorNo + 1 >= errorNo + 1
  BY <1>3
<1>8. /\ LpushTo(errors, e) \in Seq(Entries) /\ Len(LpushTo(errors, e)) = Len(errors) + 1
      /\ Recent(LpushTo(errors, e), errorNo + 1)
  BY <1>3, <1>4, <1>7, PushedParts, PushedRecent, Zenon
<1>9. /\ LpushTo(LpushTo(errors, e), e) \in Seq(Entries)
      /\ Len(LpushTo(LpushTo(errors, e), e)) = Len(errors) + 1 + 1
      /\ Recent(LpushTo(LpushTo(errors, e), e), errorNo + 1)
  BY <1>3, <1>4, <1>7, <1>8, PushedParts, PushedRecent, Zenon
<1>10. Recent(errors, errorNo + 1)
  <2>1. \A i \in 1 .. Len(errors) : errors[i] \in Entries
    BY <1>3
  <2>. QED BY <1>3, <2>1 DEF Recent, Entries
<1>11. errors' \in Seq(Entries) /\ Recent(errors', errorNo')
  BY <1>1, <1>3, <1>5, <1>8, <1>9, <1>10, Zenon
<1>12. /\ callFaults' \in Nat /\ callFaults <= callFaults' /\ callFaults' <= MaxCallFaults
       /\ Len(errors') <= errorNo' + callFaults'
  <2>1. callFaults \in Nat /\ MaxCallFaults \in Nat /\ callFaults <= MaxCallFaults
        /\ Len(errors) \in Nat /\ Len(errors) <= errorNo + callFaults
    BY DebugAssumption DEF DebugInv
  <2>2. CASE errors' = LpushTo(errors, e) /\ UNCHANGED callFaults
    BY <1>1, <1>3, <1>8, <2>1, <2>2
  <2>3. CASE errors' = errors /\ FaultyCall
    BY <1>1, <1>3, <2>1, <2>3 DEF FaultyCall
  <2>4. CASE errors' = LpushTo(LpushTo(errors, e), e) /\ FaultyCall
    BY <1>1, <1>3, <1>9, <2>1, <2>4 DEF FaultyCall
  <2>. QED BY <1>5, <2>2, <2>3, <2>4, Zenon
<1>13. missed' <= callFaults'
  BY <1>1, <1>12 DEF DebugInv
<1>. QED BY <1>1, <1>3, <1>6, <1>11, <1>12, <1>13, Zenon DEF DebugInv

LEMMA ShowKeeps ==
    ASSUME DebugInv, NEW l \in Seq(Entries), Newest(l), NEW count \in {0, 1}, NEW fields,
           shown' \in {Read(l, count, fields), Nothing},
           UNCHANGED callFaults \/ FaultyCall,
           UNCHANGED <<at, tasks, errors, calls, taskNo, errorNo, missed>>
    PROVE  DebugInv'
<1>1. /\ shown' \in [count : Nat, entries : Seq(Entries)]
      /\ Newest(shown'.entries) /\ Len(shown'.entries) <= shown'.count
  <2>1. CASE shown' = Read(l, count, fields)
    BY <2>1, ReadInOrder, Zenon
  <2>2. CASE shown' = Nothing
    BY <2>2 DEF Nothing, Newest
  <2>. QED BY <2>1, <2>2, Zenon
<1>2. callFaults' \in Nat /\ callFaults <= callFaults' /\ callFaults' <= MaxCallFaults
  BY DebugAssumption DEF DebugInv, FaultyCall
<1>3. Inside' = Inside
  BY Zenon DEF Inside
<1>4. missed <= callFaults' /\ Len(errors) <= errorNo + callFaults'
  BY <1>2 DEF DebugInv
<1>. QED BY <1>1, <1>2, <1>3, <1>4, Zenon DEF DebugInv

\* The inductive invariant holds of the debug lists, for any number of callers,
\* of tasks and of redis calls that fail or are repeated.
THEOREM DebugInvariant == DebugSpec => []DebugInv
<1>1. DebugInit => DebugInv
  <2>. SUFFICES ASSUME DebugInit PROVE DebugInv
    OBVIOUS
  <2>1. Inside = {} /\ Cardinality({}) = 0
    BY FS_EmptySet, Zenon DEF DebugInit, Inside
  <2>2. Recent(<<>>, 0) /\ Gapless(<<>>, 0) /\ Newest(<<>>)
    BY DEF Recent, Gapless, Newest
  <2>. QED BY <2>1, <2>2, DebugAssumption DEF DebugInit, DebugInv, States
<1>2. DebugInv /\ [DebugNext]_debugVars => DebugInv'
  <2>. SUFFICES ASSUME DebugInv, [DebugNext]_debugVars PROVE DebugInv'
    OBVIOUS
  <2>1. ASSUME NEW c \in Callers, AddTask(c) \/ CountTasks(c) \/ TrimTasks(c) PROVE DebugInv'
    BY <2>1, AddTaskKeeps, CountTasksKeeps, TrimTasksKeeps, Zenon
  <2>2. CASE AddError
    BY <2>2, AddErrorKeeps, Zenon
  <2>3. ASSUME NEW count \in {0, 1}, GetTask(count) PROVE DebugInv'
    <3>1. tasks \in Seq(Entries) /\ Newest(tasks)
      BY Zenon DEF DebugInv, Recent
    <3>. QED BY <2>3, <3>1, ShowKeeps DEF GetTask
  <2>4. ASSUME NEW count \in {0, 1}, GetError(count) PROVE DebugInv'
    <3>1. errors \in Seq(Entries) /\ Newest(errors)
      BY Zenon DEF DebugInv, Recent
    <3>. QED BY <2>4, <3>1, ShowKeeps DEF GetError
  <2>5. CASE Switch \/ UNCHANGED debugVars
    BY <2>5, Zenon DEF Switch, debugVars, DebugInv, Inside
  <2>. QED BY <2>1, <2>2, <2>3, <2>4, <2>5, Zenon DEF DebugNext
<1>. QED BY <1>1, <1>2, PTL DEF DebugSpec

\* The lists, counters and callers of task debugging keep their types, and a
\* reader is never shown more entries than it counted (task_debug.go:72-118).
THEOREM DebugTypes == DebugSpec => []DebugTypeOK
<1>1. DebugInv => DebugTypeOK
  BY DebugAssumption DEF DebugInv, DebugTypeOK, States
<1>. QED BY <1>1, DebugInvariant, PTL

\* However AddTask, its trims decided on an old length, repeated calls and readers
\* interleave, the list of tasks holds the newest tasks without a gap and grows
\* past its limit only by what is under way (task_debug.go:52-70).
THEOREM DebugListIsRecent == DebugSpec => []DebugListRecent
<1>1. DebugInv => DebugListRecent
  <2>. SUFFICES ASSUME DebugInv PROVE DebugListRecent
    OBVIOUS
  <2>1. Gapless(tasks, taskNo) /\ (taskNo > DebugKeep => Len(tasks) > DebugKeep)
    BY DebugAssumption DEF DebugInv
  <2>2. ASSUME NEW i \in 1 .. Len(shown.entries) - 1
        PROVE  shown.entries[i].no >= shown.entries[i + 1].no
    <3>1. shown.entries \in Seq(Entries) /\ Newest(shown.entries)
      BY Zenon DEF DebugInv
    <3>2. i \in 1 .. Len(shown.entries) /\ i + 1 \in 1 .. Len(shown.entries) /\ i < i + 1
      BY <3>1
    <3>. QED BY <3>1, <3>2, Zenon DEF Newest
  <2>. QED BY <2>1, <2>2, Zenon DEF DebugInv, DebugListRecent, Gapless, Inside
<1>. QED BY <1>1, DebugInvariant, PTL

-----------------------------------------------------------------------------
\* The partial sums of a sequence of naturals.
Sums(s, sum) == sum[0] = 0 /\ \A i \in 1 .. Len(s) : sum[i] = sum[i - 1] + s[i]

LEMMA TotalIsSum ==
    ASSUME NEW s \in Seq(Nat)
    PROVE  \E sum \in [0 .. Len(s) -> Nat] : Sums(s, sum) /\ Total(s) = sum[Len(s)]
<1> DEFINE n == Len(s)
           G == [i \in 1 .. n |-> [x \in Nat |-> x + s[i]]]
           Add1(f) == [i \in 0 .. n |-> IF i = 0 THEN 0 ELSE f[i - 1] + s[i]]
           sum == CHOOSE f : f = Add1(f)
<1>1. n \in Nat /\ \A i \in 1 .. n : s[i] \in Nat
  OBVIOUS
<1>2. ASSUME NEW x \in Nat, NEW i \in 1 .. n PROVE G[i][x] = x + s[i] /\ G[i][x] \in Nat
  BY <1>1
<1>3. PICK h \in [0 .. n -> Nat] : h[0] = 0 /\ \A i \in 1 .. n : h[i] = G[i][h[i - 1]]
  <2>. HIDE DEF G, n
  <2>1. Rounds(Nat, n, G)
    BY <1>2, Zenon DEF Rounds
  <2>2. Course(Nat, 0, n, G) # {}
    <3>1. 0 \in Nat
      OBVIOUS
    <3>. QED BY <1>1, <2>1, <3>1, LoopRuns, Zenon
  <2>. QED BY <2>2, Zenon DEF Course
<1>4. ASSUME NEW i \in 1 .. n PROVE h[i] = h[i - 1] + s[i]
  <2>1. h[i - 1] \in Nat
    <3>1. i - 1 \in 0 .. n
      BY <1>1
    <3>. HIDE DEF n, G
    <3>. QED BY <1>3, <3>1, Zenon
  <2>. HIDE DEF G, n
  <2>. QED BY <1>2, <1>3, <2>1, Zenon
<1>5. h = Add1(h)
  <2>1. h = [i \in 0 .. n |-> h[i]]
    BY <1>3, Zenon
  <2>2. ASSUME NEW i \in 0 .. n PROVE h[i] = IF i = 0 THEN 0 ELSE h[i - 1] + s[i]
    <3>1. i # 0 => i \in 1 .. n
      BY <1>1
    <3>. QED BY <1>3, <1>4, <3>1, Zenon
  <2>. HIDE DEF n
  <2>. QED BY <2>1, <2>2, Zenon
<1>6. sum = Add1(sum)
  <2>. HIDE DEF Add1
  <2>. QED BY <1>5, Zenon
<1>7. Total(s) = sum[n]
  BY Zenon DEF Total
<1>. HIDE DEF sum
<1>8. sum = [i \in 0 .. n |-> sum[i]] /\ Sums(s, sum)
  <2>. HIDE DEF n
  <2>1. sum = [i \in 0 .. n |-> sum[i]]
    BY <1>6, Zenon
  <2>2. \A i \in 0 .. n : sum[i] = IF i = 0 THEN 0 ELSE sum[i - 1] + s[i]
    BY <1>6, Zenon
  <2>3. 0 \in 0 .. n /\ \A i \in 1 .. n : i \in 0 .. n /\ i # 0
    BY <1>1
  <2>. QED BY <2>1, <2>2, <2>3, Zenon DEF Sums, n
<1>9. \A i \in 0 .. n : sum[i] \in Nat
  <2> DEFINE S == {i \in Nat : i <= n => sum[i] \in Nat}
  <2>1. 0 \in S
    BY <1>8 DEF Sums
  <2>2. ASSUME NEW i \in Nat, i \in S PROVE i + 1 \in S
    <3>1. SUFFICES ASSUME i + 1 <= n PROVE sum[i + 1] \in Nat
      OBVIOUS
    <3>2. i + 1 \in 1 .. n /\ (i + 1) - 1 = i /\ sum[i] \in Nat
      BY <1>1, <2>2, <3>1
    <3>3. sum[i + 1] = sum[i] + s[i + 1]
      BY <1>8, <3>2, Zenon DEF Sums
    <3>. QED BY <1>1, <3>2, <3>3
  <2>3. \A i \in Nat : i \in S
    <3>. HIDE DEF S
    <3>. QED BY <2>1, <2>2, NatBySet, Zenon
  <2>. QED BY <1>1, <2>3
<1>10. sum \in [0 .. n -> Nat]
  <2>. HIDE DEF n
  <2>. QED BY <1>8, <1>9, Zenon
<1>. QED BY <1>7, <1>8, <1>10, Zenon

LEMMA TotalAppend ==
    ASSUME NEW s \in Seq(Nat), NEW x \in Nat
    PROVE  Total(s) \in Nat /\ Total(Append(s, x)) = Total(s) + x
<1> DEFINE n == Len(s)
           t == Append(s, x)
<1>1. n \in Nat /\ t \in Seq(Nat) /\ Len(t) = n + 1 /\ t[n + 1] = x
      /\ \A i \in 1 .. n : t[i] = s[i]
  OBVIOUS
<1>2. PICK a \in [0 .. Len(s) -> Nat] : Sums(s, a) /\ Total(s) = a[Len(s)]
  BY TotalIsSum, Zenon
<1>. HIDE DEF t
<1>3. PICK b \in [0 .. Len(t) -> Nat] : Sums(t, b) /\ Total(t) = b[Len(t)]
  BY <1>1, TotalIsSum, Zenon
<1> DEFINE S == {i \in Nat : i <= n => a[i] = b[i]}
<1>4. 0 \in S
  BY <1>2, <1>3, Zenon DEF Sums
<1>5. ASSUME NEW i \in Nat, i \in S PROVE i + 1 \in S
  <2>1. SUFFICES ASSUME i + 1 <= n PROVE a[i + 1] = b[i + 1]
    OBVIOUS
  <2>2. i + 1 \in 1 .. n /\ (i + 1) - 1 = i /\ a[i] = b[i] /\ i + 1 \in 1 .. Len(t)
    BY <1>1, <1>5, <2>1
  <2>3. a[i + 1] = a[i] + s[i + 1] /\ b[i + 1] = b[i] + t[i + 1]
    BY <1>2, <1>3, <2>2, Zenon DEF Sums
  <2>. QED BY <1>1, <2>2, <2>3, Zenon
<1>6. a[n] = b[n]
  <2>1. n \in S
    <3>. HIDE DEF S, n
    <3>. QED BY <1>1, <1>4, <1>5, NatBySet, Zenon
  <2>. QED BY <1>1, <2>1
<1>7. b[n + 1] = b[n] + x
  <2>1. n + 1 \in 1 .. Len(t) /\ (n + 1) - 1 = n
    BY <1>1
  <2>. QED BY <1>1, <1>3, <2>1, Zenon DEF Sums
<1>8. a[n] \in Nat
  <2>1. n \in 0 .. n
    BY <1>1
  <2>. QED BY <1>2, <2>1, Zenon
<1>. QED BY <1>1, <1>2, <1>3, <1>6, <1>7, <1>8, Zenon DEF t

LEMMA TotalBump ==
    ASSUME NEW s \in Seq(Nat), NEW j \in 1 .. Len(s), NEW x \in Nat
    PROVE  Total([s EXCEPT ![j] = @ + x]) = Total(s) + x
<1> DEFINE n == Len(s)
           t == [s EXCEPT ![j] = @ + x]
<1>1. n \in Nat /\ t \in Seq(Nat) /\ Len(t) = n /\ t[j] = s[j] + x /\ j \in Nat
      /\ (\A i \in 1 .. n : s[i] \in Nat) /\ \A i \in 1 .. n : i # j => t[i] = s[i]
  OBVIOUS
<1>2. PICK a \in [0 .. Len(s) -> Nat] : Sums(s, a) /\ Total(s) = a[Len(s)]
  BY TotalIsSum, Zenon
<1>. HIDE DEF t
<1>3. PICK b \in [0 .. Len(t) -> Nat] : Sums(t, b) /\ Total(t) = b[Len(t)]
  BY <1>1, TotalIsSum, Zenon
<1> DEFINE S == {i \in Nat : i <= n => b[i] = IF i < j THEN a[i] ELSE a[i] + x}
<1>4. 0 \in S
  BY <1>2, <1>3 DEF Sums
<1>5. ASSUME NEW i \in Nat, i \in S PROVE i + 1 \in S
  <2>1. SUFFICES ASSUME i + 1 <= n
                 PROVE  b[i + 1] = IF i + 1 < j THEN a[i + 1] ELSE a[i + 1] + x
    OBVIOUS
  <2>2. i + 1 \in 1 .. n /\ (i + 1) - 1 = i /\ i + 1 \in 1 .. Len(t) /\ i \in 0 .. n
        /\ b[i] = IF i < j THEN a[i] ELSE a[i] + x
    <3>1. i + 1 \in 1 .. n /\ (i + 1) - 1 = i /\ i \in 0 .. n /\ i <= n
      <4>. HIDE DEF S
      <4>. QED BY <1>1, <2>1
    <3>. QED BY <1>1, <1>5, <3>1, Zenon
  <2>3. a[i + 1] = a[i] + s[i + 1] /\ b[i + 1] = b[i] + t[i + 1]
    BY <1>2, <1>3, <2>2, Zenon DEF Sums
  <2>4. a[i] \in Nat /\ s[i + 1] \in Nat
    BY <1>1, <1>2, <2>2, Zenon
  <2>5. CASE i + 1 < j
    <3>1. i < j /\ i + 1 # j
      BY <1>1, <2>5
    <3>2. b[i] = a[i] /\ t[i + 1] = s[i + 1]
      BY <1>1, <2>2, <3>1, Zenon
    <3>3. b[i + 1] = a[i + 1]
      BY <2>3, <3>2, Zenon
    <3>. QED BY <2>5, <3>3, Zenon
  <2>6. CASE i + 1 = j
    <3>0. i < j /\ ~(i + 1 < j)
      BY <1>1, <2>6
    <3>1. b[i] = a[i] /\ t[i + 1] = s[i + 1] + x
      BY <1>1, <2>2, <2>6, <3>0, Zenon
    <3>2. b[i + 1] = a[i + 1] + x
      <4>. HIDE DEF n, S
      <4>. QED BY <2>3, <2>4, <3>1
    <3>. QED BY <3>0, <3>2, Zenon
  <2>7. CASE i + 1 > j
    <3>1. ~(i < j) /\ ~(i + 1 < j) /\ i + 1 # j
      BY <1>1, <2>7
    <3>2. b[i] = a[i] + x /\ t[i + 1] = s[i + 1]
      BY <1>1, <2>2, <3>1, Zenon
    <3>3. b[i + 1] = a[i + 1] + x
      <4>. HIDE DEF n, S
      <4>. QED BY <2>3, <2>4, <3>2
    <3>. QED BY <3>1, <3>3, Zenon
  <2>. QED BY <1>1, <2>5, <2>6, <2>7
<1>6. n \in S
  <2>. HIDE DEF S, n
  <2>. QED BY <1>1, <1>4, <1>5, NatBySet, Zenon
<1>. QED BY <1>1, <1>2, <1>3, <1>6 DEF t

-----------------------------------------------------------------------------
Durations == Nat \ {0}
Data == [success : Nat, fail : Nat, max : Nat, min : Nat, total : Nat, seen : Seq(Durations)]

\* TimesExact in the form a sample preserves.
Extremes(d) ==
  /\ d.max \in Range(d.seen) \cup {0}
  /\ \A y \in Range(d.seen) : y <= d.max
  /\ d.total = Total(d.seen)
  /\ NotRecords(d.seen) = {} => d.min = 0
  /\ NotRecords(d.seen) # {} =>
       d.min \in NotRecords(d.seen) /\ \A y \in NotRecords(d.seen) : d.min <= y

LEMMA ExtremesExact ==
    ASSUME NEW d \in Data, Extremes(d)
    PROVE  TimesExact(d)
<1> DEFINE A == Range(d.seen) \cup {0}
           B == NotRecords(d.seen)
<1>1. d.seen \in Seq(Durations) /\ d.max \in Nat /\ d.min \in Nat
  BY Zenon DEF Data
<1>2. \A y \in Range(d.seen) : y \in Nat
  BY <1>1 DEF Range, Durations
<1>3. B \subseteq Range(d.seen)
  BY <1>1, Zenon DEF NotRecords, Range
<1>4. d.max \in A /\ \A y \in A : y \in Nat /\ d.max >= y
  BY <1>1, <1>2 DEF Extremes
<1>5. d.max = Max(A)
  <2>. HIDE DEF A
  <2> DEFINE m == CHOOSE x \in A : \A y \in A : x >= y
  <2>1. m \in A /\ \A y \in A : m >= y
    BY <1>4, Zenon
  <2>2. Max(A) = m
    BY Zenon DEF Max
  <2>. HIDE DEF m
  <2>3. d.max >= m /\ m >= d.max /\ m \in Nat
    BY <1>4, <2>1, Zenon
  <2>. QED BY <1>1, <2>2, <2>3
<1>6. ASSUME B # {} PROVE d.min = Min(B)
  <2>1. d.min \in B /\ \A y \in B : y \in Nat /\ d.min <= y
    BY <1>2, <1>3, <1>6, Zenon DEF Extremes
  <2>. HIDE DEF B
  <2> DEFINE m == CHOOSE x \in B : \A y \in B : x <= y
  <2>2. m \in B /\ \A y \in B : m <= y
    BY <2>1, Zenon
  <2>3. Min(B) = m
    BY Zenon DEF Min
  <2>. HIDE DEF m
  <2>4. d.min <= m /\ m <= d.min /\ m \in Nat
    BY <2>1, <2>2, Zenon
  <2>. QED BY <1>1, <2>3, <2>4
<1>. HIDE DEF Extremes
<1>7. d.total = Total(d.seen) /\ (B = {} => d.min = 0)
  BY Zenon DEF Extremes
<1>. QED BY <1>5, <1>6, <1>7, Zenon DEF TimesExact

LEMMA AppendSet ==
    ASSUME NEW s \in Seq(Durations), NEW x \in Durations
    PROVE  /\ Append(s, x) \in Seq(Durations)
           /\ Range(Append(s, x)) = Range(s) \cup {x}
           /\ NotRecords(Append(s, x)) =
                NotRecords(s) \cup (IF \E y \in Range(s) : y >= x THEN {x} ELSE {})
<1> DEFINE n == Len(s)
           t == Append(s, x)
<1>1. n \in Nat /\ DOMAIN s = 1 .. n /\ t \in Seq(Durations) /\ DOMAIN t = 1 .. n + 1
      /\ t[n + 1] = x /\ \A i \in 1 .. n : t[i] = s[i]
  OBVIOUS
<1>. HIDE DEF t, n
<1>2. 1 .. n + 1 = (1 .. n) \cup {n + 1}
  BY <1>1
<1>3. Range(t) = Range(s) \cup {x}
  <2>1. ASSUME NEW v PROVE v \in Range(t) <=> v \in Range(s) \/ v = x
    <3>1. v \in Range(t) <=> \E i \in 1 .. n + 1 : t[i] = v
      BY <1>1, Zenon DEF Range
    <3>2. v \in Range(s) <=> \E i \in 1 .. n : s[i] = v
      BY <1>1, Zenon DEF Range
    <3>. QED BY <1>1, <1>2, <3>1, <3>2, Zenon
  <2>. QED BY <2>1, Zenon
<1> DEFINE J(u) == {j \in DOMAIN u : \E k \in 1 .. j - 1 : u[k] >= u[j]}
<1>4. ASSUME NEW j \in 1 .. n PROVE j \in J(t) <=> j \in J(s)
  <2>1. \A k \in 1 .. j - 1 : k \in 1 .. n
    BY <1>1
  <2>2. t[j] = s[j] /\ j \in DOMAIN t /\ j \in DOMAIN s /\ \A k \in 1 .. j - 1 : t[k] = s[k]
    BY <1>1, <1>2, <2>1, Zenon
  <2>. QED BY <2>2, Zenon
<1>5. n + 1 \in J(t) <=> \E y \in Range(s) : y >= x
  <2>1. (n + 1) - 1 = n /\ n + 1 \in DOMAIN t
    BY <1>1
  <2>2. n + 1 \in J(t) <=> \E k \in 1 .. n : t[k] >= t[n + 1]
    BY <2>1, Zenon
  <2>3. (\E k \in 1 .. n : t[k] >= t[n + 1]) <=> (\E k \in 1 .. n : s[k] >= x)
    BY <1>1, Zenon
  <2>4. (\E k \in 1 .. n : s[k] >= x) <=> \E y \in Range(s) : y >= x
    BY <1>1, Zenon DEF Range
  <2>. QED BY <2>2, <2>3, <2>4, Zenon
<1>6. J(t) = J(s) \cup (IF \E y \in Range(s) : y >= x THEN {n + 1} ELSE {})
  <2>1. J(t) \subseteq 1 .. n + 1 /\ J(s) \subseteq 1 .. n
    BY <1>1, Zenon
  <2>. HIDE DEF J
  <2>. QED BY <1>2, <1>4, <1>5, <2>1, Zenon
<1>7. NotRecords(t) = {t[i] : i \in J(t)} /\ NotRecords(s) = {s[i] : i \in J(s)}
  BY Zenon DEF NotRecords
<1>8. J(s) \subseteq 1 .. n
  BY <1>1, Zenon
<1>. HIDE DEF J
<1>9. {t[i] : i \in J(s)} = {s[i] : i \in J(s)}
  BY <1>1, <1>8, Zenon
<1>10. NotRecords(t) = NotRecords(s) \cup (IF \E y \in Range(s) : y >= x THEN {x} ELSE {})
  <2>1. CASE \E y \in Range(s) : y >= x
    <3>1. J(t) = J(s) \cup {n + 1}
      BY <1>6, <2>1, Zenon
    <3>2. {t[i] : i \in J(t)} = {t[i] : i \in J(s)} \cup {t[n + 1]}
      BY <3>1, Zenon
    <3>3. {t[i] : i \in J(t)} = {s[i] : i \in J(s)} \cup {x}
      BY <3>2, <1>1, <1>9, Zenon
    <3>. QED BY <1>7, <2>1, <3>3, Zenon
  <2>2. CASE ~ \E y \in Range(s) : y >= x
    <3>1. J(t) = J(s)
      BY <1>6, <2>2, Zenon
    <3>. QED BY <1>7, <1>9, <2>2, <3>1, Zenon
  <2>. QED BY <2>1, <2>2, Zenon
<1>. QED BY <1>1, <1>3, <1>10, Zenon DEF t

\* A sample keeps the durations of its minute exact.
LEMMA TimedExact ==
    ASSUME NEW d \in Data, Extremes(d), NEW tc \in Durations
    PROVE  /\ Timed(d, tc) \in Data
           /\ Extremes(Timed(d, tc))
           /\ Timed(d, tc).success = d.success
           /\ Timed(d, tc).fail = d.fail
<1> DEFINE s == d.seen
           e == Timed(d, tc)
           R == Range(s)
           N == NotRecords(s)
<1>1. s \in Seq(Durations) /\ s \in Seq(Nat) /\ d.max \in Nat /\ d.min \in Nat /\ d.total \in Nat
      /\ tc \in Nat /\ tc > 0
  BY DEF Data, Durations
<1>2. /\ e.success = d.success /\ e.fail = d.fail
      /\ e.total = d.total + tc
      /\ e.max = (IF tc > d.max THEN tc ELSE d.max)
      /\ e.min = (IF tc <= d.max /\ (d.min = 0 \/ tc < d.min) THEN tc ELSE d.min)
      /\ e.seen = Append(s, tc)
  BY Zenon DEF Timed, Data
<1>3. /\ Append(s, tc) \in Seq(Durations)
      /\ Range(Append(s, tc)) = R \cup {tc}
      /\ NotRecords(Append(s, tc)) = N \cup (IF \E y \in R : y >= tc THEN {tc} ELSE {})
  BY <1>1, AppendSet, Zenon
<1>4. e \in Data
  <2> DEFINE total == d.total + tc
             max == IF tc > d.max THEN tc ELSE d.max
             min == IF tc <= d.max /\ (d.min = 0 \/ tc < d.min) THEN tc ELSE d.min
             seen == Append(d.seen, tc)
  <2>1. total \in Nat /\ max \in Nat /\ min \in Nat /\ seen \in Seq(Durations)
    BY <1>1, <1>3
  <2>2. e = [d EXCEPT !.total = total, !.max = max, !.min = min, !.seen = seen]
    BY Zenon DEF Timed
  <2>. HIDE DEF e, total, max, min, seen
  <2>. QED BY <2>1, <2>2, Zenon DEF Data
<1>5. R \subseteq Durations /\ N \subseteq R
  <2>1. N \subseteq R
    BY Zenon DEF NotRecords, Range
  <2>. QED BY <1>1, <2>1 DEF Range
<1>6. /\ d.max \in R \cup {0}
      /\ \A y \in R : y \in Nat /\ y > 0 /\ y <= d.max
      /\ d.total = Total(s)
      /\ N = {} => d.min = 0
      /\ N # {} => d.min \in N /\ \A y \in N : d.min <= y
  BY <1>5 DEF Extremes, Durations
<1>. HIDE DEF e, s, R, N
<1>7. (\E y \in R : y >= tc) <=> tc <= d.max
  BY <1>1, <1>6
<1>8. e.max \in (R \cup {tc}) \cup {0} /\ \A y \in R \cup {tc} : y <= e.max
  BY <1>1, <1>2, <1>6
<1>9. e.total = Total(e.seen)
  <2>1. Total(Append(s, tc)) = Total(s) + tc
    BY <1>1, TotalAppend, Zenon
  <2>. QED BY <1>2, <1>6, <2>1, Zenon
<1> DEFINE M == N \cup (IF \E y \in R : y >= tc THEN {tc} ELSE {})
<1>10. (M = {} => e.min = 0) /\ (M # {} => e.min \in M /\ \A y \in M : e.min <= y)
  <2>0. \A y \in N : y \in Nat /\ y > 0
    BY <1>5, <1>6, Zenon
  <2>1. CASE tc <= d.max
    <3>1. M = N \cup {tc}
      BY <1>7, <2>1, Zenon
    <3>2. CASE N = {}
      <4>1. e.min = tc /\ M = {tc}
        BY <1>2, <1>6, <2>1, <3>1, <3>2, Zenon
      <4>. HIDE DEF M
      <4>. QED BY <1>1, <4>1
    <3>3. CASE N # {}
      <4>1. d.min \in N /\ (\A y \in N : d.min <= y) /\ d.min # 0
        BY <1>6, <2>0, <3>3
      <4>2. e.min = IF tc < d.min THEN tc ELSE d.min
        BY <1>2, <2>1, <4>1, Zenon
      <4>3. \A y \in N : e.min <= y
        BY <1>1, <2>0, <4>1, <4>2
      <4>4. e.min <= tc
        BY <1>1, <4>2
      <4>5. e.min \in M
        BY <3>1, <4>1, <4>2, Zenon
      <4>. QED BY <3>1, <4>3, <4>4, <4>5, Zenon
    <3>. QED BY <3>2, <3>3, Zenon
  <2>2. CASE ~ (tc <= d.max)
    <3>1. M = N /\ e.min = d.min
      BY <1>2, <1>7, <2>2, Zenon
    <3>. QED BY <1>6, <3>1, Zenon
  <2>. QED BY <2>1, <2>2, Zenon
<1>11. Extremes(e)
  BY <1>2, <1>3, <1>8, <1>9, <1>10, Zenon DEF Extremes, s
<1>. QED BY <1>2, <1>4, <1>11, Zenon DEF e

LEMMA CountedExact ==
    ASSUME NEW d \in Data, Extremes(d), NEW item, item.ok \in BOOLEAN
    PROVE  /\ Counted(d, item) \in Data
           /\ Extremes(Counted(d, item))
           /\ Counted(d, item).success = d.success + (IF item.ok THEN 1 ELSE 0)
           /\ Counted(d, item).fail = d.fail + (IF item.ok THEN 0 ELSE 1)
<1> DEFINE e == Counted(d, item)
<1>1. e \in Data
  BY DEF Counted, Data
<1>2. e.max = d.max /\ e.min = d.min /\ e.total = d.total /\ e.seen = d.seen
  BY Zenon DEF Counted, Data
<1>3. Extremes(e)
  <2>. HIDE DEF e
  <2>. QED BY <1>2, Zenon DEF Extremes
<1>4. d.success \in Nat /\ d.fail \in Nat
  BY Zenon DEF Data
<1>5. /\ e.success = d.success + (IF item.ok THEN 1 ELSE 0)
      /\ e.fail = d.fail + (IF item.ok THEN 0 ELSE 1)
  BY <1>4 DEF Counted, Data
<1>. QED BY <1>1, <1>3, <1>5, Zenon

-----------------------------------------------------------------------------
Succeeded(m) == [i \in DOMAIN m |-> m[i].success]
Failed(m) == [i \in DOMAIN m |-> m[i].fail]

LEMMA CountsOfMaps ==
    ASSUME NEW m \in Seq(Data)
    PROVE  /\ Succeeded(m) \in Seq(Nat) /\ Len(Succeeded(m)) = Len(m)
           /\ Failed(m) \in Seq(Nat) /\ Len(Failed(m)) = Len(m)
           /\ Total(Succeeded(m)) \in Nat /\ Total(Failed(m)) \in Nat
<1>1. Len(m) \in Nat /\ DOMAIN m = 1 .. Len(m) /\ \A i \in 1 .. Len(m) : m[i] \in Data
  OBVIOUS
<1>2. \A i \in 1 .. Len(m) : m[i].success \in Nat /\ m[i].fail \in Nat
  BY <1>1, Zenon DEF Data
<1>3. Succeeded(m) \in [1 .. Len(m) -> Nat] /\ Failed(m) \in [1 .. Len(m) -> Nat]
  BY <1>1, <1>2, Zenon DEF Succeeded, Failed
<1>4. /\ Succeeded(m) \in Seq(Nat) /\ Len(Succeeded(m)) = Len(m)
      /\ Failed(m) \in Seq(Nat) /\ Len(Failed(m)) = Len(m)
  <2>1. ASSUME NEW k \in Nat, NEW s \in [1 .. k -> Nat] PROVE s \in Seq(Nat) /\ Len(s) = k
    OBVIOUS
  <2>. QED BY <1>1, <1>3, <2>1, Zenon
<1>5. 0 \in Nat
  OBVIOUS
<1>. QED BY <1>4, <1>5, TotalAppend, Zenon

\* A sample counted in one map is one more in the sum.
LEMMA OneMore ==
    ASSUME NEW m \in Seq(Data), NEW j \in DOMAIN m, NEW d \in Data,
           NEW x \in Nat, NEW y \in Nat,
           d.success = m[j].success + x, d.fail = m[j].fail + y
    PROVE  /\ [m EXCEPT ![j] = d] \in Seq(Data)
           /\ Total(Succeeded([m EXCEPT ![j] = d])) = Total(Succeeded(m)) + x
           /\ Total(Failed([m EXCEPT ![j] = d])) = Total(Failed(m)) + y
<1> DEFINE n == [m EXCEPT ![j] = d]
<1>1. Len(m) \in Nat /\ DOMAIN m = 1 .. Len(m)
  OBVIOUS
<1>2. n \in Seq(Data) /\ DOMAIN n = DOMAIN m /\ n[j] = d /\ \A i \in DOMAIN m : i # j => n[i] = m[i]
  BY <1>1
<1>. HIDE DEF n
<1>3. Succeeded(n) = [Succeeded(m) EXCEPT ![j] = @ + x]
  BY <1>2, Zenon DEF Succeeded
<1>4. Failed(n) = [Failed(m) EXCEPT ![j] = @ + y]
  BY <1>2, Zenon DEF Failed
<1>5. /\ Succeeded(m) \in Seq(Nat) /\ j \in 1 .. Len(Succeeded(m))
      /\ Failed(m) \in Seq(Nat) /\ j \in 1 .. Len(Failed(m))
  BY <1>1, CountsOfMaps, Zenon
<1>6. Total([Succeeded(m) EXCEPT ![j] = @ + x]) = Total(Succeeded(m)) + x
  BY <1>5, TotalBump, Zenon
<1>7. Total([Failed(m) EXCEPT ![j] = @ + y]) = Total(Failed(m)) + y
  BY <1>5, TotalBump, Zenon
<1>. QED BY <1>2, <1>3, <1>4, <1>6, <1>7, Zenon DEF n

LEMMA SameSeq ==
    ASSUME NEW T, NEW s \in Seq(T), NEW t \in Seq(T), Len(s) = Len(t),
           \A i \in 1 .. Len(s) : s[i] = t[i]
    PROVE  s = t
OBVIOUS

\* A new map adds nothing to the sum.
LEMMA NewMap ==
    ASSUME NEW m \in Seq(Data)
    PROVE  /\ Append(m, NewData) \in Seq(Data)
           /\ Total(Succeeded(Append(m, NewData))) = Total(Succeeded(m))
           /\ Total(Failed(Append(m, NewData))) = Total(Failed(m))
           /\ Extremes(NewData)
<1> DEFINE n == Append(m, NewData)
<1>1. NewData \in Data /\ NewData.success = 0 /\ NewData.fail = 0
  BY DEF NewData, Data
<1>2. /\ Len(m) \in Nat /\ DOMAIN m = 1 .. Len(m) /\ n \in Seq(Data)
      /\ DOMAIN n = 1 .. Len(m) + 1 /\ n[Len(m) + 1] = NewData
      /\ \A i \in 1 .. Len(m) : n[i] = m[i]
  BY <1>1
<1>. HIDE DEF n
<1>3. /\ Succeeded(m) \in Seq(Nat) /\ Len(Succeeded(m)) = Len(m)
      /\ Failed(m) \in Seq(Nat) /\ Len(Failed(m)) = Len(m)
      /\ Total(Succeeded(m)) \in Nat /\ Total(Failed(m)) \in Nat
  BY CountsOfMaps, Zenon
<1>4. Succeeded(n) = Append(Succeeded(m), 0)
  <2>1. Succeeded(n) = [i \in 1 .. Len(m) + 1 |-> n[i].success]
    BY <1>2, Zenon DEF Succeeded
  <2>2. \A i \in 1 .. Len(m) : Succeeded(m)[i] = m[i].success
    BY <1>2, Zenon DEF Succeeded
  <2>3. Succeeded(n) \in Seq(Nat) /\ Len(Succeeded(n)) = Len(m) + 1
    <3>1. Len(n) = Len(m) + 1
      BY <1>2
    <3>. QED BY <1>2, <3>1, CountsOfMaps, Zenon
  <2> DEFINE s == Succeeded(m)
             t == Append(s, 0)
  <2>4. t \in Seq(Nat) /\ Len(t) = Len(m) + 1 /\ t[Len(m) + 1] = 0
        /\ \A i \in 1 .. Len(m) : t[i] = s[i]
    <3>. HIDE DEF s
    <3>1. s \in Seq(Nat) /\ Len(s) = Len(m)
      BY <1>3, Zenon DEF s
    <3>. QED BY <1>2, <3>1
  <2>. HIDE DEF s, t
  <2>5. ASSUME NEW i \in 1 .. Len(m) + 1 PROVE Succeeded(n)[i] = t[i]
    <3>1. Succeeded(n)[i] = n[i].success
      BY <2>1, Zenon
    <3>2. CASE i \in 1 .. Len(m)
      BY <1>2, <2>2, <2>4, <3>1, <3>2, Zenon DEF s
    <3>3. CASE i = Len(m) + 1
      BY <1>1, <1>2, <2>4, <3>1, <3>3, Zenon
    <3>4. i \in 1 .. Len(m) \/ i = Len(m) + 1
      BY <1>2
    <3>. QED BY <3>2, <3>3, <3>4, Zenon
  <2>6. Succeeded(n) = t
    BY <2>3, <2>4, <2>5, SameSeq, Zenon
  <2>. QED BY <2>6, Zenon DEF s, t
<1>5. Failed(n) = Append(Failed(m), 0)
  <2>1. Failed(n) = [i \in 1 .. Len(m) + 1 |-> n[i].fail]
    BY <1>2, Zenon DEF Failed
  <2>2. \A i \in 1 .. Len(m) : Failed(m)[i] = m[i].fail
    BY <1>2, Zenon DEF Failed
  <2>3. Failed(n) \in Seq(Nat) /\ Len(Failed(n)) = Len(m) + 1
    <3>1. Len(n) = Len(m) + 1
      BY <1>2
    <3>. QED BY <1>2, <3>1, CountsOfMaps, Zenon
  <2> DEFINE s == Failed(m)
             t == Append(s, 0)
  <2>4. t \in Seq(Nat) /\ Len(t) = Len(m) + 1 /\ t[Len(m) + 1] = 0
        /\ \A i \in 1 .. Len(m) : t[i] = s[i]
    <3>. HIDE DEF s
    <3>1. s \in Seq(Nat) /\ Len(s) = Len(m)
      BY <1>3, Zenon DEF s
    <3>. QED BY <1>2, <3>1
  <2>. HIDE DEF s, t
  <2>5. ASSUME NEW i \in 1 .. Len(m) + 1 PROVE Failed(n)[i] = t[i]
    <3>1. Failed(n)[i] = n[i].fail
      BY <2>1, Zenon
    <3>2. CASE i \in 1 .. Len(m)
      BY <1>2, <2>2, <2>4, <3>1, <3>2, Zenon DEF s
    <3>3. CASE i = Len(m) + 1
      BY <1>1, <1>2, <2>4, <3>1, <3>3, Zenon
    <3>4. i \in 1 .. Len(m) \/ i = Len(m) + 1
      BY <1>2
    <3>. QED BY <3>2, <3>3, <3>4, Zenon
  <2>6. Failed(n) = t
    BY <2>3, <2>4, <2>5, SameSeq, Zenon
  <2>. QED BY <2>6, Zenon DEF s, t
<1>6. /\ Total(Append(Succeeded(m), 0)) = Total(Succeeded(m)) + 0
      /\ Total(Append(Failed(m), 0)) = Total(Failed(m)) + 0
  <2>1. 0 \in Nat
    OBVIOUS
  <2>. QED BY <1>3, <2>1, TotalAppend, Zenon
<1>7. Extremes(NewData)
  <2>1. NewData.seen = <<>> /\ NewData.max = 0 /\ NewData.min = 0 /\ NewData.total = 0
    BY Zenon DEF NewData
  <2>2. Range(<<>>) = {} /\ NotRecords(<<>>) = {}
    BY DEF Range, NotRecords
  <2>3. Total(<<>>) = 0
    <3>1. <<>> \in Seq(Nat) /\ Len(<<>>) = 0
      OBVIOUS
    <3>2. PICK sum \in [0 .. Len(<<>>) -> Nat] : Sums(<<>>, sum) /\ Total(<<>>) = sum[Len(<<>>)]
      BY <3>1, TotalIsSum, Zenon
    <3>. QED BY <3>1, <3>2, Zenon DEF Sums
  <2>. QED BY <2>1, <2>2, <2>3, Zenon DEF Extremes
<1>. QED BY <1>2, <1>3, <1>4, <1>5, <1>6, <1>7 DEF n

-----------------------------------------------------------------------------
HandOK ==
  \/ hand = <<>>
  \/ \E k \in Counters : hand = <<k>> \/ \E e \in Nat : hand = <<k, e>>

CountersOK ==
  /\ HandOK
  /\ prom \in [Counters -> Nat \cup {Absent}]
  /\ wiped \in [Counters -> Nat] /\ epoch \in [Counters -> Nat]
  /\ cleaner \in [Cleaners -> 0 .. 6] /\ removed \in [Cleaners -> 0 .. 3]
  /\ \A c \in Cleaners : removed[c] = 0 \/ removed[c] + 3 <= cleaner[c]

MapsOK ==
  /\ map \in Seq(Data) /\ cur \in DOMAIN map /\ data \in DOMAIN map /\ cur # data
  /\ map[data] = published
  /\ \A i \in DOMAIN map : Extremes(map[i])

\* The inductive invariant of the statistics.
StatInv ==
  /\ timed \in BOOLEAN
  /\ itemChan \in Seq(Items) /\ Len(itemChan) <= ChannelBuff
  /\ added \in Nat /\ dropped \in Nat
  /\ MapsOK
  /\ CountersOK
  /\ added = dropped + Len(itemChan) + Successes + Failures
  /\ dropped > 0 => added > ChannelBuff
  /\ Held("success") = Successes
  /\ Held("fail") = IF timed THEN Failures ELSE 0

LEMMA SumsOfMaps ==
    ASSUME MapsOK
    PROVE  /\ Successes = Total(Succeeded(map)) /\ Failures = Total(Failed(map))
           /\ Successes \in Nat /\ Failures \in Nat
<1>1. Successes = Total(Succeeded(map)) /\ Failures = Total(Failed(map))
  BY Zenon DEF Successes, Failures, Succeeded, Failed
<1>2. map \in Seq(Data)
  BY Zenon DEF MapsOK
<1>. QED BY <1>1, <1>2, CountsOfMaps, Zenon

\* What is in hand for a counter.
InHand(h, k) == IF h # <<>> /\ (h[1] = k \/ (k = "success" /\ h[1] = "consumes")) THEN 1 ELSE 0
Valued(p) == IF p = Absent THEN 0 ELSE p

LEMMA HeldParts ==
    ASSUME NEW k \in Counters, CountersOK
    PROVE  /\ Held(k) = Valued(prom[k]) + wiped[k] + InHand(hand, k)
           /\ Valued(prom[k]) \in Nat /\ wiped[k] \in Nat /\ InHand(hand, k) \in Nat
<1>1. Held(k) = Valued(prom[k]) + wiped[k] + InHand(hand, k)
  BY Zenon DEF Held, Valued, InHand
<1>2. Valued(prom[k]) \in Nat
  BY Zenon DEF CountersOK, Valued, Absent
<1>3. InHand(hand, k) \in Nat
  BY Zenon DEF InHand
<1>. QED BY <1>1, <1>2, <1>3, Zenon DEF CountersOK

LEMMA AddKeeps == ASSUME StatInv, NEW item \in Items, Add(item) PROVE StatInv'
<1>1. /\ added' = added + 1
      /\ UNCHANGED <<timed, map, cur, data, hand, prom, cleaner, removed, epoch, published, wiped>>
  BY Zenon DEF Add
<1>2. MapsOK' /\ CountersOK'
  BY <1>1, Zenon DEF StatInv, MapsOK, CountersOK, HandOK
<1>3. Held("success")' = Held("success") /\ Held("fail")' = Held("fail")
  BY <1>1, Zenon DEF Held
<1>4. Successes' = Successes /\ Failures' = Failures /\ Successes \in Nat /\ Failures \in Nat
  <2>1. Successes' = Successes /\ Failures' = Failures
    BY <1>1, Zenon DEF Successes, Failures
  <2>. QED BY <2>1, SumsOfMaps, Zenon DEF StatInv
<1>5. ChannelBuff \in Nat /\ added \in Nat /\ dropped \in Nat /\ itemChan \in Seq(Items)
      /\ Len(itemChan) \in Nat /\ Len(itemChan) <= ChannelBuff
      /\ added = dropped + Len(itemChan) + Successes + Failures
      /\ (dropped > 0 => added > ChannelBuff)
  BY StatAssumption DEF StatInv
<1>6. Items' = Items
  BY <1>1, Zenon DEF Items
<1>7. /\ itemChan' \in Seq(Items) /\ Len(itemChan') <= ChannelBuff
      /\ added' \in Nat /\ dropped' \in Nat
      /\ added' = dropped' + Len(itemChan') + Successes + Failures
      /\ dropped' > 0 => added' > ChannelBuff
  <2>1. CASE Len(itemChan) < ChannelBuff
    <3>1. itemChan' = Append(itemChan, item) /\ dropped' = dropped
      BY <2>1, Zenon DEF Add
    <3>2. itemChan' \in Seq(Items) /\ Len(itemChan') = Len(itemChan) + 1
      BY <1>5, <3>1
    <3>. QED BY <1>1, <1>4, <1>5, <2>1, <3>1, <3>2
  <2>2. CASE ~ (Len(itemChan) < ChannelBuff)
    <3>1. itemChan' = itemChan /\ dropped' = dropped + 1
      BY <2>2, Zenon DEF Add
    <3>. QED BY <1>1, <1>4, <1>5, <2>2, <3>1
  <2>. QED BY <2>1, <2>2, Zenon
<1>. QED BY <1>1, <1>2, <1>3, <1>4, <1>6, <1>7, Zenon DEF StatInv

LEMMA ApplyKeeps == ASSUME StatInv, Apply PROVE StatInv'
<1> DEFINE item == Head(itemChan)
           d == Counted(map[cur], item)
           e == IF timed THEN Timed(d, item.tc) ELSE d
           x == IF item.ok THEN 1 ELSE 0
           y == IF item.ok THEN 0 ELSE 1
<1>1. /\ hand = <<>> /\ itemChan # <<>> /\ itemChan' = Tail(itemChan)
      /\ map' = [map EXCEPT ![cur] = e] /\ hand' = External(item.ok)
      /\ UNCHANGED <<timed, cur, data, prom, cleaner, removed, epoch, added, dropped,
                     published, wiped>>
  BY Zenon DEF Apply
<1>2. item \in Items /\ itemChan' \in Seq(Items) /\ Len(itemChan') = Len(itemChan) - 1
      /\ Len(itemChan) \in Nat /\ Len(itemChan) > 0
  BY <1>1 DEF StatInv
<1>3. item.ok \in BOOLEAN /\ (timed => item.tc \in Durations) /\ x \in Nat /\ y \in Nat /\ x + y = 1
  <2>1. item.ok \in BOOLEAN /\ item.tc \in (IF timed THEN Times ELSE {0})
    <3>. HIDE DEF item
    <3>. QED BY <1>2, Zenon DEF Items
  <2>2. timed => item.tc \in Durations
    <3>. HIDE DEF item
    <3>. QED BY <2>1, StatAssumption, Zenon DEF Durations
  <2>. HIDE DEF item
  <2>. QED BY <2>1, <2>2
<1>4. map \in Seq(Data) /\ cur \in DOMAIN map /\ data \in DOMAIN map /\ cur # data
      /\ map[data] = published /\ \A i \in DOMAIN map : Extremes(map[i])
  BY Zenon DEF StatInv, MapsOK
<1>5. map[cur] \in Data /\ Extremes(map[cur])
  BY <1>4
<1>6. d \in Data /\ Extremes(d) /\ d.success = map[cur].success + x /\ d.fail = map[cur].fail + y
  BY <1>3, <1>5, CountedExact
<1>7. e \in Data /\ Extremes(e) /\ e.success = map[cur].success + x /\ e.fail = map[cur].fail + y
  <2>1. CASE timed
    <3>. HIDE DEF d, item, x, y
    <3>. QED BY <1>3, <1>6, <2>1, TimedExact, Zenon
  <2>2. CASE ~timed
    <3>. HIDE DEF d, item, x, y
    <3>. QED BY <1>6, <2>2, Zenon
  <2>. QED BY <2>1, <2>2, Zenon
<1>. HIDE DEF e, d, x, y
<1>8. /\ map' \in Seq(Data)
      /\ Total(Succeeded(map')) = Total(Succeeded(map)) + x
      /\ Total(Failed(map')) = Total(Failed(map)) + y
  BY <1>1, <1>3, <1>4, <1>7, OneMore, Zenon
<1>9. DOMAIN map' = DOMAIN map /\ map'[cur] = e /\ \A i \in DOMAIN map : i # cur => map'[i] = map[i]
  BY <1>1, <1>4, Zenon
<1>10. MapsOK'
  BY <1>1, <1>4, <1>7, <1>8, <1>9, Zenon DEF MapsOK
<1>11. /\ Successes' = Successes + x /\ Failures' = Failures + y
       /\ Successes \in Nat /\ Failures \in Nat
  <2>1. MapsOK
    BY Zenon DEF StatInv
  <2>2. Successes' = Total(Succeeded(map')) /\ Failures' = Total(Failed(map'))
    BY Zenon DEF Successes, Failures, Succeeded, Failed
  <2>. QED BY <1>8, <2>1, <2>2, SumsOfMaps, Zenon
<1>12. CountersOK' /\ InHand(hand, "success") = 0 /\ InHand(hand, "fail") = 0
       /\ InHand(hand', "success") = x /\ InHand(hand', "fail") = IF timed THEN y ELSE 0
  <2>1. hand' = IF item.ok THEN IF timed THEN <<"consumes">> ELSE <<"success">>
                ELSE IF timed THEN <<"fail">> ELSE <<>>
    BY <1>1, Zenon DEF External
  <2>2. HandOK'
    BY <2>1, Zenon DEF HandOK, Counters
  <2>3. InHand(hand, "success") = 0 /\ InHand(hand, "fail") = 0
    BY <1>1, Zenon DEF InHand
  <2>4. InHand(hand', "success") = x /\ InHand(hand', "fail") = IF timed THEN y ELSE 0
    <3>. HIDE DEF item
    <3>1. CASE item.ok /\ timed
      BY <2>1, <3>1, Zenon DEF InHand, x, y
    <3>2. CASE item.ok /\ ~timed
      BY <2>1, <3>2, Zenon DEF InHand, x, y
    <3>3. CASE ~item.ok /\ timed
      BY <2>1, <3>3, Zenon DEF InHand, x, y
    <3>4. CASE ~item.ok /\ ~timed
      BY <2>1, <3>4, Zenon DEF InHand, x, y
    <3>. QED BY <1>3, <3>1, <3>2, <3>3, <3>4, Zenon
  <2>. QED BY <1>1, <2>2, <2>3, <2>4, Zenon DEF StatInv, CountersOK
<1>13. Held("success")' = Held("success") + x
       /\ Held("fail")' = Held("fail") + IF timed THEN y ELSE 0
  <2>1. "success" \in Counters /\ "fail" \in Counters /\ CountersOK
    BY Zenon DEF Counters, StatInv
  <2>2. \A k \in {"success", "fail"} : Held(k)' = Valued(prom[k]) + wiped[k] + InHand(hand', k)
    BY <1>1, Zenon DEF Held, Valued, InHand
  <2>3. \A k \in {"success", "fail"} :
          /\ Held(k) = Valued(prom[k]) + wiped[k] + InHand(hand, k)
          /\ Valued(prom[k]) \in Nat /\ wiped[k] \in Nat
    BY <2>1, HeldParts, Zenon
  <2>. QED BY <1>3, <1>12, <2>2, <2>3
<1>14. Items' = Items
  BY <1>1, Zenon DEF Items
<1>15. /\ Len(itemChan') <= ChannelBuff
       /\ added' = dropped' + Len(itemChan') + Successes' + Failures'
  BY <1>1, <1>2, <1>3, <1>11, StatAssumption DEF StatInv
<1>. QED BY <1>1, <1>2, <1>10, <1>11, <1>12, <1>13, <1>14, <1>15 DEF StatInv

\* A step that leaves the maps and the channel alone and moves a count between
\* the hand, the value and what was deleted.
LEMMA CountsMove ==
    ASSUME StatInv, CountersOK',
           UNCHANGED <<timed, itemChan, map, cur, data, added, dropped, published>>,
           \A k \in {"success", "fail"} :
             Valued(prom'[k]) + wiped'[k] + InHand(hand', k) =
               Valued(prom[k]) + wiped[k] + InHand(hand, k)
    PROVE  StatInv'
<1>1. Held("success")' = Held("success") /\ Held("fail")' = Held("fail")
  <2>1. \A k \in {"success", "fail"} :
          /\ Held(k)' = Valued(prom'[k]) + wiped'[k] + InHand(hand', k)
          /\ Held(k) = Valued(prom[k]) + wiped[k] + InHand(hand, k)
    BY Zenon DEF Held, Valued, InHand
  <2>. QED BY <2>1, Zenon
<1>2. Successes' = Successes /\ Failures' = Failures /\ Items' = Items
  BY Zenon DEF Successes, Failures, Items
<1>3. MapsOK'
  BY Zenon DEF StatInv, MapsOK
<1>. QED BY <1>1, <1>2, <1>3, Zenon DEF StatInv

LEMMA HandLength ==
    ASSUME HandOK
    PROVE  /\ Len(hand) = 1 => \E k \in Counters : hand = <<k>>
           /\ Len(hand) = 2 => \E k \in Counters : \E e \in Nat : hand = <<k, e>>
<1>1. Len(<<>>) = 0 /\ \A k, e : Len(<<k>>) = 1 /\ Len(<<k, e>>) = 2
  OBVIOUS
<1>2. 0 # 1 /\ 0 # 2 /\ 1 # 2
  OBVIOUS
<1>. QED BY <1>1, <1>2, Zenon DEF HandOK

LEMMA AppendParts ==
    ASSUME NEW T, NEW s \in Seq(T), NEW y \in T
    PROVE  /\ Append(s, y) \in Seq(T)
           /\ Len(Append(s, y)) = Len(s) + 1
           /\ Append(s, y)[Len(s) + 1] = y
           /\ \A i \in 1 .. Len(s) : Append(s, y)[i] = s[i]
OBVIOUS

LEMMA AppendOne ==
    ASSUME NEW T, NEW x \in T, NEW y \in T
    PROVE  Append(<<x>>, y) = <<x, y>>
<1> DEFINE s == <<x>>
<1>1. s \in Seq(T) /\ Len(s) = 1 /\ s[1] = x
  OBVIOUS
<1> DEFINE t == <<x, y>>
<1>2. t \in Seq(T) /\ Len(t) = 2 /\ t[1] = x /\ t[2] = y
  OBVIOUS
<1>. HIDE DEF s, t
<1> DEFINE u == Append(s, y)
<1>3. u \in Seq(T) /\ Len(u) = 2 /\ u[1] = x /\ u[2] = y
  <2>1. /\ u \in Seq(T) /\ Len(u) = Len(s) + 1 /\ u[Len(s) + 1] = y
        /\ \A i \in 1 .. Len(s) : u[i] = s[i]
    <3>1. s \in Seq(T)
      BY <1>1, Zenon
    <3>. QED BY <3>1, AppendParts
  <2>. HIDE DEF u
  <2>2. 1 \in 1 .. 1 /\ 1 + 1 = 2
    OBVIOUS
  <2>. QED BY <1>1, <2>1, <2>2, Zenon
<1>. HIDE DEF u
<1>4. \A i \in 1 .. 2 : u[i] = t[i]
  BY <1>2, <1>3
<1>5. u = t
  BY <1>2, <1>3, <1>4, SameSeq, Zenon
<1>. QED BY <1>5, Zenon DEF s, t, u

LEMMA FetchKeeps == ASSUME StatInv, Fetch PROVE StatInv'
<1>1. /\ Len(hand) = 1 /\ hand' = Append(hand, epoch[hand[1]])
      /\ prom' = Bumped(prom, hand[1], 0)
      /\ UNCHANGED <<timed, itemChan, map, cur, data, cleaner, removed, epoch, added, dropped,
                     published, wiped>>
  BY Zenon DEF Fetch
<1>2. CountersOK
  BY Zenon DEF StatInv
<1>3. PICK j \in Counters : hand = <<j>>
  BY <1>1, <1>2, HandLength, Zenon DEF CountersOK
<1>4. hand' = <<j, epoch[j]>> /\ epoch[j] \in Nat
  <2>1. hand[1] = j
    BY <1>3, Zenon
  <2>3. Append(<<j>>, epoch[j]) = <<j, epoch[j]>>
    <3>1. epoch[j] \in Nat
      BY <1>2, Zenon DEF CountersOK
    <3>2. j \in Counters \cup Nat /\ epoch[j] \in Counters \cup Nat
      BY <3>1, Zenon
    <3>. QED BY <3>2, AppendOne, Zenon
  <2>2. hand' = <<j, epoch[j]>>
    BY <1>1, <1>3, <2>1, <2>3, Zenon
  <2>. QED BY <1>2, <2>2, Zenon DEF CountersOK
<1>5. prom' = [prom EXCEPT ![j] = IF @ = Absent THEN 0 ELSE @ + 0]
  BY <1>1, <1>3, Zenon DEF Bumped
<1>6. CountersOK'
  <2>1. HandOK'
    BY <1>4, Zenon DEF HandOK
  <2>2. prom' \in [Counters -> Nat \cup {Absent}]
    BY <1>2, <1>5 DEF CountersOK, Absent
  <2>. QED BY <1>1, <1>2, <2>1, <2>2, Zenon DEF CountersOK
<1>7. ASSUME NEW k \in {"success", "fail"}
      PROVE  Valued(prom'[k]) = Valued(prom[k]) /\ InHand(hand', k) = InHand(hand, k)
  <2>1. k \in Counters /\ prom[k] \in Nat \cup {Absent}
    BY <1>2, Zenon DEF Counters, CountersOK
  <2>2. Valued(prom'[k]) = Valued(prom[k])
    BY <1>2, <1>5, <2>1 DEF Valued, Absent, CountersOK
  <2>3. InHand(hand', k) = InHand(hand, k)
    BY <1>3, <1>4, Zenon DEF InHand
  <2>. QED BY <2>2, <2>3, Zenon
<1>. QED BY <1>1, <1>6, <1>7, CountsMove, Zenon

LEMMA CountKeeps == ASSUME StatInv, Count PROVE StatInv'
<1> DEFINE j == hand[1]
<1>1. /\ Len(hand) = 2 /\ hand' = (IF j = "consumes" THEN <<"success">> ELSE <<>>)
      /\ IF hand[2] = epoch[j] THEN prom' = Bumped(prom, j, 1) /\ UNCHANGED wiped
         ELSE wiped' = [wiped EXCEPT ![j] = @ + 1] /\ UNCHANGED prom
      /\ UNCHANGED <<timed, itemChan, map, cur, data, cleaner, removed, epoch, added, dropped,
                     published>>
  BY Zenon DEF Count
<1>2. CountersOK
  BY Zenon DEF StatInv
<1>3. j \in Counters /\ hand # <<>>
  <2>1. PICK k \in Counters : \E e \in Nat : hand = <<k, e>>
    BY <1>1, <1>2, HandLength, Zenon DEF CountersOK
  <2>. QED BY <2>1
<1>. HIDE DEF j
<1>4. HandOK'
  BY <1>1, Zenon DEF HandOK, Counters
<1>5. ASSUME NEW k \in {"success", "fail"}
      PROVE  InHand(hand', k) + (IF k = j THEN 1 ELSE 0) = InHand(hand, k)
             /\ InHand(hand', k) \in Nat /\ InHand(hand, k) \in Nat
  <2>1. CASE j = "consumes"
    BY <1>1, <1>3, <2>1 DEF InHand, j
  <2>2. CASE j # "consumes"
    BY <1>1, <1>3, <2>2 DEF InHand, j
  <2>. QED BY <2>1, <2>2, Zenon
<1>6. ASSUME NEW k \in Counters
      PROVE  prom[k] \in Nat \cup {Absent} /\ wiped[k] \in Nat /\ Valued(prom[k]) \in Nat
  BY <1>2, Zenon DEF CountersOK, Valued, Absent
<1>7. /\ prom' \in [Counters -> Nat \cup {Absent}]
      /\ wiped' \in [Counters -> Nat]
      /\ \A k \in Counters : Valued(prom'[k]) + wiped'[k] =
                               Valued(prom[k]) + wiped[k] + (IF k = j THEN 1 ELSE 0)
  <2>1. CASE hand[2] = epoch[j]
    <3>1. prom' = [prom EXCEPT ![j] = IF @ = Absent THEN 1 ELSE @ + 1] /\ wiped' = wiped
      BY <1>1, <2>1, Zenon DEF Bumped
    <3>2. prom' \in [Counters -> Nat \cup {Absent}]
      BY <1>2, <1>3, <3>1 DEF CountersOK, Absent
    <3>3. ASSUME NEW k \in Counters
          PROVE  Valued(prom'[k]) + wiped'[k] =
                   Valued(prom[k]) + wiped[k] + (IF k = j THEN 1 ELSE 0)
      BY <1>2, <1>3, <1>6, <3>1 DEF CountersOK, Valued, Absent
    <3>. QED BY <1>2, <3>1, <3>2, <3>3, Zenon DEF CountersOK
  <2>2. CASE hand[2] # epoch[j]
    <3>1. prom' = prom /\ wiped' = [wiped EXCEPT ![j] = @ + 1]
      BY <1>1, <2>2, Zenon
    <3>2. wiped' \in [Counters -> Nat]
      BY <1>2, <1>3, <3>1 DEF CountersOK
    <3>3. ASSUME NEW k \in Counters
          PROVE  Valued(prom'[k]) + wiped'[k] =
                   Valued(prom[k]) + wiped[k] + (IF k = j THEN 1 ELSE 0)
      <4>1. prom'[k] = prom[k] /\ wiped'[k] = wiped[k] + (IF k = j THEN 1 ELSE 0)
        BY <1>2, <1>3, <1>6, <3>1 DEF CountersOK
      <4>. QED BY <1>6, <4>1
    <3>. QED BY <1>2, <3>1, <3>2, <3>3, Zenon DEF CountersOK
  <2>. QED BY <2>1, <2>2, Zenon
<1>8. CountersOK'
  BY <1>1, <1>2, <1>4, <1>7, Zenon DEF CountersOK
<1>9. ASSUME NEW k \in {"success", "fail"}
      PROVE  Valued(prom'[k]) + wiped'[k] + InHand(hand', k) =
               Valued(prom[k]) + wiped[k] + InHand(hand, k)
  <2>1. k \in Counters
    BY Zenon DEF Counters
  <2>2. Valued(prom'[k]) + wiped'[k] = Valued(prom[k]) + wiped[k] + (IF k = j THEN 1 ELSE 0)
    BY <1>7, <2>1, Zenon
  <2>3. InHand(hand', k) + (IF k = j THEN 1 ELSE 0) = InHand(hand, k)
        /\ InHand(hand', k) \in Nat /\ InHand(hand, k) \in Nat
    BY <1>5, Zenon
  <2>4. Valued(prom[k]) \in Nat /\ wiped[k] \in Nat
    BY <1>6, <2>1, Zenon
  <2>. QED BY <2>2, <2>3, <2>4
<1>. QED BY <1>1, <1>8, <1>9, CountsMove, Zenon

LEMMA TickKeeps == ASSUME StatInv, Tick PROVE StatInv'
<1>1. /\ data' = cur /\ map' = Append(map, NewData) /\ cur' = Len(map') /\ published' = map[cur]
      /\ UNCHANGED <<timed, itemChan, hand, prom, cleaner, removed, epoch, added, dropped, wiped>>
  BY Zenon DEF Tick
<1>2. MapsOK /\ map \in Seq(Data) /\ cur \in DOMAIN map /\ \A i \in DOMAIN map : Extremes(map[i])
  BY Zenon DEF StatInv, MapsOK
<1>3. /\ map' \in Seq(Data) /\ Extremes(NewData)
      /\ Total(Succeeded(map')) = Total(Succeeded(map))
      /\ Total(Failed(map')) = Total(Failed(map))
  BY <1>1, <1>2, NewMap, Zenon
<1>4. /\ Len(map) \in Nat /\ DOMAIN map = 1 .. Len(map) /\ Len(map') = Len(map) + 1
      /\ DOMAIN map' = 1 .. Len(map) + 1
      /\ map'[Len(map) + 1] = NewData /\ \A i \in 1 .. Len(map) : map'[i] = map[i]
  BY <1>1, <1>2
<1>5. MapsOK'
  <2>1. cur' \in DOMAIN map' /\ data' \in DOMAIN map' /\ cur' # data' /\ map'[data'] = published'
    <3>1. cur \in 1 .. Len(map)
      BY <1>2, <1>4, Zenon
    <3>2. /\ cur \in 1 .. Len(map) + 1 /\ Len(map) + 1 \in 1 .. Len(map) + 1
          /\ cur # Len(map) + 1
      BY <1>4, <3>1
    <3>. QED BY <1>1, <1>4, <3>1, <3>2, Zenon
  <2>2. ASSUME NEW i \in DOMAIN map' PROVE Extremes(map'[i])
    <3>1. i \in 1 .. Len(map) \/ i = Len(map) + 1
      BY <1>4
    <3>. QED BY <1>2, <1>3, <1>4, <3>1, Zenon
  <2>. QED BY <1>3, <2>1, <2>2, Zenon DEF MapsOK
<1>6. Successes' = Successes /\ Failures' = Failures
  <2>1. Successes' = Total(Succeeded(map')) /\ Failures' = Total(Failed(map'))
    BY Zenon DEF Successes, Failures, Succeeded, Failed
  <2>. QED BY <1>2, <1>3, <2>1, SumsOfMaps, Zenon
<1>7. Held("success")' = Held("success") /\ Held("fail")' = Held("fail")
  BY <1>1, Zenon DEF Held
<1>8. CountersOK' /\ Items' = Items
  BY <1>1, Zenon DEF StatInv, CountersOK, HandOK, Items
<1>. QED BY <1>1, <1>5, <1>6, <1>7, <1>8, Zenon DEF StatInv

LEMMA CleanKeeps == ASSUME StatInv, NEW c \in Cleaners, Clean(c) PROVE StatInv'
<1> DEFINE n == cleaner[c]
           j == CleanOrder[cleaner[c] + 1]
<1>1. /\ n < 6 /\ cleaner' = [cleaner EXCEPT ![c] = @ + 1]
      /\ UNCHANGED <<timed, itemChan, map, cur, data, hand, added, dropped, published>>
      /\ IF n < 3
         THEN /\ prom' = Bumped(prom, j, IF j = "consumes" THEN 1 ELSE 0)
              /\ UNCHANGED <<removed, epoch, wiped>>
         ELSE /\ prom' = [prom EXCEPT ![j] = Absent]
              /\ epoch' = [epoch EXCEPT ![j] = @ + 1]
              /\ wiped' = [wiped EXCEPT ![j] = IF prom[j] = Absent THEN @ ELSE @ + prom[j]]
              /\ removed' = [removed EXCEPT ![c] = IF prom[j] = Absent THEN @ ELSE @ + 1]
  BY Zenon DEF Clean
<1>2. CountersOK
  BY Zenon DEF StatInv
<1>3. /\ prom \in [Counters -> Nat \cup {Absent}]
      /\ wiped \in [Counters -> Nat] /\ epoch \in [Counters -> Nat]
      /\ cleaner \in [Cleaners -> 0 .. 6] /\ removed \in [Cleaners -> 0 .. 3]
      /\ \A b \in Cleaners : removed[b] = 0 \/ removed[b] + 3 <= cleaner[b]
  BY <1>2, Zenon DEF CountersOK
<1>4. n \in 0 .. 5 /\ j \in Counters
  <2>1. n \in 0 .. 5
    BY <1>1, <1>3
  <2>2. \A i \in 1 .. 6 : CleanOrder[i] \in Counters
    BY DEF CleanOrder, Counters
  <2>3. n + 1 \in 1 .. 6
    BY <2>1
  <2>. QED BY <2>1, <2>2, <2>3, Zenon
<1>5. cleaner' \in [Cleaners -> 0 .. 6] /\ cleaner'[c] = n + 1
      /\ \A b \in Cleaners : b # c => cleaner'[b] = cleaner[b]
  BY <1>1, <1>3, <1>4
<1>. HIDE DEF n, j
<1>6. ASSUME NEW k \in Counters
      PROVE  prom[k] \in Nat \cup {Absent} /\ wiped[k] \in Nat /\ Valued(prom[k]) \in Nat
  BY <1>3, Zenon DEF Valued, Absent
<1>7. HandOK'
  BY <1>1, <1>2, Zenon DEF CountersOK, HandOK
<1>8. CASE n < 3
  <2> DEFINE by == IF j = "consumes" THEN 1 ELSE 0
  <2>1. /\ prom' = [prom EXCEPT ![j] = IF @ = Absent THEN by ELSE @ + by]
        /\ UNCHANGED <<removed, epoch, wiped>>
    BY <1>1, <1>8, Zenon DEF Bumped
  <2>2. by \in Nat /\ (j # "consumes" => by = 0)
    OBVIOUS
  <2>. HIDE DEF by
  <2>3. prom' \in [Counters -> Nat \cup {Absent}]
    BY <1>3, <1>4, <2>1, <2>2 DEF Absent
  <2>4. \A b \in Cleaners : removed'[b] = 0 \/ removed'[b] + 3 <= cleaner'[b]
    <3>1. ASSUME NEW b \in Cleaners PROVE removed'[b] = 0 \/ removed'[b] + 3 <= cleaner'[b]
      <4>1. removed[b] \in 0 .. 3 /\ cleaner[b] \in 0 .. 6 /\ removed'[b] = removed[b]
        BY <1>3, <2>1, Zenon
      <4>2. cleaner'[b] = cleaner[b] \/ cleaner'[b] = cleaner[b] + 1
        BY <1>5, Zenon DEF n
      <4>3. removed[b] = 0 \/ removed[b] + 3 <= cleaner[b]
        BY <1>3, Zenon
      <4>. QED BY <4>1, <4>2, <4>3
    <3>. QED BY <3>1, Zenon
  <2>5. CountersOK'
    BY <1>3, <1>5, <1>7, <2>1, <2>3, <2>4, Zenon DEF CountersOK
  <2>6. ASSUME NEW k \in {"success", "fail"}
        PROVE  Valued(prom'[k]) = Valued(prom[k])
    <3>1. k \in Counters /\ k # "consumes"
      BY Zenon DEF Counters
    <3>2. CASE k = j
      <4>1. prom'[k] = IF prom[k] = Absent THEN 0 ELSE prom[k] + 0
        BY <1>3, <2>1, <2>2, <3>1, <3>2, Zenon
      <4>. QED BY <1>6, <3>1, <4>1 DEF Valued, Absent
    <3>3. CASE k # j
      <4>1. prom'[k] = prom[k]
        BY <1>3, <2>1, <3>1, <3>3, Zenon
      <4>. QED BY <4>1, Zenon
    <3>. QED BY <3>2, <3>3, Zenon
  <2>. QED BY <1>1, <2>1, <2>5, <2>6, CountsMove, Zenon
<1>9. CASE ~ (n < 3)
  <2>1. /\ prom' = [prom EXCEPT ![j] = Absent]
        /\ epoch' = [epoch EXCEPT ![j] = @ + 1]
        /\ wiped' = [wiped EXCEPT ![j] = IF prom[j] = Absent THEN @ ELSE @ + prom[j]]
        /\ removed' = [removed EXCEPT ![c] = IF prom[j] = Absent THEN @ ELSE @ + 1]
    BY <1>1, <1>9, Zenon
  <2>2. ASSUME NEW k \in Counters
        PROVE  /\ prom'[k] \in Nat \cup {Absent} /\ wiped'[k] \in Nat /\ epoch'[k] \in Nat
               /\ Valued(prom'[k]) + wiped'[k] = Valued(prom[k]) + wiped[k]
    <3>1. prom[k] \in Nat \cup {Absent} /\ wiped[k] \in Nat /\ epoch[k] \in Nat
      BY <1>3, Zenon
    <3>2. CASE k = j
      <4>1. /\ prom'[k] = Absent /\ epoch'[k] = epoch[k] + 1
            /\ wiped'[k] = IF prom[k] = Absent THEN wiped[k] ELSE wiped[k] + prom[k]
        BY <1>3, <2>1, <3>2, Zenon
      <4>. QED BY <3>1, <4>1 DEF Valued, Absent
    <3>3. CASE k # j
      <4>1. prom'[k] = prom[k] /\ epoch'[k] = epoch[k] /\ wiped'[k] = wiped[k]
        BY <1>3, <2>1, <3>3, Zenon
      <4>. QED BY <3>1, <4>1, Zenon
    <3>. QED BY <3>2, <3>3, Zenon
  <2>3. /\ prom' \in [Counters -> Nat \cup {Absent}]
        /\ wiped' \in [Counters -> Nat] /\ epoch' \in [Counters -> Nat]
    <3>1. /\ prom' = [k \in Counters |-> prom'[k]] /\ wiped' = [k \in Counters |-> wiped'[k]]
          /\ epoch' = [k \in Counters |-> epoch'[k]]
      BY <1>3, <2>1, Zenon
    <3>. QED BY <2>2, <3>1, Zenon
  <2>4. ASSUME NEW b \in Cleaners
        PROVE  removed'[b] \in 0 .. 3 /\ (removed'[b] = 0 \/ removed'[b] + 3 <= cleaner'[b])
    <3>1. removed[b] \in 0 .. 3 /\ (removed[b] = 0 \/ removed[b] + 3 <= cleaner[b])
          /\ cleaner[b] \in 0 .. 6
      BY <1>3, Zenon
    <3>2. CASE b = c
      <4>1. removed'[b] = removed[b] \/ removed'[b] = removed[b] + 1
        BY <1>3, <2>1, <3>2, Zenon
      <4>2. cleaner[b] = n /\ cleaner'[b] = n + 1
        BY <1>5, <3>2, Zenon DEF n
      <4>. QED BY <1>4, <1>9, <3>1, <4>1, <4>2
    <3>3. CASE b # c
      <4>1. removed'[b] = removed[b] /\ cleaner'[b] = cleaner[b]
        BY <1>3, <1>5, <2>1, <3>3, Zenon
      <4>. QED BY <3>1, <4>1, Zenon
    <3>. QED BY <3>2, <3>3, Zenon
  <2>5. removed' \in [Cleaners -> 0 .. 3]
    <3>1. removed' = [b \in Cleaners |-> removed'[b]]
      BY <1>3, <2>1, Zenon
    <3>. QED BY <2>4, <3>1, Zenon
  <2>6. CountersOK'
    BY <1>5, <1>7, <2>3, <2>4, <2>5, Zenon DEF CountersOK
  <2>7. ASSUME NEW k \in {"success", "fail"}
        PROVE  Valued(prom'[k]) + wiped'[k] + InHand(hand', k) =
                 Valued(prom[k]) + wiped[k] + InHand(hand, k)
    <3>1. k \in Counters
      BY Zenon DEF Counters
    <3>2. Valued(prom'[k]) + wiped'[k] = Valued(prom[k]) + wiped[k]
      BY <2>2, <3>1, Zenon
    <3>. QED BY <1>1, <3>2, Zenon
  <2>. QED BY <1>1, <2>6, <2>7, CountsMove, Zenon
<1>. QED BY <1>8, <1>9, Zenon

\* The inductive invariant holds of the statistics, for any number of samples,
\* ticks and cleaning administrators and any size of the channel.
THEOREM StatInvariant == StatSpec => []StatInv
<1>1. StatInit => StatInv
  <2>. SUFFICES ASSUME StatInit PROVE StatInv
    OBVIOUS
  <2>1. NewData \in Data /\ NewData.success = 0 /\ NewData.fail = 0
    BY DEF NewData, Data
  <2>2. map \in Seq(Data) /\ DOMAIN map = 1 .. 2 /\ map[1] = NewData /\ map[2] = NewData
    BY <2>1 DEF StatInit
  <2>3. Extremes(NewData)
    BY <2>2, NewMap, Zenon
  <2>4. MapsOK
    <3>1. 1 \in 1 .. 2 /\ 2 \in 1 .. 2 /\ \A i \in 1 .. 2 : i = 1 \/ i = 2
      OBVIOUS
    <3>. QED BY <2>2, <2>3, <3>1 DEF StatInit, MapsOK
  <2>5. CountersOK
    BY DEF StatInit, CountersOK, HandOK
  <2>6. Successes = 0 /\ Failures = 0
    <3>1. <<>> \in Seq(Data)
      OBVIOUS
    <3>2. Append(<<>>, NewData) \in Seq(Data) /\ Append(<<>>, NewData) = <<NewData>>
      BY <3>1, <2>1, NewMap
    <3>3. Append(Append(<<>>, NewData), NewData) = map
      <4> DEFINE one == Append(<<>>, NewData)
                 two == Append(one, NewData)
      <4>1. Len(one) = 1 /\ one[1] = NewData
        BY <3>2
      <4>. HIDE DEF one
      <4>2. one \in Seq(Data) /\ two \in Seq(Data) /\ Len(two) = 2 /\ two[1] = NewData /\ two[2] = NewData
        BY <2>1, <3>2, <4>1 DEF one
      <4>. HIDE DEF two
      <4>3. Len(map) = 2
        BY <2>1, Zenon DEF StatInit
      <4>4. \A i \in 1 .. Len(two) : two[i] = map[i]
        BY <2>2, <4>2
      <4>5. two = map
        BY <2>2, <4>2, <4>3, <4>4, SameSeq, Zenon
      <4>. QED BY <4>5, Zenon DEF one, two
    <3>4. /\ Total(Succeeded(map)) = Total(Succeeded(<<>>))
          /\ Total(Failed(map)) = Total(Failed(<<>>))
      BY <3>1, <3>2, <3>3, NewMap, Zenon
    <3>5. Succeeded(<<>>) = <<>> /\ Failed(<<>>) = <<>>
      BY DEF Succeeded, Failed
    <3>6. Total(<<>>) = 0
      BY <2>3, Zenon DEF Extremes, NewData
    <3>. QED BY <2>4, <3>4, <3>5, <3>6, SumsOfMaps, Zenon
  <2>7. Held("success") = 0 /\ Held("fail") = 0
    BY DEF StatInit, Held, Counters
  <2>. QED BY <2>4, <2>5, <2>6, <2>7, StatAssumption DEF StatInit, StatInv
<1>2. StatInv /\ [StatNext]_statVars => StatInv'
  <2>. SUFFICES ASSUME StatInv, [StatNext]_statVars PROVE StatInv'
    OBVIOUS
  <2>1. CASE UNCHANGED statVars
    <3>1. CountersOK' /\ MapsOK'
      BY <2>1, Zenon DEF statVars, StatInv, CountersOK, HandOK, MapsOK
    <3>2. /\ UNCHANGED <<timed, itemChan, added, dropped>>
          /\ Successes' = Successes /\ Failures' = Failures
      BY <2>1, Zenon DEF statVars, Successes, Failures
    <3>3. Held("success")' = Held("success") /\ Held("fail")' = Held("fail")
      BY <2>1, Zenon DEF statVars, Held
    <3>. QED BY <3>1, <3>2, <3>3, Zenon DEF StatInv, Items
  <2>2. CASE StatNext
    BY <2>2, AddKeeps, ApplyKeeps, FetchKeeps, CountKeeps, TickKeeps, CleanKeeps, Zenon DEF StatNext
  <2>. QED BY <2>1, <2>2, Zenon
<1>. QED BY <1>1, <1>2, PTL DEF StatSpec

\* The samples, maps and counters of the statistics keep their types, and the
\* channel keeps to its size (mux_stats.go:59-130).
THEOREM StatTypes == StatSpec => []StatTypeOK
<1>1. StatInv => StatTypeOK
  BY DEF StatInv, MapsOK, CountersOK, HandOK, StatTypeOK
<1>. QED BY <1>1, StatInvariant, PTL

\* No sample is lost or counted twice between Add and the readers, however the
\* handlers, the ticker and the cleaning interleave, and the map that Output
\* hands out never changes (mux_stats.go:59-130, gateway_stats.go:52-113).
THEOREM SamplesAreAccounted == StatSpec => []SamplesAccounted
<1>1. StatInv => SamplesAccounted
  <2>. SUFFICES ASSUME StatInv PROVE SamplesAccounted
    OBVIOUS
  <2>1. \A i \in DOMAIN map : TimesExact(map[i])
    BY ExtremesExact DEF StatInv, MapsOK
  <2>. QED BY <2>1, Zenon DEF StatInv, MapsOK, SamplesAccounted
<1>. QED BY <1>1, StatInvariant, PTL
=============================================================================
