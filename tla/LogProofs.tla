------------------------------ MODULE LogProofs ------------------------------
(***************************************************************************)
(* Proofs about the logger: where every line is while writers, flushing,   *)
(* rotation and backup interleave.                                         *)
(***************************************************************************)
EXTENDS Logger, FiniteSetTheorems, TLAPS

\* What the proof needs of a file name, and of a line's neighbours.
Names == {"log", "backup"} \X Nat \X (Nat \cup {Plain})
Increasing(s) == \A i, j \in DOMAIN s : i < j => s[i] < s[j]
Below(X, Y) == \A x \in X, y \in Y : x < y

\* Every line is in at most one file, in order there, and not among the lines
\* that are gone.
Stored(f) == UNION {Range(f[n]) : n \in DOMAIN f}
Shelved(f, gone) ==
  /\ \A n \in DOMAIN f : /\ n \in Names
                         /\ f[n] \in Seq(Nat) /\ Increasing(f[n])
                         /\ Range(f[n]) \cap gone = {}
  /\ \A m, n \in DOMAIN f : m # n => Range(f[m]) \cap Range(f[n]) = {}

\* The batch, the queue and the buffer, in the order they reach the disk.
LinedUp(first, q, last) ==
  [k \in 0 .. Len(q) + 1 |-> IF k = 0 THEN first ELSE IF k = Len(q) + 1 THEN last ELSE q[k]]
Waiting == LinedUp(batch, bufferQueue, buffer)
Gone == purged \cup failed
Written == Stored(files) \cup Gone

\* The lines that wait come after the ones the disk has seen, in order, and
\* between them they are all the lines.
InOrder(w, written, n) ==
  /\ \A k \in DOMAIN w : /\ w[k] \in Seq(1 .. n) /\ Increasing(w[k])
                         /\ Below(written, Range(w[k]))
  /\ \A k, l \in DOMAIN w : k < l => Below(Range(w[k]), Range(w[l]))
  /\ written \subseteq 1 .. n
  /\ \A x \in 1 .. n : x \in written \/ \E k \in DOMAIN w : x \in Range(w[k])
LinesOK ==
  /\ lines \in Nat /\ bufferQueue \in Seq(Seq(Nat))
  /\ InOrder(Waiting, Written, lines)
  /\ fpc = "idle" => batch = <<>>

\* An hour is backed up once, when it is over; a numbered file is of this hour
\* or an earlier one, and under its order number; and unless the clock struck
\* between two readings, a log file is of this hour, of one whose backup is
\* still to run, or the one the symlink points to.
Dated(n) ==
  /\ n[1] = "backup" => n[2] < hour /\ n[2] \notin backups
  /\ n[1] = "log" /\ n[3] # Plain =>
       /\ n[2] <= hour
       /\ fpc # "hour" /\ n[2] = hour => n[3] < fileOrder
  /\ ~struck /\ n[1] = "log" => n[2] \in backups \cup {hour} \/ n = link
HoursOK ==
  /\ \E h \in Nat : link = Name("log", h, Plain)
  /\ fpc \in {"rotate", "hour"} => now > hour
  /\ fpc = "hour" => fileOrder = 0
  /\ \A h \in backups : h < hour
  /\ \A n \in DOMAIN files : Dated(n)
  /\ ~struck => /\ fpc = "hour" => link[2] = now
                /\ fpc # "hour" /\ fileOrder = 0 => link[2] = hour

LogInv ==
  /\ LogTypeOK
  /\ Shelved(files, Gone)
  /\ LinesOK
  /\ HoursOK
  /\ \A k \in reused : k >= MaxFileCount
  /\ lfaults \in Nat
  /\ failed # {} \/ logFile = NoFile => lfaults > 0

-----------------------------------------------------------------------------
LEMMA NameParts ==
    ASSUME NEW d \in {"log", "backup"}, NEW h \in Nat, NEW o \in Nat \cup {Plain}
    PROVE  /\ Name(d, h, o) \in Names /\ Name(d, h, o) # NoFile
           /\ Name(d, h, o)[1] = d /\ Name(d, h, o)[2] = h /\ Name(d, h, o)[3] = o
BY Zenon DEF Name, Names, NoFile

LEMMA NameIs ==
    ASSUME NEW n \in Names
    PROVE  /\ n[1] \in {"log", "backup"} /\ n[2] \in Nat /\ n[3] \in Nat \cup {Plain}
           /\ n = Name(n[1], n[2], n[3]) /\ n # NoFile
BY DEF Name, Names, NoFile

LEMMA Ranges ==
    ASSUME NEW T, NEW s \in Seq(T)
    PROVE  /\ Range(<<>>) = {}
           /\ \A x \in T : Range(Append(s, x)) = Range(s) \cup {x}
           /\ \A t \in Seq(T) : Range(s \o t) = Range(s) \cup Range(t)
           /\ Range(s) \subseteq T
           /\ \A x \in Range(s) : \E i \in 1 .. Len(s) : s[i] = x
           /\ \A i \in 1 .. Len(s) : s[i] \in Range(s)
<1>1. Range(<<>>) = {}
  BY DEF Range
<1>2. ASSUME NEW x \in T PROVE Range(Append(s, x)) = Range(s) \cup {x}
  <2> DEFINE u == Append(s, x)
  <2>1. /\ Len(s) \in Nat /\ DOMAIN s = 1 .. Len(s) /\ DOMAIN u = 1 .. Len(s) + 1
        /\ u[Len(s) + 1] = x /\ \A i \in 1 .. Len(s) : u[i] = s[i]
    OBVIOUS
  <2>. HIDE DEF u
  <2>2. DOMAIN u = DOMAIN s \cup {Len(s) + 1}
    BY <2>1
  <2>3. Range(u) = Range(s) \cup {x}
    <3>1. ASSUME NEW y \in Range(u) PROVE y \in Range(s) \cup {x}
      <4>1. PICK i \in DOMAIN u : y = u[i]
        BY <3>1, Zenon DEF Range
      <4>2. CASE i \in DOMAIN s
        BY <2>1, <4>1, <4>2, Zenon DEF Range
      <4>. QED BY <2>1, <2>2, <4>1, <4>2, Zenon
    <3>2. ASSUME NEW y \in Range(s) PROVE y \in Range(u)
      BY <2>1, <2>2, <3>2, Zenon DEF Range
    <3>3. x \in Range(u)
      BY <2>1, <2>2, Zenon DEF Range
    <3>. QED BY <3>1, <3>2, <3>3, Zenon
  <2>. QED BY <2>3, Zenon DEF u
<1>3. ASSUME NEW t \in Seq(T) PROVE Range(s \o t) = Range(s) \cup Range(t)
  <2> DEFINE u == s \o t
  <2>1. /\ Len(s) \in Nat /\ Len(t) \in Nat /\ DOMAIN s = 1 .. Len(s) /\ DOMAIN t = 1 .. Len(t)
        /\ u \in Seq(T) /\ DOMAIN u = 1 .. Len(s) + Len(t)
        /\ \A i \in 1 .. Len(s) + Len(t) : u[i] = IF i <= Len(s) THEN s[i] ELSE t[i - Len(s)]
    OBVIOUS
  <2>. HIDE DEF u
  <2>2. ASSUME NEW x \in Range(u) PROVE x \in Range(s) \cup Range(t)
    <3>1. PICK i \in 1 .. Len(s) + Len(t) : u[i] = x
      BY <2>1, Zenon DEF Range
    <3>2. CASE i <= Len(s)
      BY <2>1, <3>1, <3>2 DEF Range
    <3>3. CASE i > Len(s)
      <4>1. i - Len(s) \in DOMAIN t /\ t[i - Len(s)] = x
        BY <2>1, <3>1, <3>3
      <4>. QED BY <4>1, Zenon DEF Range
    <3>. QED BY <2>1, <3>2, <3>3
  <2>3. ASSUME NEW x \in Range(s) PROVE x \in Range(u)
    <3>1. PICK i \in DOMAIN s : s[i] = x
      BY Zenon DEF Range
    <3>2. i \in DOMAIN u /\ u[i] = x
      BY <2>1, <3>1
    <3>. QED BY <3>2, Zenon DEF Range
  <2>4. ASSUME NEW x \in Range(t) PROVE x \in Range(u)
    <3>1. PICK i \in DOMAIN t : t[i] = x
      BY Zenon DEF Range
    <3>2. i + Len(s) \in DOMAIN u /\ u[i + Len(s)] = x
      BY <2>1, <3>1
    <3>. QED BY <3>2, Zenon DEF Range
  <2>5. Range(u) = Range(s) \cup Range(t)
    BY <2>2, <2>3, <2>4, Zenon
  <2>. QED BY <2>5, Zenon DEF u
<1>4. Range(s) \subseteq T
  BY DEF Range
<1>5. /\ \A x \in Range(s) : \E i \in 1 .. Len(s) : s[i] = x
      /\ \A i \in 1 .. Len(s) : s[i] \in Range(s)
  BY DEF Range
<1>. QED BY <1>1, <1>2, <1>3, <1>4, <1>5, Zenon

\* A sequence stays in order when later lines are put at its end.
LEMMA AppendInOrder ==
    ASSUME NEW s \in Seq(Nat), NEW t \in Seq(Nat), Increasing(s), Increasing(t),
           Below(Range(s), Range(t))
    PROVE  s \o t \in Seq(Nat) /\ Increasing(s \o t)
<1> DEFINE u == s \o t
<1>1. /\ Len(s) \in Nat /\ Len(t) \in Nat /\ DOMAIN s = 1 .. Len(s) /\ DOMAIN t = 1 .. Len(t)
      /\ u \in Seq(Nat) /\ DOMAIN u = 1 .. Len(s) + Len(t)
      /\ \A i \in 1 .. Len(s) + Len(t) : u[i] = IF i <= Len(s) THEN s[i] ELSE t[i - Len(s)]
  OBVIOUS
<1>. HIDE DEF u
<1>2. ASSUME NEW i \in DOMAIN u, NEW j \in DOMAIN u, i < j PROVE u[i] < u[j]
  <2>1. CASE j <= Len(s)
    <3>1. i \in DOMAIN s /\ j \in DOMAIN s /\ u[i] = s[i] /\ u[j] = s[j]
      BY <1>1, <1>2, <2>1
    <3>2. s[i] < s[j]
      BY <1>2, <3>1, Zenon DEF Increasing
    <3>. QED BY <3>1, <3>2, Zenon
  <2>2. CASE i > Len(s)
    <3>1. /\ i \in 1 .. Len(s) + Len(t) /\ j \in 1 .. Len(s) + Len(t)
          /\ ~ (i <= Len(s)) /\ ~ (j <= Len(s))
      BY <1>1, <1>2, <2>2
    <3>2. /\ i - Len(s) \in DOMAIN t /\ j - Len(s) \in DOMAIN t /\ i - Len(s) < j - Len(s)
      BY <1>1, <1>2, <3>1
    <3>3. u[i] = t[i - Len(s)] /\ u[j] = t[j - Len(s)]
      BY <1>1, <3>1, Zenon
    <3>4. t[i - Len(s)] < t[j - Len(s)]
      BY <3>2, Zenon DEF Increasing
    <3>. QED BY <3>3, <3>4, Zenon
  <2>3. CASE i <= Len(s) /\ j > Len(s)
    <3>1. i \in DOMAIN s /\ j - Len(s) \in DOMAIN t /\ u[i] = s[i] /\ u[j] = t[j - Len(s)]
      BY <1>1, <1>2, <2>3
    <3>2. s[i] \in Range(s) /\ t[j - Len(s)] \in Range(t)
      BY <3>1, Zenon DEF Range
    <3>. QED BY <3>1, <3>2, Zenon DEF Below
  <2>. QED BY <1>1, <1>2, <2>1, <2>2, <2>3
<1>. QED BY <1>1, <1>2, Zenon DEF Increasing, u

\* Files that are renamed, created empty or lost: the lines of the lost ones
\* are gone, every other line is still in one file.
Reshelves(f, src, lost, r) ==
  /\ \A n \in DOMAIN r : /\ n \in Names
                         /\ r[n] = <<>> \/ (src[n] \in DOMAIN f \ lost /\ r[n] = f[src[n]])
  /\ \A m, n \in DOMAIN r : m # n => src[m] # src[n]
  /\ \A m \in DOMAIN f \ lost : \E n \in DOMAIN r : r[n] = f[m]
LostLines(f, lost) == UNION {Range(f[m]) : m \in DOMAIN f \cap lost}

LEMMA Reshelved ==
    ASSUME NEW f, NEW src, NEW lost, NEW r, NEW gone, Shelved(f, gone), Reshelves(f, src, lost, r)
    PROVE  /\ Shelved(r, gone \cup LostLines(f, lost))
           /\ Stored(r) \cup LostLines(f, lost) = Stored(f)
<1>1. Range(<<>>) = {} /\ <<>> \in Seq(Nat) /\ Increasing(<<>>)
  BY DEF Range, Increasing
<1>2. ASSUME NEW n \in DOMAIN r
      PROVE  /\ n \in Names /\ r[n] \in Seq(Nat) /\ Increasing(r[n])
             /\ Range(r[n]) \cap (gone \cup LostLines(f, lost)) = {}
             /\ Range(r[n]) \subseteq Stored(f)
  <2>1. n \in Names
    BY Zenon DEF Reshelves
  <2>2. CASE r[n] = <<>>
    BY <1>1, <2>1, <2>2, Zenon
  <2>3. CASE src[n] \in DOMAIN f \ lost /\ r[n] = f[src[n]]
    <3> DEFINE m == src[n]
    <3>1. m \in DOMAIN f /\ m \notin lost /\ r[n] = f[m]
      BY <2>3, Zenon
    <3>. HIDE DEF m
    <3>2. f[m] \in Seq(Nat) /\ Increasing(f[m]) /\ Range(f[m]) \cap gone = {}
      BY <3>1, Zenon DEF Shelved
    <3>3. Range(f[m]) \cap LostLines(f, lost) = {}
      <4>1. ASSUME NEW x \in Range(f[m]), x \in LostLines(f, lost) PROVE FALSE
        <5>1. PICK k \in DOMAIN f \cap lost : x \in Range(f[k])
          BY <4>1, Zenon DEF LostLines
        <5>2. k \in DOMAIN f /\ k # m
          BY <3>1, <5>1, Zenon
        <5>3. Range(f[m]) \cap Range(f[k]) = {}
          BY <3>1, <5>2, Zenon DEF Shelved
        <5>. QED BY <5>1, <5>3, Zenon
      <4>. QED BY <4>1, Zenon
    <3>4. Range(f[m]) \subseteq Stored(f)
      BY <3>1, Zenon DEF Stored
    <3>. QED BY <2>1, <3>1, <3>2, <3>3, <3>4, Zenon
  <2>. QED BY <2>2, <2>3, Zenon DEF Reshelves
<1>3. ASSUME NEW m \in DOMAIN r, NEW n \in DOMAIN r, m # n
      PROVE  Range(r[m]) \cap Range(r[n]) = {}
  <2>1. CASE r[m] = <<>> \/ r[n] = <<>>
    BY <1>1, <2>1, Zenon
  <2>2. CASE ~ (r[m] = <<>> \/ r[n] = <<>>)
    <3>1. /\ src[m] \in DOMAIN f /\ r[m] = f[src[m]]
          /\ src[n] \in DOMAIN f /\ r[n] = f[src[n]]
      BY <2>2, Zenon DEF Reshelves
    <3>2. src[m] # src[n]
      BY <1>3, Zenon DEF Reshelves
    <3>3. Range(f[src[m]]) \cap Range(f[src[n]]) = {}
      BY <3>1, <3>2, Zenon DEF Shelved
    <3>. QED BY <3>1, <3>3, Zenon
  <2>. QED BY <2>1, <2>2, Zenon
<1>4. Shelved(r, gone \cup LostLines(f, lost))
  BY <1>2, <1>3, Zenon DEF Shelved
<1>5. Stored(r) \subseteq Stored(f) /\ LostLines(f, lost) \subseteq Stored(f)
  <2>1. Stored(r) \subseteq Stored(f)
    BY <1>2, Zenon DEF Stored
  <2>2. LostLines(f, lost) \subseteq Stored(f)
    BY Zenon DEF Stored, LostLines
  <2>. QED BY <2>1, <2>2, Zenon
<1>6. ASSUME NEW x \in Stored(f) PROVE x \in Stored(r) \cup LostLines(f, lost)
  <2>1. PICK m \in DOMAIN f : x \in Range(f[m])
    BY Zenon DEF Stored
  <2>2. CASE m \in lost
    BY <2>1, <2>2, Zenon DEF LostLines
  <2>3. CASE m \notin lost
    <3>1. m \in DOMAIN f \ lost
      BY <2>3, Zenon
    <3>2. PICK n \in DOMAIN r : r[n] = f[m]
      BY <3>1, Zenon DEF Reshelves
    <3>. QED BY <2>1, <3>2, Zenon DEF Stored
  <2>. QED BY <2>2, <2>3, Zenon
<1>7. Stored(r) \cup LostLines(f, lost) = Stored(f)
  BY <1>5, <1>6, Zenon
<1>. QED BY <1>4, <1>7, Zenon

\* What CreateFile and Move leave on disk, seen from the files f they begin with.
Opened(f, gone) ==
  /\ link' = Name("log", now, Plain)
  /\ Shelved(files', gone)
  /\ DOMAIN files' \subseteq DOMAIN f \cup {link'}
  /\ logFile' = NoFile \/ logFile' \in DOMAIN files'
  /\ lfaults' \in Nat /\ lfaults' >= lfaults /\ (logFile' = NoFile => lfaults' > 0)

LEMMA Opens ==
    ASSUME NEW f, NEW gone, Shelved(f, gone), now \in Nat, lfaults \in Nat, CreateFile(f)
    PROVE  Opened(f, gone) /\ Stored(files') = Stored(f)
<1> DEFINE n == Name("log", now, Plain)
           r == [x \in DOMAIN f \cup {n} |-> IF x \in DOMAIN f THEN f[x] ELSE <<>>]
<1>1. n \in Names
  BY NameParts, Zenon
<1>2. /\ link' = n
      /\ \/ files' = r /\ logFile' = n /\ lfaults' = lfaults
         \/ lfaults' = lfaults + 1 /\ files' = f /\ logFile' = NoFile
  BY Zenon DEF CreateFile
<1>3. DOMAIN r = DOMAIN f \cup {n} /\ \A x \in DOMAIN r : r[x] = IF x \in DOMAIN f THEN f[x] ELSE <<>>
  BY Zenon
<1>. HIDE DEF r, n
<1>4. Shelved(r, gone) /\ Stored(r) = Stored(f)
  <2> DEFINE src == [x \in DOMAIN r |-> x]
  <2>1. ASSUME NEW x \in DOMAIN r
        PROVE  x \in Names /\ (r[x] = <<>> \/ (src[x] \in DOMAIN f \ {} /\ r[x] = f[src[x]]))
    BY <1>1, <1>3, Zenon DEF Shelved
  <2>2. \A x, y \in DOMAIN r : x # y => src[x] # src[y]
    BY Zenon
  <2>3. \A m \in DOMAIN f \ {} : \E x \in DOMAIN r : r[x] = f[m]
    BY <1>3, Zenon
  <2>. HIDE DEF src
  <2>4. Reshelves(f, src, {}, r)
    BY <2>1, <2>2, <2>3, Zenon DEF Reshelves
  <2>5. LostLines(f, {}) = {}
    BY Zenon DEF LostLines
  <2>6. \A S : S \cup {} = S
    OBVIOUS
  <2>7. Shelved(r, gone \cup {}) /\ Stored(r) \cup {} = Stored(f)
    BY <2>4, <2>5, Reshelved, Zenon
  <2>. QED BY <2>6, <2>7, Zenon
<1>5. CASE files' = r /\ logFile' = n /\ lfaults' = lfaults
  <2>1. n # NoFile
    BY <1>1, NameIs, Zenon
  <2>2. DOMAIN r = DOMAIN f \cup {link'} /\ logFile' \in DOMAIN files' /\ logFile' # NoFile
    BY <1>2, <1>3, <1>5, <2>1, Zenon
  <2>3. lfaults' \in Nat /\ lfaults' >= lfaults
    BY <1>5
  <2>. QED BY <1>2, <1>4, <1>5, <2>2, <2>3, Zenon DEF Opened, n
<1>6. CASE lfaults' = lfaults + 1 /\ files' = f /\ logFile' = NoFile
  <2>1. lfaults' \in Nat /\ lfaults' >= lfaults /\ lfaults' > 0
    BY <1>6
  <2>2. DOMAIN f \subseteq DOMAIN f \cup {link'}
    OBVIOUS
  <2>. QED BY <1>2, <1>6, <2>1, <2>2, Zenon DEF Opened, n
<1>. QED BY <1>2, <1>5, <1>6, Zenon

LEMMA RenameShelved ==
    ASSUME NEW f, NEW gone, Shelved(f, gone), NEW from, NEW to \in Names, from # to
    PROVE  /\ Shelved(Renamed(f, from, to), gone \cup LostLines(f, {to}))
           /\ Stored(Renamed(f, from, to)) \cup LostLines(f, {to}) = Stored(f)
           /\ DOMAIN Renamed(f, from, to) \subseteq (DOMAIN f \ {from}) \cup {to}
<1> DEFINE r == Renamed(f, from, to)
           src == [n \in DOMAIN r |-> IF n = to THEN from ELSE n]
<1>1. /\ DOMAIN r = (DOMAIN f \ {from, to}) \cup (IF from \in DOMAIN f THEN {to} ELSE {})
      /\ \A n \in DOMAIN r : r[n] = IF n = to THEN f[from] ELSE f[n]
  BY Zenon DEF Renamed
<1>2. \A n \in DOMAIN r : src[n] = IF n = to THEN from ELSE n
  BY Zenon
<1>. HIDE DEF r, src
<1>3. ASSUME NEW n \in DOMAIN r
      PROVE  n \in Names /\ src[n] \in DOMAIN f \ {to} /\ r[n] = f[src[n]]
  <2>1. CASE n = to
    BY <1>1, <1>2, <2>1
  <2>2. CASE n # to
    <3>1. n \in DOMAIN f
      BY <1>1, <2>2, Zenon
    <3>. QED BY <1>1, <1>2, <2>2, <3>1, Zenon DEF Shelved
  <2>. QED BY <2>1, <2>2, Zenon
<1>4. ASSUME NEW m \in DOMAIN r, NEW n \in DOMAIN r, m # n PROVE src[m] # src[n]
  <2>1. from \notin DOMAIN r
    BY <1>1, Zenon
  <2>. QED BY <1>2, <1>4, <2>1, Zenon
<1>5. ASSUME NEW m \in DOMAIN f \ {to} PROVE \E n \in DOMAIN r : r[n] = f[m]
  <2>1. CASE m = from
    <3>1. to \in DOMAIN r /\ r[to] = f[m]
      BY <1>1, <2>1, Zenon
    <3>. QED BY <3>1, Zenon
  <2>2. CASE m # from
    <3>1. m \in DOMAIN r /\ r[m] = f[m]
      BY <1>1, <2>2, Zenon
    <3>. QED BY <3>1, Zenon
  <2>. QED BY <2>1, <2>2, Zenon
<1>6. Reshelves(f, src, {to}, r)
  BY <1>3, <1>4, <1>5, Zenon DEF Reshelves
<1>7. Shelved(r, gone \cup LostLines(f, {to})) /\ Stored(r) \cup LostLines(f, {to}) = Stored(f)
  BY <1>6, Reshelved, Zenon
<1>8. DOMAIN r \subseteq (DOMAIN f \ {from}) \cup {to}
  BY <1>1, Zenon
<1>. QED BY <1>7, <1>8, Zenon DEF r

\* Move keeps every line in one file or counts it as purged, and an order
\* number is used again only after maxFileCount others.
LEMMA Moves ==
    ASSUME LogInv, fpc # "hour", Move, failed' = failed
    PROVE  /\ Shelved(files', Gone') /\ Written' = Written
           /\ DOMAIN files' \subseteq (DOMAIN files \ {link}) \cup {OrderName, link'}
           /\ link' = Name("log", now, Plain)
           /\ logFile' = NoFile \/ logFile' \in DOMAIN files'
           /\ lfaults' \in Nat /\ lfaults' >= lfaults /\ (logFile' = NoFile => lfaults' > 0)
           /\ \A k \in reused' : k >= MaxFileCount
<1> DEFINE to == OrderName
           r == Renamed(files, link, to)
           lost == LostLines(files, {to})
<1>1. /\ now \in Nat /\ hour \in Nat /\ fileOrder \in Nat /\ lfaults \in Nat
      /\ Shelved(files, Gone) /\ HoursOK /\ \A k \in reused : k >= MaxFileCount
  BY LogAssumption DEF LogInv, LogTypeOK
<1>2. fileOrder % MaxFileCount \in Nat
  BY <1>1, LogAssumption
<1>3. /\ to \in Names /\ to[1] = "log" /\ to[2] = hour /\ to[3] = fileOrder % MaxFileCount
  BY <1>1, <1>2, NameParts DEF OrderName
<1>4. link[3] = Plain
  <2>1. PICK h \in Nat : link = Name("log", h, Plain)
    BY <1>1, Zenon DEF HoursOK
  <2>2. "log" \in {"log", "backup"} /\ Plain \in Nat \cup {Plain}
    OBVIOUS
  <2>3. Name("log", h, Plain)[3] = Plain
    BY Zenon DEF Name
  <2>. QED BY <2>1, <2>3, Zenon
<1>5. link # to
  BY <1>2, <1>3, <1>4 DEF Plain
<1>6. /\ CreateFile(r)
      /\ IF to \in DOMAIN files
         THEN purged' = purged \cup Range(files[to]) /\ reused' = reused \cup {fileOrder}
         ELSE purged' = purged /\ reused' = reused
  BY Zenon DEF Move
<1>7. ASSUME to \in DOMAIN files PROVE fileOrder >= MaxFileCount
  <2>1. Dated(to)
    BY <1>1, <1>7, Zenon DEF HoursOK
  <2>2. fileOrder % MaxFileCount < fileOrder
    BY <1>2, <1>3, <2>1 DEF Dated, Plain
  <2>3. ASSUME fileOrder < MaxFileCount PROVE fileOrder % MaxFileCount = fileOrder
    BY <1>1, <2>3, LogAssumption
  <2>. QED BY <1>1, <2>2, <2>3, LogAssumption
<1>. HIDE DEF to
<1>8. purged' = purged \cup lost
  <2>1. lost = IF to \in DOMAIN files THEN Range(files[to]) ELSE {}
    BY Zenon DEF LostLines
  <2>. QED BY <1>6, <2>1, Zenon
<1>. HIDE DEF lost
<1>9. /\ Shelved(r, Gone \cup lost) /\ Stored(r) \cup lost = Stored(files)
      /\ DOMAIN r \subseteq (DOMAIN files \ {link}) \cup {to}
  BY <1>1, <1>3, <1>5, RenameShelved, Zenon DEF lost
<1>10. Gone' = Gone \cup lost
  BY <1>8, Zenon DEF Gone
<1>. HIDE DEF r
<1>11. Opened(r, Gone \cup lost) /\ Stored(files') = Stored(r)
  BY <1>1, <1>6, <1>9, Opens, Zenon
<1>12. Shelved(files', Gone') /\ Written' = Written
  <2>1. Written' = Stored(r) \cup (Gone \cup lost)
    BY <1>10, <1>11, Zenon DEF Written
  <2>. QED BY <1>9, <1>10, <1>11, <2>1, Zenon DEF Opened, Written
<1>13. DOMAIN files' \subseteq (DOMAIN files \ {link}) \cup {to, link'}
  BY <1>9, <1>11, Zenon DEF Opened
<1>14. \A k \in reused' : k >= MaxFileCount
  BY <1>1, <1>6, <1>7, Zenon
<1>. QED BY <1>11, <1>12, <1>13, <1>14, Zenon DEF Opened, to

-----------------------------------------------------------------------------
\* The lines that wait, when FlushBufferQueue takes the head of the queue.
LEMMA TakeInOrder ==
    ASSUME NEW q \in Nat, NEW w, NEW v, NEW written, NEW n, InOrder(w, written, n),
           DOMAIN w = 0 .. q + 2, DOMAIN v = 0 .. q + 1,
           w[0] = <<>>, \A k \in 0 .. q + 1 : v[k] = w[k + 1]
    PROVE  InOrder(v, written, n)
<1>1. ASSUME NEW k \in DOMAIN v PROVE k + 1 \in DOMAIN w /\ v[k] = w[k + 1]
  OBVIOUS
<1>2. ASSUME NEW k \in DOMAIN v
      PROVE  v[k] \in Seq(1 .. n) /\ Increasing(v[k]) /\ Below(written, Range(v[k]))
  BY <1>1, Zenon DEF InOrder
<1>3. ASSUME NEW k \in DOMAIN v, NEW l \in DOMAIN v, k < l PROVE Below(Range(v[k]), Range(v[l]))
  <2>1. k + 1 < l + 1
    BY <1>3
  <2>. QED BY <1>1, <2>1, Zenon DEF InOrder
<1>4. ASSUME NEW x \in 1 .. n, x \notin written PROVE \E k \in DOMAIN v : x \in Range(v[k])
  <2>1. PICK k \in DOMAIN w : x \in Range(w[k])
    BY <1>4, Zenon DEF InOrder
  <2>2. k # 0
    BY <2>1 DEF Range
  <2>3. k - 1 \in DOMAIN v /\ v[k - 1] = w[k]
    BY <2>1, <2>2
  <2>. QED BY <2>1, <2>3, Zenon
<1>5. written \subseteq 1 .. n
  BY Zenon DEF InOrder
<1>. QED BY <1>2, <1>3, <1>4, <1>5, Zenon DEF InOrder

\* When the buffer goes on the queue and an empty one begins.
LEMMA EnqueueInOrder ==
    ASSUME NEW q \in Nat, NEW w, NEW v, NEW written, NEW n, InOrder(w, written, n),
           DOMAIN w = 0 .. q + 1, DOMAIN v = 0 .. q + 2,
           v[q + 2] = <<>>, \A k \in 0 .. q + 1 : v[k] = w[k]
    PROVE  InOrder(v, written, n)
<1>1. <<>> \in Seq(1 .. n) /\ Increasing(<<>>) /\ Range(<<>>) = {}
  BY DEF Increasing, Range
<1>2. Below(written, Range(<<>>)) /\ \A k \in DOMAIN w : Below(Range(w[k]), Range(<<>>))
  BY <1>1, Zenon DEF Below
<1>3. ASSUME NEW k \in DOMAIN v PROVE (k \in DOMAIN w /\ v[k] = w[k]) \/ v[k] = <<>>
  <2>1. k \in 0 .. q + 1 \/ k = q + 2
    OBVIOUS
  <2>. QED BY <2>1, Zenon
<1>4. ASSUME NEW k \in DOMAIN v
      PROVE  v[k] \in Seq(1 .. n) /\ Increasing(v[k]) /\ Below(written, Range(v[k]))
  BY <1>1, <1>2, <1>3, Zenon DEF InOrder
<1>5. ASSUME NEW k \in DOMAIN v, NEW l \in DOMAIN v, k < l PROVE Below(Range(v[k]), Range(v[l]))
  <2>1. k \in DOMAIN w /\ v[k] = w[k]
    BY <1>5
  <2>2. CASE l \in DOMAIN w /\ v[l] = w[l]
    BY <1>5, <2>1, <2>2, Zenon DEF InOrder
  <2>3. CASE v[l] = <<>>
    BY <1>2, <2>1, <2>3, Zenon
  <2>. QED BY <1>3, <2>2, <2>3, Zenon
<1>6. ASSUME NEW x \in 1 .. n, x \notin written PROVE \E k \in DOMAIN v : x \in Range(v[k])
  <2>1. PICK k \in DOMAIN w : x \in Range(w[k])
    BY <1>6, Zenon DEF InOrder
  <2>2. k \in DOMAIN v /\ v[k] = w[k]
    BY <2>1
  <2>. QED BY <2>1, <2>2, Zenon
<1>7. written \subseteq 1 .. n
  BY Zenon DEF InOrder
<1>. QED BY <1>4, <1>5, <1>6, <1>7, Zenon DEF InOrder

\* When a line is written to the buffer.
LEMMA WriteInOrder ==
    ASSUME NEW q \in Nat, NEW w, NEW v, NEW written, NEW n \in Nat, InOrder(w, written, n),
           DOMAIN w = 0 .. q + 1, DOMAIN v = 0 .. q + 1,
           v[q + 1] = Append(w[q + 1], n + 1), \A k \in 0 .. q : v[k] = w[k]
    PROVE  InOrder(v, written, n + 1)
<1> DEFINE s == w[q + 1]
           t == Append(s, n + 1)
<1>1. q + 1 \in DOMAIN w /\ \A k \in DOMAIN w : k = q + 1 \/ k \in 0 .. q
  OBVIOUS
<1>2. s \in Seq(1 .. n) /\ Increasing(s) /\ Below(written, Range(s))
  BY <1>1, Zenon DEF InOrder
<1>3. \A k \in DOMAIN w : w[k] \in Seq(1 .. n)
  BY Zenon DEF InOrder
<1>. HIDE DEF s
<1>4. written \subseteq 1 .. n
  BY Zenon DEF InOrder
<1>5. /\ Len(s) \in Nat /\ DOMAIN s = 1 .. Len(s) /\ t \in Seq(1 .. n + 1)
      /\ DOMAIN t = 1 .. Len(s) + 1 /\ t[Len(s) + 1] = n + 1
      /\ \A i \in 1 .. Len(s) : t[i] = s[i] /\ s[i] \in 1 .. n
  BY <1>2
<1>6. Range(t) = Range(s) \cup {n + 1}
  <2>1. s \in Seq(1 .. n + 1) /\ n + 1 \in 1 .. n + 1
    BY <1>2, <1>5
  <2>. QED BY <2>1, Ranges
<1>. HIDE DEF t
<1>7. Increasing(t)
  <2>1. ASSUME NEW i \in DOMAIN t, NEW j \in DOMAIN t, i < j PROVE t[i] < t[j]
    <3>1. i \in 1 .. Len(s) /\ (j \in 1 .. Len(s) \/ j = Len(s) + 1)
      BY <1>5, <2>1
    <3>2. CASE j \in 1 .. Len(s)
      <4>1. s[i] < s[j]
        BY <1>2, <1>5, <2>1, <3>1, <3>2, Zenon DEF Increasing
      <4>. QED BY <1>5, <3>1, <3>2, <4>1, Zenon
    <3>3. CASE j = Len(s) + 1
      <4>1. t[i] \in 1 .. n /\ t[j] = n + 1
        BY <1>5, <3>1, <3>3, Zenon
      <4>. QED BY <4>1
    <3>. QED BY <3>1, <3>2, <3>3, Zenon
  <2>. QED BY <2>1, Zenon DEF Increasing
<1>8. \A k \in DOMAIN v : k \in 0 .. q => k \in DOMAIN w /\ v[k] = w[k]
  OBVIOUS
<1>9. v[q + 1] = t
  BY Zenon DEF s, t
<1>10. ASSUME NEW x \in 1 .. n PROVE x < n + 1 /\ x \in 1 .. n + 1
  OBVIOUS
<1>11. \A k \in DOMAIN w : Range(w[k]) \subseteq 1 .. n
  BY <1>3, Ranges, Zenon
<1>12. ASSUME NEW k \in DOMAIN v
       PROVE  v[k] \in Seq(1 .. n + 1) /\ Increasing(v[k]) /\ Below(written, Range(v[k]))
  <2>1. CASE k \in 0 .. q
    <3>1. w[k] \in Seq(1 .. n) /\ Increasing(w[k]) /\ Below(written, Range(w[k])) /\ v[k] = w[k]
      BY <1>8, <2>1, Zenon DEF InOrder
    <3>2. w[k] \in Seq(1 .. n + 1)
      BY <3>1
    <3>. QED BY <3>1, <3>2, Zenon
  <2>2. CASE k = q + 1
    <3>1. Below(written, Range(t))
      BY <1>2, <1>4, <1>6, <1>10, Zenon DEF Below
    <3>. QED BY <1>5, <1>7, <1>9, <2>2, <3>1, Zenon
  <2>. QED BY <1>1, <2>1, <2>2, Zenon
<1>13. ASSUME NEW k \in DOMAIN v, NEW l \in DOMAIN v, k < l PROVE Below(Range(v[k]), Range(v[l]))
  <2>1. k \in 0 .. q /\ (l \in 0 .. q \/ l = q + 1)
    BY <1>13
  <2>2. k \in DOMAIN w /\ l \in DOMAIN w /\ v[k] = w[k] /\ Below(Range(w[k]), Range(w[l]))
    BY <1>8, <1>13, <2>1, Zenon DEF InOrder
  <2>3. CASE l \in 0 .. q
    BY <1>8, <2>2, <2>3, Zenon
  <2>4. CASE l = q + 1
    <3>1. \A x \in Range(w[k]) : x < n + 1
      BY <1>10, <1>11, <2>2, Zenon
    <3>2. Below(Range(w[k]), Range(t))
      BY <1>6, <2>2, <2>4, <3>1, Zenon DEF Below, s
    <3>. QED BY <1>9, <2>2, <2>4, <3>2, Zenon
  <2>. QED BY <2>1, <2>3, <2>4, Zenon
<1>14. ASSUME NEW x \in 1 .. n + 1, x \notin written PROVE \E k \in DOMAIN v : x \in Range(v[k])
  <2>1. q + 1 \in DOMAIN v /\ (x = n + 1 \/ x \in 1 .. n)
    OBVIOUS
  <2>2. CASE x = n + 1
    BY <1>6, <1>9, <2>1, <2>2, Zenon
  <2>3. CASE x \in 1 .. n
    <3>1. PICK k \in DOMAIN w : x \in Range(w[k])
      BY <1>14, <2>3, Zenon DEF InOrder
    <3>2. CASE k = q + 1
      <4>1. x \in Range(t)
        BY <1>6, <3>1, <3>2, Zenon DEF s
      <4>. QED BY <1>9, <2>1, <4>1, Zenon
    <3>3. CASE k \in 0 .. q
      <4>1. k \in DOMAIN v /\ v[k] = w[k]
        BY <1>8, <3>1, <3>3, Zenon
      <4>. QED BY <3>1, <4>1, Zenon
    <3>. QED BY <1>1, <3>2, <3>3, Zenon
  <2>. QED BY <2>1, <2>2, <2>3, Zenon
<1>15. written \subseteq 1 .. n + 1
  BY <1>4, <1>10, Zenon
<1>. QED BY <1>12, <1>13, <1>14, <1>15, Zenon DEF InOrder

\* When the batch is written, or given up.
LEMMA FlushInOrder ==
    ASSUME NEW q \in Nat, NEW w, NEW v, NEW written, NEW n, InOrder(w, written, n),
           DOMAIN w = 0 .. q + 1, DOMAIN v = 0 .. q + 1,
           v[0] = <<>>, \A k \in 1 .. q + 1 : v[k] = w[k]
    PROVE  InOrder(v, written \cup Range(w[0]), n)
<1>1. <<>> \in Seq(1 .. n) /\ Increasing(<<>>) /\ Range(<<>>) = {}
  BY DEF Increasing, Range
<1>2. /\ 0 \in DOMAIN w /\ \A k \in DOMAIN v : k = 0 \/ (k \in DOMAIN w /\ 0 < k /\ v[k] = w[k])
      /\ \A k \in DOMAIN w : k = 0 \/ (k \in DOMAIN v /\ v[k] = w[k])
  OBVIOUS
<1>3. ASSUME NEW k \in DOMAIN v
      PROVE  /\ v[k] \in Seq(1 .. n) /\ Increasing(v[k])
             /\ Below(written \cup Range(w[0]), Range(v[k]))
  <2>1. CASE k = 0
    BY <1>1, <2>1, Zenon DEF Below
  <2>2. CASE k \in DOMAIN w /\ 0 < k /\ v[k] = w[k]
    <3>1. /\ w[k] \in Seq(1 .. n) /\ Increasing(w[k])
          /\ Below(written, Range(w[k])) /\ Below(Range(w[0]), Range(w[k]))
      BY <1>2, <2>2, Zenon DEF InOrder
    <3>. QED BY <2>2, <3>1, Zenon DEF Below
  <2>. QED BY <1>2, <2>1, <2>2, Zenon
<1>4. ASSUME NEW k \in DOMAIN v, NEW l \in DOMAIN v, k < l PROVE Below(Range(v[k]), Range(v[l]))
  <2>1. l \in DOMAIN w /\ v[l] = w[l]
    BY <1>2, <1>4
  <2>2. CASE k = 0
    BY <1>1, <2>2, Zenon DEF Below
  <2>3. CASE k \in DOMAIN w /\ 0 < k /\ v[k] = w[k]
    BY <1>4, <2>1, <2>3, Zenon DEF InOrder
  <2>. QED BY <1>2, <2>2, <2>3, Zenon
<1>5. ASSUME NEW x \in 1 .. n, x \notin written \cup Range(w[0]) PROVE \E k \in DOMAIN v : x \in Range(v[k])
  <2>1. PICK k \in DOMAIN w : x \in Range(w[k])
    BY <1>5, Zenon DEF InOrder
  <2>2. k # 0
    BY <1>5, <2>1, Zenon
  <2>. QED BY <1>2, <2>1, <2>2, Zenon
<1>6. written \cup Range(w[0]) \subseteq 1 .. n
  <2>1. written \subseteq 1 .. n /\ w[0] \in Seq(1 .. n)
    BY <1>2, Zenon DEF InOrder
  <2>. QED BY <2>1, Ranges, Zenon
<1>. QED BY <1>3, <1>4, <1>5, <1>6, Zenon DEF InOrder

LEMMA LineUp ==
    ASSUME NEW q \in Seq(Seq(Nat)), NEW first, NEW last
    PROVE  /\ Len(q) \in Nat /\ DOMAIN LinedUp(first, q, last) = 0 .. Len(q) + 1
           /\ LinedUp(first, q, last)[0] = first /\ LinedUp(first, q, last)[Len(q) + 1] = last
           /\ \A k \in 1 .. Len(q) : LinedUp(first, q, last)[k] = q[k]
<1>1. Len(q) \in Nat
  OBVIOUS
<1>2. DOMAIN LinedUp(first, q, last) = 0 .. Len(q) + 1
  BY Zenon DEF LinedUp
<1>3. ASSUME NEW k \in 0 .. Len(q) + 1
      PROVE  LinedUp(first, q, last)[k] = IF k = 0 THEN first ELSE IF k = Len(q) + 1 THEN last ELSE q[k]
  BY Zenon DEF LinedUp
<1>4. /\ 0 \in 0 .. Len(q) + 1 /\ Len(q) + 1 \in 0 .. Len(q) + 1 /\ Len(q) + 1 # 0
      /\ \A k \in 1 .. Len(q) : k \in 0 .. Len(q) + 1 /\ k # 0 /\ k # Len(q) + 1
  BY <1>1
<1>. QED BY <1>1, <1>2, <1>3, <1>4, Zenon

LEMMA HoursStay ==
    ASSUME HoursOK, UNCHANGED <<now, fpc, hour, fileOrder, files, link, backups, struck>>
    PROVE  HoursOK'
<1>1. ASSUME NEW n \in DOMAIN files PROVE Dated(n)'
  <2>1. Dated(n)
    BY Zenon DEF HoursOK
  <2>. QED BY <2>1, Zenon DEF Dated
<1>. QED BY <1>1, Zenon DEF HoursOK

LEMMA ShelfStays ==
    ASSUME Shelved(files, Gone), UNCHANGED <<files, purged, failed>>
    PROVE  Shelved(files', Gone') /\ Written' = Written
<1>1. Gone' = Gone /\ files' = files
  BY Zenon DEF Gone
<1>. QED BY <1>1, Zenon DEF Written

LEMMA WriteKeeps == ASSUME LogInv, Write PROVE LogInv'
<1>1. LogTypeOK' /\ HoursOK' /\ Shelved(files', Gone') /\ Written' = Written
      /\ lfaults' = lfaults /\ reused' = reused /\ failed' = failed /\ logFile' = logFile
  BY HoursStay, ShelfStays, Zenon DEF LogInv, LogTypeOK, Write, diskVars
<1>2. /\ lines \in Nat /\ bufferQueue \in Seq(Seq(Nat)) /\ InOrder(Waiting, Written, lines)
      /\ fpc = "idle" => batch = <<>>
  BY Zenon DEF LogInv, LinesOK
<1>3. lines' = lines + 1 /\ buffer' = Append(buffer, lines + 1) /\ UNCHANGED <<bufferQueue, batch, fpc>>
  BY Zenon DEF Write
<1> DEFINE w == LinedUp(batch, bufferQueue, buffer)
           v == LinedUp(batch, bufferQueue, buffer')
<1>4. InOrder(w, Written, lines)
  BY <1>2, Zenon DEF Waiting
<1>5. /\ Len(bufferQueue) \in Nat /\ DOMAIN w = 0 .. Len(bufferQueue) + 1
      /\ w[0] = batch /\ w[Len(bufferQueue) + 1] = buffer
      /\ \A k \in 1 .. Len(bufferQueue) : w[k] = bufferQueue[k]
  <2>. bufferQueue \in Seq(Seq(Nat))
    BY <1>2, Zenon
  <2>. QED BY LineUp
<1>6. /\ DOMAIN v = 0 .. Len(bufferQueue) + 1
      /\ v[0] = batch /\ v[Len(bufferQueue) + 1] = buffer'
      /\ \A k \in 1 .. Len(bufferQueue) : v[k] = bufferQueue[k]
  <2>. bufferQueue \in Seq(Seq(Nat))
    BY <1>2, Zenon
  <2>. QED BY LineUp
<1>7. Waiting' = v
  BY <1>3, Zenon DEF Waiting
<1>. HIDE DEF w, v
<1>8. \A k \in 0 .. Len(bufferQueue) : v[k] = w[k]
  <2>1. \A k \in 0 .. Len(bufferQueue) : k = 0 \/ k \in 1 .. Len(bufferQueue)
    BY <1>5
  <2>. QED BY <1>5, <1>6, <2>1, Zenon
<1>9. v[Len(bufferQueue) + 1] = Append(w[Len(bufferQueue) + 1], lines + 1)
  BY <1>3, <1>5, <1>6, Zenon
<1>10. InOrder(v, Written, lines + 1)
  BY <1>2, <1>4, <1>5, <1>6, <1>8, <1>9, WriteInOrder, Zenon
<1>11. LinesOK'
  BY <1>1, <1>2, <1>3, <1>7, <1>10 DEF LinesOK
<1>. QED BY <1>1, <1>11, Zenon DEF LogInv

LEMMA BlockKeeps == ASSUME LogInv, Block PROVE LogInv'
<1>1. LogTypeOK' /\ HoursOK' /\ Shelved(files', Gone') /\ Written' = Written
      /\ lfaults' = lfaults /\ reused' = reused /\ failed' = failed /\ logFile' = logFile
  BY HoursStay, ShelfStays, Zenon DEF LogInv, LogTypeOK, Block, diskVars
<1>2. Waiting' = Waiting /\ UNCHANGED <<lines, bufferQueue, fpc, batch>>
  BY Zenon DEF Block, Waiting
<1>3. LinesOK'
  BY <1>1, <1>2, Zenon DEF LogInv, LinesOK
<1>. QED BY <1>1, <1>3, Zenon DEF LogInv

LEMMA EnqueueKeeps == ASSUME LogInv, Enqueue PROVE LogInv'
<1>1. /\ lines \in Nat /\ bufferQueue \in Seq(Seq(Nat)) /\ InOrder(Waiting, Written, lines)
      /\ fpc = "idle" => batch = <<>>
  BY Zenon DEF LogInv, LinesOK
<1>2. bufferQueue' = Append(bufferQueue, buffer) /\ buffer' = <<>> /\ UNCHANGED <<lines, batch, fpc>>
      /\ Len(bufferQueue) < QueueSize
  BY Zenon DEF Enqueue
<1> DEFINE w == LinedUp(batch, bufferQueue, buffer)
           v == LinedUp(batch, bufferQueue', <<>>)
<1>3. InOrder(w, Written, lines)
  BY <1>1, Zenon DEF Waiting
<1>4. /\ Len(bufferQueue) \in Nat /\ DOMAIN w = 0 .. Len(bufferQueue) + 1
      /\ w[0] = batch /\ w[Len(bufferQueue) + 1] = buffer
      /\ \A k \in 1 .. Len(bufferQueue) : w[k] = bufferQueue[k]
  <2>. bufferQueue \in Seq(Seq(Nat))
    BY <1>1, Zenon
  <2>. QED BY LineUp
<1>5. buffer \in Seq(Nat)
  <2>1. Len(bufferQueue) + 1 \in DOMAIN w
    BY <1>4
  <2>2. buffer \in Seq(1 .. lines)
    BY <1>3, <1>4, <2>1, Zenon DEF InOrder
  <2>. QED BY <1>1, <2>2
<1>6. /\ bufferQueue' \in Seq(Seq(Nat)) /\ Len(bufferQueue') = Len(bufferQueue) + 1
      /\ bufferQueue'[Len(bufferQueue) + 1] = buffer
      /\ \A k \in 1 .. Len(bufferQueue) : bufferQueue'[k] = bufferQueue[k]
  BY <1>1, <1>2, <1>5
<1>7. /\ DOMAIN v = 0 .. Len(bufferQueue') + 1
      /\ v[0] = batch /\ v[Len(bufferQueue') + 1] = <<>>
      /\ \A k \in 1 .. Len(bufferQueue') : v[k] = bufferQueue'[k]
  <2>. bufferQueue' \in Seq(Seq(Nat))
    BY <1>6, Zenon
  <2>. QED BY LineUp
<1>8. Waiting' = v
  BY <1>2, Zenon DEF Waiting
<1>. HIDE DEF w, v
<1>9. DOMAIN v = 0 .. Len(bufferQueue) + 2 /\ v[Len(bufferQueue) + 2] = <<>>
      /\ \A k \in 1 .. Len(bufferQueue) + 1 : v[k] = bufferQueue'[k]
  <2>1. Len(bufferQueue') + 1 = Len(bufferQueue) + 2
    BY <1>4, <1>6
  <2>. QED BY <1>6, <1>7, <2>1, Zenon
<1>10. \A k \in 0 .. Len(bufferQueue) + 1 : v[k] = w[k]
  <2>1. /\ \A k \in 0 .. Len(bufferQueue) + 1 :
             k = 0 \/ k = Len(bufferQueue) + 1 \/ k \in 1 .. Len(bufferQueue)
        /\ \A k \in 1 .. Len(bufferQueue) : k \in 1 .. Len(bufferQueue) + 1
        /\ Len(bufferQueue) + 1 \in 1 .. Len(bufferQueue) + 1
    BY <1>4
  <2>. QED BY <1>4, <1>6, <1>7, <1>9, <2>1, Zenon
<1>11. InOrder(v, Written, lines)
  BY <1>3, <1>4, <1>9, <1>10, EnqueueInOrder, Zenon
<1>12. LogTypeOK' /\ HoursOK' /\ Shelved(files', Gone') /\ Written' = Written
       /\ lfaults' = lfaults /\ reused' = reused /\ failed' = failed /\ logFile' = logFile
  <2>1. Len(bufferQueue') <= QueueSize
    BY <1>2, <1>4, <1>6, LogAssumption
  <2>. QED BY <2>1, HoursStay, ShelfStays, Zenon DEF LogInv, LogTypeOK, Enqueue, diskVars
<1>13. LinesOK'
  BY <1>1, <1>2, <1>6, <1>8, <1>11, <1>12, Zenon DEF LinesOK
<1>. QED BY <1>12, <1>13, Zenon DEF LogInv

LEMMA StrikeKeeps == ASSUME LogInv, Strike PROVE LogInv'
<1>1. /\ now \in Nat /\ hour \in Nat /\ now' = now + 1 /\ now < MaxHour
      /\ struck' = (struck \/ fpc = "hour")
      /\ UNCHANGED <<lines, buffer, bufferQueue, locked, fpc, batch, hour, fileOrder, files,
                     logFile, link, purged, reused, backups, failed, lfaults>>
  BY DEF LogInv, LogTypeOK, Strike, writerVars, diskVars
<1>2. Shelved(files', Gone') /\ Written' = Written
  BY <1>1, ShelfStays, Zenon DEF LogInv
<1>3. LogTypeOK'
  BY <1>1, LogAssumption DEF LogInv, LogTypeOK
<1>4. LinesOK'
  BY <1>1, <1>2, Zenon DEF LogInv, LinesOK, Waiting
<1>5. HoursOK'
  <2>1. ASSUME NEW n \in DOMAIN files PROVE Dated(n)'
    <3>1. Dated(n)
      BY Zenon DEF LogInv, HoursOK
    <3>. QED BY <1>1, <3>1, Zenon DEF Dated
  <2>2. fpc' \in {"rotate", "hour"} => now' > hour'
    BY <1>1 DEF LogInv, HoursOK
  <2>. QED BY <1>1, <2>1, <2>2, Zenon DEF LogInv, HoursOK
<1>. QED BY <1>1, <1>2, <1>3, <1>4, <1>5, Zenon DEF LogInv

LEMMA PlainName ==
    ASSUME NEW h \in Nat
    PROVE  /\ Name("log", h, Plain) \in Names /\ Name("log", h, Plain) # NoFile
           /\ Name("log", h, Plain)[1] = "log" /\ Name("log", h, Plain)[2] = h
           /\ Name("log", h, Plain)[3] = Plain
BY Zenon DEF Name, Names, NoFile

LEMMA TakeKeeps == ASSUME LogInv, Take PROVE LogInv'
<1>1. /\ lines \in Nat /\ bufferQueue \in Seq(Seq(Nat)) /\ InOrder(Waiting, Written, lines)
      /\ batch = <<>> /\ bufferQueue # <<>>
  BY Zenon DEF LogInv, LinesOK, Take
<1>2. /\ batch' = Head(bufferQueue) /\ bufferQueue' = Tail(bufferQueue) /\ fpc = "idle"
      /\ UNCHANGED <<now, lines, buffer, locked, hour, fileOrder, backups, failed, struck>>
  BY Zenon DEF Take
<1>3. /\ purged' = purged /\ reused' = reused
      /\ \/ now > hour /\ fpc' = "rotate" /\ UNCHANGED <<files, logFile, link, lfaults>>
         \/ now <= hour /\ fpc' \in {"split", "write"} /\ UNCHANGED <<files, logFile, link, lfaults>>
         \/ now <= hour /\ fpc' = "write" /\ link \notin DOMAIN files /\ CreateFile(files)
  BY Zenon DEF Take, diskVars
<1>4. now \in Nat /\ hour \in Nat /\ hour <= now /\ lfaults \in Nat /\ Shelved(files, Gone)
  BY DEF LogInv, LogTypeOK
<1> DEFINE w == LinedUp(batch, bufferQueue, buffer)
           v == LinedUp(batch', bufferQueue', buffer)
           q == Len(bufferQueue')
<1>5. /\ Len(bufferQueue) \in Nat /\ bufferQueue' \in Seq(Seq(Nat)) /\ q \in Nat
      /\ Len(bufferQueue) = q + 1 /\ batch' = bufferQueue[1]
      /\ \A k \in 1 .. q : bufferQueue'[k] = bufferQueue[k + 1]
  BY <1>1, <1>2
<1>6. /\ DOMAIN w = 0 .. Len(bufferQueue) + 1
      /\ w[0] = batch /\ w[Len(bufferQueue) + 1] = buffer
      /\ \A k \in 1 .. Len(bufferQueue) : w[k] = bufferQueue[k]
  <2>. bufferQueue \in Seq(Seq(Nat))
    BY <1>1, Zenon
  <2>. QED BY LineUp
<1>7. /\ DOMAIN v = 0 .. q + 1
      /\ v[0] = batch' /\ v[q + 1] = buffer
      /\ \A k \in 1 .. q : v[k] = bufferQueue'[k]
  <2>. bufferQueue' \in Seq(Seq(Nat))
    BY <1>5, Zenon
  <2>. QED BY LineUp
<1>8. InOrder(w, Written, lines) /\ Waiting' = v
  BY <1>1, <1>2, Zenon DEF Waiting
<1>. HIDE DEF w, v, q
<1>9. DOMAIN w = 0 .. q + 2 /\ w[q + 2] = buffer
  <2>1. Len(bufferQueue) + 1 = q + 2
    BY <1>5
  <2>. QED BY <1>6, <2>1, Zenon
<1>10. ASSUME NEW k \in 0 .. q + 1 PROVE v[k] = w[k + 1]
  <2>1. k = 0 \/ k = q + 1 \/ k \in 1 .. q
    BY <1>5
  <2>2. CASE k = 0
    <3>1. 1 \in 1 .. Len(bufferQueue) /\ k + 1 = 1
      BY <1>5, <2>2
    <3>. QED BY <1>5, <1>6, <1>7, <2>2, <3>1, Zenon
  <2>3. CASE k = q + 1
    <3>1. k + 1 = q + 2
      BY <1>5, <2>3
    <3>. QED BY <1>7, <1>9, <2>3, <3>1, Zenon
  <2>4. CASE k \in 1 .. q
    <3>1. k + 1 \in 1 .. Len(bufferQueue)
      BY <1>5, <2>4
    <3>. QED BY <1>5, <1>6, <1>7, <2>4, <3>1, Zenon
  <2>. QED BY <2>1, <2>2, <2>3, <2>4, Zenon
<1>11. InOrder(v, Written, lines)
  BY <1>1, <1>5, <1>6, <1>7, <1>8, <1>9, <1>10, TakeInOrder, Zenon
<1>12. Len(bufferQueue') <= QueueSize
  BY <1>5, LogAssumption DEF LogInv, LogTypeOK, q
<1>13. CASE UNCHANGED <<files, logFile, link, lfaults>>
  <2>1. Shelved(files', Gone') /\ Written' = Written
    BY <1>2, <1>3, <1>4, <1>13, ShelfStays, Zenon
  <2>2. fpc' \in {"rotate", "split", "write"} /\ (fpc' = "rotate" => now > hour)
    BY <1>3, Zenon
  <2>3. LogTypeOK'
    BY <1>2, <1>12, <1>13, <2>2, Zenon DEF LogInv, LogTypeOK
  <2>4. LinesOK'
    BY <1>1, <1>2, <1>5, <1>8, <1>11, <2>1, <2>2, Zenon DEF LinesOK
  <2>5. HoursOK'
    <3>1. ASSUME NEW n \in DOMAIN files PROVE Dated(n)'
      <4>1. Dated(n)
        BY Zenon DEF LogInv, HoursOK
      <4>. QED BY <1>2, <1>13, <4>1, Zenon DEF Dated
    <3>. QED BY <1>2, <1>13, <2>2, <3>1, Zenon DEF LogInv, HoursOK
  <2>. QED BY <1>2, <1>3, <1>13, <2>1, <2>3, <2>4, <2>5, Zenon DEF LogInv
<1>14. CASE now <= hour /\ fpc' = "write" /\ link \notin DOMAIN files /\ CreateFile(files)
  <2>1. Opened(files, Gone) /\ Stored(files') = Stored(files)
    BY <1>4, <1>14, Opens, Zenon
  <2>2. Gone' = Gone
    BY <1>2, <1>3, Zenon DEF Gone
  <2>3. Shelved(files', Gone') /\ Written' = Written
    BY <2>1, <2>2, Zenon DEF Opened, Written
  <2>4. LogTypeOK'
    BY <1>2, <1>12, <1>14, <2>1, Zenon DEF LogInv, LogTypeOK, Opened
  <2>5. LinesOK'
    BY <1>1, <1>2, <1>5, <1>8, <1>11, <1>14, <2>3, Zenon DEF LinesOK
  <2>6. /\ link' = Name("log", now, Plain) /\ now = hour
        /\ link'[1] = "log" /\ link'[2] = hour /\ link'[3] = Plain
    BY <1>4, <1>14, <2>1, PlainName DEF Opened
  <2>7. HoursOK'
    <3>1. ASSUME NEW n \in DOMAIN files' PROVE Dated(n)'
      <4>1. CASE n = link'
        BY <1>2, <2>6, <4>1, Zenon DEF Dated
      <4>2. CASE n \in DOMAIN files
        <5>1. Dated(n) /\ n # link
          BY <1>14, <4>2, Zenon DEF LogInv, HoursOK
        <5>. QED BY <1>2, <1>14, <5>1, Zenon DEF Dated
      <4>. QED BY <2>1, <4>1, <4>2, Zenon DEF Opened
    <3>. QED BY <1>2, <1>4, <1>14, <2>6, <3>1, Zenon DEF LogInv, HoursOK
  <2>8. failed' # {} \/ logFile' = NoFile => lfaults' > 0
    BY <1>2, <1>4, <2>1 DEF LogInv, Opened
  <2>. QED BY <1>2, <1>3, <2>1, <2>3, <2>4, <2>5, <2>7, <2>8, Zenon DEF LogInv, Opened
<1>. QED BY <1>3, <1>13, <1>14, Zenon

\* The order number of a full file, and the hour in its name.
LEMMA OrderNameIs ==
    ASSUME LogInv
    PROVE  /\ OrderName[1] = "log" /\ OrderName[2] = hour
           /\ OrderName[3] \in Nat /\ OrderName[3] <= fileOrder
<1>1. hour \in Nat /\ fileOrder \in Nat
  BY DEF LogInv, LogTypeOK
<1>2. fileOrder % MaxFileCount \in Nat /\ fileOrder % MaxFileCount <= fileOrder
  <2>1. fileOrder % MaxFileCount \in 0 .. MaxFileCount - 1
    BY <1>1, LogAssumption
  <2>2. CASE fileOrder < MaxFileCount
    BY <1>1, <2>1, <2>2, LogAssumption
  <2>3. CASE fileOrder >= MaxFileCount
    BY <1>1, <2>1, <2>3, LogAssumption
  <2>. QED BY <1>1, <2>2, <2>3, LogAssumption
<1>. QED BY <1>1, <1>2, Zenon DEF OrderName, Name

LEMMA SplitKeeps == ASSUME LogInv, Split PROVE LogInv'
<1>1. /\ fpc = "split" /\ Move /\ fileOrder' = fileOrder + 1 /\ fpc' = "write"
      /\ UNCHANGED <<now, lines, buffer, bufferQueue, locked, batch, hour, backups, failed, struck>>
  BY Zenon DEF Split, writerVars
<1>2. now \in Nat /\ hour \in Nat /\ fileOrder \in Nat /\ lfaults \in Nat
  BY DEF LogInv, LogTypeOK
<1>3. /\ Shelved(files', Gone') /\ Written' = Written
      /\ DOMAIN files' \subseteq (DOMAIN files \ {link}) \cup {OrderName, link'}
      /\ link' = Name("log", now, Plain)
      /\ logFile' = NoFile \/ logFile' \in DOMAIN files'
      /\ lfaults' \in Nat /\ lfaults' >= lfaults /\ (logFile' = NoFile => lfaults' > 0)
      /\ \A k \in reused' : k >= MaxFileCount
  BY <1>1, Moves, Zenon
<1>4. LogTypeOK'
  BY <1>1, <1>2, <1>3 DEF LogInv, LogTypeOK
<1>5. LinesOK'
  BY <1>1, <1>3, Zenon DEF LogInv, LinesOK, Waiting
<1>6. link'[1] = "log" /\ link'[2] = now /\ link'[3] = Plain
  BY <1>2, <1>3, PlainName, Zenon
<1>7. ASSUME NEW n \in DOMAIN files' PROVE Dated(n)'
  <2>1. CASE n = link'
    BY <1>6, <2>1, Zenon DEF Dated
  <2>2. CASE n = OrderName
    BY <1>1, <1>2, <2>2, OrderNameIs DEF Dated
  <2>3. CASE n \in DOMAIN files \ {link}
    <3>1. Dated(n) /\ n \in Names
      BY <2>3, Zenon DEF LogInv, HoursOK, Shelved
    <3>2. n[2] \in Nat /\ n[3] \in Nat \cup {Plain}
      BY <3>1, NameIs, Zenon
    <3>. QED BY <1>1, <1>2, <2>3, <3>1, <3>2 DEF Dated, Plain
  <2>. QED BY <1>3, <2>1, <2>2, <2>3, Zenon
<1>8. HoursOK'
  <2>1. fileOrder' # 0
    BY <1>1, <1>2
  <2>. QED BY <1>1, <1>2, <1>3, <1>7, <2>1, Zenon DEF LogInv, HoursOK
<1>9. failed' # {} \/ logFile' = NoFile => lfaults' > 0
  BY <1>1, <1>2, <1>3 DEF LogInv
<1>. QED BY <1>3, <1>4, <1>5, <1>8, <1>9, Zenon DEF LogInv

LEMMA RotateKeeps == ASSUME LogInv, Rotate PROVE LogInv'
<1>1. /\ fpc = "rotate" /\ fileOrder' = 0 /\ fpc' = "hour"
      /\ UNCHANGED <<now, lines, buffer, bufferQueue, locked, batch, hour, backups, failed, struck>>
      /\ IF fileOrder # 0 THEN Move ELSE CreateFile(files) /\ purged' = purged /\ reused' = reused
  BY Zenon DEF Rotate, writerVars
<1>2. now \in Nat /\ hour \in Nat /\ fileOrder \in Nat /\ lfaults \in Nat /\ Shelved(files, Gone)
  BY DEF LogInv, LogTypeOK
<1> DEFINE names == IF fileOrder # 0 THEN (DOMAIN files \ {link}) \cup {OrderName, link'}
                    ELSE DOMAIN files \cup {link'}
<1>3. /\ Shelved(files', Gone') /\ Written' = Written
      /\ DOMAIN files' \subseteq names
      /\ link' = Name("log", now, Plain)
      /\ logFile' = NoFile \/ logFile' \in DOMAIN files'
      /\ lfaults' \in Nat /\ lfaults' >= lfaults /\ (logFile' = NoFile => lfaults' > 0)
      /\ \A k \in reused' : k >= MaxFileCount
  <2>1. CASE fileOrder # 0
    BY <1>1, <2>1, Moves, Zenon
  <2>2. CASE fileOrder = 0
    <3>1. CreateFile(files) /\ purged' = purged /\ reused' = reused
      BY <1>1, <2>2, Zenon
    <3>2. Opened(files, Gone) /\ Stored(files') = Stored(files)
      BY <1>2, <3>1, Opens, Zenon
    <3>3. Gone' = Gone
      BY <1>1, <3>1, Zenon DEF Gone
    <3>4. \A k \in reused' : k >= MaxFileCount
      BY <3>1, Zenon DEF LogInv
    <3>. QED BY <2>2, <3>2, <3>3, <3>4, Zenon DEF Opened, Written
  <2>. QED BY <2>1, <2>2, Zenon
<1>4. LogTypeOK'
  BY <1>1, <1>2, <1>3, Zenon DEF LogInv, LogTypeOK
<1>5. LinesOK'
  BY <1>1, <1>3, Zenon DEF LogInv, LinesOK, Waiting
<1>6. link'[1] = "log" /\ link'[2] = now /\ link'[3] = Plain
  BY <1>2, <1>3, PlainName, Zenon
<1>7. ASSUME NEW n \in DOMAIN files' PROVE Dated(n)'
  <2>1. CASE n = link'
    BY <1>6, <2>1, Zenon DEF Dated
  <2>2. CASE n = OrderName
    BY <1>1, <1>2, <2>2, OrderNameIs DEF Dated
  <2>3. CASE n \in DOMAIN files /\ (fileOrder # 0 => n # link)
    <3>1. Dated(n) /\ (~struck /\ fileOrder = 0 => link[2] = hour)
      BY <1>1, <2>3, Zenon DEF LogInv, HoursOK
    <3>. QED BY <1>1, <2>3, <3>1, Zenon DEF Dated
  <2>. QED BY <1>3, <2>1, <2>2, <2>3, Zenon
<1>8. HoursOK'
  BY <1>1, <1>2, <1>3, <1>6, <1>7, Zenon DEF LogInv, HoursOK
<1>9. failed' # {} \/ logFile' = NoFile => lfaults' > 0
  BY <1>1, <1>2, <1>3 DEF LogInv
<1>. QED BY <1>3, <1>4, <1>5, <1>8, <1>9, Zenon DEF LogInv

LEMMA NewHourKeeps == ASSUME LogInv, NewHour PROVE LogInv'
<1>1. /\ fpc = "hour" /\ backups' = backups \cup {hour} /\ hour' = now /\ fpc' = "write"
      /\ UNCHANGED <<now, lines, buffer, bufferQueue, locked, batch, fileOrder, files, logFile,
                     link, purged, reused, failed, lfaults, struck>>
  BY Zenon DEF NewHour, writerVars, diskVars
<1>2. /\ now \in 0 .. MaxHour /\ hour \in 0 .. now /\ fileOrder = 0 /\ hour < now
      /\ backups \subseteq 0 .. MaxHour
  BY <1>1, Zenon DEF LogInv, LogTypeOK, HoursOK
<1>3. Shelved(files', Gone') /\ Written' = Written
  BY <1>1, ShelfStays, Zenon DEF LogInv
<1>4. LogTypeOK'
  <2>1. hour' \in 0 .. now' /\ backups' \subseteq 0 .. MaxHour
    BY <1>1, <1>2, LogAssumption
  <2>. QED BY <1>1, <2>1, Zenon DEF LogInv, LogTypeOK
<1>5. LinesOK'
  BY <1>1, <1>3, Zenon DEF LogInv, LinesOK, Waiting
<1>6. ASSUME NEW n \in DOMAIN files' PROVE Dated(n)'
  <2>1. Dated(n) /\ n \in Names
    BY <1>1, Zenon DEF LogInv, HoursOK, Shelved
  <2>2. n[2] \in Nat /\ n[3] \in Nat \cup {Plain}
    BY <2>1, NameIs, Zenon
  <2>. QED BY <1>1, <1>2, <2>1, <2>2 DEF Dated
<1>7. HoursOK'
  <2>1. (\E h \in Nat : link = Name("log", h, Plain)) /\ (~struck => link[2] = now)
        /\ \A h \in backups : h < hour
    BY <1>1, Zenon DEF LogInv, HoursOK
  <2>2. ASSUME NEW h \in backups' PROVE h < hour'
    <3>1. CASE h = hour
      BY <1>1, <1>2, <3>1, Zenon
    <3>2. CASE h \in backups
      <4>1. h \in Int /\ h < hour
        BY <1>2, <2>1, <3>2
      <4>. QED BY <1>1, <1>2, <4>1
    <3>. QED BY <1>1, <3>1, <3>2, Zenon
  <2>3. ~ (fpc' \in {"rotate", "hour"}) /\ fpc' # "hour"
    BY <1>1, Zenon
  <2>. QED BY <1>1, <1>6, <2>1, <2>2, <2>3, Zenon DEF HoursOK
<1>. QED BY <1>1, <1>3, <1>4, <1>5, <1>7, Zenon DEF LogInv

LEMMA WriteFileKeeps == ASSUME LogInv, WriteFile PROVE LogInv'
<1>1. /\ fpc = "write" /\ logFile # NoFile /\ batch' = <<>> /\ fpc' = "idle"
      /\ files' = [files EXCEPT ![logFile] = @ \o batch]
      /\ UNCHANGED <<now, lines, buffer, bufferQueue, locked, hour, fileOrder, logFile, link,
                     backups, purged, reused, failed, lfaults, struck>>
  BY Zenon DEF WriteFile, writerVars
<1>2. /\ lines \in Nat /\ bufferQueue \in Seq(Seq(Nat)) /\ InOrder(Waiting, Written, lines)
      /\ Shelved(files, Gone) /\ logFile \in DOMAIN files
  BY <1>1, Zenon DEF LogInv, LinesOK, LogTypeOK
<1>3. /\ DOMAIN files' = DOMAIN files /\ files'[logFile] = files[logFile] \o batch
      /\ \A n \in DOMAIN files : n # logFile => files'[n] = files[n]
  BY <1>1, <1>2, Zenon
<1> DEFINE w == LinedUp(batch, bufferQueue, buffer)
           v == LinedUp(<<>>, bufferQueue, buffer)
<1>4. /\ Len(bufferQueue) \in Nat /\ DOMAIN w = 0 .. Len(bufferQueue) + 1
      /\ w[0] = batch /\ w[Len(bufferQueue) + 1] = buffer
      /\ \A k \in 1 .. Len(bufferQueue) : w[k] = bufferQueue[k]
  <2>. bufferQueue \in Seq(Seq(Nat))
    BY <1>2, Zenon
  <2>. QED BY LineUp
<1>5. /\ DOMAIN v = 0 .. Len(bufferQueue) + 1
      /\ v[0] = <<>> /\ v[Len(bufferQueue) + 1] = buffer
      /\ \A k \in 1 .. Len(bufferQueue) : v[k] = bufferQueue[k]
  <2>. bufferQueue \in Seq(Seq(Nat))
    BY <1>2, Zenon
  <2>. QED BY LineUp
<1>6. Waiting' = v /\ InOrder(w, Written, lines)
  BY <1>1, <1>2, Zenon DEF Waiting
<1>. HIDE DEF w, v
<1>7. InOrder(v, Written \cup Range(batch), lines)
  <2>1. \A k \in 1 .. Len(bufferQueue) + 1 : v[k] = w[k]
    <3>1. \A k \in 1 .. Len(bufferQueue) + 1 : k = Len(bufferQueue) + 1 \/ k \in 1 .. Len(bufferQueue)
      BY <1>4
    <3>. QED BY <1>4, <1>5, <3>1, Zenon
  <2>. QED BY <1>4, <1>5, <1>6, <2>1, FlushInOrder, Zenon
<1>8. batch \in Seq(1 .. lines) /\ Increasing(batch) /\ Below(Written, Range(batch))
  <2>1. 0 \in DOMAIN w
    BY <1>4
  <2>. QED BY <1>4, <1>6, <2>1, Zenon DEF InOrder
<1>9. batch \in Seq(Nat) /\ Range(batch) \subseteq Nat
  BY <1>2, <1>8, Ranges
<1>10. \A n \in DOMAIN files : /\ n \in Names /\ files[n] \in Seq(Nat) /\ Increasing(files[n])
                               /\ Range(files[n]) \cap Gone = {} /\ Range(files[n]) \subseteq Written
  BY <1>2, Zenon DEF Shelved, Written, Stored
<1>11. /\ files'[logFile] \in Seq(Nat) /\ Increasing(files'[logFile])
       /\ Range(files'[logFile]) = Range(files[logFile]) \cup Range(batch)
  <2>1. files[logFile] \in Seq(Nat) /\ Increasing(files[logFile]) /\ Range(files[logFile]) \subseteq Written
    BY <1>2, <1>10, Zenon
  <2>2. Below(Range(files[logFile]), Range(batch))
    BY <1>8, <2>1, Zenon DEF Below
  <2>. QED BY <1>3, <1>8, <1>9, <2>1, <2>2, Ranges, AppendInOrder
<1>12. Range(batch) \cap Written = {}
  <2>1. ASSUME NEW x \in Range(batch), x \in Written PROVE FALSE
    <3>1. x \in Nat /\ x < x
      BY <1>8, <1>9, <2>1, Zenon DEF Below
    <3>. QED BY <3>1
  <2>. QED BY <2>1, Zenon
<1>13. Gone' = Gone /\ Gone \subseteq Written
  BY <1>1, Zenon DEF Gone, Written
<1>14. Shelved(files', Gone')
  <2>1. ASSUME NEW n \in DOMAIN files'
        PROVE  /\ n \in Names /\ files'[n] \in Seq(Nat) /\ Increasing(files'[n])
               /\ Range(files'[n]) \cap Gone = {}
    <3>1. CASE n = logFile
      BY <1>2, <1>10, <1>11, <1>12, <1>13, <3>1, Zenon
    <3>2. CASE n # logFile
      BY <1>3, <1>10, <3>2, Zenon
    <3>. QED BY <3>1, <3>2, Zenon
  <2>2. ASSUME NEW n \in DOMAIN files, n # logFile
        PROVE  Range(files'[logFile]) \cap Range(files'[n]) = {}
    <3>1. /\ Range(files[logFile]) \cap Range(files[n]) = {} /\ Range(files[n]) \subseteq Written
          /\ files'[n] = files[n]
      BY <1>2, <1>3, <1>10, <2>2, Zenon DEF Shelved
    <3>. QED BY <1>11, <1>12, <3>1, Zenon
  <2>3. ASSUME NEW m \in DOMAIN files', NEW n \in DOMAIN files', m # n
        PROVE  Range(files'[m]) \cap Range(files'[n]) = {}
    <3>1. CASE m = logFile
      BY <1>3, <2>2, <2>3, <3>1, Zenon
    <3>2. CASE n = logFile
      <4>1. Range(files'[n]) \cap Range(files'[m]) = {}
        BY <1>3, <2>2, <2>3, <3>2, Zenon
      <4>. QED BY <4>1, Zenon
    <3>3. CASE m # logFile /\ n # logFile
      BY <1>2, <1>3, <2>3, <3>3, Zenon DEF Shelved
    <3>. QED BY <3>1, <3>2, <3>3, Zenon
  <2>. QED BY <1>13, <2>1, <2>3, Zenon DEF Shelved
<1>15. Written' = Written \cup Range(batch)
  <2>1. Stored(files') = Stored(files) \cup Range(batch)
    <3>1. ASSUME NEW x \in Stored(files') PROVE x \in Stored(files) \cup Range(batch)
      <4>1. PICK n \in DOMAIN files' : x \in Range(files'[n])
        BY Zenon DEF Stored
      <4>2. x \in Range(files[n]) \/ x \in Range(batch)
        BY <1>3, <1>11, <4>1, Zenon
      <4>. QED BY <1>3, <4>1, <4>2, Zenon DEF Stored
    <3>2. ASSUME NEW x \in Stored(files) PROVE x \in Stored(files')
      <4>1. PICK n \in DOMAIN files : x \in Range(files[n])
        BY Zenon DEF Stored
      <4>2. x \in Range(files'[n])
        BY <1>3, <1>11, <4>1, Zenon
      <4>. QED BY <1>3, <4>1, <4>2, Zenon DEF Stored
    <3>3. ASSUME NEW x \in Range(batch) PROVE x \in Stored(files')
      <4>1. x \in Range(files'[logFile])
        BY <1>11, Zenon
      <4>. QED BY <1>2, <1>3, <4>1, Zenon DEF Stored
    <3>. QED BY <3>1, <3>2, <3>3, Zenon
  <2>. QED BY <1>13, <2>1, Zenon DEF Written
<1>16. LinesOK'
  BY <1>1, <1>2, <1>6, <1>7, <1>15, Zenon DEF LinesOK
<1>17. LogTypeOK'
  BY <1>1, <1>3, Zenon DEF LogInv, LogTypeOK
<1>18. HoursOK'
  <2>1. ASSUME NEW n \in DOMAIN files PROVE Dated(n)'
    <3>1. Dated(n)
      BY Zenon DEF LogInv, HoursOK
    <3>. QED BY <1>1, <3>1, Zenon DEF Dated
  <2>. QED BY <1>1, <1>3, <2>1, Zenon DEF LogInv, HoursOK
<1>. QED BY <1>1, <1>14, <1>16, <1>17, <1>18, Zenon DEF LogInv

LEMMA WriteFailsKeeps == ASSUME LogInv, WriteFails PROVE LogInv'
<1>1. /\ fpc = "write" /\ batch' = <<>> /\ fpc' = "idle"
      /\ IF logFile = NoFile THEN lfaults' = lfaults ELSE lfaults' = lfaults + 1
      /\ failed' = failed \cup Range(batch)
      /\ UNCHANGED <<now, lines, buffer, bufferQueue, locked, hour, fileOrder, logFile, link, files,
                     backups, purged, reused, struck>>
  BY Zenon DEF WriteFails, writerVars, diskVars
<1>2. /\ lines \in Nat /\ bufferQueue \in Seq(Seq(Nat)) /\ InOrder(Waiting, Written, lines)
      /\ Shelved(files, Gone)
  BY <1>1, Zenon DEF LogInv, LinesOK
<1> DEFINE w == LinedUp(batch, bufferQueue, buffer)
           v == LinedUp(<<>>, bufferQueue, buffer)
<1>4. /\ Len(bufferQueue) \in Nat /\ DOMAIN w = 0 .. Len(bufferQueue) + 1
      /\ w[0] = batch /\ w[Len(bufferQueue) + 1] = buffer
      /\ \A k \in 1 .. Len(bufferQueue) : w[k] = bufferQueue[k]
  <2>. bufferQueue \in Seq(Seq(Nat))
    BY <1>2, Zenon
  <2>. QED BY LineUp
<1>5. /\ DOMAIN v = 0 .. Len(bufferQueue) + 1
      /\ v[0] = <<>> /\ v[Len(bufferQueue) + 1] = buffer
      /\ \A k \in 1 .. Len(bufferQueue) : v[k] = bufferQueue[k]
  <2>. bufferQueue \in Seq(Seq(Nat))
    BY <1>2, Zenon
  <2>. QED BY LineUp
<1>6. Waiting' = v /\ InOrder(w, Written, lines)
  BY <1>1, <1>2, Zenon DEF Waiting
<1>. HIDE DEF w, v
<1>7. InOrder(v, Written \cup Range(batch), lines)
  <2>1. \A k \in 1 .. Len(bufferQueue) + 1 : v[k] = w[k]
    <3>1. \A k \in 1 .. Len(bufferQueue) + 1 : k = Len(bufferQueue) + 1 \/ k \in 1 .. Len(bufferQueue)
      BY <1>4
    <3>. QED BY <1>4, <1>5, <3>1, Zenon
  <2>. QED BY <1>4, <1>5, <1>6, <2>1, FlushInOrder, Zenon
<1>8. batch \in Seq(1 .. lines) /\ Below(Written, Range(batch))
  <2>1. 0 \in DOMAIN w
    BY <1>4
  <2>. QED BY <1>4, <1>6, <2>1, Zenon DEF InOrder
<1>9. batch \in Seq(Nat) /\ Range(batch) \subseteq Nat
  BY <1>2, <1>8, Ranges
<1>10. Range(batch) \cap Written = {}
  <2>1. ASSUME NEW x \in Range(batch), x \in Written PROVE FALSE
    <3>1. x \in Nat /\ x < x
      BY <1>8, <1>9, <2>1, Zenon DEF Below
    <3>. QED BY <3>1
  <2>. QED BY <2>1, Zenon
<1>11. Gone' = Gone \cup Range(batch) /\ Written' = Written \cup Range(batch)
  BY <1>1, Zenon DEF Gone, Written
<1>12. Shelved(files', Gone')
  <2>1. ASSUME NEW n \in DOMAIN files PROVE Range(files[n]) \cap (Gone \cup Range(batch)) = {}
    <3>1. Range(files[n]) \cap Gone = {} /\ Range(files[n]) \subseteq Written
      BY <1>2, Zenon DEF Shelved, Written, Stored
    <3>. QED BY <1>10, <3>1, Zenon
  <2>. QED BY <1>1, <1>2, <1>11, <2>1, Zenon DEF Shelved
<1>13. LinesOK'
  BY <1>1, <1>2, <1>6, <1>7, <1>11, Zenon DEF LinesOK
<1>14. LogTypeOK'
  BY <1>1, Zenon DEF LogInv, LogTypeOK
<1>15. HoursOK'
  <2>1. ASSUME NEW n \in DOMAIN files PROVE Dated(n)'
    <3>1. Dated(n)
      BY Zenon DEF LogInv, HoursOK
    <3>. QED BY <1>1, <3>1, Zenon DEF Dated
  <2>. QED BY <1>1, <2>1, Zenon DEF LogInv, HoursOK
<1>16. lfaults' \in Nat /\ lfaults' > 0
  BY <1>1 DEF LogInv
<1>. QED BY <1>1, <1>12, <1>13, <1>14, <1>15, <1>16, Zenon DEF LogInv

\* LoggerBackup keeps every line: no file of the hour is in the backup
\* directory yet.
LEMMA BackupKeeps == ASSUME LogInv, NEW h \in 0 .. MaxHour, LoggerBackup(h) PROVE LogInv'
<1> DEFINE moved == {n \in DOMAIN files : n[1] = "log" /\ n[2] = h}
           to(n) == Name("backup", n[2], n[3])
           twin(n) == Name("log", n[2], n[3])
           r == [n \in (DOMAIN files \ moved) \cup {to(m) : m \in moved} |->
                   IF n[1] = "backup" /\ twin(n) \in moved THEN files[twin(n)] ELSE files[n]]
<1>1. /\ h \in backups /\ backups' = backups \ {h} /\ files' = r
      /\ logFile' = (IF logFile \in moved THEN to(logFile) ELSE logFile)
      /\ UNCHANGED <<now, lines, buffer, bufferQueue, locked, fpc, batch, hour, fileOrder, link,
                     purged, reused, failed, lfaults, struck>>
  BY Zenon DEF LoggerBackup, writerVars
<1>2. /\ DOMAIN r = (DOMAIN files \ moved) \cup {to(m) : m \in moved}
      /\ \A n \in DOMAIN r : r[n] = IF n[1] = "backup" /\ twin(n) \in moved THEN files[twin(n)] ELSE files[n]
  BY Zenon
<1>3. /\ Shelved(files, Gone) /\ hour \in Nat /\ h \in Nat /\ h < hour
      /\ \A n \in DOMAIN files : n \in Names /\ Dated(n)
  BY <1>1 DEF LogInv, HoursOK, LogTypeOK, Shelved
<1>4. ASSUME NEW n \in Names
      PROVE  /\ to(n) \in Names /\ twin(n) \in Names /\ to(n)[1] = "backup" /\ twin(n)[1] = "log"
             /\ to(n)[2] = n[2] /\ twin(n)[2] = n[2] /\ to(n)[3] = n[3] /\ twin(n)[3] = n[3]
             /\ (n[1] = "log" => twin(n) = n /\ twin(to(n)) = n) /\ (n[1] = "backup" => to(n) = n)
  <2>1. /\ n[1] \in {"log", "backup"} /\ n[2] \in Nat /\ n[3] \in Nat \cup {Plain}
        /\ n = Name(n[1], n[2], n[3])
    BY NameIs, Zenon
  <2>. QED BY <2>1, Zenon DEF Name, Names
<1>5. \A n \in DOMAIN files : n \in moved <=> n[1] = "log" /\ n[2] = h
  OBVIOUS
<1>6. moved \subseteq DOMAIN files
  OBVIOUS
<1>. HIDE DEF moved, to, twin, r
<1> DEFINE shift(n) == n[1] = "backup" /\ twin(n) \in moved
<1>7. ASSUME NEW m \in moved PROVE shift(to(m)) /\ twin(to(m)) = m /\ to(m) \in DOMAIN r
  <2>1. m \in Names /\ m[1] = "log"
    BY <1>3, <1>5, <1>6, Zenon
  <2>. QED BY <1>2, <1>4, <2>1, Zenon
<1>8. ASSUME NEW n \in DOMAIN r
      PROVE  /\ n \in Names
             /\ shift(n) => r[n] = files[twin(n)] /\ n[2] = h
             /\ ~ shift(n) => r[n] = files[n] /\ n \in DOMAIN files /\ n \notin moved
  <2>1. CASE \E m \in moved : n = to(m)
    <3>1. PICK m \in moved : n = to(m)
      BY <2>1, Zenon
    <3>2. m \in Names /\ m[1] = "log" /\ m[2] = h
      BY <1>3, <1>5, <1>6, Zenon
    <3>. QED BY <1>2, <1>4, <1>7, <3>1, <3>2, Zenon
  <2>2. CASE n \in DOMAIN files \ moved
    <3>1. n \in Names
      BY <1>3, <2>2, Zenon
    <3>2. ASSUME shift(n) PROVE n[2] = h
      <4>1. twin(n) \in moved /\ twin(n)[2] = n[2]
        BY <1>4, <3>1, <3>2, Zenon
      <4>. QED BY <1>5, <1>6, <4>1, Zenon
    <3>. QED BY <1>2, <2>2, <3>1, <3>2, Zenon
  <2>. QED BY <1>2, <2>1, <2>2, Zenon
<1>9. ASSUME NEW n \in DOMAIN files, shift(n) PROVE FALSE
  <2>1. n \in Names /\ Dated(n) /\ n[1] = "backup"
    BY <1>3, <1>9, Zenon
  <2>2. n[2] \notin backups
    BY <2>1, Zenon DEF Dated
  <2>3. twin(n) \in moved /\ twin(n)[2] = n[2]
    BY <1>4, <1>9, <2>1, Zenon
  <2>. QED BY <1>1, <1>5, <1>6, <2>2, <2>3, Zenon
<1>. HIDE DEF shift
<1>10. Shelved(r, Gone) /\ Stored(r) = Stored(files)
  <2> DEFINE src == [n \in DOMAIN r |-> IF shift(n) THEN twin(n) ELSE n]
  <2>1. \A n \in DOMAIN r : src[n] = IF shift(n) THEN twin(n) ELSE n
    BY Zenon
  <2>. HIDE DEF src
  <2>2. ASSUME NEW n \in DOMAIN r
        PROVE  n \in Names /\ src[n] \in DOMAIN files \ {} /\ r[n] = files[src[n]]
               /\ (shift(n) <=> src[n] \in moved)
    <3>1. CASE shift(n)
      <4>1. twin(n) \in moved
        BY <3>1, Zenon DEF shift
      <4>. QED BY <1>6, <1>8, <2>1, <3>1, <4>1, Zenon
    <3>2. CASE ~ shift(n)
      BY <1>8, <2>1, <3>2, Zenon
    <3>. QED BY <3>1, <3>2, Zenon
  <2>3. ASSUME NEW m \in DOMAIN r, NEW n \in DOMAIN r, src[m] = src[n] PROVE m = n
    <3>1. shift(m) <=> shift(n)
      BY <2>2, <2>3, Zenon
    <3>2. CASE ~ shift(m)
      BY <2>1, <2>3, <3>1, <3>2, Zenon
    <3>3. CASE shift(m)
      <4>1. m \in Names /\ n \in Names /\ twin(m) = twin(n) /\ m[1] = "backup" /\ n[1] = "backup"
        BY <1>8, <2>1, <2>3, <3>1, <3>3, Zenon DEF shift
      <4>2. m[2] = n[2] /\ m[3] = n[3]
        BY <1>4, <4>1
      <4>3. m = Name(m[1], m[2], m[3]) /\ n = Name(n[1], n[2], n[3])
        BY <4>1, NameIs, Zenon
      <4>. QED BY <4>1, <4>2, <4>3, Zenon
    <3>. QED BY <3>2, <3>3, Zenon
  <2>4. ASSUME NEW m \in DOMAIN files \ {} PROVE \E n \in DOMAIN r : r[n] = files[m]
    <3>1. CASE m \in moved
      <4>1. to(m) \in DOMAIN r /\ r[to(m)] = files[m]
        BY <1>7, <1>8, <3>1, Zenon
      <4>. QED BY <4>1, Zenon
    <3>2. CASE m \notin moved
      <4>1. m \in DOMAIN r /\ r[m] = files[m]
        BY <1>2, <1>8, <1>9, <3>2, Zenon
      <4>. QED BY <4>1, Zenon
    <3>. QED BY <3>1, <3>2, Zenon
  <2>5. Reshelves(files, src, {}, r)
    BY <2>2, <2>3, <2>4, Zenon DEF Reshelves
  <2>6. LostLines(files, {}) = {}
    BY Zenon DEF LostLines
  <2>7. \A S : S \cup {} = S
    OBVIOUS
  <2>8. Shelved(r, Gone \cup {}) /\ Stored(r) \cup {} = Stored(files)
    BY <1>3, <2>5, <2>6, Reshelved, Zenon
  <2>. QED BY <2>7, <2>8, Zenon
<1>11. Gone' = Gone /\ Written' = Written
  BY <1>1, <1>10, Zenon DEF Gone, Written
<1>12. LogTypeOK'
  <2>1. logFile' = NoFile \/ logFile' \in DOMAIN files'
    <3>1. CASE logFile \in moved
      BY <1>1, <1>7, <3>1, Zenon
    <3>2. CASE logFile \notin moved
      BY <1>1, <1>2, <3>2, Zenon DEF LogInv, LogTypeOK
    <3>. QED BY <3>1, <3>2, Zenon
  <2>. QED BY <1>1, <2>1, Zenon DEF LogInv, LogTypeOK
<1>13. LinesOK'
  BY <1>1, <1>11, Zenon DEF LogInv, LinesOK, Waiting
<1>14. HoursOK'
  <2>1. ASSUME NEW n \in DOMAIN files' PROVE Dated(n)'
    <3>0. n \in DOMAIN r
      BY <1>1, Zenon
    <3>1. CASE shift(n)
      <4>1. n[1] = "backup" /\ n[2] = h
        BY <1>8, <3>0, <3>1, Zenon DEF shift
      <4>. QED BY <1>1, <1>3, <4>1, Zenon DEF Dated
    <3>2. CASE ~ shift(n)
      <4>1. n \in DOMAIN files /\ n \notin moved
        BY <1>8, <3>0, <3>2, Zenon
      <4>2. Dated(n) /\ (n[1] = "log" => n[2] # h)
        BY <1>3, <1>5, <4>1, Zenon
      <4>. QED BY <1>1, <4>2, Zenon DEF Dated
    <3>. QED BY <3>1, <3>2, Zenon
  <2>. QED BY <1>1, <2>1, Zenon DEF LogInv, HoursOK
<1>15. logFile' = NoFile => logFile = NoFile
  <2>1. ASSUME logFile \in moved PROVE logFile' # NoFile
    <3>1. to(logFile) \in Names
      BY <1>7, <1>8, <2>1, Zenon
    <3>. QED BY <1>1, <2>1, <3>1, NameIs, Zenon
  <2>. QED BY <1>1, <2>1, Zenon
<1>. QED BY <1>1, <1>10, <1>11, <1>12, <1>13, <1>14, <1>15, Zenon DEF LogInv

-----------------------------------------------------------------------------
\* The inductive invariant holds of the logger, for any number of lines, hours and
\* failing files and any size of the queue.
THEOREM LogInvariant == LogSpec => []LogInv
<1>1. LogInit => LogInv
  <2>. SUFFICES ASSUME LogInit PROVE LogInv
    OBVIOUS
  <2>1. /\ now \in {0, 1} /\ lines = 0 /\ buffer = <<>> /\ bufferQueue = <<>> /\ batch = <<>>
        /\ fpc = "idle" /\ hour = 0 /\ fileOrder = 0 /\ logFile = Name("log", now, Plain)
        /\ link = logFile /\ files = [n \in {logFile} |-> <<>>] /\ backups = {} /\ purged = {}
        /\ reused = {} /\ failed = {} /\ lfaults = 0 /\ struck = (now # hour)
    BY Zenon DEF LogInit
  <2>2. /\ now \in Nat /\ DOMAIN files = {logFile} /\ files[logFile] = <<>>
        /\ logFile \in Names /\ logFile # NoFile
        /\ link[1] = "log" /\ link[2] = now /\ link[3] = Plain
    BY <2>1, PlainName
  <2>3. <<>> \in Seq(Nat) /\ <<>> \in Seq(1 .. 0) /\ <<>> \in Seq(Seq(Nat)) /\ Increasing(<<>>)
        /\ Range(<<>>) = {} /\ Len(<<>>) = 0
    BY DEF Increasing, Range
  <2>4. Gone = {} /\ Written = {}
    BY <2>1, <2>2, <2>3, Zenon DEF Gone, Written, Stored
  <2>5. LogTypeOK
    BY <2>1, <2>2, <2>3, LogAssumption DEF LogTypeOK
  <2>6. Shelved(files, Gone)
    BY <2>2, <2>3, <2>4, Zenon DEF Shelved
  <2>7. LinesOK
    <3>1. /\ DOMAIN Waiting = 0 .. 1 /\ \A k \in 0 .. 1 : Waiting[k] = <<>>
      <4>1. DOMAIN Waiting = 0 .. 0 + 1
        BY <2>1, <2>3, Zenon DEF Waiting, LinedUp
      <4>2. ASSUME NEW k \in 0 .. 1 PROVE Waiting[k] = <<>>
        BY <2>1, <2>3 DEF Waiting, LinedUp
      <4>. QED BY <4>1, <4>2
    <3>2. InOrder(Waiting, {}, 0)
      <4>1. \A X : Below({}, X) /\ Below(X, {})
        BY Zenon DEF Below
      <4>2. 1 .. 0 = {}
        OBVIOUS
      <4>. QED BY <2>3, <3>1, <4>1, <4>2, Zenon DEF InOrder
    <3>. QED BY <2>1, <2>3, <2>4, <3>2, Zenon DEF LinesOK
  <2>8. HoursOK
    <3>1. Dated(logFile)
      BY <2>1, <2>2, Zenon DEF Dated
    <3>2. \E h \in Nat : link = Name("log", h, Plain)
      BY <2>1, <2>2, Zenon
    <3>. QED BY <2>1, <2>2, <3>1, <3>2, Zenon DEF HoursOK
  <2>. QED BY <2>1, <2>2, <2>5, <2>6, <2>7, <2>8, Zenon DEF LogInv
<1>2. LogInv /\ [LogNext]_logVars => LogInv'
  <2>. SUFFICES ASSUME LogInv, [LogNext]_logVars PROVE LogInv'
    OBVIOUS
  <2>1. CASE UNCHANGED logVars
    <3>1. LogTypeOK' /\ HoursOK' /\ Shelved(files', Gone') /\ Written' = Written
      BY <2>1, HoursStay, ShelfStays, Zenon DEF LogInv, LogTypeOK, logVars
    <3>2. LinesOK'
      BY <2>1, <3>1, Zenon DEF LogInv, LinesOK, Waiting, logVars
    <3>. QED BY <2>1, <3>1, <3>2, Zenon DEF LogInv, logVars
  <2>2. CASE LogNext
    BY <2>2, WriteKeeps, BlockKeeps, EnqueueKeeps, StrikeKeeps, TakeKeeps, SplitKeeps, RotateKeeps,
       NewHourKeeps, WriteFileKeeps, WriteFailsKeeps, BackupKeeps, Zenon DEF LogNext
  <2>. QED BY <2>1, <2>2, Zenon
<1>. QED BY <1>1, <1>2, PTL DEF LogSpec

\* The buffers, files and hours of the logger keep their types, and the queue of
\* buffers keeps to its size (logger.go:287-393).
THEOREM LogTypes == LogSpec => []LogTypeOK
<1>1. LogInv => LogTypeOK
  BY Zenon DEF LogInv
<1>. QED BY <1>1, LogInvariant, PTL

\* A line has at most one place in a sequence in order.
LEMMA OnePlace ==
    ASSUME NEW s \in Seq(Nat), Increasing(s), NEW x \in Range(s), NEW part
    PROVE  \E p : Spots(part, s, x) = {p}
<1>1. PICK i \in DOMAIN s : s[i] = x
  BY Zenon DEF Range
<1>2. ASSUME NEW j \in DOMAIN s, s[j] = x PROVE j = i
  <2>1. i \in Nat /\ j \in Nat /\ s[i] \in Nat /\ s[j] \in Nat
    OBVIOUS
  <2>2. (i < j => s[i] < s[j]) /\ (j < i => s[j] < s[i])
    BY Zenon DEF Increasing
  <2>3. s[i] = s[j]
    BY <1>1, <1>2, Zenon
  <2>. QED BY <2>1, <2>2, <2>3
<1>3. {j \in DOMAIN s : s[j] = x} = {i}
  BY <1>1, <1>2, Zenon
<1>4. {<<part, j>> : j \in {i}} = {<<part, i>>}
  OBVIOUS
<1>5. Spots(part, s, x) = {<<part, i>>}
  BY <1>3, <1>4, Zenon DEF Spots
<1>. QED BY <1>5, Zenon

LEMMA NoPlace == ASSUME NEW s, NEW x, x \notin Range(s), NEW part PROVE Spots(part, s, x) = {}
<1>1. {j \in DOMAIN s : s[j] = x} = {}
  BY Zenon DEF Range
<1>2. {<<part, j>> : j \in {}} = {}
  OBVIOUS
<1>. QED BY <1>1, <1>2, Zenon DEF Spots

LEMMA PlacesCounted ==
    ASSUME LogInv, NEW n \in 1 .. lines
    PROVE  Cardinality(Places(n)) = IF n \in purged \cup failed THEN 0 ELSE 1
<1> DEFINE q == Len(bufferQueue)
<1>1. /\ lines \in Nat /\ bufferQueue \in Seq(Seq(Nat)) /\ InOrder(Waiting, Written, lines)
      /\ Shelved(files, Gone) /\ n \in Nat
  BY DEF LogInv, LinesOK
<1>2. /\ q \in Nat /\ DOMAIN bufferQueue = 1 .. q /\ DOMAIN Waiting = 0 .. q + 1
      /\ Waiting[0] = batch /\ Waiting[q + 1] = buffer
      /\ \A k \in 1 .. q : Waiting[k] = bufferQueue[k]
  <2>. bufferQueue \in Seq(Seq(Nat))
    BY <1>1, Zenon
  <2>. QED BY LineUp DEF Waiting
<1>3. /\ 0 \in DOMAIN Waiting /\ q + 1 \in DOMAIN Waiting /\ q + 1 # 0
      /\ \A k \in DOMAIN bufferQueue : k \in DOMAIN Waiting /\ k # 0 /\ k # q + 1
      /\ \A k \in DOMAIN Waiting : k = 0 \/ k = q + 1 \/ k \in DOMAIN bufferQueue
      /\ \A k \in DOMAIN Waiting, l \in DOMAIN Waiting : k # l => k < l \/ l < k
  BY <1>2
<1>. HIDE DEF q
<1>4. ~ (n < n)
  BY <1>1
<1>5. ASSUME NEW k \in DOMAIN Waiting
      PROVE  Waiting[k] \in Seq(Nat) /\ Increasing(Waiting[k])
  <2>1. Waiting[k] \in Seq(1 .. lines) /\ Increasing(Waiting[k])
    BY <1>1, Zenon DEF InOrder
  <2>. QED BY <1>1, <2>1
<1>6. ASSUME n \in Written, NEW k \in DOMAIN Waiting PROVE n \notin Range(Waiting[k])
  BY <1>1, <1>4, <1>6, Zenon DEF InOrder, Below
<1>7. ASSUME NEW k \in DOMAIN Waiting, NEW l \in DOMAIN Waiting, k # l,
             n \in Range(Waiting[k])
      PROVE  n \notin Range(Waiting[l])
  <2>1. CASE k < l
    BY <1>1, <1>4, <1>7, <2>1, Zenon DEF InOrder, Below
  <2>2. CASE l < k
    BY <1>1, <1>4, <1>7, <2>2, Zenon DEF InOrder, Below
  <2>. QED BY <1>3, <1>7, <2>1, <2>2, Zenon
<1>8. ASSUME n \notin Written, NEW f \in DOMAIN files PROVE n \notin Range(files[f])
  BY <1>8, Zenon DEF Written, Stored
<1> DEFINE B == Spots(<<"buffer">>, buffer, n)
           T == Spots(<<"batch">>, batch, n)
           Q(k) == Spots(<<"queue", k>>, bufferQueue[k], n)
           F(f) == Spots(<<"file", f>>, files[f], n)
           QS == UNION {Q(k) : k \in DOMAIN bufferQueue}
           FS == UNION {F(f) : f \in DOMAIN files}
<1>9. Places(n) = B \cup T \cup QS \cup FS
  BY Zenon DEF Places
<1>10. ASSUME NEW k \in DOMAIN Waiting, n \notin Range(Waiting[k])
       PROVE  /\ k = 0 => T = {}
              /\ k = q + 1 => B = {}
              /\ k \in DOMAIN bufferQueue => Q(k) = {}
  <2>1. k = 0 => T = {}
    BY <1>2, <1>10, NoPlace, Zenon
  <2>2. k = q + 1 => B = {}
    BY <1>2, <1>10, NoPlace, Zenon
  <2>3. k \in DOMAIN bufferQueue => Q(k) = {}
    BY <1>2, <1>3, <1>10, NoPlace, Zenon
  <2>. QED BY <2>1, <2>2, <2>3, Zenon
<1>11. ASSUME NEW f \in DOMAIN files, n \notin Range(files[f]) PROVE F(f) = {}
  BY <1>11, NoPlace, Zenon
<1>12. ASSUME NEW k \in DOMAIN Waiting, n \in Range(Waiting[k])
       PROVE  /\ k = 0 => \E p : T = {p}
              /\ k = q + 1 => \E p : B = {p}
              /\ k \in DOMAIN bufferQueue => \E p : Q(k) = {p}
  BY <1>2, <1>3, <1>5, <1>12, OnePlace
<1>13. ASSUME NEW f \in DOMAIN files, n \in Range(files[f]) PROVE \E p : F(f) = {p}
  <2>1. files[f] \in Seq(Nat) /\ Increasing(files[f])
    BY <1>1, Zenon DEF Shelved
  <2>. QED BY <1>13, <2>1, OnePlace, Zenon
<1>. HIDE DEF B, T, Q, F
<1>16. ASSUME \A k \in DOMAIN bufferQueue : Q(k) = {} PROVE QS = {}
  BY <1>16, Zenon
<1>17. ASSUME \A f \in DOMAIN files : F(f) = {} PROVE FS = {}
  BY <1>17, Zenon
<1>18. ASSUME NEW k \in DOMAIN bufferQueue, \A l \in DOMAIN bufferQueue : l # k => Q(l) = {}
       PROVE  QS = Q(k)
  BY <1>18, Zenon
<1>19. ASSUME NEW f \in DOMAIN files, \A g \in DOMAIN files : g # f => F(g) = {}
       PROVE  FS = F(f)
  BY <1>19, Zenon
<1>. HIDE DEF QS, FS
<1>14. CASE n \in Gone
  <2>1. n \in Written /\ \A k \in DOMAIN Waiting : n \notin Range(Waiting[k])
    BY <1>6, <1>14, Zenon DEF Written
  <2>2. \A f \in DOMAIN files : n \notin Range(files[f])
    BY <1>1, <1>14, Zenon DEF Shelved
  <2>3. B = {} /\ T = {} /\ \A k \in DOMAIN bufferQueue : Q(k) = {}
    BY <1>3, <1>10, <2>1, Zenon
  <2>4. \A f \in DOMAIN files : F(f) = {}
    BY <1>11, <2>2, Zenon
  <2>5. Places(n) = {}
    BY <1>9, <1>16, <1>17, <2>3, <2>4, Zenon
  <2>. QED BY <1>14, <2>5, FS_EmptySet, Zenon DEF Gone
<1>15. CASE n \notin Gone
  <2>1. \E p : Places(n) = {p}
    <3>1. CASE n \in Written
      <4>1. PICK f \in DOMAIN files : n \in Range(files[f])
        BY <1>15, <3>1, Zenon DEF Written, Stored
      <4>2. \A g \in DOMAIN files : g # f => n \notin Range(files[g])
        BY <1>1, <4>1, Zenon DEF Shelved
      <4>3. \A g \in DOMAIN files : g # f => F(g) = {}
        BY <1>11, <4>2, Zenon
      <4>4. B = {} /\ T = {} /\ \A k \in DOMAIN bufferQueue : Q(k) = {}
        BY <1>3, <1>6, <1>10, <3>1, Zenon
      <4>5. Places(n) = F(f)
        BY <1>9, <1>16, <1>19, <4>1, <4>3, <4>4, Zenon
      <4>. QED BY <1>13, <4>1, <4>5, Zenon
    <3>2. CASE n \notin Written
      <4>1. PICK k \in DOMAIN Waiting : n \in Range(Waiting[k])
        BY <1>1, <3>2, Zenon DEF InOrder
      <4>2. \A l \in DOMAIN Waiting : l # k => n \notin Range(Waiting[l])
        BY <1>7, <4>1, Zenon
      <4>3. \A f \in DOMAIN files : F(f) = {}
        BY <1>8, <1>11, <3>2, Zenon
      <4>4. CASE k = 0
        <5>1. B = {} /\ \A l \in DOMAIN bufferQueue : Q(l) = {}
          BY <1>3, <1>10, <4>2, <4>4, Zenon
        <5>2. Places(n) = T
          BY <1>9, <1>16, <1>17, <4>3, <5>1, Zenon
        <5>. QED BY <1>12, <4>1, <4>4, <5>2, Zenon
      <4>5. CASE k = q + 1
        <5>1. T = {} /\ \A l \in DOMAIN bufferQueue : Q(l) = {}
          BY <1>3, <1>10, <4>2, <4>5, Zenon
        <5>2. Places(n) = B
          BY <1>9, <1>16, <1>17, <4>3, <5>1, Zenon
        <5>. QED BY <1>12, <4>1, <4>5, <5>2, Zenon
      <4>6. CASE k \in DOMAIN bufferQueue
        <5>1. B = {} /\ T = {} /\ \A l \in DOMAIN bufferQueue : l # k => Q(l) = {}
          BY <1>3, <1>10, <4>2, <4>6, Zenon
        <5>2. Places(n) = Q(k)
          BY <1>9, <1>17, <1>18, <4>3, <4>6, <5>1, Zenon
        <5>. QED BY <1>12, <4>1, <4>6, <5>2, Zenon
      <4>. QED BY <1>3, <4>1, <4>4, <4>5, <4>6, Zenon
    <3>. QED BY <3>1, <3>2, Zenon
  <2>2. Cardinality(Places(n)) = 1
    BY <2>1, FS_Singleton, Zenon
  <2>. QED BY <1>15, <2>2, Zenon DEF Gone
<1>. QED BY <1>14, <1>15, Zenon

\* Every line that was logged is in exactly one place, in order within its file,
\* unless creating or writing a file failed or an order number was used again;
\* and the backups leave only the current hour's files (logger.go:287-393).
THEOREM LogLinesKept == LogSpec => []LinesKept
<1>1. LogInv => LinesKept
  <2>. SUFFICES ASSUME LogInv PROVE LinesKept
    OBVIOUS
  <2>1. \A n \in 1 .. lines : Cardinality(Places(n)) = IF n \in purged \cup failed THEN 0 ELSE 1
    BY PlacesCounted, Zenon
  <2>2. ASSUME NEW f \in DOMAIN files, NEW i \in 1 .. Len(files[f]) - 1
        PROVE  files[f][i] < files[f][i + 1]
    <3>1. files[f] \in Seq(Nat) /\ Increasing(files[f])
      BY Zenon DEF LogInv, Shelved
    <3>2. i \in DOMAIN files[f] /\ i + 1 \in DOMAIN files[f] /\ i < i + 1
      BY <3>1
    <3>. QED BY <3>1, <3>2, Zenon DEF Increasing
  <2>3. ASSUME fpc = "idle", backups = {}, ~struck, NEW f \in DOMAIN files, f[1] = "log"
        PROVE  f[2] = hour \/ f = link
    <3>1. Dated(f)
      BY Zenon DEF LogInv, HoursOK
    <3>. QED BY <2>3, <3>1, Zenon DEF Dated
  <2>. QED BY <2>1, <2>2, <2>3, Zenon DEF LogInv, LinesKept
<1>. QED BY <1>1, LogInvariant, PTL
====
