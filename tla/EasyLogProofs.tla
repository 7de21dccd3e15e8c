--------------------------- MODULE EasyLogProofs ----------------------------
(***************************************************************************)
(* The log files, for any number of files and of records in each, any      *)
(* width of the counter above one round of the files, and any failures to  *)
(* clear and to open a file.                                               *)
(***************************************************************************)
EXTENDS EasyLog, FiniteSetTheorems, SequenceTheorems, WellFoundedInduction, TLAPS

Files == 0 .. LogSum - 1

\* The file after the current one, and which file is of which age.
Following(k) == IF k + 1 = LogSum THEN 0 ELSE k + 1
AgeIn(index, k) == IF k <= index THEN index - k ELSE index - k + LogSum

-----------------------------------------------------------------------------
(* Naturals and remainders. *)

\* Every set of naturals that is not empty has a least element.
LEMMA LeastNat ==
  ASSUME NEW T \in SUBSET Nat, T # {}
  PROVE  \E m \in T : \A n \in T : m <= n
<1>1. \A R, S : IsWellFoundedOn(R, S) =>
       \A U \in SUBSET S : U # {} => \E m \in U : \A n \in U : <<n, m>> \notin R
  BY WFMin
<1>2. IsWellFoundedOn({ss \in Nat \X Nat : ss[1] < ss[2]}, Nat)
  BY NatLessThanWellFounded DEF OpToRel
<1>3. PICK m \in T : \A n \in T : <<n, m>> \notin {ss \in Nat \X Nat : ss[1] < ss[2]}
  BY <1>1, <1>2
<1>4. \A n \in T : ~(n < m)
  BY <1>3
<1> QED BY <1>4

LEMMA Multiple ==
  ASSUME NEW w \in Nat, NEW d \in Int, d >= 1
  PROVE  w * d >= w
<1>1. w * d = w * (d - 1) + w
  OBVIOUS
<1>2. w * (d - 1) >= 0
  OBVIOUS
<1> QED BY <1>1, <1>2

\* Division with remainder has one result.
LEMMA RemainderIs ==
  ASSUME NEW w \in Nat \ {0}, NEW q \in Int, NEW m \in 0 .. w - 1
  PROVE  (w * q + m) % w = m
<1> DEFINE x == w * q + m
           d == x \div w
<1>1. x \in Int /\ w * q \in Int
  OBVIOUS
<1>2. x = w * d + (x % w) /\ d \in Int /\ x % w \in 0 .. w - 1
  <2> HIDE DEF x
  <2> QED BY <1>1
<1>3. w * (q - d) = w * q - w * d /\ w * (d - q) = w * d - w * q
  BY <1>2
<1> DEFINE p == w * q
           e == w * d
<1>4. /\ w \in Nat /\ p \in Int /\ e \in Int /\ q \in Int /\ d \in Int
      /\ p + m = e + (x % w) /\ x % w \in 0 .. w - 1 /\ m \in 0 .. w - 1
      /\ w * (q - d) = p - e /\ w * (d - q) = e - p
  BY <1>1, <1>2, <1>3
<1> HIDE DEF x, d, p, e
<1>5. CASE q - d >= 1
  <2>1. w * (q - d) >= w
    BY <1>4, <1>5, Multiple
  <2> QED BY <1>4, <2>1
<1>6. CASE d - q >= 1
  <2>1. w * (d - q) >= w
    BY <1>4, <1>6, Multiple
  <2> QED BY <1>4, <2>1
<1>7. CASE q = d
  <2>1. p = e
    BY <1>7 DEF p, e
  <2> QED BY <1>4, <2>1 DEF x
<1> QED BY <1>4, <1>5, <1>6, <1>7

LEMMA RoundOf ==
  ASSUME NEW k \in Files
  PROVE  (k + 1) % LogSum = Following(k)
<1>1. LogSum \in Nat \ {0}
  BY LogAssumption
<1>2. CASE k + 1 = LogSum
  <2>1. (LogSum * 1 + 0) % LogSum = 0 /\ LogSum * 1 + 0 = k + 1
    <3>1. 0 \in 0 .. LogSum - 1
      BY <1>1
    <3>2. (LogSum * 1 + 0) % LogSum = 0
      BY <1>1, <3>1, RemainderIs
    <3> QED BY <1>1, <1>2, <3>2
  <2> QED BY <1>2, <2>1 DEF Following
<1>3. CASE k + 1 # LogSum
  <2>1. k + 1 \in 0 .. LogSum - 1
    BY <1>1, <1>3 DEF Files
  <2>2. (LogSum * 0 + (k + 1)) % LogSum = k + 1
    BY <1>1, <2>1, RemainderIs
  <2>3. LogSum * 0 + (k + 1) = k + 1
    BY <1>1, <2>1
  <2> QED BY <1>3, <2>2, <2>3 DEF Following
<1> QED BY <1>2, <1>3

LEMMA AgeIs ==
  ASSUME NEW index \in Files, NEW k \in Files
  PROVE  (index - k) % LogSum = AgeIn(index, k)
<1>1. LogSum \in Nat \ {0} /\ index \in Int /\ k \in Int
  BY LogAssumption DEF Files
<1>2. CASE k <= index
  <2>1. index - k \in 0 .. LogSum - 1
    BY <1>1, <1>2 DEF Files
  <2>2. (LogSum * 0 + (index - k)) % LogSum = index - k
    BY <1>1, <2>1, RemainderIs
  <2>3. LogSum * 0 + (index - k) = index - k
    BY <1>1
  <2> QED BY <1>2, <2>2, <2>3 DEF AgeIn
<1>3. CASE ~ (k <= index)
  <2>1. index - k + LogSum \in 0 .. LogSum - 1
    BY <1>1, <1>3 DEF Files
  <2>2. (LogSum * (-1) + (index - k + LogSum)) % LogSum = index - k + LogSum
    BY <1>1, <2>1, RemainderIs
  <2>3. LogSum * (-1) + (index - k + LogSum) = index - k
    BY <1>1
  <2> QED BY <1>3, <2>2, <2>3 DEF AgeIn
<1> QED BY <1>2, <1>3

\* With a rotation the oldest file becomes the current one, the others age.
LEMMA AgesRotate ==
  ASSUME NEW index \in Files, NEW k \in Files
  PROVE  /\ AgeIn(index, k) \in Files
         /\ AgeIn(index, k) = 0 <=> k = index
         /\ AgeIn(index, k) = LogSum - 1 <=> k = Following(index)
         /\ Following(index) \in Files
         /\ k # Following(index) => AgeIn(Following(index), k) = AgeIn(index, k) + 1
BY LogAssumption DEF AgeIn, Following, Files

\* For every age there is a file.
LEMMA OfAge ==
  ASSUME NEW index \in Files, NEW a \in Files
  PROVE  \E k \in Files : AgeIn(index, k) = a
<1> DEFINE k == IF a <= index THEN index - a ELSE index - a + LogSum
<1>1. k \in Files /\ AgeIn(index, k) = a
  BY LogAssumption DEF AgeIn, Files
<1> QED BY <1>1
-----------------------------------------------------------------------------
(* The files. *)

Increasing(f) == \A i, j \in DOMAIN f : i < j => f[i] < f[j]

\* Files of records up to n, each record once and in order.
Ordered(F, n) ==
  /\ F \in [Files -> Seq(Nat)]
  /\ \A k \in Files : Increasing(F[k]) /\ \A x \in ToSet(F[k]) : x <= n
  /\ \A j, k \in Files : j # k => ToSet(F[j]) \cap ToSet(F[k]) = {}

LEMMA Appended ==
  ASSUME NEW f \in Seq(Nat), NEW n \in Nat, Increasing(f), \A x \in ToSet(f) : x <= n
  PROVE  /\ Append(f, n + 1) \in Seq(Nat) /\ Increasing(Append(f, n + 1))
         /\ ToSet(Append(f, n + 1)) = ToSet(f) \cup {n + 1}
<1> DEFINE g == Append(f, n + 1)
           L == Len(f)
<1>1. /\ g \in Seq(Nat) /\ L \in Nat /\ Len(g) = L + 1 /\ g[L + 1] = n + 1
      /\ \A i \in 1 .. L : g[i] = f[i]
  BY AppendProperties
<1>2. DOMAIN f = 1 .. L /\ DOMAIN g = 1 .. L + 1
  <2> HIDE DEF g
  <2>1. DOMAIN g = 1 .. Len(g)
    BY <1>1
  <2> QED BY <1>1, <2>1
<1> HIDE DEF g, L
<1>3. ASSUME NEW i \in 1 .. L PROVE f[i] \in Nat /\ f[i] <= n
  <2>1. f[i] \in ToSet(f)
    BY <1>2 DEF ToSet
  <2>2. i \in 1 .. Len(f)
    BY DEF L
  <2>3. f[i] \in Nat
    BY <2>2
  <2> QED BY <2>1, <2>3
<1>4. Increasing(g)
  <2> SUFFICES ASSUME NEW i \in DOMAIN g, NEW j \in DOMAIN g, i < j PROVE g[i] < g[j]
    BY DEF Increasing
  <2>1. i \in 1 .. L /\ (j \in 1 .. L \/ j = L + 1)
    BY <1>1, <1>2
  <2>2. CASE j \in 1 .. L
    BY <1>1, <1>2, <2>1, <2>2 DEF Increasing
  <2>3. CASE j = L + 1
    BY <1>1, <1>3, <2>1, <2>3
  <2> QED BY <2>1, <2>2, <2>3
<1>5. ToSet(g) = ToSet(f) \cup {n + 1}
  <2>1. ASSUME NEW x \in ToSet(g) PROVE x \in ToSet(f) \cup {n + 1}
    <3>1. PICK i \in 1 .. L + 1 : x = g[i]
      BY <1>2 DEF ToSet
    <3>2. i \in 1 .. L \/ i = L + 1
      BY <1>1
    <3> QED BY <1>1, <1>2, <3>1, <3>2 DEF ToSet
  <2>2. ASSUME NEW x \in ToSet(f) PROVE x \in ToSet(g)
    <3>1. PICK i \in 1 .. L : x = f[i]
      BY <1>2 DEF ToSet
    <3>2. i \in 1 .. L + 1 /\ x = g[i]
      BY <1>1, <3>1
    <3> QED BY <1>2, <3>2 DEF ToSet
  <2>3. n + 1 \in ToSet(g)
    <3>1. L + 1 \in 1 .. L + 1
      BY <1>1
    <3> QED BY <1>1, <1>2, <3>1 DEF ToSet
  <2> QED BY <2>1, <2>2, <2>3
<1> QED BY <1>1, <1>4, <1>5 DEF g

\* Clearing a file, or failing to.
Emptied(G, F, n, k, cleared) ==
  /\ Ordered(G, n)
  /\ \A j \in Files \ {k} : ToSet(G[j]) = ToSet(F[j])
  /\ cleared => ToSet(G[k]) = {}

LEMMA ClearedIs ==
  ASSUME NEW F, NEW n \in Nat, Ordered(F, n), NEW k \in Files, NEW cleared \in BOOLEAN
  PROVE  Emptied(Cleared(F, k, cleared), F, n, k, cleared)
<1> DEFINE G == Cleared(F, k, cleared)
<1>1. CASE ~ cleared
  BY <1>1 DEF Cleared, Emptied
<1>2. CASE cleared
  <2>1. G = [F EXCEPT ![k] = <<>>]
    BY <1>2 DEF Cleared
  <2>2. F \in [Files -> Seq(Nat)] /\ <<>> \in Seq(Nat)
    BY DEF Ordered
  <2>3. G \in [Files -> Seq(Nat)]
    BY <2>1, <2>2
  <2>4. G[k] = <<>> /\ \A j \in Files \ {k} : G[j] = F[j]
    BY <2>1, <2>2
  <2>5. DOMAIN <<>> = {}
    OBVIOUS
  <2>6. ToSet(G[k]) = {} /\ Increasing(G[k])
    BY <2>4, <2>5 DEF ToSet, Increasing
  <2> HIDE DEF G
  <2>7. Ordered(G, n)
    <3>1. ASSUME NEW j \in Files PROVE Increasing(G[j]) /\ \A x \in ToSet(G[j]) : x <= n
      <4>1. CASE j = k
        BY <2>6, <4>1
      <4>2. CASE j # k
        BY <2>4, <4>2 DEF Ordered
      <4> QED BY <4>1, <4>2
    <3>2. ASSUME NEW i \in Files, NEW j \in Files, i # j PROVE ToSet(G[i]) \cap ToSet(G[j]) = {}
      <4>1. CASE i = k \/ j = k
        BY <2>6, <4>1
      <4>2. CASE i # k /\ j # k
        BY <2>4, <3>2, <4>2 DEF Ordered
      <4> QED BY <4>1, <4>2
    <3> QED BY <2>3, <3>1, <3>2 DEF Ordered
  <2> QED BY <2>4, <2>6, <2>7 DEF G, Emptied
<1> QED BY <1>1, <1>2

\* Writing the next record, or not.
Written(G, F, n, k, opened) ==
  /\ Ordered(G, n + 1)
  /\ \A j \in Files \ {k} : ToSet(G[j]) = ToSet(F[j])
  /\ ToSet(G[k]) = IF opened THEN ToSet(F[k]) \cup {n + 1} ELSE ToSet(F[k])

LEMMA WrittenIs ==
  ASSUME NEW F, NEW n \in Nat, Ordered(F, n), NEW k \in Files, NEW opened \in BOOLEAN,
         NEW G, G = IF opened THEN [F EXCEPT ![k] = Append(F[k], n + 1)] ELSE F
  PROVE  Written(G, F, n, k, opened)
<1>0. /\ F \in [Files -> Seq(Nat)]
      /\ \A j \in Files : Increasing(F[j]) /\ \A x \in ToSet(F[j]) : x \in Nat /\ x <= n
      /\ \A i, j \in Files : i # j => ToSet(F[i]) \cap ToSet(F[j]) = {}
  <2>1. ASSUME NEW j \in Files, NEW x \in ToSet(F[j]) PROVE x \in Nat
    <3>1. F[j] \in Seq(Nat)
      BY DEF Ordered
    <3>2. PICK i \in DOMAIN F[j] : x = F[j][i]
      BY DEF ToSet
    <3> QED BY <3>1, <3>2
  <2> QED BY <2>1 DEF Ordered
<1>1. CASE ~ opened
  <2>1. \A j \in Files : \A x \in ToSet(F[j]) : x <= n + 1
    BY <1>0
  <2>2. G = F
    BY <1>1
  <2> QED BY <1>0, <1>1, <2>1, <2>2 DEF Ordered, Written
<1>2. CASE opened
  <2>1. G = [F EXCEPT ![k] = Append(F[k], n + 1)]
    BY <1>2
  <2>2. /\ Append(F[k], n + 1) \in Seq(Nat) /\ Increasing(Append(F[k], n + 1))
        /\ ToSet(Append(F[k], n + 1)) = ToSet(F[k]) \cup {n + 1}
    <3>1. F[k] \in Seq(Nat) /\ Increasing(F[k]) /\ \A x \in ToSet(F[k]) : x <= n
      BY <1>0
    <3> QED BY <3>1, Appended
  <2>3. G \in [Files -> Seq(Nat)] /\ G[k] = Append(F[k], n + 1)
        /\ \A j \in Files \ {k} : G[j] = F[j]
    BY <1>0, <2>1, <2>2
  <2>4. ToSet(G[k]) = ToSet(F[k]) \cup {n + 1} /\ Increasing(G[k])
    BY <2>2, <2>3
  <2>5. ASSUME NEW j \in Files PROVE Increasing(G[j]) /\ \A x \in ToSet(G[j]) : x <= n + 1
    <3>1. CASE j = k
      BY <1>0, <2>4, <3>1
    <3>2. CASE j # k
      BY <1>0, <2>3, <3>2
    <3> QED BY <3>1, <3>2
  <2>6. ASSUME NEW i \in Files, NEW j \in Files, i # j PROVE ToSet(G[i]) \cap ToSet(G[j]) = {}
    <3>1. \A l \in Files : n + 1 \notin ToSet(F[l])
      BY <1>0
    <3>2. CASE i = k
      BY <1>0, <2>3, <2>4, <2>6, <3>1, <3>2
    <3>3. CASE j = k
      BY <1>0, <2>3, <2>4, <2>6, <3>1, <3>3
    <3>4. CASE i # k /\ j # k
      BY <1>0, <2>3, <2>6, <3>4
    <3> QED BY <3>2, <3>3, <3>4
  <2> QED BY <1>2, <2>3, <2>4, <2>5, <2>6 DEF Ordered, Written
<1> QED BY <1>1, <1>2
-----------------------------------------------------------------------------
(* The invariant. *)

Span(j) == j * RecordSum

\* The file of age j was begun with the record s[j]; the files up to the age q
\* are whole, the current one has m records behind that which opened it.
Layout(s, q, m) ==
  /\ record_count = Span(q) + m /\ record_count < CountModulo
  /\ s[0] <= last + 1
  /\ s[0] > first => s[0] = last - m
  /\ \A i, j \in Files : i <= j => s[j] <= s[i]
  /\ \A j \in Files : s[j] > first =>
       IF j <= q THEN s[0] - s[j] = Span(j) ELSE s[0] - s[j] >= Span(j - 1) + Shortest

\* The first record behind those of the age a.
End(s, a, n) == IF a = 0 THEN n + 1 ELSE s[a - 1]

\* What a file of the age a holds of the records from f to n.
Content(holds, clean, s, a, f, n, lost) ==
  /\ \A r \in f .. n : s[a] <= r /\ r < End(s, a, n) => r \in holds \cup lost
  /\ \A x \in holds : x < End(s, a, n)
  /\ clean => \A x \in holds : x >= f => s[a] <= x

Contents(s) ==
  \A k \in Files :
    Content(ToSet(file[k]), k \notin uncleared, s, AgeIn(log_index, k), first, last, dropped)

LogTypes ==
  /\ log_index \in Files /\ record_count \in Nat /\ last \in Nat
  /\ first \in Nat /\ first <= last + 1 /\ p_file \in BOOLEAN
  /\ Ordered(file, last)

LogInv ==
  /\ LogTypes
  /\ \E s \in [Files -> Int], q \in Nat, m \in 0 .. RecordSum - 1 : Layout(s, q, m) /\ Contents(s)
-----------------------------------------------------------------------------
(* The counter. *)

LEMMA SpanIs ==
  /\ \A j \in Int : Span(j) \in Int /\ Span(j + 1) = Span(j) + RecordSum
  /\ Span(0) = 0
<1>1. RecordSum \in Int
  BY LogAssumption
<1>2. ASSUME NEW j \in Int PROVE (j + 1) * RecordSum = j * RecordSum + RecordSum
  BY <1>1
<1> QED BY <1>1, <1>2 DEF Span

LEMMA SpanGrows ==
  ASSUME NEW i \in Int, NEW j \in Int, i >= j + 1
  PROVE  Span(i) >= Span(j) + RecordSum
<1>1. RecordSum \in Nat /\ i - j \in Int /\ i - j >= 1
  BY LogAssumption
<1>2. RecordSum * (i - j) >= RecordSum
  BY <1>1, Multiple
<1>3. RecordSum * (i - j) = i * RecordSum - j * RecordSum
  BY <1>1
<1> QED BY <1>1, <1>2, <1>3, SpanIs DEF Span

LEMMA ShortestIs ==
  /\ Shortest \in Nat /\ Shortest <= RecordSum - 1
  /\ CountModulo % RecordSum # 0 => Shortest <= CountModulo % RecordSum
<1> DEFINE rest == CountModulo % RecordSum
           a == RecordSum - 1
<1>1. rest \in 0 .. RecordSum - 1 /\ a \in Nat /\ RecordSum \in Nat
  BY LogAssumption
<1>2. Shortest = IF rest = 0 THEN a ELSE CHOOSE n \in {a, rest} : n <= a /\ n <= rest
  BY DEF Shortest
<1> HIDE DEF rest, a
<1>3. \E n \in {a, rest} : n <= a /\ n <= rest
  BY <1>1
<1> DEFINE c == CHOOSE n \in {a, rest} : n <= a /\ n <= rest
<1>4. c \in {a, rest} /\ c <= a /\ c <= rest
  BY <1>3
<1> HIDE DEF c
<1>5. Shortest = IF rest = 0 THEN a ELSE c
  BY <1>2 DEF c
<1>6. Shortest \in Nat /\ Shortest <= a /\ (rest # 0 => Shortest <= rest)
  BY <1>1, <1>4, <1>5
<1> QED BY <1>6 DEF rest, a

\* The counter after another record: it wraps, or completes a file, or neither.
NextCount(c, q, m) ==
  /\ c + 1 = CountModulo =>
       /\ (c + 1) % CountModulo = 0
       /\ Shortest <= m + 1 /\ q >= LogSum
  /\ c + 1 < CountModulo =>
       /\ (c + 1) % CountModulo = c + 1
       /\ (c + 1) % RecordSum = 0 <=> m + 1 = RecordSum
  /\ 0 % RecordSum = 0

LEMMA CountIs ==
  ASSUME NEW c \in Nat, c < CountModulo, NEW q \in Nat, NEW m \in 0 .. RecordSum - 1,
         c = Span(q) + m
  PROVE  NextCount(c, q, m)
<1>0. /\ RecordSum \in Nat \ {0} /\ LogSum \in Nat \ {0} /\ CountModulo \in Nat \ {0}
      /\ CountModulo > RecordSum * LogSum
  <2>1. RecordSum * LogSum \in Nat
    BY LogAssumption
  <2> QED BY <2>1, LogAssumption
<1>1. Span(q) = RecordSum * q /\ Span(q) \in Int
  BY <1>0 DEF Span
<1>2. (c + 1) % RecordSum = IF m + 1 = RecordSum THEN 0 ELSE m + 1
  <2>1. CASE m + 1 = RecordSum
    <3>1. RecordSum * (q + 1) = RecordSum * q + RecordSum
      BY <1>0
    <3>2. RecordSum * (q + 1) + 0 = c + 1
      BY <1>0, <1>1, <2>1, <3>1
    <3>3. (RecordSum * (q + 1) + 0) % RecordSum = 0
      <4>1. q + 1 \in Int /\ 0 \in 0 .. RecordSum - 1
        BY <1>0
      <4> QED BY <1>0, <4>1, RemainderIs
    <3> QED BY <2>1, <3>2, <3>3
  <2>2. CASE m + 1 # RecordSum
    <3>1. m + 1 \in 0 .. RecordSum - 1
      BY <1>0, <2>2
    <3>2. (RecordSum * q + (m + 1)) % RecordSum = m + 1
      <4>1. q \in Int
        OBVIOUS
      <4> QED BY ONLY <1>0, <3>1, <4>1, RemainderIs
    <3>3. RecordSum * q + (m + 1) = c + 1
      BY <1>0, <1>1
    <3> QED BY <2>2, <3>2, <3>3
  <2> QED BY <2>1, <2>2
<1>3. 0 % RecordSum = 0
  <2>1. 0 \in 0 .. RecordSum - 1 /\ 0 \in Int
    BY <1>0
  <2>2. (RecordSum * 0 + 0) % RecordSum = 0
    BY <1>0, <2>1, RemainderIs
  <2>3. RecordSum * 0 + 0 = 0
    BY <1>0
  <2> QED BY <2>2, <2>3
<1>4. ASSUME c + 1 = CountModulo
      PROVE  (c + 1) % CountModulo = 0 /\ Shortest <= m + 1 /\ q >= LogSum
  <2>1. (c + 1) % CountModulo = 0
    <3>1. 0 \in 0 .. CountModulo - 1 /\ 1 \in Int
      BY <1>0
    <3>2. (CountModulo * 1 + 0) % CountModulo = 0
      BY <1>0, <3>1, RemainderIs
    <3>3. CountModulo * 1 + 0 = c + 1
      BY <1>0, <1>4
    <3> QED BY <3>2, <3>3
  <2>2. Shortest <= m + 1
    <3>1. CASE m + 1 = RecordSum
      BY <1>0, <3>1, ShortestIs
    <3>2. CASE m + 1 # RecordSum
      <4>1. CountModulo % RecordSum = m + 1
        BY <1>2, <1>4, <3>2
      <4>2. m + 1 # 0
        OBVIOUS
      <4> QED BY <4>1, <4>2, ShortestIs
    <3> QED BY <3>1, <3>2
  <2>3. q >= LogSum
    <3> SUFFICES ASSUME LogSum >= q + 1 PROVE FALSE
      BY <1>0
    <3>1. Span(LogSum) >= Span(q) + RecordSum
      BY <1>0, SpanGrows
    <3>2. Span(LogSum) = RecordSum * LogSum /\ Span(LogSum) \in Int
      BY <1>0 DEF Span
    <3>3. CountModulo > Span(LogSum)
      BY <1>0, <3>2
    <3>4. CountModulo = Span(q) + m + 1
      BY <1>0, <1>1, <1>4
    <3> QED BY <1>0, <1>1, <3>1, <3>2, <3>3, <3>4
  <2> QED BY <2>1, <2>2, <2>3
<1>5. ASSUME c + 1 < CountModulo PROVE (c + 1) % CountModulo = c + 1
  <2>1. c + 1 \in 0 .. CountModulo - 1 /\ 0 \in Int
    BY <1>0, <1>5
  <2>2. (CountModulo * 0 + (c + 1)) % CountModulo = c + 1
    BY <1>0, <2>1, RemainderIs
  <2>3. CountModulo * 0 + (c + 1) = c + 1
    BY <1>0
  <2> QED BY <2>2, <2>3
<1>6. (c + 1) % RecordSum = 0 <=> m + 1 = RecordSum
  BY <1>2
<1> QED BY <1>3, <1>4, <1>5, <1>6 DEF NextCount
-----------------------------------------------------------------------------
(* The steps. *)

LEMMA RecordNumbers ==
  ASSUME NEW F, NEW n \in Nat, Ordered(F, n)
  PROVE  \A k \in Files : \A x \in ToSet(F[k]) : x \in Nat /\ x <= n
<1> SUFFICES ASSUME NEW k \in Files, NEW x \in ToSet(F[k]) PROVE x \in Nat /\ x <= n
  OBVIOUS
<1>1. F[k] \in Seq(Nat)
  BY DEF Ordered
<1>2. PICK i \in DOMAIN F[k] : x = F[k][i]
  BY DEF ToSet
<1> QED BY <1>1, <1>2 DEF Ordered

\* A file that is not written is as good at its new age as it was at the old.
LEMMA ContentKept ==
  ASSUME NEW holds, NEW clean, NEW s, NEW a, NEW f \in Nat, NEW n \in Nat, NEW lost,
         Content(holds, clean, s, a, f, n, lost),
         NEW t, NEW b, t[b] = s[a], End(t, b, n + 1) = End(s, a, n),
         End(s, a, n) \in Int, End(s, a, n) <= n + 1,
         NEW more, lost \subseteq more
  PROVE  Content(holds, clean, t, b, f, n + 1, more)
<1>1. ASSUME NEW r \in f .. n + 1, t[b] <= r, r < End(t, b, n + 1) PROVE r \in holds \cup more
  <2>1. r \in f .. n /\ s[a] <= r /\ r < End(s, a, n)
    BY <1>1
  <2> QED BY <2>1 DEF Content
<1>2. \A x \in holds : x < End(t, b, n + 1)
  BY DEF Content
<1>3. clean => \A x \in holds : x >= f => t[b] <= x
  BY DEF Content
<1> QED BY <1>1, <1>2, <1>3 DEF Content

LEMMA OldestFirst == 0 \in Files /\ LogSum - 1 \in Files /\ \A a \in Files : a # 0 => a - 1 \in Files
BY LogAssumption DEF Files

LEMMA InitLog == Init => LogInv
<1> SUFFICES ASSUME Init PROVE LogInv
  OBVIOUS
<1> DEFINE s == [k \in Files |-> 1]
<1>1. /\ file = [k \in Files |-> <<>>] /\ log_index = 0 /\ record_count = 0 /\ last = 0
      /\ first = 1 /\ p_file \in BOOLEAN
  BY DEF Init, Files
<1>2. DOMAIN <<>> = {} /\ <<>> \in Seq(Nat)
  OBVIOUS
<1>3. \A k \in Files : ToSet(file[k]) = {} /\ Increasing(file[k])
  BY <1>1, <1>2 DEF ToSet, Increasing
<1>4. Ordered(file, 0)
  BY <1>1, <1>2, <1>3 DEF Ordered
<1>5. LogTypes
  BY <1>1, <1>4, OldestFirst DEF LogTypes
<1>6. Layout(s, 0, 0)
  <2>1. \A k \in Files : s[k] = 1
    OBVIOUS
  <2> HIDE DEF s
  <2>2. s[0] = 1 /\ record_count = 0 /\ last = 0 /\ first = 1
    BY <1>1, <2>1, OldestFirst
  <2>3. record_count = Span(0) + 0 /\ record_count < CountModulo
    <3>1. Span(0) = 0 /\ RecordSum * LogSum \in Nat
      BY SpanIs, LogAssumption
    <3> QED BY <2>2, <3>1, LogAssumption
  <2>4. \A i, j \in Files : s[j] <= s[i]
    BY <2>1
  <2>5. \A j \in Files : ~ (s[j] > first)
    BY <2>1, <2>2
  <2> QED BY <2>2, <2>3, <2>4, <2>5 DEF Layout
<1>7. Contents(s)
  BY <1>1, <1>3 DEF Contents, Content
<1>8. s \in [Files -> Int] /\ 0 \in Nat /\ 0 \in 0 .. RecordSum - 1
  BY LogAssumption
<1> HIDE DEF s
<1> QED BY <1>5, <1>6, <1>7, <1>8 DEF LogInv

LEMMA WriteLog ==
  ASSUME LogInv, WriteRecord
  PROVE  LogInv'
<1>1. /\ log_index \in Files /\ record_count \in Nat /\ last \in Nat
      /\ first \in Nat /\ first <= last + 1 /\ p_file \in BOOLEAN /\ Ordered(file, last)
  BY DEF LogInv, LogTypes
<1>2. PICK s \in [Files -> Int], q \in Nat, m \in 0 .. RecordSum - 1 : Layout(s, q, m) /\ Contents(s)
  BY DEF LogInv
<1>3. /\ record_count' = Counted /\ ~ Rotates /\ last' = last + 1
      /\ file' = IF p_file THEN [file EXCEPT ![log_index] = Append(file[log_index], last + 1)] ELSE file
      /\ dropped' = IF p_file THEN dropped ELSE dropped \cup {last + 1}
      /\ UNCHANGED <<p_file, log_index, uncleared, first>>
  BY DEF WriteRecord, WriteTo
<1>4. record_count' = record_count + 1 /\ record_count + 1 < CountModulo /\ m + 1 \in 0 .. RecordSum - 1
  <2>1. NextCount(record_count, q, m)
    BY <1>1, <1>2, CountIs DEF Layout
  <2>2. Counted = (record_count + 1) % CountModulo /\ Counted % RecordSum # 0
    BY <1>3 DEF Counted, Rotates
  <2>3. record_count + 1 # CountModulo
    BY <2>1, <2>2 DEF NextCount
  <2>4. record_count + 1 < CountModulo
    BY <1>1, <1>2, <2>3, LogAssumption DEF Layout
  <2>5. Counted = record_count + 1 /\ m + 1 # RecordSum
    BY <2>1, <2>2, <2>4 DEF NextCount
  <2> QED BY <1>3, <2>4, <2>5, LogAssumption
<1>5. /\ Ordered(file', last + 1)
      /\ \A j \in Files \ {log_index} : ToSet(file'[j]) = ToSet(file[j])
      /\ ToSet(file'[log_index]) =
           IF p_file THEN ToSet(file[log_index]) \cup {last + 1} ELSE ToSet(file[log_index])
  <2>1. Written(file', file, last, log_index, p_file)
    BY <1>1, <1>3, WrittenIs
  <2> QED BY <2>1 DEF Written
<1>6. LogTypes'
  BY <1>1, <1>3, <1>4, <1>5 DEF LogTypes
<1>7. \A a \in Files : s[a] \in Int /\ s[a] <= s[0] /\ s[0] <= last + 1
  BY <1>2, OldestFirst DEF Layout, Files
<1>8. Layout(s, q, m + 1)'
  <2>1. record_count' = Span(q) + (m + 1)
    BY <1>2, <1>4, SpanIs DEF Layout
  <2>2. s[0] <= last' + 1 /\ (s[0] > first' => s[0] = last' - (m + 1))
    BY <1>1, <1>2, <1>3, <1>7, OldestFirst DEF Layout
  <2> QED BY <1>2, <1>3, <1>4, <2>1, <2>2 DEF Layout
<1>9. Contents(s)'
  <2> SUFFICES ASSUME NEW k \in Files
               PROVE  Content(ToSet(file'[k]), k \notin uncleared, s, AgeIn(log_index, k),
                              first, last + 1, dropped')
    BY <1>3 DEF Contents
  <2> DEFINE a == AgeIn(log_index, k)
  <2>1. Content(ToSet(file[k]), k \notin uncleared, s, a, first, last, dropped)
    BY <1>2 DEF Contents
  <2>2. a \in Files /\ (a = 0 <=> k = log_index)
    BY <1>1, AgesRotate
  <2> HIDE DEF a
  <2>3. CASE a # 0
    <3>1. End(s, a, last + 1) = End(s, a, last) /\ End(s, a, last) = s[a - 1]
      BY <2>3 DEF End
    <3>2. End(s, a, last) \in Int /\ End(s, a, last) <= last + 1
      BY <1>1, <1>7, <2>2, <2>3, <3>1, OldestFirst
    <3>3. ToSet(file'[k]) = ToSet(file[k]) /\ dropped \subseteq dropped'
      BY <1>3, <1>5, <2>2, <2>3
    <3> QED BY <1>1, <2>1, <3>1, <3>2, <3>3, ContentKept DEF a
  <2>4. CASE a = 0
    <3> DEFINE holds == ToSet(file[k])
               now == ToSet(file'[k])
    <3>1. /\ now = IF p_file THEN holds \cup {last + 1} ELSE holds
          /\ dropped' = IF p_file THEN dropped ELSE dropped \cup {last + 1}
      BY <1>3, <1>5, <2>2, <2>4
    <3>2. \A x \in now : x \in Nat /\ x <= last + 1
      BY <1>1, <1>5, RecordNumbers
    <3> HIDE DEF holds, now
    <3>3. End(s, a, last + 1) = last + 2 /\ End(s, a, last) = last + 1
      BY <1>1, <2>4 DEF End
    <3>4. Content(holds, k \notin uncleared, s, a, first, last, dropped)
      BY <2>1 DEF holds
    <3>5. ASSUME NEW r \in first .. last + 1, s[a] <= r PROVE r \in now \cup dropped'
      <4>1. CASE r = last + 1
        BY <3>1, <4>1
      <4>2. CASE r # last + 1
        <5>1. r \in first .. last /\ r < End(s, a, last)
          BY <1>1, <3>3, <4>2
        <5>2. r \in holds \cup dropped
          BY <3>4, <3>5, <5>1 DEF Content
        <5> QED BY <3>1, <5>2
      <4> QED BY <4>1, <4>2
    <3>6. \A x \in now : x < End(s, a, last + 1)
      BY <1>1, <3>2, <3>3
    <3>7. ASSUME k \notin uncleared, NEW x \in now, x >= first PROVE s[a] <= x
      <4>1. CASE x \in holds
        BY <3>4, <3>7, <4>1 DEF Content
      <4>2. CASE x = last + 1
        BY <1>7, <2>2, <2>4, <4>2
      <4> QED BY <3>1, <3>7, <4>1, <4>2
    <3>8. Content(now, k \notin uncleared, s, a, first, last + 1, dropped')
      BY <3>5, <3>6, <3>7 DEF Content
    <3> QED BY <3>8 DEF now, a
  <2> QED BY <2>3, <2>4
<1> QED BY <1>2, <1>4, <1>6, <1>8, <1>9 DEF LogInv

\* The records that begin the files, after a rotation.
Begun(s, n) == [j \in Files |-> IF j = 0 THEN n + 1 ELSE s[j - 1]]

LEMMA BegunIs ==
  ASSUME NEW n \in Nat, NEW s \in [Files -> Int]
  PROVE  /\ Begun(s, n) \in [Files -> Int] /\ Begun(s, n)[0] = n + 1
         /\ \A a \in Files : a + 1 \in Files => Begun(s, n)[a + 1] = s[a]
         /\ \A a \in Files \ {0} : a - 1 \in Files /\ Begun(s, n)[a] = s[a - 1]
<1>1. ASSUME NEW j \in Files, j # 0 PROVE s[j - 1] \in Int
  BY <1>1, OldestFirst
<1>2. \A a \in Files : a + 1 # 0 /\ (a + 1) - 1 = a
  BY DEF Files
<1> QED BY <1>1, <1>2, OldestFirst DEF Begun

LEMMA RotatedLayout ==
  ASSUME LogTypes, NEW s \in [Files -> Int], NEW q \in Nat, NEW m \in 0 .. RecordSum - 1,
         NEW t, t = Begun(s, last), Layout(s, q, m), Rotates, record_count' = Counted, last' = last + 1, first' = first
  PROVE  \E p \in Nat : Layout(t, p, 0)'
<1>1. last \in Nat /\ first \in Nat /\ record_count \in Nat /\ RecordSum \in Nat \ {0}
  BY LogAssumption DEF LogTypes
<1>2. /\ t \in [Files -> Int] /\ t[0] = last + 1
      /\ \A a \in Files \ {0} : a - 1 \in Files /\ t[a] = s[a - 1]
  BY <1>1, BegunIs
<1>3. /\ record_count = Span(q) + m /\ record_count < CountModulo
      /\ s[0] <= last + 1
      /\ s[0] > first => s[0] = last - m
      /\ \A i, j \in Files : i <= j => s[j] <= s[i]
      /\ \A j \in Files : s[j] > first =>
           IF j <= q THEN s[0] - s[j] = Span(j) ELSE s[0] - s[j] >= Span(j - 1) + Shortest
  BY DEF Layout
<1>4. \A j \in Files : j \in Nat /\ j <= LogSum - 1 /\ s[j] \in Int /\ s[j] <= s[0] /\ t[j] \in Int
  BY <1>2, <1>3, OldestFirst DEF Files
<1>5. \A i, j \in Files : i <= j => t[j] <= t[i]
  <2> SUFFICES ASSUME NEW i \in Files, NEW j \in Files, i <= j PROVE t[j] <= t[i]
    OBVIOUS
  <2>1. CASE j = 0
    <3>1. i = 0
      BY <1>4, <2>1
    <3> QED BY <1>4, <2>1, <3>1
  <2>2. CASE j # 0 /\ i = 0
    <3>1. t[j] = s[j - 1] /\ s[j - 1] <= s[0] /\ s[j - 1] \in Int
      BY <1>2, <1>4, <2>2
    <3>2. s[0] \in Int
      BY <1>4, OldestFirst
    <3> QED BY <1>1, <1>2, <1>3, <2>2, <3>1, <3>2
  <2>3. CASE j # 0 /\ i # 0
    <3>1. t[j] = s[j - 1] /\ t[i] = s[i - 1] /\ j - 1 \in Files /\ i - 1 \in Files
      BY <1>2, <2>3
    <3>2. i - 1 <= j - 1
      BY <1>4
    <3> QED BY <1>3, <3>1, <3>2
  <2> QED BY <2>1, <2>2, <2>3
\* A file that was of the age j is m + 1 records further back.
<1>6. ASSUME NEW j \in Files, j # 0, t[j] > first
      PROVE  /\ j - 1 \in Files /\ t[0] - t[j] = (s[0] - s[j - 1]) + (m + 1)
             /\ IF j - 1 <= q THEN s[0] - s[j - 1] = Span(j - 1)
                              ELSE s[0] - s[j - 1] >= Span((j - 1) - 1) + Shortest
  <2>1. j - 1 \in Files /\ t[j] = s[j - 1]
    BY <1>2, <1>6
  <2>2. s[j - 1] > first /\ s[j - 1] <= s[0] /\ s[j - 1] \in Int /\ s[0] \in Int
    BY <1>4, <1>6, <2>1, OldestFirst
  <2>3. s[0] = last - m
    BY <1>1, <1>3, <2>2
  <2> QED BY <1>1, <1>2, <1>3, <2>1, <2>2, <2>3
<1>7. NextCount(record_count, q, m)
  BY <1>1, <1>3, CountIs
<1>8. Counted = (record_count + 1) % CountModulo /\ Counted % RecordSum = 0
  BY DEF Counted, Rotates
<1>9. t[0] <= last' + 1 /\ (t[0] > first' => t[0] = last' - 0)
  BY <1>1, <1>2
<1>10. CountModulo \in Nat /\ LogSum \in Nat /\ CountModulo > 0
  <2>1. RecordSum * LogSum \in Nat
    BY LogAssumption
  <2> QED BY <2>1, LogAssumption
<1>11. CASE record_count + 1 = CountModulo
  <2>1. Counted = 0 /\ Shortest <= m + 1 /\ q >= LogSum
    BY <1>7, <1>8, <1>11 DEF NextCount
  <2>2. record_count' = Span(0) + 0 /\ record_count' < CountModulo
    BY <1>10, <2>1, SpanIs
  <2>3. ASSUME NEW j \in Files, t[j] > first
        PROVE  IF j <= 0 THEN t[0] - t[j] = Span(j) ELSE t[0] - t[j] >= Span(j - 1) + Shortest
    <3>1. CASE j = 0
      <4>1. t[0] - t[j] = 0
        BY <1>4, <3>1
      <4> QED BY <3>1, <4>1, SpanIs
    <3>2. CASE j # 0
      <4>1. /\ j - 1 \in Files /\ t[0] - t[j] = (s[0] - s[j - 1]) + (m + 1)
            /\ IF j - 1 <= q THEN s[0] - s[j - 1] = Span(j - 1)
                             ELSE s[0] - s[j - 1] >= Span((j - 1) - 1) + Shortest
        BY <1>6, <2>3, <3>2
      <4>2. j - 1 <= q /\ ~ (j <= 0)
        BY <1>4, <1>10, <2>1, <3>2
      <4>3. s[0] - s[j - 1] = Span(j - 1)
        BY <4>1, <4>2
      <4>4. Span(j - 1) \in Int /\ Shortest \in Int
        BY <1>4, SpanIs, ShortestIs
      <4>5. t[0] - t[j] >= Span(j - 1) + Shortest
        BY <2>1, <4>1, <4>3, <4>4
      <4> QED BY <4>2, <4>5
    <3> QED BY <3>1, <3>2
  <2>4. Layout(t, 0, 0)'
    BY <1>5, <1>9, <2>2, <2>3 DEF Layout
  <2> QED BY <2>4
<1>12. CASE record_count + 1 # CountModulo
  <2>1. record_count + 1 < CountModulo
    BY <1>1, <1>3, <1>10, <1>12
  <2>2. Counted = record_count + 1 /\ m + 1 = RecordSum
    BY <1>7, <1>8, <2>1 DEF NextCount
  <2>3. record_count' = Span(q + 1) + 0 /\ record_count' < CountModulo
    BY <1>1, <1>3, <2>1, <2>2, SpanIs
  <2>4. ASSUME NEW j \in Files, t[j] > first
        PROVE  IF j <= q + 1 THEN t[0] - t[j] = Span(j) ELSE t[0] - t[j] >= Span(j - 1) + Shortest
    <3>1. CASE j = 0
      <4>1. t[0] - t[j] = 0
        BY <1>4, <3>1
      <4> QED BY <3>1, <4>1, SpanIs
    <3>2. CASE j # 0
      <4>1. /\ j - 1 \in Files /\ t[0] - t[j] = (s[0] - s[j - 1]) + (m + 1)
            /\ IF j - 1 <= q THEN s[0] - s[j - 1] = Span(j - 1)
                             ELSE s[0] - s[j - 1] >= Span((j - 1) - 1) + Shortest
        BY <1>6, <2>4, <3>2
      <4>2. /\ Span(j - 1) \in Int /\ Span((j - 1) - 1) \in Int /\ Shortest \in Int /\ j \in Nat
            /\ Span(j) = Span(j - 1) + RecordSum /\ Span(j - 1) = Span((j - 1) - 1) + RecordSum
        <5>1. j \in Nat /\ j - 1 \in Int /\ (j - 1) - 1 \in Int
              /\ (j - 1) + 1 = j /\ ((j - 1) - 1) + 1 = j - 1
          BY <1>4
        <5> QED BY <5>1, SpanIs, ShortestIs
      <4> DEFINE d == s[0] - s[j - 1]
                 u == Span(j - 1)
                 v == Span((j - 1) - 1)
      <4>3. d \in Int
        BY <1>4, <4>1, OldestFirst
      <4>4. /\ t[0] - t[j] = d + (m + 1) /\ (IF j - 1 <= q THEN d = u ELSE d >= v + Shortest)
            /\ Span(j) = u + RecordSum /\ u = v + RecordSum /\ u \in Int /\ v \in Int
        BY <4>1, <4>2
      <4> HIDE DEF d, u, v
      <4>5. IF j <= q + 1 THEN d + (m + 1) = u + RecordSum ELSE d + (m + 1) >= u + Shortest
        BY <1>1, <2>2, <4>2, <4>3, <4>4
      <4> QED BY <4>4, <4>5 DEF u
    <3> QED BY <3>1, <3>2
  <2>5. Layout(t, q + 1, 0)'
    BY <1>5, <1>9, <2>3, <2>4 DEF Layout
  <2> QED BY <2>5
<1> QED BY <1>11, <1>12

LEMMA RotateLog ==
  ASSUME LogInv, NEW cleared \in BOOLEAN, NEW opened \in BOOLEAN, Rotate(cleared, opened)
  PROVE  LogInv'
<1>1. /\ log_index \in Files /\ record_count \in Nat /\ last \in Nat
      /\ first \in Nat /\ first <= last + 1 /\ Ordered(file, last)
  BY DEF LogInv, LogTypes
<1>2. PICK s \in [Files -> Int], q \in Nat, m \in 0 .. RecordSum - 1 : Layout(s, q, m) /\ Contents(s)
  BY DEF LogInv
<1> DEFINE next == Following(log_index)
           kept == Cleared(file, next, cleared)
<1>3. /\ (log_index + 1) % LogSum = next /\ next \in Files
  BY <1>1, RoundOf, AgesRotate
<1>4. /\ record_count' = Counted /\ Rotates /\ last' = last + 1
      /\ log_index' = next /\ p_file' = opened
      /\ uncleared' = NotCleared(next, cleared)
      /\ file' = IF opened THEN [kept EXCEPT ![next] = Append(kept[next], last + 1)] ELSE kept
      /\ dropped' = IF opened THEN dropped ELSE dropped \cup {last + 1}
      /\ first' = first
  BY <1>3 DEF Rotate, WriteTo
<1>5. /\ Ordered(kept, last)
      /\ \A j \in Files \ {next} : ToSet(kept[j]) = ToSet(file[j])
      /\ cleared => ToSet(kept[next]) = {}
  <2>1. Emptied(kept, file, last, next, cleared)
    BY <1>1, <1>3, ClearedIs
  <2> QED BY <2>1 DEF Emptied
<1>6. ASSUME NEW k \in Files, k # next
      PROVE  /\ AgeIn(next, k) = AgeIn(log_index, k) + 1
             /\ AgeIn(log_index, k) \in Files /\ AgeIn(next, k) \in Files
  BY <1>1, <1>3, <1>6, AgesRotate
<1>7. AgeIn(next, next) = 0
  BY <1>3, AgesRotate
<1> HIDE DEF next, kept
<1>8. /\ Ordered(file', last + 1)
      /\ \A j \in Files \ {next} : ToSet(file'[j]) = ToSet(kept[j])
      /\ ToSet(file'[next]) =
           IF opened THEN ToSet(kept[next]) \cup {last + 1} ELSE ToSet(kept[next])
  <2>1. Written(file', kept, last, next, opened)
    BY <1>1, <1>3, <1>4, <1>5, WrittenIs
  <2> QED BY <2>1 DEF Written
<1>9. record_count' \in Nat
  <2>1. NextCount(record_count, q, m) /\ record_count < CountModulo
    BY <1>1, <1>2, CountIs DEF Layout
  <2>2. CountModulo \in Nat
    BY LogAssumption
  <2> QED BY <1>1, <1>4, <2>1, <2>2 DEF NextCount, Counted
<1>10. LogTypes'
  BY <1>1, <1>3, <1>4, <1>8, <1>9 DEF LogTypes
<1>11. PICK t \in [Files -> Int] : t = Begun(s, last)
  BY <1>1, BegunIs
<1>12. /\ t[0] = last + 1
       /\ \A a \in Files : a + 1 \in Files => t[a + 1] = s[a]
  BY <1>1, <1>11, BegunIs
<1>13. PICK p \in Nat : Layout(t, p, 0)'
  <2>1. LogTypes
    BY DEF LogInv
  <2> QED BY <1>2, <1>4, <1>11, <2>1, RotatedLayout
<1>14. ASSUME NEW k \in Files
       PROVE  Content(ToSet(file'[k]), k \notin uncleared', t, AgeIn(next, k), first, last + 1, dropped')
  <2>1. CASE k # next
    <3> DEFINE a == AgeIn(log_index, k)
               b == AgeIn(next, k)
    <3>1. Content(ToSet(file[k]), k \notin uncleared, s, a, first, last, dropped)
      BY <1>2 DEF Contents
    <3>2. b = a + 1 /\ a \in Files /\ b \in Files
      BY <1>6, <2>1
    <3>3. /\ ToSet(file'[k]) = ToSet(file[k])
          /\ (k \notin uncleared') = (k \notin uncleared)
          /\ dropped \subseteq dropped'
      BY <1>4, <1>5, <1>8, <2>1 DEF NotCleared
    <3> HIDE DEF a, b
    <3>4. t[b] = s[a]
      BY <1>12, <3>2
    <3>5. b # 0 /\ b - 1 = a /\ a \in Nat
      BY <3>2 DEF Files
    <3>6. End(t, b, last + 1) = t[a]
      BY <3>5 DEF End
    <3>7. t[a] = End(s, a, last) /\ t[a] \in Int /\ t[a] <= last + 1
      <4>1. CASE a = 0
        BY <1>1, <1>12, <4>1 DEF End
      <4>2. CASE a # 0
        <5>1. a - 1 \in Files /\ (a - 1) + 1 = a
          BY <3>2, <4>2, OldestFirst DEF Files
        <5>2. t[a] = s[a - 1]
          BY <1>12, <3>2, <5>1
        <5>3. s[a - 1] <= s[0] /\ s[0] <= last + 1
          BY <1>2, <5>1, OldestFirst DEF Layout, Files
        <5>4. s[a - 1] \in Int /\ s[0] \in Int
          BY <5>1, OldestFirst
        <5> QED BY <1>1, <4>2, <5>2, <5>3, <5>4 DEF End
      <4> QED BY <4>1, <4>2
    <3>8. Content(ToSet(file[k]), k \notin uncleared, t, b, first, last + 1, dropped')
      BY <1>1, <3>1, <3>3, <3>4, <3>6, <3>7, ContentKept
    <3> QED BY <3>3, <3>8 DEF b
  <2>2. CASE k = next
    <3> DEFINE now == ToSet(file'[next])
    <3>1. \A x \in now : x \in Nat /\ x <= last + 1
      BY <1>1, <1>3, <1>8, RecordNumbers
    <3>2. ASSUME NEW r \in first .. last + 1, last + 1 <= r PROVE r \in now \cup dropped'
      <4>1. r = last + 1
        BY <1>1, <3>2
      <4> QED BY <1>4, <1>8, <4>1
    <3>3. next \notin uncleared' => now \subseteq {last + 1}
      BY <1>4, <1>5, <1>8 DEF NotCleared
    <3> HIDE DEF now
    <3>4. t[0] = last + 1 /\ End(t, 0, last + 1) = last + 2
      BY <1>1, <1>12 DEF End
    <3>5. \A r \in first .. last + 1 :
            t[0] <= r /\ r < End(t, 0, last + 1) => r \in now \cup dropped'
      BY <3>2, <3>4
    <3>6. \A x \in now : x < End(t, 0, last + 1)
      BY <1>1, <3>1, <3>4
    <3>7. next \notin uncleared' => \A x \in now : x >= first => t[0] <= x
      BY <1>1, <3>3, <3>4
    <3>8. Content(now, next \notin uncleared', t, 0, first, last + 1, dropped')
      BY <3>5, <3>6, <3>7 DEF Content
    <3> QED BY <1>7, <2>2, <3>8 DEF now
  <2> QED BY <2>1, <2>2
<1>15. Contents(t)'
  BY <1>4, <1>14 DEF Contents
<1>16. 0 \in 0 .. RecordSum - 1
  BY LogAssumption
<1> QED BY <1>10, <1>13, <1>15, <1>16 DEF LogInv

LEMMA RestartLog ==
  ASSUME LogInv, NEW cleared \in BOOLEAN, NEW opened \in BOOLEAN, Restart(cleared, opened)
  PROVE  LogInv'
<1>1. last \in Nat /\ Ordered(file, last)
  BY DEF LogInv, LogTypes
<1>2. /\ file' = Cleared(file, 0, cleared) /\ p_file' = opened /\ log_index' = 0
      /\ record_count' = 0 /\ first' = last + 1 /\ last' = last
  BY DEF Restart, Start
<1>3. Ordered(file', last)
  BY <1>1, <1>2, ClearedIs, OldestFirst DEF Emptied
<1>4. LogTypes'
  BY <1>1, <1>2, <1>3, OldestFirst DEF LogTypes
<1>5. PICK s \in [Files -> Int] : s = [j \in Files |-> last + 1]
  <2>1. [j \in Files |-> last + 1] \in [Files -> Int]
    BY <1>1
  <2> QED BY <2>1
<1>6. \A j \in Files : s[j] = last + 1
  BY <1>5
<1>7. Layout(s, 0, 0)'
  <2>1. s[0] = last + 1
    BY <1>6, OldestFirst
  <2>2. record_count' = Span(0) + 0 /\ record_count' < CountModulo
    <3>1. RecordSum * LogSum \in Nat
      BY LogAssumption
    <3> QED BY <1>2, <3>1, SpanIs, LogAssumption
  <2>3. s[0] <= last' + 1 /\ (s[0] > first' => s[0] = last' - 0)
    BY <1>1, <1>2, <2>1
  <2>4. \A i, j \in Files : s[j] <= s[i]
    BY <1>1, <1>6
  <2>5. \A j \in Files : ~ (s[j] > first')
    BY <1>1, <1>2, <1>6
  <2> QED BY <2>2, <2>3, <2>4, <2>5 DEF Layout
<1>8. Contents(s)'
  <2> SUFFICES ASSUME NEW k \in Files
               PROVE  Content(ToSet(file'[k]), k \notin uncleared', s, AgeIn(0, k),
                              last + 1, last, dropped')
    BY <1>2 DEF Contents
  <2> DEFINE a == AgeIn(0, k)
             now == ToSet(file'[k])
  <2>1. a \in Files
    BY AgesRotate, OldestFirst
  <2>2. \A x \in now : x \in Nat /\ x <= last
    BY <1>1, <1>3, RecordNumbers
  <2> HIDE DEF a, now
  <2>3. End(s, a, last) = last + 1
    BY <1>6, <2>1, OldestFirst DEF End
  <2>4. \A r \in last + 1 .. last : FALSE
    BY <1>1
  <2>5. \A x \in now : x < End(s, a, last) /\ ~ (x >= last + 1)
    BY <1>1, <2>2, <2>3
  <2>6. Content(now, k \notin uncleared', s, a, last + 1, last, dropped')
    BY <2>4, <2>5 DEF Content
  <2> QED BY <2>6 DEF a, now
<1>9. 0 \in Nat /\ 0 \in 0 .. RecordSum - 1
  BY LogAssumption
<1> QED BY <1>4, <1>7, <1>8, <1>9 DEF LogInv

LEMMA LogInvariant == Spec => []LogInv
<1>1. LogInv /\ [Next]_vars => LogInv'
  <2> SUFFICES ASSUME LogInv, [Next]_vars PROVE LogInv'
    OBVIOUS
  <2>1. CASE WriteRecord
    BY <2>1, WriteLog
  <2>2. ASSUME NEW cleared \in BOOLEAN, NEW opened \in BOOLEAN, Rotate(cleared, opened)
        PROVE  LogInv'
    BY <2>2, RotateLog
  <2>3. ASSUME NEW cleared \in BOOLEAN, NEW opened \in BOOLEAN, Restart(cleared, opened)
        PROVE  LogInv'
    BY <2>3, RestartLog
  <2>4. CASE UNCHANGED vars
    BY <2>4 DEF vars, LogInv, LogTypes, Layout, Contents
  <2> QED BY <2>1, <2>2, <2>3, <2>4 DEF Next
<1> QED BY <1>1, InitLog, PTL DEF Spec
-----------------------------------------------------------------------------
(* What the files hold. *)

\* No record from the oldest file on is missing, unless no file was open.
LEMMA Covered ==
  ASSUME LogInv, NEW s \in [Files -> Int], Contents(s),
         NEW r \in first .. last, s[LogSum - 1] <= r
  PROVE  r \in Held \cup dropped
<1>1. first \in Nat /\ last \in Nat /\ log_index \in Files /\ DOMAIN file = Files /\ r \in Int
  BY DEF LogInv, LogTypes, Ordered
<1> DEFINE Begin == {a \in Files : s[a] <= r}
<1>2. PICK a \in Begin : \A b \in Begin : a <= b
  <2>1. Begin \in SUBSET Nat /\ Begin # {}
    BY OldestFirst DEF Files
  <2> HIDE DEF Begin
  <2> QED BY <2>1, LeastNat
<1>3. a \in Files /\ s[a] <= r
  BY <1>2
<1>4. r < End(s, a, last)
  <2>1. CASE a = 0
    BY <1>1, <2>1 DEF End
  <2>2. CASE a # 0
    <3>1. a - 1 \in Files /\ ~ (a <= a - 1) /\ s[a - 1] \in Int
      BY <1>3, <2>2, OldestFirst DEF Files
    <3>2. a - 1 \notin Begin
      BY <1>2, <3>1
    <3> QED BY <1>1, <2>2, <3>1, <3>2 DEF End
  <2> QED BY <2>1, <2>2
<1> HIDE DEF Begin
<1>5. PICK k \in Files : AgeIn(log_index, k) = a
  BY <1>1, <1>3, OfAge
<1>6. Content(ToSet(file[k]), k \notin uncleared, s, a, first, last, dropped)
  BY <1>5 DEF Contents
<1>7. r \in ToSet(file[k]) \cup dropped
  BY <1>3, <1>4, <1>6 DEF Content
<1> QED BY <1>1, <1>7 DEF Held

\* Whatever files could not be opened or cleared (my_log_init), and wherever
\* the counter wraps, write_record's rotation leaves the newest records in the
\* files: of the last Kept of this process only those are missing that were
\* handed in while no file was open (easy_log.h:25-79).
THEOREM NewestKeptCorrect == Spec => []NewestKept
<1>1. LogInv => NewestKept
  <2> SUFFICES ASSUME LogInv, NEW r \in first .. last, r > last - Kept
               PROVE  r \in Held \cup dropped
    BY DEF NewestKept
  <2>1. PICK s \in [Files -> Int], q \in Nat, m \in 0 .. RecordSum - 1 : Layout(s, q, m) /\ Contents(s)
    BY DEF LogInv
  <2> DEFINE o == LogSum - 1
  <2>2. /\ first \in Nat /\ last \in Nat /\ r \in Int /\ r >= first /\ RecordSum \in Nat
        /\ o \in Files /\ s[o] \in Int /\ s[0] \in Int /\ s[o] <= s[0]
    BY <2>1, OldestFirst, LogAssumption DEF LogInv, LogTypes, Layout, Files
  <2>3. /\ Span(o) \in Int /\ Span(o - 1) \in Int /\ Span(o) = Span(o - 1) + RecordSum
        /\ Kept = Span(o - 1) + Shortest + 1
        /\ Shortest \in Nat /\ Shortest <= RecordSum - 1
    <3>1. o \in Int /\ o - 1 \in Int /\ (o - 1) + 1 = o /\ o - 1 = LogSum - 2
      BY LogAssumption
    <3>2. Kept = Span(o - 1) + Shortest + 1
      BY <3>1 DEF Kept, Span
    <3> QED BY <3>1, <3>2, SpanIs, ShortestIs
  <2> HIDE DEF o
  <2>4. s[o] <= r
    <3>1. CASE ~ (s[o] > first)
      BY <2>2, <3>1
    <3>2. CASE s[o] > first
      <4>1. s[0] = last - m
        BY <2>1, <2>2, <3>2 DEF Layout
      <4>2. IF o <= q THEN s[0] - s[o] = Span(o) ELSE s[0] - s[o] >= Span(o - 1) + Shortest
        BY <2>1, <2>2, <3>2 DEF Layout
      <4>3. s[0] - s[o] >= Span(o - 1) + Shortest
        BY <2>2, <2>3, <4>2
      <4> QED BY <2>2, <2>3, <4>1, <4>3
    <3> QED BY <3>1, <3>2
  <2> QED BY <2>1, <2>4, Covered DEF o
<1> QED BY <1>1, LogInvariant, PTL

\* However often the process is restarted and whichever files could not be
\* cleared or opened, the files read in the order of the rotation give each
\* record once and in order; between two of them only dropped ones are missing
\* (write_record, my_log_init, easy_log.h:25-79).
THEOREM FilesInOrderCorrect == Spec => []FilesInOrder
<1>1. LogInv => FilesInOrder
  <2> SUFFICES ASSUME LogInv PROVE FilesInOrder
    OBVIOUS
  <2>1. PICK s \in [Files -> Int], q \in Nat, m \in 0 .. RecordSum - 1 : Layout(s, q, m) /\ Contents(s)
    BY DEF LogInv
  <2>2. /\ first \in Nat /\ last \in Nat /\ log_index \in Files /\ Ordered(file, last)
        /\ DOMAIN file = Files
    BY DEF LogInv, LogTypes, Ordered
  <2>3. \A i, j \in Files : i <= j => s[j] <= s[i]
    BY <2>1 DEF Layout
  <2>4. \A k \in Files : Age(k) \in Files /\ Age(k) = AgeIn(log_index, k)
    BY <2>2, AgeIs, AgesRotate DEF Age
  <2>5. \A k \in Files :
          Content(ToSet(file[k]), k \notin uncleared, s, Age(k), first, last, dropped)
    BY <2>1, <2>4 DEF Contents
  <2>6. \A k \in Files : \A x \in ToSet(file[k]) : x \in Nat /\ x <= last
    BY <2>2, RecordNumbers
  <2>7. ASSUME NEW k \in Files, NEW x \in OfThisProcess(k)
        PROVE  /\ x \in ToSet(file[k]) /\ x \in first .. last /\ k \notin uncleared
               /\ s[Age(k)] <= x
    <3>1. x \in ToSet(file[k]) /\ x >= first /\ k \notin uncleared
      BY DEF OfThisProcess
    <3>2. x \in first .. last
      BY <2>2, <2>6, <3>1
    <3> QED BY <2>5, <3>1, <3>2 DEF Content
  <2>8. ASSUME NEW j \in Files, NEW k \in Files, Age(j) > Age(k),
               NEW x \in OfThisProcess(j), NEW y \in OfThisProcess(k)
        PROVE  x < y
    <3>1. x < End(s, Age(j), last)
      BY <2>5, <2>7 DEF Content
    <3>2. Age(j) # 0 /\ Age(k) <= Age(j) - 1 /\ Age(j) - 1 \in Files /\ Age(k) \in Files
      <4>1. Age(j) \in Nat /\ Age(k) \in Nat /\ Age(j) \in Files /\ Age(k) \in Files
        BY <2>4 DEF Files
      <4>2. Age(j) # 0 /\ Age(k) <= Age(j) - 1
        BY <2>8, <4>1
      <4> QED BY <4>1, <4>2, OldestFirst
    <3>3. End(s, Age(j), last) = s[Age(j) - 1] /\ s[Age(j) - 1] <= s[Age(k)]
      BY <2>3, <3>2 DEF End
    <3>4. s[Age(k)] <= y /\ x \in Int /\ y \in Int
      BY <2>2, <2>7
    <3>5. s[Age(j) - 1] \in Int /\ s[Age(k)] \in Int
      BY <3>2
    <3> QED BY <3>1, <3>3, <3>4, <3>5
  <2>9. ASSUME uncleared = {}, NEW j \in Files, NEW k \in Files,
               NEW x \in OfThisProcess(j), NEW y \in OfThisProcess(k), NEW r \in x .. y
        PROVE  r \in Held \cup dropped
    <3>1. x \in first .. last /\ y \in first .. last /\ s[Age(j)] <= x
      BY <2>7
    <3>2. Age(j) \in Files /\ LogSum - 1 \in Files /\ Age(j) <= LogSum - 1
      BY <2>4, OldestFirst DEF Files
    <3>3. s[LogSum - 1] <= s[Age(j)] /\ s[LogSum - 1] \in Int /\ s[Age(j)] \in Int
      BY <2>3, <3>2
    <3>4. r \in first .. last /\ s[LogSum - 1] <= r
      BY <2>2, <3>1, <3>3
    <3> QED BY <2>1, <3>4, Covered
  <2>10. \A k \in Files : \A i, j \in DOMAIN file[k] : i < j => file[k][i] < file[k][j]
    BY <2>2 DEF Ordered, Increasing
  <2>11. \A j, k \in Files : j # k => ToSet(file[j]) \cap ToSet(file[k]) = {}
    BY <2>2 DEF Ordered
  <2>12. uncleared = {} =>
           \A x, y \in UNION {OfThisProcess(k) : k \in Files} : x .. y \subseteq Held \cup dropped
    <3> SUFFICES ASSUME uncleared = {}, NEW x \in UNION {OfThisProcess(k) : k \in Files},
                        NEW y \in UNION {OfThisProcess(k) : k \in Files}, NEW r \in x .. y
                 PROVE  r \in Held \cup dropped
      OBVIOUS
    <3>1. PICK j \in Files : x \in OfThisProcess(j)
      OBVIOUS
    <3>2. PICK k \in Files : y \in OfThisProcess(k)
      OBVIOUS
    <3> QED BY <2>9, <3>1, <3>2
  <2> QED BY <2>2, <2>8, <2>10, <2>11, <2>12 DEF FilesInOrder
<1> QED BY <1>1, LogInvariant, PTL
=============================================================================
