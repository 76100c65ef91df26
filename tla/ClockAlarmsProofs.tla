-------------------------- MODULE ClockAlarmsProofs --------------------------
(***************************************************************************)
(* Alarms for any number of alarms, intervals, increments and any depth of *)
(* alarm functions: linked while enabled, on schedule, never overdue and   *)
(* called once for each trigger.                                           *)
(***************************************************************************)
EXTENDS ClockAlarms, WellFoundedInduction, SequenceTheorems, TLAPS

-----------------------------------------------------------------------------
(* Lists of alarms.                                                        *)

Distinct(q) == \A m, n \in 1..Len(q) : q[m] = q[n] => m = n

\* The list is in the order of the triggers t.
Rising(q, t) == \A m, n \in 1..Len(q) : m <= n => t[q[m]] <= t[q[n]]

\* A set of numbers that is not empty has a least one.
LEMMA LeastNumber ==
    ASSUME NEW S \in SUBSET Nat, S # {}
    PROVE  \E n \in S : \A m \in S : n <= m
<1> DEFINE R == OpToRel(<, Nat)
<1>1. IsWellFoundedOn(R, Nat)
  BY NatLessThanWellFounded
<1>2. PICK n \in S : \A m \in S : ~(<<m, n>> \in R)
  BY <1>1, WFMin, Zenon
<1>3. \A m \in S : ~(m < n)
  BY <1>2 DEF OpToRel
<1> QED BY <1>3

\* The alarms on a list, by position.
LEMMA OnList ==
    ASSUME NEW S, NEW q \in Seq(S)
    PROVE  \A a : a \in Range(q) <=> \E n \in 1..Len(q) : q[n] = a
BY DEF Range

\* What is left without the element at n.
LEMMA RemoveAtFacts ==
    ASSUME NEW S, NEW q \in Seq(S), NEW n \in 1..Len(q)
    PROVE  /\ RemoveAt(q, n) \in Seq(S) /\ Len(RemoveAt(q, n)) = Len(q) - 1
           /\ \A i \in 1..Len(q)-1 : RemoveAt(q, n)[i] = IF i < n THEN q[i] ELSE q[i+1]
<1> DEFINE p == SubSeq(q, 1, n-1)
           r == SubSeq(q, n+1, Len(q))
           c == RemoveAt(q, n)
<1>1. p \in Seq(S) /\ Len(p) = n - 1 /\ \A i \in 1..n-1 : p[i] = q[i]
  OBVIOUS
<1>2. r \in Seq(S) /\ Len(r) = Len(q) - n /\ \A i \in 1..Len(q)-n : r[i] = q[n+i]
  OBVIOUS
<1>3. c = p \o r
  BY DEF RemoveAt
<1> HIDE DEF p, r, c
<1>4. /\ c \in Seq(S) /\ Len(c) = Len(p) + Len(r)
      /\ \A i \in 1..Len(p)+Len(r) : c[i] = IF i <= Len(p) THEN p[i] ELSE r[i - Len(p)]
  BY <1>1, <1>2, <1>3, ConcatProperties
<1>5. ASSUME NEW i \in 1..Len(q)-1 PROVE c[i] = IF i < n THEN q[i] ELSE q[i+1]
  <2>1. CASE i < n
    <3>1. i \in 1..n-1 /\ i \in 1..Len(p)+Len(r) /\ i <= Len(p)
      BY <1>1, <1>2, <2>1
    <3>2. c[i] = q[i]
      BY <1>1, <1>4, <3>1
    <3> QED BY <2>1, <3>2
  <2>2. CASE i >= n
    <3>1. i - (n-1) \in 1..Len(q)-n /\ n + (i - (n-1)) = i + 1
      BY <2>2
    <3>2. i \in 1..Len(p)+Len(r) /\ ~(i <= Len(p)) /\ Len(p) = n - 1
      BY <1>1, <1>2, <2>2
    <3>3. c[i] = r[i - (n-1)]
      BY ONLY <1>4, <3>2
    <3>4. r[i - (n-1)] = q[i + 1]
      BY ONLY <1>2, <3>1
    <3> QED BY <2>2, <3>3, <3>4
  <2> QED BY <2>1, <2>2
<1> QED BY <1>1, <1>2, <1>4, <1>5 DEF c

\* unlink() takes one alarm off a list and leaves the others in their order.
LEMMA UnlinkFacts ==
    ASSUME NEW S, NEW q \in Seq(S), Distinct(q), NEW a
    PROVE  /\ unlink(q, a) \in Seq(S) /\ Distinct(unlink(q, a))
           /\ Range(unlink(q, a)) = Range(q) \ {a}
           /\ \A t : Rising(q, t) => Rising(unlink(q, a), t)
<1>1. CASE a \notin Range(q)
  BY <1>1 DEF unlink
<1>2. CASE a \in Range(q)
  <2> DEFINE n == CHOOSE n \in DOMAIN q : q[n] = a
             r == RemoveAt(q, n)
             at(i) == IF i < n THEN i ELSE i + 1
  <2>1. n \in 1..Len(q) /\ q[n] = a
    BY <1>2 DEF Range
  <2>2. unlink(q, a) = r
    BY <1>2 DEF unlink
  <2> HIDE DEF n
  <2>3. r \in Seq(S) /\ Len(r) = Len(q) - 1
    BY <2>1, RemoveAtFacts
  <2>4. \A i \in 1..Len(r) : at(i) \in 1..Len(q) \ {n} /\ r[i] = q[at(i)]
    BY <2>1, <2>3, RemoveAtFacts
  <2>5. \A i, j \in 1..Len(r) : i <= j => at(i) <= at(j)
    BY <2>1, <2>3
  <2>6. \A i, j \in 1..Len(r) : at(i) = at(j) => i = j
    BY <2>1, <2>3
  <2>7. \A m \in 1..Len(q) \ {n} : \E i \in 1..Len(r) : at(i) = m
    <3> SUFFICES ASSUME NEW m \in 1..Len(q) \ {n}
                 PROVE  \E i \in 1..Len(r) : at(i) = m
      OBVIOUS
    <3>1. CASE m < n
      <4>1. m \in 1..Len(r) /\ at(m) = m
        BY <2>1, <2>3, <3>1
      <4> QED BY <4>1
    <3>2. CASE m > n
      <4>1. m - 1 \in 1..Len(r) /\ at(m - 1) = m
        BY <2>1, <2>3, <3>2
      <4> QED BY <4>1
    <3> QED BY <2>1, <3>1, <3>2
  <2> HIDE DEF r, at
  <2>8. Distinct(r)
    BY <2>4, <2>6 DEF Distinct
  <2>9. Range(r) = Range(q) \ {a}
    <3>1. ASSUME NEW b \in Range(r) PROVE b \in Range(q) \ {a}
      <4>1. PICK i \in 1..Len(r) : r[i] = b
        BY <2>3, <3>1, OnList
      <4>2. at(i) \in 1..Len(q) /\ at(i) # n /\ q[at(i)] = b
        BY <2>4, <4>1
      <4> QED BY <2>1, <4>2, OnList DEF Distinct
    <3>2. ASSUME NEW b \in Range(q) \ {a} PROVE b \in Range(r)
      <4>1. PICK m \in 1..Len(q) : q[m] = b
        BY <3>2, OnList
      <4>2. PICK i \in 1..Len(r) : at(i) = m
        BY <2>1, <2>7, <3>2, <4>1
      <4> QED BY <2>3, <2>4, <4>1, <4>2, OnList
    <3> QED BY <3>1, <3>2
  <2>10. ASSUME NEW t, Rising(q, t) PROVE Rising(r, t)
    BY <2>4, <2>5, <2>10 DEF Rising
  <2> QED BY <2>2, <2>3, <2>8, <2>9, <2>10
<1> QED BY <1>1, <1>2

\* Where an element at n makes room for another one.
Shift(i, n) == IF i < n THEN i ELSE i + 1

\* r is q with a at position n.
Spliced(r, q, n, a) ==
    /\ n \in 1..Len(q)+1 /\ Len(r) = Len(q) + 1 /\ r[n] = a
    /\ \A i \in 1..Len(q) : r[Shift(i, n)] = q[i]

\* Positions of a list and of the one with another element.
LEMMA ShiftFacts ==
    ASSUME NEW l \in Nat, NEW n \in 1..l+1
    PROVE  /\ \A i \in 1..l : Shift(i, n) \in 1..l+1 /\ Shift(i, n) # n
           /\ \A i, j \in 1..l : Shift(i, n) <= Shift(j, n) => i <= j
           /\ \A i, j \in 1..l : Shift(i, n) = Shift(j, n) => i = j
           /\ \A i \in 1..l : (Shift(i, n) < n => i < n) /\ (Shift(i, n) > n => i >= n)
           /\ \A m \in 1..l+1 : m # n => \E i \in 1..l : Shift(i, n) = m
<1>1. ASSUME NEW m \in 1..l+1, m # n PROVE \E i \in 1..l : Shift(i, n) = m
  <2>1. CASE m < n
    <3>1. m \in 1..l /\ Shift(m, n) = m
      BY <2>1 DEF Shift
    <3> QED BY <3>1
  <2>2. CASE m > n
    <3>1. m - 1 \in 1..l /\ Shift(m - 1, n) = m
      BY <2>2 DEF Shift
    <3> QED BY <3>1
  <2> QED BY <1>1, <2>1, <2>2
<1> QED BY <1>1 DEF Shift

\* InsertAt() does that.
LEMMA InsertAtFacts ==
    ASSUME NEW S, NEW q \in Seq(S), NEW n \in 1..Len(q)+1, NEW a \in S
    PROVE  InsertAt(q, n, a) \in Seq(S) /\ Spliced(InsertAt(q, n, a), q, n, a)
<1> DEFINE p == SubSeq(q, 1, n-1)
           s == SubSeq(q, n, Len(q))
           u == p \o <<a>>
<1>1. p \in Seq(S) /\ Len(p) = n - 1 /\ \A i \in 1..n-1 : p[i] = q[i]
  OBVIOUS
<1>2. s \in Seq(S) /\ Len(s) = Len(q) - n + 1 /\ \A i \in 1..Len(s) : s[i] = q[n - 1 + i]
  OBVIOUS
<1>3. <<a>> \in Seq(S) /\ Len(<<a>>) = 1 /\ <<a>>[1] = a
  OBVIOUS
<1> HIDE DEF p, s
<1>4. /\ u \in Seq(S) /\ Len(u) = n
      /\ \A i \in 1..n : u[i] = IF i <= n - 1 THEN p[i] ELSE <<a>>[i - (n-1)]
  BY <1>1, <1>3, ConcatProperties
<1>5. u[n] = a /\ \A i \in 1..n-1 : u[i] = q[i]
  <2>1. u[n] = <<a>>[1]
    BY <1>4
  <2> QED BY <1>1, <1>3, <1>4, <2>1
<1> DEFINE c == u \o s
<1>6. c = InsertAt(q, n, a)
  BY DEF InsertAt, u, p, s
<1> HIDE DEF u
<1>7. /\ c \in Seq(S) /\ Len(c) = Len(u) + Len(s)
      /\ \A i \in 1..Len(u)+Len(s) : c[i] = IF i <= Len(u) THEN u[i] ELSE s[i - Len(u)]
  <2>1. u \in Seq(S) /\ s \in Seq(S)
    BY <1>2, <1>4
  <2> HIDE DEF u
  <2> QED BY ONLY <2>1, ConcatProperties DEF c
<1> HIDE DEF c
<1>8. ASSUME NEW i \in 1..Len(q) PROVE c[Shift(i, n)] = q[i]
  <2>1. CASE i < n
    BY <1>2, <1>4, <1>5, <1>7, <2>1 DEF Shift
  <2>2. CASE i >= n
    <3>1. i + 1 - n \in 1..Len(s) /\ n - 1 + (i + 1 - n) = i
      BY <1>2, <2>2
    <3>2. s[i + 1 - n] = q[i]
      BY <1>2, <3>1
    <3>3. Shift(i, n) = i + 1
      BY <2>2 DEF Shift
    <3> QED BY <1>2, <1>4, <1>7, <2>2, <3>2, <3>3
  <2> QED BY <2>1, <2>2
<1>9. c[n] = a
  BY <1>2, <1>4, <1>5, <1>7
<1>10. Len(c) = Len(q) + 1
  BY <1>2, <1>4, <1>7
<1> QED BY <1>6, <1>7, <1>8, <1>9, <1>10 DEF Spliced

\* A spliced list has one element more.
LEMMA SplicedFacts ==
    ASSUME NEW S, NEW q \in Seq(S), NEW r \in Seq(S), NEW n, NEW a, Spliced(r, q, n, a)
    PROVE  /\ Range(r) = Range(q) \cup {a}
           /\ Distinct(q) /\ a \notin Range(q) => Distinct(r)
<1>1. /\ \A i \in 1..Len(q) : Shift(i, n) \in 1..Len(r) /\ Shift(i, n) # n
      /\ \A m \in 1..Len(r) : m # n => \E i \in 1..Len(q) : Shift(i, n) = m
      /\ n \in 1..Len(r) /\ r[n] = a
      /\ \A i \in 1..Len(q) : r[Shift(i, n)] = q[i]
  <2>1. Len(q) \in Nat /\ n \in 1..Len(q)+1 /\ Len(r) = Len(q) + 1
    BY DEF Spliced
  <2>2. /\ \A i \in 1..Len(q) : Shift(i, n) \in 1..Len(q)+1 /\ Shift(i, n) # n
        /\ \A m \in 1..Len(q)+1 : m # n => \E i \in 1..Len(q) : Shift(i, n) = m
    BY ONLY <2>1, ShiftFacts
  <2>3. r[n] = a /\ \A i \in 1..Len(q) : r[Shift(i, n)] = q[i]
    BY DEF Spliced
  <2> QED BY ONLY <2>1, <2>2, <2>3
<1>2. ASSUME NEW b \in Range(r) PROVE b \in Range(q) \cup {a}
  <2>1. PICK m \in 1..Len(r) : r[m] = b
    BY <1>2, OnList
  <2>2. CASE m = n
    BY <1>1, <2>1, <2>2
  <2>3. CASE m # n
    <3>1. PICK i \in 1..Len(q) : Shift(i, n) = m
      BY <1>1, <2>3
    <3>2. q[i] = b
      BY <1>1, <2>1, <3>1
    <3> QED BY <3>2, OnList
  <2> QED BY <2>2, <2>3
<1>3. ASSUME NEW b \in Range(q) \cup {a} PROVE b \in Range(r)
  <2>1. CASE b = a
    BY <1>1, <2>1, OnList
  <2>2. CASE b \in Range(q)
    <3>1. PICK i \in 1..Len(q) : q[i] = b
      BY <2>2, OnList
    <3> QED BY <1>1, <3>1, OnList
  <2> QED BY <1>3, <2>1, <2>2
<1>4. ASSUME Distinct(q), a \notin Range(q) PROVE Distinct(r)
  <2>1. \A i \in 1..Len(q) : q[i] # a
    BY <1>4, OnList
  <2> SUFFICES ASSUME NEW l \in 1..Len(r), NEW m \in 1..Len(r), r[l] = r[m]
               PROVE  l = m
    BY DEF Distinct
  <2>2. CASE l = n \/ m = n
    BY <1>1, <2>1, <2>2
  <2>3. CASE l # n /\ m # n
    <3>1. PICK i \in 1..Len(q) : Shift(i, n) = l
      BY <1>1, <2>3
    <3>2. PICK j \in 1..Len(q) : Shift(j, n) = m
      BY <1>1, <2>3
    <3>3. q[i] = q[j]
      BY <1>1, <3>1, <3>2
    <3> QED BY <1>4, <3>1, <3>2, <3>3 DEF Distinct
  <2> QED BY <2>2, <2>3
<1> QED BY <1>2, <1>3, <1>4

\* An element between smaller ones and larger ones keeps a list sorted.
LEMMA SplicedRising ==
    ASSUME NEW q \in Seq(Alarms), NEW r \in Seq(Alarms), NEW n, NEW a \in Alarms,
           NEW t \in [Alarms -> Int], Spliced(r, q, n, a), Rising(q, t),
           \A i \in 1..Len(q) : i < n => t[q[i]] <= t[a],
           \A i \in 1..Len(q) : i >= n => t[a] <= t[q[i]]
    PROVE  Rising(r, t)
<1>1. /\ \A m \in 1..Len(r) : m # n => \E i \in 1..Len(q) : Shift(i, n) = m
      /\ n \in 1..Len(r) /\ r[n] = a /\ Len(q) \in Nat
      /\ \A i \in 1..Len(q) : r[Shift(i, n)] = q[i]
  BY ShiftFacts DEF Spliced
<1>2. /\ \A i \in 1..Len(q) : (Shift(i, n) < n => i < n) /\ (Shift(i, n) > n => i >= n)
      /\ \A i, j \in 1..Len(q) : Shift(i, n) <= Shift(j, n) => i <= j
  BY ShiftFacts DEF Spliced
<1> SUFFICES ASSUME NEW l \in 1..Len(r), NEW m \in 1..Len(r), l <= m
             PROVE  t[r[l]] <= t[r[m]]
  BY DEF Rising
<1>3. t[r[l]] \in Int /\ t[r[m]] \in Int
  OBVIOUS
<1>4. CASE l = m
  BY <1>3, <1>4
<1>5. CASE l = n /\ m # n
  <2>1. PICK j \in 1..Len(q) : Shift(j, n) = m
    BY <1>1, <1>5
  <2>2. j >= n
    BY <1>1, <1>2, <1>5, <2>1
  <2> QED BY <1>1, <1>5, <2>1, <2>2
<1>6. CASE m = n /\ l # n
  <2>1. PICK i \in 1..Len(q) : Shift(i, n) = l
    BY <1>1, <1>6
  <2>2. i < n
    BY <1>1, <1>2, <1>6, <2>1
  <2> QED BY <1>1, <1>6, <2>1, <2>2
<1>7. CASE l # n /\ m # n
  <2>1. PICK i \in 1..Len(q) : Shift(i, n) = l
    BY <1>1, <1>7
  <2>2. PICK j \in 1..Len(q) : Shift(j, n) = m
    BY <1>1, <1>7
  <2>3. i <= j
    BY <1>2, <2>1, <2>2
  <2> QED BY <1>1, <2>1, <2>2, <2>3 DEF Rising
<1> QED BY <1>4, <1>5, <1>6, <1>7

\* insert() puts one alarm on a list, and keeps a sorted one sorted.
LEMMA InsertFacts ==
    ASSUME NEW q \in Seq(Alarms), NEW a \in Alarms, NEW t \in [Alarms -> Int]
    PROVE  /\ insert(q, a, t) \in Seq(Alarms)
           /\ Range(insert(q, a, t)) = Range(q) \cup {a}
           /\ Distinct(q) /\ a \notin Range(q) => Distinct(insert(q, a, t))
           /\ sorted /\ Rising(q, t) => Rising(insert(q, a, t), t)
<1> DEFINE later == {n \in 1..Len(q) : t[q[n]] > t[a]}
           r == insert(q, a, t)
<1>1. \A i \in 1..Len(q) : q[i] \in Alarms /\ t[q[i]] \in Int /\ t[a] \in Int
  OBVIOUS
<1>2. CASE sorted /\ later # {}
  <2> DEFINE n == CHOOSE n \in later : \A m \in later : n <= m
  <2>1. later \in SUBSET Nat
    OBVIOUS
  <2>2. \E l \in later : \A m \in later : l <= m
    <3> HIDE DEF later
    <3> QED BY <1>2, <2>1, LeastNumber
  <2>3. n \in later /\ \A m \in later : n <= m
    <3> HIDE DEF later
    <3> QED BY <2>2, Zenon
  <2>4. r = InsertAt(q, n, a)
    BY <1>2 DEF insert
  <2> HIDE DEF n, r
  <2>5. n \in 1..Len(q) /\ t[q[n]] > t[a]
    BY <2>3
  <2>6. r \in Seq(Alarms) /\ Spliced(r, q, n, a)
    <3>1. n \in 1..Len(q)+1
      BY <2>5
    <3> HIDE DEF later
    <3> QED BY ONLY <2>4, <3>1, InsertAtFacts
  <2>7. \A i \in 1..Len(q) : i < n => t[q[i]] <= t[a]
    BY <1>1, <2>3, <2>5
  <2>8. ASSUME Rising(q, t), NEW i \in 1..Len(q), i >= n PROVE t[a] <= t[q[i]]
    <3>1. t[q[n]] <= t[q[i]]
      BY <2>5, <2>8 DEF Rising
    <3> QED BY <1>1, <2>5, <3>1
  <2>9. Rising(q, t) => Rising(r, t)
    BY <2>6, <2>7, <2>8, SplicedRising
  <2> QED BY <2>6, <2>9, SplicedFacts DEF r
<1>3. CASE ~(sorted /\ later # {})
  <2>1. r = Append(q, a)
    BY <1>3 DEF insert
  <2> HIDE DEF r
  <2>2. r \in Seq(Alarms) /\ Spliced(r, q, Len(q) + 1, a)
    BY <2>1 DEF Spliced, Shift
  <2>3. sorted => \A i \in 1..Len(q) : t[q[i]] <= t[a]
    BY <1>1, <1>3
  <2>4. sorted /\ Rising(q, t) => Rising(r, t)
    <3>1. \A i \in 1..Len(q) : i < Len(q) + 1
      OBVIOUS
    <3> QED BY <2>2, <2>3, <3>1, SplicedRising
  <2> QED BY <2>2, <2>4, SplicedFacts DEF r
<1> QED BY <1>2, <1>3

-----------------------------------------------------------------------------
(* Calls under way.                                                        *)

\* A frame of this kind for the alarm a is among fs.
In(p, a, fs) == \E n \in 1..Len(fs) : fs[n].pc = p /\ fs[n].alarm = a

\* tick() is the outermost call.
Ticking(fs) == fs # <<>> /\ fs[Len(fs)].pc = "scan"

\* How calls nest: the loop of tick() is outermost, what it calls comes next,
\* after add_alarm() of the same alarm if that called it first; add_alarm() of
\* one alarm is never under way twice.
Nested(fs) ==
    /\ fs \in Seq(Frame)
    /\ \A n \in 1..Len(fs) :
         /\ fs[n].pc = "scan" => n = Len(fs)
         /\ fs[n].pc # "scan" => fs[n].alarm \in Alarms
         /\ fs[n].pc = "call" =>
              /\ n = Len(fs) - 1 /\ fs[Len(fs)].pc = "scan"
              /\ n > 1 => fs[n-1].pc = "added" /\ fs[n-1].alarm = fs[n].alarm
    /\ \A m, n \in 1..Len(fs) :
         fs[m].pc = "added" /\ fs[n].pc = "added" /\ fs[m].alarm = fs[n].alarm => m = n

\* gs is fs but for what an alarm function may still do.
Alike(gs, fs) ==
    /\ Len(gs) = Len(fs)
    /\ \A n \in 1..Len(fs) : gs[n].pc = fs[n].pc /\ gs[n].alarm = fs[n].alarm

\* Adding by position.
LEMMA AddingIn ==
    ASSUME frames \in Seq(Frame)
    PROVE  \A a : a \in Adding <=> In("added", a, frames)
<1>1. \A f : f \in Range(frames) <=> \E n \in 1..Len(frames) : frames[n] = f
  BY OnList
<1> QED BY <1>1 DEF Adding, In

\* Frames as they are made.
LEMMA FrameTypes ==
    ASSUME NEW a \in Alarms
    PROVE  /\ frame("run", a) \in Frame /\ frame("run", a).pc = "run"
           /\ frame("added", a) \in Frame /\ frame("added", a).pc = "added"
           /\ frame("call", a) \in Frame /\ frame("call", a).pc = "call"
           /\ frame("scan", NoAlarm) \in Frame /\ frame("scan", NoAlarm).pc = "scan"
           /\ frame("run", a).alarm = a /\ frame("added", a).alarm = a
           /\ frame("call", a).alarm = a
BY AlarmBoundAssumption DEF frame, Frame

\* What is alike nests alike.
LEMMA AlikeNested ==
    ASSUME NEW fs, NEW gs \in Seq(Frame), Nested(fs), Alike(gs, fs)
    PROVE  /\ Nested(gs)
           /\ \A p, a : In(p, a, gs) <=> In(p, a, fs)
           /\ Ticking(gs) <=> Ticking(fs)
<1>1. Len(fs) \in Nat /\ fs \in Seq(Frame) /\ Len(gs) = Len(fs)
  BY DEF Nested, Alike
<1>2. gs = <<>> <=> fs = <<>>
  BY <1>1
<1>3. Len(fs) # 0 => Len(fs) \in 1..Len(fs)
  BY <1>1
<1>4. Ticking(gs) <=> Ticking(fs)
  BY <1>1, <1>2, <1>3 DEF Ticking, Alike
<1>5. \A p, a : In(p, a, gs) <=> In(p, a, fs)
  BY <1>1 DEF In, Alike
<1>6. \A n \in 1..Len(fs) : n > 1 => n - 1 \in 1..Len(fs)
  BY <1>1
<1>7. Nested(gs)
  <2>1. \A n \in 1..Len(fs) : gs[n].pc = fs[n].pc /\ gs[n].alarm = fs[n].alarm
    BY DEF Alike
  <2>2. ASSUME NEW n \in 1..Len(fs)
        PROVE  /\ gs[n].pc = "scan" => n = Len(fs)
               /\ gs[n].pc # "scan" => gs[n].alarm \in Alarms
    BY <2>1 DEF Nested
  <2>3. ASSUME NEW n \in 1..Len(fs), gs[n].pc = "call"
        PROVE  /\ n = Len(fs) - 1 /\ gs[Len(fs)].pc = "scan"
               /\ n > 1 => gs[n-1].pc = "added" /\ gs[n-1].alarm = gs[n].alarm
    <3>1. /\ n = Len(fs) - 1 /\ fs[Len(fs)].pc = "scan"
          /\ n > 1 => fs[n-1].pc = "added" /\ fs[n-1].alarm = fs[n].alarm
      BY <2>1, <2>3 DEF Nested
    <3> QED BY <1>1, <1>3, <1>6, <2>1, <3>1
  <2>4. \A m, n \in 1..Len(fs) :
           gs[m].pc = "added" /\ gs[n].pc = "added" /\ gs[m].alarm = gs[n].alarm => m = n
    BY <2>1 DEF Nested
  <2> QED BY <1>1, <2>2, <2>3, <2>4 DEF Nested
<1> QED BY <1>4, <1>5, <1>7

\* Elements of a sequence with one more at its head, and with its head replaced.
LEMMA Prepended ==
    ASSUME NEW x \in Frame, NEW fs \in Seq(Frame)
    PROVE  /\ <<x>> \o fs \in Seq(Frame) /\ Len(<<x>> \o fs) = Len(fs) + 1
           /\ (<<x>> \o fs)[1] = x
           /\ \A n \in 1..Len(fs) : (<<x>> \o fs)[n + 1] = fs[n]
<1>1. <<x>> \in Seq(Frame) /\ Len(<<x>>) = 1 /\ <<x>>[1] = x
  OBVIOUS
<1> DEFINE s == <<x>>
           c == s \o fs
<1> HIDE DEF s
<1>2. /\ c \in Seq(Frame) /\ Len(c) = 1 + Len(fs)
      /\ \A i \in 1..1+Len(fs) : c[i] = IF i <= 1 THEN s[i] ELSE fs[i - 1]
  BY <1>1, ConcatProperties DEF s
<1> HIDE DEF c
<1>3. c[1] = x
  BY <1>1, <1>2 DEF s
<1>4. ASSUME NEW n \in 1..Len(fs) PROVE c[n + 1] = fs[n]
  <2>1. n + 1 \in 1..1+Len(fs) /\ ~(n + 1 <= 1) /\ (n + 1) - 1 = n
    OBVIOUS
  <2> QED BY <1>2, <2>1
<1> QED BY <1>2, <1>3, <1>4 DEF c, s

\* The innermost call, and the others.
LEMMA HeadTail ==
    ASSUME NEW fs \in Seq(Frame), fs # <<>>
    PROVE  /\ Len(fs) \in Nat \ {0} /\ Head(fs) = fs[1] /\ Head(fs) \in Frame
           /\ Tail(fs) \in Seq(Frame) /\ Len(Tail(fs)) = Len(fs) - 1
           /\ \A n \in 1..Len(fs)-1 : Tail(fs)[n] = fs[n + 1]
OBVIOUS

\* A caller's own frame changes only in what it may still do.
LEMMA CalledAlike ==
    ASSUME Nested(frames), Caller
    PROVE  /\ Nested(Called)
           /\ \A p, a : In(p, a, Called) <=> In(p, a, frames)
           /\ Ticking(Called) <=> Ticking(frames)
<1>1. CASE AtRest
  BY <1>1 DEF AtRest, Called
<1>2. CASE ~AtRest
  <2>1. frames \in Seq(Frame) /\ frames # <<>> /\ Head(frames).left > 0
    BY <1>2 DEF Nested, Caller, At, AtRest
  <2> DEFINE x == [Head(frames) EXCEPT !.left = @ - 1]
  <2>2. x \in Frame /\ x.pc = frames[1].pc /\ x.alarm = frames[1].alarm
    <3>1. frames[1] \in Frame /\ Head(frames) = frames[1]
      BY <2>1, HeadTail
    <3> QED BY <2>1, <3>1, AlarmBoundAssumption DEF Frame
  <2>3. Called = <<x>> \o Tail(frames)
    BY <1>2 DEF Called
  <2> HIDE DEF x
  <2>4. Called \in Seq(Frame) /\ Alike(Called, frames)
    <3>1. /\ Called \in Seq(Frame) /\ Len(Called) = Len(frames)
          /\ Called[1] = x
          /\ \A n \in 1..Len(frames)-1 : Called[n + 1] = frames[n + 1]
      BY <2>1, <2>2, <2>3, Prepended, HeadTail
    <3>2. \A n \in 1..Len(frames) : n # 1 => n - 1 \in 1..Len(frames)-1 /\ (n - 1) + 1 = n
      BY <2>1
    <3> QED BY <2>2, <3>1, <3>2 DEF Alike
  <2> QED BY <2>4, AlikeNested
<1> QED BY <1>1, <1>2

\* The innermost call returns.
LEMMA ReturnNested ==
    ASSUME NEW fs, Nested(fs), fs # <<>>
    PROVE  LET top == Head(fs) rest == Tail(fs)
           IN  /\ Nested(rest) /\ top = fs[1]
               /\ \A p, a : In(p, a, fs) <=> In(p, a, rest) \/ (top.pc = p /\ top.alarm = a)
               /\ top.pc = "added" => ~In("added", top.alarm, rest)
               /\ top.pc # "scan" => (Ticking(rest) <=> Ticking(fs))
               /\ top.pc = "scan" => rest = <<>>
<1> DEFINE top == Head(fs)
           rest == Tail(fs)
           l == Len(fs)
<1>1. /\ l \in Nat \ {0} /\ top = fs[1] /\ rest \in Seq(Frame) /\ Len(rest) = l - 1
      /\ \A n \in 1..l-1 : rest[n] = fs[n + 1] /\ n + 1 \in 1..l
  BY HeadTail DEF Nested
<1>2. \A n \in 1..l : n # 1 => n - 1 \in 1..l-1 /\ rest[n-1] = fs[n]
  BY <1>1
<1> HIDE DEF l
<1>3. fs \in Seq(Frame) /\ 1 \in 1..l /\ l \in 1..l
  <2>1. fs \in Seq(Frame)
    BY DEF Nested
  <2> QED BY <1>1, <2>1
<1> HIDE DEF top, rest
<1>4. Nested(rest)
  <2>1. ASSUME NEW n \in 1..l-1
        PROVE  /\ rest[n].pc = "scan" => n = l - 1
               /\ rest[n].pc # "scan" => rest[n].alarm \in Alarms
    <3>1. /\ n + 1 \in 1..l /\ rest[n] = fs[n+1]
          /\ fs[n+1].pc = "scan" => n + 1 = l
          /\ fs[n+1].pc # "scan" => fs[n+1].alarm \in Alarms
      BY <1>1 DEF Nested, l
    <3> QED BY <1>1, <3>1
  <2>2. ASSUME NEW n \in 1..l-1, rest[n].pc = "call"
        PROVE  /\ n = (l - 1) - 1 /\ rest[l - 1].pc = "scan"
               /\ n > 1 => rest[n-1].pc = "added" /\ rest[n-1].alarm = rest[n].alarm
    <3>1. n + 1 = l - 1 /\ fs[l].pc = "scan"
          /\ n + 1 > 1 /\ fs[n].pc = "added" /\ fs[n].alarm = fs[n+1].alarm
      <4>1. /\ n + 1 = l - 1 /\ fs[l].pc = "scan"
            /\ n + 1 > 1 => fs[(n+1)-1].pc = "added" /\ fs[(n+1)-1].alarm = fs[n+1].alarm
        BY <1>1, <2>2 DEF Nested, l
      <4>2. n + 1 > 1 /\ (n + 1) - 1 = n
        OBVIOUS
      <4> QED BY <4>1, <4>2
    <3>2. l - 1 \in 1..l-1 /\ (l - 1) + 1 = l
      BY <1>1, <3>1
    <3>3. rest[l - 1].pc = "scan"
      BY <1>1, <3>1, <3>2
    <3>4. n > 1 => rest[n-1] = fs[n]
      BY <1>1, <1>2
    <3> QED BY <1>1, <3>1, <3>3, <3>4
  <2>3. ASSUME NEW m \in 1..l-1, NEW n \in 1..l-1, rest[m].pc = "added",
               rest[n].pc = "added", rest[m].alarm = rest[n].alarm
        PROVE  m = n
    <3>1. m + 1 = n + 1
      BY <1>1, <2>3 DEF Nested, l
    <3> QED BY <3>1
  <2> QED BY <1>1, <2>1, <2>2, <2>3 DEF Nested
<1>5. ASSUME NEW p, NEW a
      PROVE  In(p, a, fs) <=> In(p, a, rest) \/ (top.pc = p /\ top.alarm = a)
  BY <1>1, <1>2, <1>3 DEF In, l
<1>6. top.pc = "added" => ~In("added", top.alarm, rest)
  <2> SUFFICES ASSUME top.pc = "added", NEW n \in 1..l-1, rest[n].pc = "added",
                      rest[n].alarm = top.alarm
               PROVE  FALSE
    BY <1>1 DEF In
  <2>1. n + 1 = 1
    BY <1>1, <1>3 DEF Nested, l
  <2> QED BY <2>1
<1>7. top.pc # "scan" => (Ticking(rest) <=> Ticking(fs))
  <2> SUFFICES ASSUME top.pc # "scan" PROVE Ticking(rest) <=> Ticking(fs)
    OBVIOUS
  <2>1. CASE l = 1
    BY <1>1, <1>3, <2>1 DEF Ticking, l
  <2>2. CASE l # 1
    <3>1. rest # <<>> /\ rest[l - 1] = fs[l]
      BY <1>1, <1>2, <1>3, <2>2
    <3> QED BY <1>1, <3>1 DEF Ticking, l
  <2> QED BY <2>1, <2>2
<1>8. top.pc = "scan" => rest = <<>>
  <2>1. top.pc = "scan" => 1 = l
    BY <1>1, <1>3 DEF Nested, l
  <2>2. l = 1 => Len(rest) = 0
    BY <1>1
  <2> QED BY <1>1, <2>1, <2>2, EmptySeq
<1> QED BY <1>1, <1>4, <1>5, <1>6, <1>7, <1>8 DEF top, rest, l

\* A call begins.
LEMMA PushNested ==
    ASSUME NEW fs, Nested(fs), NEW x \in Frame, x.pc # "scan", x.alarm \in Alarms,
           x.pc = "call" => Len(fs) = 1 /\ fs[1].pc = "scan",
           x.pc = "added" => ~In("added", x.alarm, fs),
           fs # <<>> /\ fs[1].pc = "call" => x.pc = "added" /\ x.alarm = fs[1].alarm
    PROVE  LET gs == <<x>> \o fs
           IN  /\ Nested(gs) /\ gs[1] = x /\ gs # <<>>
               /\ \A p, a : In(p, a, gs) <=> In(p, a, fs) \/ (x.pc = p /\ x.alarm = a)
               /\ Ticking(gs) <=> Ticking(fs)
<1> DEFINE gs == <<x>> \o fs
           l == Len(fs)
<1>1. /\ l \in Nat /\ fs \in Seq(Frame) /\ gs \in Seq(Frame) /\ Len(gs) = l + 1 /\ gs[1] = x
      /\ \A n \in 1..l : gs[n + 1] = fs[n]
  BY Prepended DEF Nested
<1> HIDE DEF gs
<1>2. \A n \in 1..l+1 : n # 1 => n - 1 \in 1..l /\ gs[n] = fs[n-1]
  <2> SUFFICES ASSUME NEW n \in 1..l+1, n # 1
               PROVE  n - 1 \in 1..l /\ gs[n] = fs[n-1]
    OBVIOUS
  <2>1. n - 1 \in 1..l /\ (n - 1) + 1 = n
    BY <1>1
  <2> QED BY <1>1, <2>1
<1>3. fs # <<>> => l # 0 /\ l \in 1..l /\ 1 \in 1..l
  BY <1>1
<1>4. gs # <<>>
  BY <1>1
<1> HIDE DEF l
<1>5. ASSUME NEW p, NEW a
      PROVE  In(p, a, gs) <=> In(p, a, fs) \/ (x.pc = p /\ x.alarm = a)
  <2>1. ASSUME NEW n \in 1..l+1, gs[n].pc = p, gs[n].alarm = a
        PROVE  In(p, a, fs) \/ (x.pc = p /\ x.alarm = a)
    BY <1>1, <1>2, <2>1 DEF In, l
  <2>2. ASSUME NEW n \in 1..l, fs[n].pc = p, fs[n].alarm = a
        PROVE  In(p, a, gs)
    <3>1. n + 1 \in 1..l+1 /\ gs[n + 1] = fs[n]
      BY <1>1
    <3> QED BY <1>1, <2>2, <3>1 DEF In
  <2>3. x.pc = p /\ x.alarm = a => In(p, a, gs)
    <3>1. 1 \in 1..l+1
      BY <1>1
    <3> QED BY <1>1, <3>1 DEF In
  <2> QED BY <1>1, <2>1, <2>2, <2>3 DEF In, l
<1>6. Ticking(gs) <=> Ticking(fs)
  <2>1. CASE fs = <<>>
    <3>1. gs[l + 1] = x
      BY <1>1, <2>1 DEF l
    <3> QED BY <1>1, <2>1, <3>1 DEF Ticking
  <2>2. CASE fs # <<>>
    <3>1. gs[l + 1] = fs[l]
      BY <1>1, <1>3, <2>2
    <3> QED BY <1>1, <1>4, <2>2, <3>1 DEF Ticking, l
  <2> QED BY <2>1, <2>2
<1>7. Nested(gs)
  <2>1. ASSUME NEW n \in 1..l+1
        PROVE  /\ gs[n].pc = "scan" => n = l + 1
               /\ gs[n].pc # "scan" => gs[n].alarm \in Alarms
    <3>1. CASE n = 1
      BY <1>1, <3>1
    <3>2. CASE n # 1
      <4>1. n - 1 \in 1..l /\ gs[n] = fs[n-1]
        BY <1>2, <3>2
      <4>2. /\ fs[n-1].pc = "scan" => n - 1 = l
            /\ fs[n-1].pc # "scan" => fs[n-1].alarm \in Alarms
        BY <4>1 DEF Nested, l
      <4> QED BY <1>1, <4>1, <4>2
    <3> QED BY <3>1, <3>2
  <2>2. ASSUME NEW n \in 1..l+1, gs[n].pc = "call"
        PROVE  /\ n = (l + 1) - 1 /\ gs[l + 1].pc = "scan"
               /\ n > 1 => gs[n-1].pc = "added" /\ gs[n-1].alarm = gs[n].alarm
    <3>1. CASE n = 1
      <4>1. l = 1 /\ fs[1].pc = "scan"
        BY <1>1, <2>2, <3>1 DEF l
      <4>2. gs[1 + 1] = fs[1]
        BY <1>1, <4>1
      <4> QED BY <3>1, <4>1, <4>2
    <3>2. CASE n # 1
      <4>1. n - 1 \in 1..l /\ gs[n] = fs[n-1]
        BY <1>2, <3>2
      <4>2. /\ n - 1 = l - 1 /\ fs[l].pc = "scan"
            /\ n - 1 > 1 => fs[(n-1)-1].pc = "added" /\ fs[(n-1)-1].alarm = fs[n-1].alarm
        BY <2>2, <4>1 DEF Nested, l
      <4>3. gs[l + 1].pc = "scan"
        BY <1>1, <4>1, <4>2
      <4>4. CASE n = 2
        <5>1. fs # <<>> /\ fs[1].pc = "call" /\ n - 1 = 1
          BY <1>1, <2>2, <4>1, <4>4 DEF l
        <5> QED BY <1>1, <4>1, <4>2, <4>3, <4>4, <5>1
      <4>5. CASE n > 2
        <5>1. n - 1 \in 1..l+1 /\ n - 1 # 1 /\ n - 1 > 1
          BY <1>1, <4>5
        <5>2. gs[n-1] = fs[(n-1)-1]
          BY <1>2, <5>1
        <5> QED BY <1>1, <4>1, <4>2, <4>3, <5>1, <5>2
      <4> QED BY <1>1, <3>2, <4>4, <4>5
    <3> QED BY <3>1, <3>2
  <2>3. ASSUME NEW m \in 1..l+1, NEW n \in 1..l+1, gs[m].pc = "added",
               gs[n].pc = "added", gs[m].alarm = gs[n].alarm
        PROVE  m = n
    <3>1. CASE m = 1 /\ n = 1
      BY <3>1
    <3>2. CASE m = 1 /\ n # 1
      BY <1>1, <1>2, <2>3, <3>2 DEF In, l
    <3>3. CASE m # 1 /\ n = 1
      BY <1>1, <1>2, <2>3, <3>3 DEF In, l
    <3>4. CASE m # 1 /\ n # 1
      <4>1. /\ m - 1 \in 1..l /\ gs[m] = fs[m-1]
            /\ n - 1 \in 1..l /\ gs[n] = fs[n-1]
        BY <1>2, <3>4
      <4>2. m - 1 = n - 1
        BY <2>3, <4>1 DEF Nested, l
      <4> QED BY <4>2
    <3> QED BY <3>1, <3>2, <3>3, <3>4
  <2> QED BY <1>1, <2>1, <2>2, <2>3 DEF Nested
<1> QED BY <1>1, <1>4, <1>5, <1>6, <1>7 DEF gs

\* Two frames at once are one after the other.
LEMMA PairPushed ==
    ASSUME NEW x \in Frame, NEW y \in Frame, NEW fs \in Seq(Frame)
    PROVE  <<x, y>> \o fs = <<x>> \o (<<y>> \o fs)
<1> DEFINE s == <<x>>
           r == <<y>>
           c == s \o r
           d == <<x, y>>
<1>1. Len(s) = 1 /\ Len(r) = 1 /\ s[1] = x /\ r[1] = y /\ s \in Seq(Frame) /\ r \in Seq(Frame)
  OBVIOUS
<1>2. d \in Seq(Frame) /\ Len(d) = 2 /\ d[1] = x /\ d[2] = y
  OBVIOUS
<1> HIDE DEF s, r
<1>3. /\ c \in Seq(Frame) /\ Len(c) = 1 + 1
      /\ \A i \in 1..2 : c[i] = IF i <= 1 THEN s[i] ELSE r[i - 1]
  <2>1. /\ s \o r \in Seq(Frame) /\ Len(s \o r) = Len(s) + Len(r)
        /\ \A i \in 1..Len(s)+Len(r) :
              (s \o r)[i] = IF i <= Len(s) THEN s[i] ELSE r[i - Len(s)]
    BY ONLY <1>1, ConcatProperties
  <2> QED BY ONLY <1>1, <2>1 DEF c
<1>4. c \o fs = s \o (r \o fs)
  BY <1>1, ConcatAssociative
<1> HIDE DEF c, d
<1>5. c[1] = x /\ c[2] = y
  BY <1>1, <1>3
<1>6. \A i \in 1..Len(c) : c[i] = d[i]
  BY <1>2, <1>3, <1>5
<1>7. c = d
  BY <1>2, <1>3, <1>6, SeqEqual
<1> QED BY <1>4, <1>7, Zenon DEF d, s, r

\* add_alarm() calls the function of an alarm that is due.
LEMMA AddNested ==
    ASSUME NEW rest, Nested(rest), NEW a \in Alarms, ~In("added", a, rest),
           rest # <<>> /\ rest[1].pc = "call" => rest[1].alarm = a
    PROVE  LET fs == <<frame("run", a), frame("added", a)>> \o rest
           IN  /\ Nested(fs)
               /\ \A b : In("added", b, fs) <=> In("added", b, rest) \/ b = a
               /\ \A b : In("call", b, fs) <=> In("call", b, rest)
               /\ Ticking(fs) <=> Ticking(rest)
<1> DEFINE x == frame("run", a)
           y == frame("added", a)
           gs == <<y>> \o rest
           fs == <<x>> \o gs
<1>1. x \in Frame /\ x.pc = "run" /\ x.alarm = a /\ y \in Frame /\ y.pc = "added" /\ y.alarm = a
  BY FrameTypes
<1> HIDE DEF x, y
<1>2. /\ Nested(gs) /\ gs[1] = y
      /\ \A p, b : In(p, b, gs) <=> In(p, b, rest) \/ (y.pc = p /\ y.alarm = b)
      /\ Ticking(gs) <=> Ticking(rest)
  BY <1>1, PushNested
<1>3. <<x, y>> \o rest = fs
  BY <1>1, PairPushed DEF Nested
<1> HIDE DEF gs
<1>4. /\ Nested(fs)
      /\ \A p, b : In(p, b, fs) <=> In(p, b, gs) \/ (x.pc = p /\ x.alarm = b)
      /\ Ticking(fs) <=> Ticking(gs)
  BY <1>1, <1>2, PushNested
<1> HIDE DEF fs
<1>5. /\ \A b : In("added", b, fs) <=> In("added", b, rest) \/ b = a
      /\ \A b : In("call", b, fs) <=> In("call", b, rest)
  BY <1>1, <1>2, <1>4
<1> QED BY <1>2, <1>3, <1>4, <1>5 DEF x, y

\* The loop of tick() is alone when it goes on.
LEMMA ScanAlone ==
    ASSUME Nested(frames), At("scan")
    PROVE  /\ Len(frames) = 1 /\ frames[1].pc = "scan" /\ frames # <<>> /\ Ticking(frames)
           /\ \A a : ~In("added", a, frames) /\ ~In("call", a, frames)
<1>1. frames \in Seq(Frame) /\ frames # <<>>
  BY DEF Nested, At
<1>2. Head(frames) = frames[1] /\ Len(frames) \in Nat \ {0} /\ 1 \in 1..Len(frames)
  BY <1>1
<1>3. frames[1].pc = "scan"
  BY <1>2 DEF At
<1>4. 1 = Len(frames)
  BY <1>2, <1>3 DEF Nested
<1>5. ASSUME NEW n \in 1..Len(frames) PROVE n = 1
  <2>1. n \in 1..1
    BY <1>4
  <2> QED BY <2>1
<1> QED BY <1>1, <1>3, <1>4, <1>5 DEF In, Ticking

-----------------------------------------------------------------------------
(* Types.                                                                  *)

FramesTyped(fs) ==
    /\ fs \in Seq(Frame)
    /\ \A n \in 1..Len(fs) : fs[n].pc # "scan" => fs[n].alarm \in Alarms

\* Types as numbers, whatever the bounds.
Types ==
    /\ increment \in Increments /\ sorted \in BOOLEAN /\ counter \in Nat
    /\ trigger \in [Alarms -> Nat] /\ interval \in [Alarms -> Intervals \cup {0}]
    /\ enabled \in [Alarms -> BOOLEAN]
    /\ alarm_list \in Seq(Alarms) /\ FramesTyped(frames)
    /\ start \in [Alarms -> Nat] /\ calls \in [Alarms -> Nat \cup {Ignored}]

\* What is counted and compared are numbers.
LEMMA Numbers ==
    ASSUME Types
    PROVE  /\ Word \in Nat /\ Word >= 2 /\ increment \in Nat \ {0} /\ counter \in Nat
           /\ \A i \in Intervals \cup {0} : i \in Nat
BY WordAssumption DEF Types

\* synchronize() makes a number of a number, far ahead or behind.
LEMMA SynchronizeType ==
    ASSUME Types, NEW t \in Nat, NEW i \in Nat
    PROVE  synchronize(t, i) \in Nat
<1> DEFINE d == (counter + i - t) % Word
           q == (d - 1) \div i
<1>1. Word \in Nat \ {0} /\ counter \in Nat
  BY Numbers
<1>2. d \in Nat
  BY <1>1
<1> HIDE DEF d
<1>3. i # 0 /\ d > i => q \in Nat
  BY <1>2
<1> HIDE DEF q
<1>4. i # 0 /\ d > i => (t + i * q) % Word \in Nat
  BY <1>1, <1>3
<1>5. synchronize(t, i) = IF i # 0 /\ d > i THEN (t + i * q) % Word ELSE t
  BY DEF synchronize, d, q
<1> QED BY <1>4, <1>5

\* Counting leaves the counts of calls what they are.
LEMMA CountType ==
    ASSUME NEW c \in [Alarms -> Nat \cup {Ignored}], NEW a \in Alarms
    PROVE  count(c, a) \in [Alarms -> Nat \cup {Ignored}]
BY DEF count, Ignored

\* Frames with one more, and with the innermost one gone.
LEMMA PushTyped ==
    ASSUME NEW fs, FramesTyped(fs), NEW x \in Frame, x.pc # "scan" => x.alarm \in Alarms
    PROVE  FramesTyped(<<x>> \o fs)
<1> DEFINE gs == <<x>> \o fs
<1>1. /\ gs \in Seq(Frame) /\ Len(gs) = Len(fs) + 1 /\ gs[1] = x /\ Len(fs) \in Nat
      /\ \A n \in 1..Len(fs) : gs[n + 1] = fs[n]
  BY Prepended DEF FramesTyped
<1> HIDE DEF gs
<1>2. ASSUME NEW n \in 1..Len(fs)+1, gs[n].pc # "scan" PROVE gs[n].alarm \in Alarms
  <2>1. CASE n = 1
    BY <1>1, <1>2, <2>1
  <2>2. CASE n # 1
    <3>1. n - 1 \in 1..Len(fs) /\ (n - 1) + 1 = n
      BY <1>1, <2>2
    <3>2. gs[n] = fs[n - 1]
      BY <1>1, <3>1
    <3> QED BY <1>2, <3>1, <3>2 DEF FramesTyped
  <2> QED BY <2>1, <2>2
<1> QED BY <1>1, <1>2 DEF FramesTyped, gs

\* The innermost call, and the others, are what calls are.
LEMMA PopTyped ==
    ASSUME NEW fs, FramesTyped(fs), fs # <<>>
    PROVE  /\ FramesTyped(Tail(fs)) /\ Head(fs) \in Frame
           /\ Head(fs).pc # "scan" => Head(fs).alarm \in Alarms
<1>1. fs \in Seq(Frame)
  BY DEF FramesTyped
<1>2. /\ Len(fs) \in Nat \ {0} /\ Head(fs) = fs[1] /\ Head(fs) \in Frame
      /\ Tail(fs) \in Seq(Frame) /\ Len(Tail(fs)) = Len(fs) - 1
      /\ \A n \in 1..Len(fs)-1 : Tail(fs)[n] = fs[n + 1]
  BY <1>1, HeadTail
<1>3. 1 \in 1..Len(fs) /\ \A n \in 1..Len(fs)-1 : n + 1 \in 1..Len(fs)
  BY <1>2
<1> QED BY <1>2, <1>3 DEF FramesTyped

\* A caller's own frame stays one when it makes a call.
LEMMA CalledTyped ==
    ASSUME FramesTyped(frames), Caller
    PROVE  FramesTyped(Called)
<1>1. CASE AtRest
  BY <1>1 DEF AtRest, Called, FramesTyped
<1>2. CASE ~AtRest
  <2> DEFINE x == [Head(frames) EXCEPT !.left = @ - 1]
  <2>1. frames # <<>> /\ Head(frames).pc = "run" /\ Head(frames).left > 0
    BY <1>2 DEF Caller, At, AtRest
  <2>2. Head(frames) \in Frame /\ Head(frames).alarm \in Alarms /\ FramesTyped(Tail(frames))
    BY <2>1, PopTyped
  <2>3. x \in Frame /\ x.alarm \in Alarms
    BY <2>1, <2>2, AlarmBoundAssumption DEF Frame
  <2>4. Called = <<x>> \o Tail(frames)
    BY <1>2 DEF Called
  <2> HIDE DEF x
  <2> QED BY <2>2, <2>3, <2>4, PushTyped
<1> QED BY <1>1, <1>2

\* unlink() and the two forms of the frames add_alarm() leaves.
LEMMA UnlinkType ==
    ASSUME NEW q \in Seq(Alarms), NEW a
    PROVE  unlink(q, a) \in Seq(Alarms)
<1>1. CASE a \in Range(q)
  <2> DEFINE n == CHOOSE n \in DOMAIN q : q[n] = a
  <2>1. n \in 1..Len(q)
    BY <1>1 DEF Range
  <2>2. unlink(q, a) = RemoveAt(q, n)
    BY <1>1 DEF unlink
  <2> HIDE DEF n
  <2> QED BY <2>1, <2>2, RemoveAtFacts
<1> QED BY <1>1 DEF unlink

\* The calls under way while add_alarm() calls the function.
LEMMA AddTyped ==
    ASSUME FramesTyped(frames), NEW a \in Alarms, NEW rest, FramesTyped(rest)
    PROVE  FramesTyped(<<frame("run", a), frame("added", a)>> \o rest)
<1>1. rest \in Seq(Frame)
  BY DEF FramesTyped
<1>2. FramesTyped(<<frame("added", a)>> \o rest)
  BY FrameTypes, PushTyped
<1>3. FramesTyped(<<frame("run", a)>> \o (<<frame("added", a)>> \o rest))
  BY <1>2, FrameTypes, PushTyped
<1> QED BY <1>1, <1>3, FrameTypes, PairPushed

\* What add_alarm() writes.
LEMMA AddTypes ==
    ASSUME Types, NEW a \in Alarms, NEW t \in Nat, NEW i \in Intervals \cup {0},
           NEW list \in Seq(Alarms), NEW rest, FramesTyped(rest),
           NEW called \in [Alarms -> Nat \cup {Ignored}],
           add_alarm(a, t, i, list, rest, called)
    PROVE  /\ trigger' \in [Alarms -> Nat] /\ interval' \in [Alarms -> Intervals \cup {0}]
           /\ enabled' \in [Alarms -> BOOLEAN]
           /\ alarm_list' \in Seq(Alarms) /\ FramesTyped(frames')
           /\ calls' \in [Alarms -> Nat \cup {Ignored}]
<1>1. /\ trigger' \in [Alarms -> Nat] /\ interval' \in [Alarms -> Intervals \cup {0}]
      /\ enabled' \in [Alarms -> BOOLEAN]
  BY DEF Types, add_alarm
<1>2. CASE t <= counter
  <2>1. FramesTyped(frames')
    BY <1>2, AddTyped DEF Types, add_alarm
  <2>2. alarm_list' = list /\ calls' = count(called, a)
    BY <1>2 DEF add_alarm
  <2> QED BY <1>1, <2>1, <2>2, CountType
<1>3. CASE ~(t <= counter)
  <2>1. alarm_list' = insert(list, a, trigger') /\ frames' = rest /\ calls' = called
    BY <1>3 DEF add_alarm
  <2>2. trigger' \in [Alarms -> Int]
    BY <1>1
  <2>3. insert(list, a, trigger') \in Seq(Alarms)
    BY <2>2, InsertFacts
  <2> QED BY <1>1, <2>1, <2>3
<1> QED BY <1>2, <1>3

\* Types hold at the start ...
LEMMA InitTypes == Init => Types
<1> SUFFICES ASSUME Init PROVE Types
  OBVIOUS
<1>1. increment \in Increments /\ sorted \in BOOLEAN /\ counter \in Nat
  BY ConfigAssumption DEF Init
<1>2. trigger \in [Alarms -> Nat] /\ interval \in [Alarms -> Intervals \cup {0}]
      /\ enabled \in [Alarms -> BOOLEAN] /\ start \in [Alarms -> Nat]
      /\ calls \in [Alarms -> Nat \cup {Ignored}]
  BY DEF Init
<1>3. alarm_list \in Seq(Alarms) /\ FramesTyped(frames)
  BY DEF Init, FramesTyped
<1> QED BY <1>1, <1>2, <1>3 DEF Types

\* ... and through initialize(): counter + o is a number where it is asked for ...
LEMMA InitializeTypes ==
    ASSUME Types, NEW a \in Alarms, NEW o \in Offsets, NEW i \in Intervals,
           counter + o >= 0, initialize(a, counter + o, i)
    PROVE  Types'
<1> DEFINE t == counter + o
           list == IF enabled[a] THEN unlink(alarm_list, a) ELSE alarm_list
<1>1. t \in Nat /\ i \in Intervals \cup {0}
  BY WordAssumption, Numbers
<1>2. list \in Seq(Alarms)
  BY UnlinkType DEF Types
<1>3. FramesTyped(Called)
  BY CalledTyped DEF initialize, Types
<1>4. afresh(a, t) \in [Alarms -> Nat \cup {Ignored}]
  BY DEF Types, afresh
<1>5. add_alarm(a, t, i, list, Called, afresh(a, t))
  BY DEF initialize
<1> HIDE DEF list
<1>6. /\ trigger' \in [Alarms -> Nat] /\ interval' \in [Alarms -> Intervals \cup {0}]
      /\ enabled' \in [Alarms -> BOOLEAN]
      /\ alarm_list' \in Seq(Alarms) /\ FramesTyped(frames')
      /\ calls' \in [Alarms -> Nat \cup {Ignored}]
  <2> HIDE DEF t
  <2> QED BY <1>1, <1>2, <1>3, <1>4, <1>5, AddTypes
<1>7. start' \in [Alarms -> Nat] /\ UNCHANGED <<increment, sorted, counter>>
  BY <1>1 DEF initialize, Types, config
<1> QED BY <1>6, <1>7 DEF Types

\* ... enable() ...
LEMMA EnableTypes ==
    ASSUME Types, NEW a \in Alarms, enable(a)
    PROVE  Types'
<1> DEFINE t == synchronize(trigger[a], interval[a])
           c == [calls EXCEPT ![a] = Ignored]
<1>1. trigger[a] \in Nat /\ interval[a] \in Intervals \cup {0} /\ interval[a] \in Nat
  BY Numbers DEF Types
<1>2. t \in Nat
  BY <1>1, SynchronizeType
<1>3. FramesTyped(Called) /\ alarm_list \in Seq(Alarms)
  BY CalledTyped DEF enable, Types
<1>4. c \in [Alarms -> Nat \cup {Ignored}]
  BY DEF Types
<1>5. add_alarm(a, t, interval[a], alarm_list, Called, c)
  BY DEF enable
<1>6. /\ trigger' \in [Alarms -> Nat] /\ interval' \in [Alarms -> Intervals \cup {0}]
      /\ enabled' \in [Alarms -> BOOLEAN]
      /\ alarm_list' \in Seq(Alarms) /\ FramesTyped(frames')
      /\ calls' \in [Alarms -> Nat \cup {Ignored}]
  <2> HIDE DEF t, c
  <2> QED BY <1>1, <1>2, <1>3, <1>4, <1>5, AddTypes
<1>7. UNCHANGED <<increment, sorted, counter, start>>
  BY DEF enable, config
<1> QED BY <1>6, <1>7 DEF Types

\* ... disable() ...
LEMMA DisableTypes ==
    ASSUME Types, NEW a \in Alarms, disable(a)
    PROVE  Types'
<1>1. alarm_list' \in Seq(Alarms)
  BY UnlinkType DEF Types, disable
<1>2. FramesTyped(frames')
  BY CalledTyped DEF Types, disable
<1>3. enabled' \in [Alarms -> BOOLEAN] /\ calls' \in [Alarms -> Nat \cup {Ignored}]
  BY DEF Types, disable
<1> QED BY <1>1, <1>2, <1>3 DEF Types, disable, config

\* ... the rest of add_alarm() after the call, with any next trigger ...
LEMMA RequeueTypes ==
    ASSUME Types, NEW next \in Nat, Requeue(next)
    PROVE  Types'
<1>1. self \in Alarms /\ FramesTyped(frames')
  BY PopTyped DEF Types, Requeue, At, self
<1>2. trigger' \in [Alarms -> Nat] /\ enabled' \in [Alarms -> BOOLEAN]
  BY DEF Types, Requeue
<1>3. alarm_list' \in Seq(Alarms)
  <2>1. alarm_list \in Seq(Alarms) /\ trigger' \in [Alarms -> Int]
    BY <1>2 DEF Types
  <2>2. insert(alarm_list, self, trigger') \in Seq(Alarms)
    BY <1>1, <2>1, InsertFacts
  <2> QED BY <2>1, <2>2 DEF Requeue
<1> QED BY <1>1, <1>2, <1>3 DEF Types, Requeue, config

\* ... and with the one it uses ...
LEMMA AddedTypes == Types /\ AddedRequeues => Types'
<1> SUFFICES ASSUME Types, AddedRequeues PROVE Types'
  OBVIOUS
<1>1. self \in Alarms
  BY PopTyped DEF Types, AddedRequeues, Requeue, At, self
<1>2. trigger[self] \in Nat /\ interval[self] \in Nat /\ Word \in Nat \ {0}
  BY <1>1, Numbers DEF Types
<1>3. (trigger[self] + interval[self]) % Word \in Nat
  BY <1>2
<1> QED BY <1>2, <1>3, SynchronizeType, RequeueTypes DEF AddedRequeues

\* What is due is a linked alarm.
LEMMA DueTypes ==
    ASSUME Types, NEW n \in Due
    PROVE  /\ n \in 1..Len(alarm_list) /\ alarm_list[n] \in Alarms
           /\ alarm_list[n] \in linked /\ trigger[alarm_list[n]] <= counter
<1>1. n \in 1..Len(alarm_list) /\ trigger[alarm_list[n]] <= counter
  BY DEF Due
<1>2. alarm_list[n] \in Alarms
  BY <1>1 DEF Types
<1> QED BY <1>1, <1>2, OnList DEF Types, linked

\* ... the handling of an alarm by tick() ...
LEMMA ScanTypes == Types /\ ScanFindsDue => Types'
<1> SUFFICES ASSUME Types, ScanFindsDue PROVE Types'
  OBVIOUS
<1>1. PICK n \in Due :
        LET a    == alarm_list[n]
            list == unlink(alarm_list, a)
            rest == <<frame("call", a)>> \o frames
        IN  IF interval[a] # 0
            THEN add_alarm(a, (trigger[a] + interval[a]) % Word, interval[a], list, rest,
                           calls)
            ELSE /\ enabled' = [enabled EXCEPT ![a] = FALSE]
                 /\ alarm_list' = list
                 /\ frames' = rest
                 /\ UNCHANGED <<trigger, interval, calls>>
  BY DEF ScanFindsDue
<1> DEFINE a    == alarm_list[n]
           list == unlink(alarm_list, a)
           rest == <<frame("call", a)>> \o frames
           t    == (trigger[a] + interval[a]) % Word
<1>2. a \in Alarms
  BY DueTypes
<1>3. list \in Seq(Alarms) /\ FramesTyped(rest)
  BY <1>2, UnlinkType, PushTyped, FrameTypes DEF Types
<1>4. trigger[a] \in Nat /\ interval[a] \in Intervals \cup {0} /\ interval[a] \in Nat
      /\ Word \in Nat \ {0}
  BY <1>2, Numbers DEF Types
<1>5. t \in Nat
  BY <1>4
<1>6. calls \in [Alarms -> Nat \cup {Ignored}]
  BY DEF Types
<1>7. /\ trigger' \in [Alarms -> Nat] /\ interval' \in [Alarms -> Intervals \cup {0}]
      /\ enabled' \in [Alarms -> BOOLEAN]
      /\ alarm_list' \in Seq(Alarms) /\ FramesTyped(frames')
      /\ calls' \in [Alarms -> Nat \cup {Ignored}]
  <2>1. CASE interval[a] # 0
    <3>1. add_alarm(a, t, interval[a], list, rest, calls)
      BY <1>1, <2>1
    <3> HIDE DEF a, list, rest, t
    <3> QED BY <1>2, <1>3, <1>4, <1>5, <1>6, <3>1, AddTypes
  <2>2. CASE interval[a] = 0
    <3>1. /\ enabled' = [enabled EXCEPT ![a] = FALSE] /\ alarm_list' = list
          /\ frames' = rest /\ UNCHANGED <<trigger, interval, calls>>
      BY <1>1, <2>2
    <3> HIDE DEF a, list, rest, t
    <3> QED BY <1>3, <3>1 DEF Types
  <2> QED BY <2>1, <2>2
<1>8. UNCHANGED <<increment, sorted, counter, start>>
  BY DEF ScanFindsDue, config
<1> QED BY <1>7, <1>8 DEF Types

\* ... its beginning, calls and end, and the returns of alarm functions ...
LEMMA OtherTypes ==
    Types /\ (FunctionReturns \/ tick \/ TickCallsAlarm \/ TickDone \/ UNCHANGED vars) => Types'
<1>1. ASSUME Types, FunctionReturns PROVE Types'
  <2>1. FramesTyped(frames')
    BY <1>1, PopTyped DEF FunctionReturns, At, Types
  <2> QED BY <1>1, <2>1 DEF FunctionReturns, Types, config, fields
<1>2. ASSUME Types, tick PROVE Types'
  <2>1. frame("scan", NoAlarm) \in Frame /\ frame("scan", NoAlarm).pc = "scan"
    BY AlarmBoundAssumption DEF frame, Frame
  <2>2. FramesTyped(frames')
    BY <1>2, <2>1 DEF tick, FramesTyped
  <2>3. counter' \in Nat
    BY <1>2, Numbers DEF tick
  <2> QED BY <1>2, <2>2, <2>3 DEF tick, Types, config, fields
<1>3. ASSUME Types, TickCallsAlarm PROVE Types'
  <2>1. FramesTyped(Tail(frames)) /\ self \in Alarms
    BY <1>3, PopTyped DEF TickCallsAlarm, At, Types, self
  <2>2. FramesTyped(frames')
    BY <1>3, <2>1, PushTyped, FrameTypes DEF TickCallsAlarm
  <2>3. calls' \in [Alarms -> Nat \cup {Ignored}]
    BY <1>3, <2>1, CountType DEF TickCallsAlarm, Types
  <2> QED BY <1>3, <2>2, <2>3 DEF TickCallsAlarm, Types, config, fields
<1>4. ASSUME Types, TickDone PROVE Types'
  <2>1. FramesTyped(frames')
    BY <1>4, PopTyped DEF TickDone, At, Types
  <2> QED BY <1>4, <2>1 DEF TickDone, Types, config, fields
<1>5. ASSUME Types, UNCHANGED vars PROVE Types'
  BY <1>5 DEF vars, Types, FramesTyped, config, fields
<1> QED BY <1>1, <1>2, <1>3, <1>4, <1>5

\* ... so through every step.
LEMMA NextTypes == Types /\ [Next]_vars => Types'
<1> SUFFICES ASSUME Types, [Next]_vars PROVE Types'
  OBVIOUS
<1>1. CASE \E a \in Alarms, o \in Offsets, i \in Intervals :
              counter + o >= 0 /\ initialize(a, counter + o, i)
  BY <1>1, InitializeTypes
<1>2. CASE \E a \in Alarms : enable(a)
  BY <1>2, EnableTypes
<1>3. CASE \E a \in Alarms : disable(a)
  BY <1>3, DisableTypes
<1> QED BY <1>1, <1>2, <1>3, AddedTypes, ScanTypes, OtherTypes DEF Next

\* Every state of every program has these types.
LEMMA Typing == Spec => []Types
BY InitTypes, NextTypes, PTL DEF Spec


-----------------------------------------------------------------------------
(* An alarm is linked while it is enabled.                                 *)

\* add_alarm() is calling the function of a; tick() is about to.
Added(a) == In("added", a, frames)
Owed(a)  == In("call", a, frames)

\* What holds of the list and the calls under way, in every state of a program
\* that is not Reentrant: no assumption on offsets or intervals is needed.
Linked ==
    /\ Nested(frames) /\ Distinct(alarm_list)
    /\ sorted => Rising(alarm_list, trigger)
    /\ \A a \in Alarms : a \in linked <=> enabled[a] /\ ~Added(a)

\* A list is as sorted by triggers that differ only for alarms not on it.
LEMMA RisingElsewhere ==
    ASSUME NEW q \in Seq(Alarms), NEW a, a \notin Range(q), NEW t \in [Alarms -> Nat], NEW v,
           Rising(q, t)
    PROVE  Rising(q, [t EXCEPT ![a] = v])
<1>1. \A n \in 1..Len(q) : q[n] # a /\ q[n] \in Alarms
  BY OnList
<1> QED BY <1>1 DEF Rising

\* What add_alarm() does to the list and the calls under way, of an alarm that
\* is on neither.
LEMMA AddLinks ==
    ASSUME Types, NEW a \in Alarms, NEW t \in Nat, NEW i, NEW list \in Seq(Alarms), NEW rest,
           NEW called, add_alarm(a, t, i, list, rest, called), sorted' = sorted,
           Distinct(list), a \notin Range(list), sorted => Rising(list, trigger),
           Nested(rest), ~In("added", a, rest),
           rest # <<>> /\ rest[1].pc = "call" => rest[1].alarm = a,
           \A b \in Alarms \ {a} : b \in Range(list) <=> enabled[b] /\ ~In("added", b, rest)
    PROVE  /\ Linked'
           /\ \A b : Added(b)' <=> In("added", b, rest) \/ (b = a /\ t <= counter)
           /\ \A b : Owed(b)' <=> In("call", b, rest)
           /\ Ticking(frames') <=> Ticking(rest)
<1>1. /\ trigger' = [trigger EXCEPT ![a] = t] /\ trigger \in [Alarms -> Nat]
      /\ trigger' \in [Alarms -> Int]
      /\ enabled'[a] /\ \A b \in Alarms \ {a} : enabled'[b] = enabled[b]
  BY DEF Types, add_alarm
<1>2. sorted => Rising(list, trigger')
  BY <1>1, RisingElsewhere
<1>3. CASE t <= counter
  <2>1. /\ alarm_list' = list
        /\ frames' = <<frame("run", a), frame("added", a)>> \o rest
    BY <1>3 DEF add_alarm
  <2>2. /\ Nested(frames')
        /\ \A b : In("added", b, frames') <=> In("added", b, rest) \/ b = a
        /\ \A b : In("call", b, frames') <=> In("call", b, rest)
        /\ Ticking(frames') <=> Ticking(rest)
    BY <2>1, AddNested
  <2>3. \A b \in Alarms : b \in Range(alarm_list') <=> enabled'[b] /\ ~In("added", b, frames')
    BY <1>1, <2>1, <2>2
  <2> QED BY <1>2, <1>3, <2>1, <2>2, <2>3 DEF Linked, Added, Owed, linked
<1>4. CASE ~(t <= counter)
  <2>1. alarm_list' = insert(list, a, trigger') /\ frames' = rest
    BY <1>4 DEF add_alarm
  <2>2. /\ Range(alarm_list') = Range(list) \cup {a} /\ Distinct(alarm_list')
        /\ sorted => Rising(alarm_list', trigger')
    BY <1>1, <1>2, <2>1, InsertFacts
  <2>3. \A b \in Alarms : b \in Range(alarm_list') <=> enabled'[b] /\ ~In("added", b, frames')
    BY <1>1, <2>1, <2>2
  <2> QED BY <1>4, <2>1, <2>2, <2>3 DEF Linked, Added, Owed, linked
<1> QED BY <1>3, <1>4

\* Only an alarm function and a thread or DSR at rest make calls.
LEMMA CallerHead ==
    ASSUME Nested(frames), Caller
    PROVE  Called # <<>> => Called[1].pc = "run"
<1>1. CASE AtRest
  BY <1>1 DEF Called
<1>2. CASE ~AtRest
  <2> DEFINE x == [Head(frames) EXCEPT !.left = @ - 1]
  <2>1. frames \in Seq(Frame) /\ frames # <<>> /\ Head(frames).pc = "run" /\ Head(frames).left > 0
    BY <1>2 DEF Nested, Caller, At, AtRest
  <2>2. Head(frames) \in Frame /\ Tail(frames) \in Seq(Frame)
    BY <2>1, HeadTail
  <2>3. x \in Frame /\ x.pc = "run"
    BY <2>1, <2>2, AlarmBoundAssumption DEF Frame
  <2>4. Called = <<x>> \o Tail(frames)
    BY <1>2 DEF Called
  <2> HIDE DEF x
  <2> QED BY <2>2, <2>3, <2>4, Prepended
<1> QED BY <1>1, <1>2

\* initialize() keeps the list and the calls in order.
LEMMA InitializeLinks ==
    ASSUME ~Reentrant, Types, Linked, NEW a \in Alarms, NEW t \in Nat, NEW i,
           initialize(a, t, i)
    PROVE  /\ Linked' /\ ~Added(a)
           /\ \A b : Added(b)' <=> Added(b) \/ (b = a /\ t <= counter)
           /\ \A b : Owed(b)' <=> Owed(b)
           /\ Ticking(frames') <=> Ticking(frames)
<1> DEFINE list == IF enabled[a] THEN unlink(alarm_list, a) ELSE alarm_list
<1>1. ~Added(a)
  BY AddingIn DEF initialize, MaySet, Added, Linked, Nested
<1>2. /\ Nested(Called) /\ (Called # <<>> => Called[1].pc = "run")
      /\ \A p, b : In(p, b, Called) <=> In(p, b, frames)
      /\ Ticking(Called) <=> Ticking(frames)
  BY CalledAlike, CallerHead DEF initialize, Linked
<1>3. alarm_list \in Seq(Alarms) /\ Distinct(alarm_list) /\ (sorted => Rising(alarm_list, trigger))
  BY DEF Types, Linked
<1>4. /\ list \in Seq(Alarms) /\ Distinct(list) /\ Range(list) = Range(alarm_list) \ {a}
      /\ sorted => Rising(list, trigger)
  <2>1. CASE enabled[a]
    BY <1>3, <2>1, UnlinkFacts
  <2>2. CASE ~enabled[a]
    BY <1>3, <2>2 DEF Linked, linked
  <2> QED BY <2>1, <2>2
<1>5. add_alarm(a, t, i, list, Called, afresh(a, t)) /\ sorted' = sorted
  BY DEF initialize, config
<1> HIDE DEF list
<1>6. \A b \in Alarms \ {a} : b \in Range(list) <=> enabled[b] /\ ~In("added", b, Called)
  BY <1>2, <1>4 DEF Linked, linked, Added
<1>7. /\ Linked'
      /\ \A b : Added(b)' <=> In("added", b, Called) \/ (b = a /\ t <= counter)
      /\ \A b : Owed(b)' <=> In("call", b, Called)
      /\ Ticking(frames') <=> Ticking(Called)
  BY <1>1, <1>2, <1>4, <1>5, <1>6, AddLinks DEF Added
<1> QED BY <1>1, <1>2, <1>7 DEF Added, Owed

\* So does enable().
LEMMA EnableLinks ==
    ASSUME ~Reentrant, Types, Linked, NEW a \in Alarms, enable(a)
    PROVE  LET t == synchronize(trigger[a], interval[a])
           IN  /\ Linked' /\ ~Added(a)
               /\ \A b : Added(b)' <=> Added(b) \/ (b = a /\ t <= counter)
               /\ \A b : Owed(b)' <=> Owed(b)
               /\ Ticking(frames') <=> Ticking(frames)
<1> DEFINE t == synchronize(trigger[a], interval[a])
           c == [calls EXCEPT ![a] = Ignored]
<1>1. ~Added(a)
  BY AddingIn DEF enable, MaySet, Added, Linked, Nested
<1>2. /\ Nested(Called) /\ (Called # <<>> => Called[1].pc = "run")
      /\ \A p, b : In(p, b, Called) <=> In(p, b, frames)
      /\ Ticking(Called) <=> Ticking(frames)
  BY CalledAlike, CallerHead DEF enable, Linked
<1>3. alarm_list \in Seq(Alarms) /\ Distinct(alarm_list) /\ (sorted => Rising(alarm_list, trigger))
  BY DEF Types, Linked
<1>4. add_alarm(a, t, interval[a], alarm_list, Called, c) /\ sorted' = sorted /\ ~enabled[a]
  BY DEF enable, config
<1>5. t \in Nat
  <2>1. trigger[a] \in Nat /\ interval[a] \in Nat
    BY Numbers DEF Types
  <2> QED BY <2>1, SynchronizeType
<1> HIDE DEF t, c
<1>6. /\ a \notin Range(alarm_list)
      /\ \A b \in Alarms \ {a} : b \in Range(alarm_list) <=> enabled[b] /\ ~In("added", b, Called)
  BY <1>2, <1>4 DEF Linked, linked, Added
<1>7. /\ Linked'
      /\ \A b : Added(b)' <=> In("added", b, Called) \/ (b = a /\ t <= counter)
      /\ \A b : Owed(b)' <=> In("call", b, Called)
      /\ Ticking(frames') <=> Ticking(Called)
  BY <1>1, <1>2, <1>3, <1>4, <1>5, <1>6, AddLinks DEF Added
<1> QED BY <1>1, <1>2, <1>7 DEF Added, Owed, t

\* disable() unlinks what it disables.
LEMMA DisableLinks ==
    ASSUME Types, Linked, NEW a \in Alarms, disable(a)
    PROVE  /\ Linked'
           /\ \A b : (Added(b)' <=> Added(b)) /\ (Owed(b)' <=> Owed(b))
           /\ Ticking(frames') <=> Ticking(frames)
<1>1. /\ Nested(Called)
      /\ \A p, b : In(p, b, Called) <=> In(p, b, frames)
      /\ Ticking(Called) <=> Ticking(frames)
  BY CalledAlike DEF disable, Linked
<1>2. alarm_list \in Seq(Alarms) /\ Distinct(alarm_list) /\ (sorted => Rising(alarm_list, trigger))
  BY DEF Types, Linked
<1>3. /\ frames' = Called /\ alarm_list' = unlink(alarm_list, a) /\ sorted' = sorted
      /\ trigger' = trigger /\ enabled' = [enabled EXCEPT ![a] = FALSE]
  BY DEF disable, config
<1>4. /\ Distinct(alarm_list') /\ Range(alarm_list') = Range(alarm_list) \ {a}
      /\ sorted' => Rising(alarm_list', trigger')
  BY <1>2, <1>3, UnlinkFacts
<1>5. \A b \in Alarms : b \in Range(alarm_list') <=> enabled'[b] /\ ~In("added", b, frames')
  BY <1>1, <1>3, <1>4 DEF Linked, linked, Added, Types
<1> QED BY <1>1, <1>3, <1>4, <1>5 DEF Linked, linked, Added, Owed

\* An alarm function returns to what goes on after it.
LEMMA ReturnLinks ==
    ASSUME Linked, FunctionReturns
    PROVE  /\ Linked'
           /\ \A b : (Added(b)' <=> Added(b)) /\ (Owed(b)' <=> Owed(b))
           /\ Ticking(frames') <=> Ticking(frames)
<1>1. frames # <<>> /\ Head(frames).pc = "run" /\ frames' = Tail(frames) /\ Nested(frames)
  BY DEF FunctionReturns, At, Linked
<1>2. /\ Nested(frames')
      /\ \A b : In("added", b, frames') <=> In("added", b, frames)
      /\ \A b : In("call", b, frames') <=> In("call", b, frames)
      /\ Ticking(frames') <=> Ticking(frames)
  BY <1>1, ReturnNested
<1> QED BY <1>2 DEF FunctionReturns, Linked, linked, Added, Owed, config, fields

\* add_alarm() goes on after the immediate call.
LEMMA RequeueLinks ==
    ASSUME Types, Linked, NEW next \in Nat, Requeue(next)
    PROVE  /\ Linked' /\ self \in Alarms /\ Added(self)
           /\ \A b : Added(b)' <=> Added(b) /\ b # self
           /\ \A b : Owed(b)' <=> Owed(b)
           /\ Ticking(frames') <=> Ticking(frames)
<1>1. /\ frames # <<>> /\ Head(frames).pc = "added" /\ self = Head(frames).alarm
      /\ frames' = Tail(frames) /\ Nested(frames) /\ sorted' = sorted
  BY DEF Requeue, At, Linked, self, config
<1>2. /\ Nested(frames')
      /\ \A b : In("added", b, frames) <=> In("added", b, frames') \/ b = self
      /\ ~In("added", self, frames')
      /\ \A b : In("call", b, frames') <=> In("call", b, frames)
      /\ Ticking(frames') <=> Ticking(frames)
  BY <1>1, ReturnNested
<1>3. self \in Alarms
  BY <1>1, PopTyped DEF Types
<1>4. self \notin Range(alarm_list) /\ alarm_list \in Seq(Alarms) /\ Distinct(alarm_list)
      /\ (sorted => Rising(alarm_list, trigger))
      /\ \A b \in Alarms : b \in Range(alarm_list) <=> enabled[b] /\ ~In("added", b, frames)
  BY <1>2, <1>3 DEF Types, Linked, linked, Added
<1>5. Linked'
  <2>1. CASE interval[self] # 0 /\ enabled[self]
    <3>1. /\ trigger' = [trigger EXCEPT ![self] = next] /\ trigger' \in [Alarms -> Int]
          /\ alarm_list' = insert(alarm_list, self, trigger') /\ enabled' = enabled
      BY <2>1 DEF Requeue, Types
    <3>2. sorted => Rising(alarm_list, trigger')
      BY <1>4, <3>1, RisingElsewhere DEF Types
    <3>3. /\ Range(alarm_list') = Range(alarm_list) \cup {self} /\ Distinct(alarm_list')
          /\ sorted => Rising(alarm_list', trigger')
      BY <1>3, <1>4, <3>1, <3>2, InsertFacts
    <3>4. \A b \in Alarms : b \in Range(alarm_list') <=> enabled'[b] /\ ~In("added", b, frames')
      BY <1>2, <1>4, <2>1, <3>1, <3>3
    <3> QED BY <1>1, <1>2, <3>3, <3>4 DEF Linked, linked, Added
  <2>2. CASE ~(interval[self] # 0 /\ enabled[self])
    <3>1. /\ trigger' = trigger /\ alarm_list' = alarm_list
          /\ enabled' = [enabled EXCEPT ![self] = FALSE]
      BY <2>2 DEF Requeue
    <3>2. \A b \in Alarms : b \in Range(alarm_list') <=> enabled'[b] /\ ~In("added", b, frames')
      BY <1>2, <1>4, <3>1 DEF Types
    <3> QED BY <1>1, <1>2, <1>4, <3>1, <3>2 DEF Linked, linked, Added
  <2> QED BY <2>1, <2>2
<1> QED BY <1>2, <1>3, <1>5 DEF Added, Owed

\* ... with the next whole interval as the trigger.
LEMMA AddedNext ==
    ASSUME Types, AddedRequeues
    PROVE  synchronize((trigger[self] + interval[self]) % Word, interval[self]) \in Nat
<1>1. self \in Alarms
  BY PopTyped DEF Types, AddedRequeues, Requeue, At, self
<1>2. trigger[self] \in Nat /\ interval[self] \in Nat /\ Word \in Nat \ {0}
  BY <1>1, Numbers DEF Types
<1>3. (trigger[self] + interval[self]) % Word \in Nat
  BY <1>2
<1> QED BY <1>2, <1>3, SynchronizeType

\* A tick begins when nothing else is under way.
LEMMA TickLinks ==
    ASSUME Linked, tick
    PROVE  /\ Linked' /\ \A b : ~Added(b) /\ ~Added(b)' /\ ~Owed(b) /\ ~Owed(b)'
           /\ ~Ticking(frames) /\ Ticking(frames')
<1> DEFINE x == frame("scan", NoAlarm)
<1>1. frames = <<>> /\ frames' = <<x>> /\ x \in Frame /\ x.pc = "scan"
  BY AlarmBoundAssumption DEF tick, AtRest, frame, Frame
<1> HIDE DEF x
<1>2. /\ frames' \in Seq(Frame) /\ Len(frames') = 1 /\ frames'[1] = x /\ frames' # <<>>
      /\ \A n \in 1..Len(frames') : n = 1
  BY <1>1
<1>3. Nested(frames')
  BY <1>1, <1>2 DEF Nested
<1>4. ~Ticking(frames) /\ Ticking(frames')
  BY <1>1, <1>2 DEF Ticking
<1>5. \A p, b : ~In(p, b, frames)
  BY <1>1 DEF In
<1>6. \A b : ~In("added", b, frames') /\ ~In("call", b, frames')
  BY <1>1, <1>2 DEF In
<1> QED BY <1>3, <1>4, <1>5, <1>6 DEF tick, Linked, linked, Added, Owed, config, fields

\* What tick() does about an alarm that is due.
Handle(a) ==
    LET list == unlink(alarm_list, a)
        rest == <<frame("call", a)>> \o frames
    IN  IF interval[a] # 0
        THEN add_alarm(a, (trigger[a] + interval[a]) % Word, interval[a], list, rest, calls)
        ELSE /\ enabled' = [enabled EXCEPT ![a] = FALSE]
             /\ alarm_list' = list
             /\ frames' = rest
             /\ UNCHANGED <<trigger, interval, calls>>

\* The scan handles an alarm that is due.
LEMMA ScanHandles ==
    ASSUME Types, ScanFindsDue
    PROVE  /\ At("scan") /\ UNCHANGED <<config, counter, start>>
           /\ \E a \in linked : Handle(a) /\ a \in Alarms /\ trigger[a] <= counter
<1>1. PICK n \in Due : Handle(alarm_list[n])
  BY DEF ScanFindsDue, Handle
<1>2. /\ alarm_list[n] \in Alarms /\ alarm_list[n] \in linked
      /\ trigger[alarm_list[n]] <= counter
  BY DueTypes
<1> QED BY <1>1, <1>2 DEF ScanFindsDue

\* It leaves the list and the calls in order.
LEMMA HandleLinks ==
    ASSUME Types, Linked, At("scan"), UNCHANGED config, NEW a \in linked, a \in Alarms, Handle(a)
    PROVE  LET t == (trigger[a] + interval[a]) % Word
           IN  /\ Linked' /\ \A b : ~Added(b) /\ ~Owed(b)
               /\ \A b : Added(b)' <=> b = a /\ interval[a] # 0 /\ t <= counter
               /\ \A b : Owed(b)' <=> b = a
               /\ Ticking(frames) /\ Ticking(frames')
<1> DEFINE t == (trigger[a] + interval[a]) % Word
           list == unlink(alarm_list, a)
           rest == <<frame("call", a)>> \o frames
<1>1. /\ Len(frames) = 1 /\ frames[1].pc = "scan" /\ frames # <<>> /\ Ticking(frames)
      /\ \A b : ~In("added", b, frames) /\ ~In("call", b, frames)
      /\ Nested(frames)
  BY ScanAlone DEF Linked
<1>2. /\ frame("call", a) \in Frame /\ frame("call", a).pc = "call"
      /\ frame("call", a).alarm = a
  BY FrameTypes
<1>3. /\ Nested(rest) /\ rest[1] = frame("call", a) /\ Ticking(rest)
      /\ \A p, b : In(p, b, rest) <=> In(p, b, frames) \/ (frame("call", a).pc = p /\ frame("call", a).alarm = b)
  <2> DEFINE x == frame("call", a)
  <2>1. x \in Frame /\ x.pc = "call" /\ x.alarm = a
    BY <1>2
  <2> HIDE DEF x
  <2>2. /\ Nested(<<x>> \o frames) /\ (<<x>> \o frames)[1] = x
        /\ Ticking(<<x>> \o frames) <=> Ticking(frames)
        /\ \A p, b : In(p, b, <<x>> \o frames) <=> In(p, b, frames) \/ (x.pc = p /\ x.alarm = b)
    BY <1>1, <2>1, PushNested
  <2> QED BY <1>1, <2>2 DEF x
<1>4. \A b : ~In("added", b, rest) /\ (In("call", b, rest) <=> b = a)
  BY <1>1, <1>2, <1>3
<1>5. alarm_list \in Seq(Alarms) /\ Distinct(alarm_list) /\ (sorted => Rising(alarm_list, trigger))
      /\ \A b \in Alarms : b \in Range(alarm_list) <=> enabled[b]
  BY <1>1 DEF Types, Linked, linked, Added
<1>6. /\ list \in Seq(Alarms) /\ Distinct(list) /\ Range(list) = Range(alarm_list) \ {a}
      /\ sorted => Rising(list, trigger)
  BY <1>5, UnlinkFacts
<1>7. sorted' = sorted
  BY DEF config
<1>8. t \in Nat
  <2>1. trigger[a] \in Nat /\ interval[a] \in Nat /\ Word \in Nat \ {0}
    BY Numbers DEF Types
  <2> QED BY <2>1
<1>9. CASE interval[a] # 0
  <2>1. add_alarm(a, t, interval[a], list, rest, calls)
    BY <1>9 DEF Handle
  <2> HIDE DEF t, list, rest
  <2>2. \A b \in Alarms \ {a} : b \in Range(list) <=> enabled[b] /\ ~In("added", b, rest)
    BY <1>4, <1>5, <1>6
  <2>3. rest # <<>> /\ rest[1].pc = "call" => rest[1].alarm = a
    BY <1>2, <1>3
  <2>4. /\ Linked'
        /\ \A b : Added(b)' <=> In("added", b, rest) \/ (b = a /\ t <= counter)
        /\ \A b : Owed(b)' <=> In("call", b, rest)
        /\ Ticking(frames') <=> Ticking(rest)
    BY <1>3, <1>4, <1>6, <1>7, <1>8, <2>1, <2>2, <2>3, AddLinks
  <2> QED BY <1>1, <1>3, <1>4, <1>9, <2>4 DEF Added, Owed, t
<1>10. CASE interval[a] = 0
  <2>1. /\ enabled' = [enabled EXCEPT ![a] = FALSE] /\ alarm_list' = list
        /\ frames' = rest /\ trigger' = trigger
    BY <1>10 DEF Handle
  <2> HIDE DEF t, list, rest
  <2>2. \A b \in Alarms : b \in Range(alarm_list') <=> enabled'[b] /\ ~In("added", b, frames')
    BY <1>4, <1>5, <1>6, <2>1 DEF Types
  <2>3. Linked'
    BY <1>3, <1>6, <1>7, <2>1, <2>2 DEF Linked, linked, Added
  <2> QED BY <1>1, <1>3, <1>4, <1>10, <2>1, <2>3 DEF Added, Owed
<1> QED BY <1>9, <1>10 DEF t

\* tick() calls the function of the alarm it handled.
LEMMA CallLinks ==
    ASSUME Types, Linked, TickCallsAlarm
    PROVE  /\ Linked' /\ self \in Alarms /\ \A b : Owed(b) <=> b = self
           /\ \A b : ~Owed(b)' /\ ~Added(b) /\ ~Added(b)'
           /\ Ticking(frames) /\ Ticking(frames')
<1> DEFINE x == frame("run", self)
           rest == Tail(frames)
<1>1. /\ frames # <<>> /\ Head(frames).pc = "call" /\ self = Head(frames).alarm
      /\ frames' = <<x>> \o rest /\ Nested(frames)
  BY DEF TickCallsAlarm, At, Linked, self
<1>2. self \in Alarms
  BY <1>1, PopTyped DEF Types
<1>3. x \in Frame /\ x.pc = "run" /\ x.alarm = self
  BY <1>2, FrameTypes
<1>4. /\ Nested(rest)
      /\ \A b : In("added", b, frames) <=> In("added", b, rest)
      /\ \A b : In("call", b, frames) <=> In("call", b, rest) \/ self = b
      /\ Ticking(rest) <=> Ticking(frames)
  BY <1>1, ReturnNested
<1>5. /\ Len(rest) = 1 /\ rest[1].pc = "scan" /\ Ticking(rest)
  <2>1. /\ frames \in Seq(Frame) /\ Len(frames) \in Nat \ {0} /\ Head(frames) = frames[1]
        /\ Len(rest) = Len(frames) - 1 /\ rest \in Seq(Frame)
        /\ \A n \in 1..Len(frames)-1 : rest[n] = frames[n + 1]
    BY <1>1, HeadTail DEF Nested
  <2>2. Len(frames) = 1 + 1 /\ frames[Len(frames)].pc = "scan"
    <3>1. 1 \in 1..Len(frames) /\ frames[1].pc = "call"
      BY <1>1, <2>1
    <3>2. ASSUME NEW n \in 1..Len(frames), frames[n].pc = "call"
          PROVE  Len(frames) = n + 1 /\ frames[Len(frames)].pc = "scan"
      <4>1. n = Len(frames) - 1 /\ frames[Len(frames)].pc = "scan"
        BY <1>1, <3>2 DEF Nested
      <4> QED BY <2>1, <4>1
    <3> QED BY <3>1, <3>2
  <2> HIDE DEF rest
  <2>3. Len(frames) = 2
    BY <2>1, <2>2
  <2>4. rest[1] = frames[1 + 1] /\ 1 + 1 = 2
    BY <2>1, <2>3
  <2>5. Len(rest) = 1 /\ rest[1].pc = "scan" /\ rest # <<>>
    BY <2>1, <2>2, <2>3, <2>4
  <2> QED BY <2>5 DEF Ticking
<1>6. \A b : ~In("added", b, rest) /\ ~In("call", b, rest)
  BY <1>5 DEF In
<1> HIDE DEF x, rest
<1>7. /\ Nested(frames') /\ Ticking(frames')
      /\ \A b : ~In("added", b, frames') /\ ~In("call", b, frames')
  <2>1. /\ Nested(<<x>> \o rest) /\ (Ticking(<<x>> \o rest) <=> Ticking(rest))
        /\ \A p, b : In(p, b, <<x>> \o rest) <=> In(p, b, rest) \/ (x.pc = p /\ x.alarm = b)
    BY <1>2, <1>3, <1>4, <1>5, PushNested
  <2> QED BY <1>1, <1>3, <1>5, <1>6, <2>1
<1>8. Linked'
  BY <1>4, <1>6, <1>7 DEF TickCallsAlarm, Linked, linked, Added, config, fields
<1> QED BY <1>2, <1>4, <1>5, <1>6, <1>7, <1>8 DEF Added, Owed

\* tick() returns.
LEMMA DoneLinks ==
    ASSUME Linked, TickDone
    PROVE  /\ Linked' /\ \A b : ~Added(b) /\ ~Added(b)' /\ ~Owed(b) /\ ~Owed(b)'
           /\ Ticking(frames) /\ ~Ticking(frames') /\ frames' = <<>>
<1>1. /\ Len(frames) = 1 /\ frames[1].pc = "scan" /\ frames # <<>> /\ Ticking(frames)
      /\ \A b : ~In("added", b, frames) /\ ~In("call", b, frames)
  BY ScanAlone DEF TickDone, Linked
<1>2. /\ frames' = <<>> /\ Nested(frames')
  <2>1. frames' = Tail(frames) /\ Head(frames).pc = "scan"
    BY DEF TickDone, At
  <2> QED BY <1>1, <2>1, ReturnNested DEF Linked
<1>3. ~Ticking(frames') /\ \A p, b : ~In(p, b, frames')
  BY <1>2 DEF Ticking, In
<1> QED BY <1>1, <1>2, <1>3 DEF TickDone, Linked, linked, Added, Owed, config, fields

\* No alarm is linked at the start.
LEMMA InitLinks == Init => Linked
<1> SUFFICES ASSUME Init PROVE Linked
  OBVIOUS
<1>1. Nested(frames) /\ \A p, b : ~In(p, b, frames)
  BY DEF Init, Nested, In
<1>2. Distinct(alarm_list) /\ Rising(alarm_list, trigger) /\ linked = {}
  BY DEF Init, Distinct, Rising, linked, Range
<1> QED BY <1>1, <1>2 DEF Init, Linked, Added

\* Every step keeps the list and the calls in order.
LEMMA NextLinks == ~Reentrant /\ Types /\ Linked /\ [Next]_vars => Linked'
<1> SUFFICES ASSUME ~Reentrant, Types, Linked, [Next]_vars PROVE Linked'
  OBVIOUS
<1>1. ASSUME NEW a \in Alarms, NEW o \in Offsets, NEW i \in Intervals, counter + o >= 0,
             initialize(a, counter + o, i)
      PROVE  Linked'
  <2>1. counter + o \in Nat
    BY <1>1, WordAssumption, Numbers
  <2> QED BY <1>1, <2>1, InitializeLinks
<1>2. ASSUME NEW a \in Alarms, enable(a) \/ disable(a) PROVE Linked'
  BY <1>2, EnableLinks, DisableLinks
<1>3. CASE AddedRequeues
  <2>1. PICK next \in Nat : Requeue(next)
    BY <1>3, AddedNext DEF AddedRequeues
  <2> QED BY <2>1, RequeueLinks
<1>4. CASE ScanFindsDue
  <2>1. PICK a \in linked : Handle(a) /\ a \in Alarms
    BY <1>4, ScanHandles
  <2>2. At("scan") /\ UNCHANGED config
    BY <1>4, ScanHandles DEF config
  <2> QED BY <2>1, <2>2, HandleLinks
<1>5. CASE FunctionReturns \/ tick \/ TickCallsAlarm \/ TickDone
  BY <1>5, ReturnLinks, TickLinks, CallLinks, DoneLinks
<1>6. CASE UNCHANGED vars
  BY <1>6 DEF vars, Linked, linked, Added, config, fields
<1> QED BY <1>1, <1>2, <1>3, <1>4, <1>5, <1>6 DEF Next

\* They are in order in every state.
LEMMA Linking == ~Reentrant => (Spec => []Linked)
<1> SUFFICES ASSUME ~Reentrant PROVE Spec => []Linked
  OBVIOUS
<1>1. Types /\ Linked /\ [Next]_vars => Linked'
  BY NextLinks
<1> QED BY <1>1, InitLinks, Typing, PTL DEF Spec

\* While no alarm is set again from inside its own add_alarm(), an alarm is on
\* the list exactly while it is enabled, and never twice, whatever the offsets,
\* intervals and increments.
THEOREM AlarmsLinked == ~Reentrant => (Spec => []LinkedWhileEnabled)
<1>1. ASSUME Linked PROVE LinkedWhileEnabled
  <2>1. \A a : a \in Adding <=> Added(a)
    BY <1>1, AddingIn DEF Linked, Nested, Added
  <2> QED BY <1>1, <2>1 DEF Linked, LinkedWhileEnabled, Distinct
<1> SUFFICES ASSUME ~Reentrant PROVE Spec => []LinkedWhileEnabled
  OBVIOUS
<1>2. Spec => []Linked
  BY Linking
<1> QED BY <1>1, <1>2, PTL

-----------------------------------------------------------------------------
(* Triggers.                                                               *)

\* The program asks for a trigger at most an interval ahead ...
Near == \A o \in Offsets, i \in Intervals : i = 0 \/ o <= i

\* ... and for one in the past only at a time that is not a whole number of
\* intervals back.
Apart == \A o \in Offsets, i \in Intervals : i # 0 /\ o < 0 => (-o) % i # 0

\* The counter does not come within an interval or an offset of its wrap.
NoWrap == /\ MaxCount < Word
          /\ \A i \in Intervals : MaxCount + i < Word
          /\ \A o \in Offsets : MaxCount + o < Word

\* The counter value up to which tick() has handled alarms.
handled == IF Ticking(frames) THEN counter - increment ELSE counter

\* Some whole number of intervals after start, the last one not beyond now.
InPhase(a) == \E n \in Nat : /\ trigger[a] = start[a] + n * interval[a]
                             /\ n > 0 => trigger[a] - interval[a] <= counter

\* The trigger of an alarm: in phase with start and not an interval too far; in
\* the past while add_alarm() calls the function.
Timed(a) ==
    /\ trigger[a] < Word
    /\ interval[a] # 0 => trigger[a] <= counter + interval[a]
    /\ InPhase(a)
    /\ Added(a) => trigger[a] <= counter

\* Alarms no trigger of which falls on the time it was asked for: those of a
\* program that sets them Apart, and those set to a time to come.
Punctual(a) == Apart \/ calls[a] # Ignored

\* Their triggers are ahead of what tick() has handled: those tick() did not
\* call are no whole interval behind when add_alarm() goes on.
Current(a) ==
    /\ Added(a) => \/ Ticking(frames) \/ trigger[a] = counter \/ interval[a] = 0
                   \/ (counter - trigger[a]) % interval[a] # 0
    /\ enabled[a] /\ ~Added(a) => trigger[a] > handled

Timely == counter <= MaxCount /\ \A a \in Alarms : Timed(a) /\ (Punctual(a) => Current(a))

\* Subtraction from a multiple.
LEMMA WholeIntervals ==
    ASSUME NEW i \in Nat \ {0}, NEW d \in Nat, d > i
    PROVE  LET q == (d - 1) \div i
           IN  q \in Nat \ {0} /\ q * i <= d - 1 /\ d - 1 < q * i + i
<1> DEFINE q == (d - 1) \div i
<1>1. q \in Int /\ q * i <= d - 1 /\ d - 1 < q * i + i
  OBVIOUS
<1> HIDE DEF q
<1>2. q > 0
  <2> SUFFICES ASSUME q <= 0 PROVE FALSE
    BY <1>1
  <2>1. q * i <= 0
    BY <1>1
  <2> QED BY <1>1, <2>1
<1> QED BY <1>1, <1>2 DEF q

\* synchronize() leaves a trigger that is not in the past alone, and moves one
\* that is by whole intervals to the next interval, from the counter on.
LEMMA SynchronizeFacts ==
    ASSUME Types, NoWrap, counter <= MaxCount, NEW t \in Nat, NEW i \in Intervals \cup {0},
           i # 0 => t <= counter + i
    PROVE  /\ i = 0 \/ t >= counter => synchronize(t, i) = t
           /\ i # 0 /\ t < counter =>
                /\ \E q \in Nat \ {0} : synchronize(t, i) = t + q * i
                /\ synchronize(t, i) \in counter..counter+i-1
<1>1. /\ Word \in Nat \ {0} /\ counter \in Nat /\ i \in Nat /\ MaxCount \in Nat
      /\ counter + i < Word
  BY Numbers, AlarmBoundAssumption DEF NoWrap
<1>2. CASE i = 0
  BY <1>1, <1>2 DEF synchronize
<1>3. CASE i # 0 /\ t >= counter
  <2>1. (counter + i - t) % Word = counter + i - t
    BY <1>1, <1>3
  <2>2. counter + i - t <= i
    BY <1>1, <1>3
  <2> QED BY <1>1, <1>3, <2>1, <2>2 DEF synchronize
<1>4. CASE i # 0 /\ t < counter
  <2> DEFINE d == (counter + i - t) % Word
             q == (d - 1) \div i
  <2>1. d = counter + i - t
    BY <1>1, <1>4
  <2>2. d \in Nat /\ d > i
    BY <1>1, <1>4, <2>1
  <2>3. synchronize(t, i) = (t + i * q) % Word
    BY <1>4, <2>2 DEF synchronize
  <2> HIDE DEF d
  <2>4. q \in Nat \ {0} /\ q * i <= d - 1 /\ d - 1 < q * i + i
    BY <1>1, <1>4, <2>2, WholeIntervals
  <2> HIDE DEF q
  <2> DEFINE p == q * i
  <2>5. p \in Nat /\ p = i * q
    BY <1>1, <2>4
  <2>6. p <= d - 1 /\ d - 1 < p + i
    BY <2>4
  <2> HIDE DEF p
  <2>7. t + p \in counter..counter+i-1 /\ (t + p) % Word = t + p
    BY <1>1, <2>1, <2>5, <2>6
  <2>8. synchronize(t, i) = t + q * i /\ synchronize(t, i) \in counter..counter+i-1
    BY <2>3, <2>5, <2>7 DEF p
  <2> QED BY <1>1, <1>4, <2>4, <2>8
<1> QED BY <1>2, <1>3, <1>4, <1>1

\* An alarm that keeps its fields stays timed.
LEMMA TimedElsewhere ==
    ASSUME NEW b \in Alarms, Timed(b), Punctual(b) => Current(b),
           UNCHANGED <<counter, increment>>, UNCHANGED <<trigger[b], interval[b], start[b]>>,
           enabled'[b] => enabled[b], calls'[b] # Ignored => calls[b] # Ignored,
           Added(b)' <=> Added(b), Ticking(frames') <=> Ticking(frames)
    PROVE  Timed(b)' /\ (Punctual(b)' => Current(b)')
<1>1. Timed(b)'
  BY DEF Timed, InPhase
<1>2. Punctual(b)' => Punctual(b)
  BY DEF Punctual, Apart
<1>3. Current(b) => Current(b)'
  BY DEF Current, handled
<1> QED BY <1>1, <1>2, <1>3

\* One that is added is, if its new trigger is near and in phase.
LEMMA AddTimed ==
    ASSUME Types, Timely, NEW a \in Alarms, NEW t \in Nat, NEW i \in Intervals \cup {0},
           NEW list, NEW rest, NEW called, add_alarm(a, t, i, list, rest, called),
           UNCHANGED <<counter, increment>>, \A b \in Alarms \ {a} : start'[b] = start[b],
           \A b \in Alarms \ {a} : calls'[b] # Ignored => calls[b] # Ignored,
           \A b \in Alarms : Added(b)' <=> Added(b) \/ (b = a /\ t <= counter), ~Added(a),
           Ticking(frames') <=> Ticking(frames),
           t < Word, i # 0 => t <= counter + i,
           \E n \in Nat : t = start'[a] + n * i /\ (n > 0 => t - i <= counter),
           t <= counter /\ Punctual(a)' =>
                Ticking(frames) \/ t = counter \/ i = 0 \/ (counter - t) % i # 0
    PROVE  Timely'
<1>1. /\ trigger'[a] = t /\ interval'[a] = i
      /\ \A b \in Alarms \ {a} : /\ trigger'[b] = trigger[b] /\ interval'[b] = interval[b]
                                 /\ enabled'[b] = enabled[b]
  BY DEF Types, add_alarm
<1>2. ASSUME NEW b \in Alarms, b # a PROVE Timed(b)' /\ (Punctual(b)' => Current(b)')
  BY <1>1, <1>2, TimedElsewhere DEF Timely
<1>3. Timed(a)' /\ (Punctual(a)' => Current(a)')
  <2>1. Added(a)' <=> t <= counter
    OBVIOUS
  <2>2. ~(t <= counter) => t > handled'
    BY Numbers DEF handled
  <2>3. InPhase(a)'
    BY <1>1 DEF InPhase
  <2>4. Added(a)' => trigger'[a] <= counter'
    BY <1>1, <2>1
  <2>5. trigger'[a] < Word /\ (interval'[a] # 0 => trigger'[a] <= counter' + interval'[a])
    BY <1>1
  <2>6. ~Added(a)' => trigger'[a] > handled'
    BY <1>1, <2>1, <2>2
  <2>7. Added(a)' /\ Punctual(a)' =>
            \/ Ticking(frames') \/ trigger'[a] = counter' \/ interval'[a] = 0
            \/ (counter' - trigger'[a]) % interval'[a] # 0
    BY <1>1, <2>1
  <2>8. Timed(a)'
    BY ONLY <2>3, <2>4, <2>5 DEF Timed
  <2>9. Punctual(a)' => Current(a)'
    BY ONLY <2>6, <2>7 DEF Current
  <2> QED BY <2>8, <2>9
<1> QED BY <1>2, <1>3 DEF Timely

\* initialize() sets a trigger in phase with itself; one in the past is no whole
\* interval back, or its alarm is not punctual.
LEMMA InitializeTimes ==
    ASSUME ~Reentrant, Near, NoWrap, Types, Linked, Timely, NEW a \in Alarms,
           NEW o \in Offsets, NEW i \in Intervals, counter + o >= 0,
           initialize(a, counter + o, i)
    PROVE  Timely'
<1> DEFINE t == counter + o
           list == IF enabled[a] THEN unlink(alarm_list, a) ELSE alarm_list
<1>1. o \in Int /\ i \in Nat /\ counter \in Nat /\ t \in Nat
  BY WordAssumption, Numbers
<1>2. /\ \A b : Added(b)' <=> Added(b) \/ (b = a /\ t <= counter)
      /\ ~Added(a) /\ (Ticking(frames') <=> Ticking(frames))
  BY <1>1, InitializeLinks
<1>3. add_alarm(a, t, i, list, Called, afresh(a, t)) /\ UNCHANGED <<counter, increment>>
  BY DEF initialize, config
<1>4. start'[a] = t /\ \A b \in Alarms \ {a} : start'[b] = start[b]
  BY DEF initialize, Types
<1>5. t < Word
  BY <1>1, AlarmBoundAssumption, WordAssumption DEF NoWrap, Timely
<1>6. i # 0 => t <= counter + i
  BY <1>1 DEF Near
<1>7. \E n \in Nat : t = start'[a] + n * i /\ (n > 0 => t - i <= counter)
  <2>1. t = start'[a] + 0 * i
    BY <1>1, <1>4
  <2> QED BY <2>1
<1>8. /\ \A b \in Alarms \ {a} : calls'[b] = calls[b]
      /\ t <= counter => calls'[a] = Ignored
  BY <1>1, <1>3 DEF add_alarm, afresh, count, Types
<1>9. t <= counter /\ Punctual(a)' => t = counter \/ i = 0 \/ (counter - t) % i # 0
  <2> SUFFICES ASSUME o < 0, i # 0, Apart PROVE (counter - t) % i # 0
    BY <1>1, <1>8 DEF Punctual, Apart
  <2>1. counter - t = -o
    BY <1>1
  <2>2. (-o) % i # 0
    BY DEF Apart
  <2> QED BY <2>1, <2>2
<1> HIDE DEF t, list
<1> QED BY <1>1, <1>2, <1>3, <1>4, <1>5, <1>6, <1>7, <1>8, <1>9, AddTimed

\* enable() moves a trigger from the past to the next whole interval, which the
\* counter may just have reached.
LEMMA EnableTimes ==
    ASSUME ~Reentrant, NoWrap, Types, Linked, Timely, NEW a \in Alarms, enable(a)
    PROVE  Timely'
<1> DEFINE i == interval[a]
           t == synchronize(trigger[a], i)
           c == [calls EXCEPT ![a] = Ignored]
<1>1. trigger[a] \in Nat /\ start[a] \in Nat /\ i \in Intervals \cup {0} /\ i \in Nat
      /\ counter \in Nat /\ Word \in Nat /\ MaxCount \in Nat
  BY Numbers, AlarmBoundAssumption DEF Types
<1>2. counter <= MaxCount /\ trigger[a] < Word /\ (i # 0 => trigger[a] <= counter + i)
  BY DEF Timely, Timed
<1>3. PICK n \in Nat : /\ trigger[a] = start[a] + n * i
                       /\ n > 0 => trigger[a] - i <= counter
  BY DEF Timely, Timed, InPhase
<1>4. add_alarm(a, t, i, alarm_list, Called, c) /\ UNCHANGED <<counter, increment, start>>
  BY DEF enable, config
<1>5. /\ \A b : Added(b)' <=> Added(b) \/ (b = a /\ t <= counter)
      /\ ~Added(a) /\ (Ticking(frames') <=> Ticking(frames))
  BY EnableLinks
<1>6. \A b \in Alarms \ {a} : calls'[b] = calls[b]
  <2>1. calls' \in {c, count(c, a)}
    BY <1>4 DEF add_alarm
  <2> QED BY <2>1 DEF count, Types
<1>7. /\ i = 0 \/ trigger[a] >= counter => t = trigger[a]
      /\ i # 0 /\ trigger[a] < counter =>
            /\ \E q \in Nat \ {0} : t = trigger[a] + q * i
            /\ t \in counter..counter+i-1
  BY <1>1, <1>2, SynchronizeFacts
<1> HIDE DEF t, c, i
<1>8. CASE i = 0 \/ trigger[a] >= counter
  <2>1. t = trigger[a]
    BY <1>7, <1>8
  <2>2. t <= counter => t = counter \/ i = 0
    BY <1>1, <1>8, <2>1
  <2>3. \E m \in Nat : t = start'[a] + m * i /\ (m > 0 => t - i <= counter)
    BY <1>3, <1>4, <2>1
  <2> QED BY <1>1, <1>2, <1>4, <1>5, <1>6, <2>1, <2>2, <2>3, AddTimed
<1>9. CASE i # 0 /\ trigger[a] < counter
  <2>1. PICK q \in Nat \ {0} : t = trigger[a] + q * i
    BY <1>7, <1>9
  <2>2. t \in counter..counter+i-1
    BY <1>7, <1>9
  <2>3. t \in Nat /\ t <= counter + i /\ t - i <= counter /\ (t <= counter => t = counter)
    BY <1>1, <2>2
  <2>4. t < Word
    <3>1. counter + i < Word
      BY <1>1, <1>2 DEF NoWrap
    <3> QED BY <1>1, <2>2, <3>1
  <2>5. \E m \in Nat : t = start'[a] + m * i /\ (m > 0 => t - i <= counter)
    <3>1. t = start[a] + (n + q) * i
      BY <1>1, <1>3, <2>1
    <3>2. n + q \in Nat
      OBVIOUS
    <3> QED BY <1>4, <2>3, <3>1, <3>2
  <2> QED BY <1>1, <1>4, <1>5, <1>6, <2>3, <2>4, <2>5, AddTimed
<1> QED BY <1>1, <1>8, <1>9

\* add_alarm() goes on with the next trigger from now on.
LEMMA NextTrigger ==
    ASSUME NoWrap, Types, counter <= MaxCount, NEW t \in Nat, t <= counter,
           NEW i \in Intervals, i # 0
    PROVE  LET next == synchronize((t + i) % Word, i)
           IN  /\ \E q \in Nat : q > 0 /\ next = t + q * i
               /\ next - i <= counter /\ next >= counter /\ next < Word
               /\ t + i >= counter => next = t + i
               /\ t = counter \/ (counter - t) % i # 0 => next > counter
<1> DEFINE s == (t + i) % Word
           next == synchronize(s, i)
<1>1. /\ i \in Nat \ {0} /\ counter \in Nat /\ Word \in Nat \ {0} /\ counter + i < Word
  BY Numbers, WordAssumption, AlarmBoundAssumption DEF NoWrap
<1>2. s = t + i
  BY <1>1
<1> HIDE DEF s
<1>3. /\ s >= counter => next = s
      /\ s < counter => /\ \E q \in Nat \ {0} : next = s + q * i
                        /\ next \in counter..counter+i-1
  <2>1. s \in Nat /\ i \in Intervals \cup {0} /\ s <= counter + i
    BY <1>1, <1>2
  <2> QED BY <1>1, <2>1, SynchronizeFacts
<1> HIDE DEF next
<1>4. CASE s >= counter
  <2>1. next = t + 1 * i /\ next = t + i
    BY <1>1, <1>2, <1>3, <1>4
  <2>2. next > counter \/ counter - t = i
    BY <1>1, <2>1, <1>2, <1>4
  <2>3. i % i = 0
    BY <1>1
  <2>4. t = counter \/ (counter - t) % i # 0 => next > counter
    BY <1>1, <2>1, <2>2, <2>3
  <2> QED BY <1>1, <1>4, <1>2, <2>1, <2>4 DEF next, s
<1>5. CASE s < counter
  <2>1. PICK q \in Nat \ {0} : next = s + q * i
    BY <1>3, <1>5
  <2>2. next \in counter..counter+i-1
    BY <1>3, <1>5
  <2> DEFINE p == q + 1
  <2>3. p \in Nat /\ p > 0 /\ next = t + p * i
    BY <1>1, <1>2, <2>1
  <2> HIDE DEF p
  <2>4. t < counter /\ ~(t + i >= counter)
    BY <1>1, <1>2, <1>5
  <2>5. next = counter => (counter - t) % i = 0
    <3> SUFFICES ASSUME next = counter PROVE (counter - t) % i = 0
      OBVIOUS
    <3>1. counter - t = p * i
      BY <1>1, <2>3
    <3>2. (p * i) % i = 0
      BY <1>1, <2>3
    <3> QED BY <3>1, <3>2
  <2>6. next >= counter /\ next - i <= counter /\ next < Word /\ next \in Nat
    BY <1>1, <2>2
  <2>7. t = counter \/ (counter - t) % i # 0 => next > counter
    BY <1>1, <2>4, <2>5, <2>6
  <2>8. \E m \in Nat : m > 0 /\ next = t + m * i
    BY <2>3
  <2> QED BY <2>4, <2>6, <2>7, <2>8 DEF next, s
<1> QED BY <1>1, <1>2, <1>4, <1>5

\* After the immediate call a periodic alarm is linked in phase and, if it is
\* punctual, for later than now.
LEMMA RequeueTimes ==
    ASSUME NoWrap, Types, Linked, Timely, AddedRequeues
    PROVE  Timely'
<1> PICK a : a = self
  OBVIOUS
<1> DEFINE i == interval[a]
           t == trigger[a]
           next == synchronize((t + i) % Word, i)
<1>1. Requeue(next) /\ next \in Nat
  BY AddedNext DEF AddedRequeues
<1>2. /\ a \in Alarms /\ Added(a)
      /\ \A b : Added(b)' <=> Added(b) /\ b # a
      /\ Ticking(frames') <=> Ticking(frames)
  BY <1>1, RequeueLinks
<1>3. t \in Nat /\ i \in Intervals \cup {0} /\ i \in Nat /\ counter \in Nat
      /\ increment \in Nat \ {0} /\ start[a] \in Nat
  BY <1>2, Numbers DEF Types
<1>4. /\ counter <= MaxCount /\ t <= counter /\ InPhase(a) /\ Timed(a)
      /\ Punctual(a) => Current(a)
  BY <1>2 DEF Timely, Timed
<1>5. UNCHANGED <<counter, increment, interval, start, calls>>
  BY <1>1 DEF Requeue, config
<1>6. /\ i # 0 /\ enabled[a] =>
            trigger' = [trigger EXCEPT ![a] = next] /\ enabled' = enabled
      /\ ~(i # 0 /\ enabled[a]) =>
            trigger' = trigger /\ enabled' = [enabled EXCEPT ![a] = FALSE]
  BY <1>1 DEF Requeue
<1>7. ASSUME NEW b \in Alarms, b # a PROVE Timed(b)' /\ (Punctual(b)' => Current(b)')
  <2>1. UNCHANGED <<trigger[b], interval[b], start[b], enabled[b]>>
    BY <1>5, <1>6, <1>7 DEF Types
  <2> QED BY <1>2, <1>5, <1>7, <2>1, TimedElsewhere DEF Timely
<1>8. Timed(a)' /\ (Punctual(a)' => Current(a)')
  <2>1. CASE ~(i # 0 /\ enabled[a])
    <3>1. UNCHANGED <<trigger, interval, start, counter>> /\ ~enabled'[a]
      BY <1>2, <1>5, <1>6, <2>1 DEF Types
    <3>2. InPhase(a)'
      BY <1>4, <3>1 DEF InPhase
    <3>3. ~Added(a)'
      BY <1>2
    <3> QED BY <1>4, <3>1, <3>2, <3>3 DEF Timed, Current
  <2>2. CASE i # 0 /\ enabled[a]
    <3>1. /\ trigger'[a] = next /\ interval'[a] = i /\ start'[a] = start[a] /\ ~Added(a)'
          /\ UNCHANGED <<counter, increment>>
      BY <1>2, <1>5, <1>6, <2>2 DEF Types
    <3>2. /\ \E q \in Nat : q > 0 /\ next = t + q * i
          /\ next - i <= counter /\ next >= counter /\ next < Word
          /\ t = counter \/ (counter - t) % i # 0 => next > counter
      BY <1>3, <1>4, <2>2, NextTrigger
    <3> HIDE DEF next, i, t
    <3>3. PICK q \in Nat : q > 0 /\ next = t + q * i
      BY <3>2
    <3>4. PICK n \in Nat : t = start[a] + n * i
      BY <1>4 DEF InPhase, t, i
    <3>5. n + q \in Nat /\ next = start[a] + (n + q) * i
      BY <1>3, <3>3, <3>4
    <3>6. InPhase(a)'
      BY <3>1, <3>2, <3>5 DEF InPhase
    <3>7. Punctual(a)' => next > handled'
      <4> SUFFICES ASSUME Punctual(a)' PROVE next > handled'
        OBVIOUS
      <4>1. Current(a)
        BY <1>4, <1>5 DEF Punctual, Apart
      <4>2. ~Ticking(frames) => next > counter
        BY <1>2, <2>2, <3>2, <4>1 DEF Current, i, t
      <4> QED BY <1>1, <1>2, <1>3, <3>1, <3>2, <4>2 DEF handled
    <3>8. next <= counter + i
      BY <1>1, <1>3, <3>2
    <3> QED BY <3>1, <3>2, <3>6, <3>7, <3>8 DEF Timed, Current
  <2> QED BY <2>1, <2>2
<1> QED BY <1>4, <1>5, <1>7, <1>8 DEF Timely

\* A tick makes every trigger one that is at least as far behind.
LEMMA TickTimes ==
    ASSUME Types, Linked, Timely, tick
    PROVE  Timely'
<1>1. /\ \A b : ~Added(b) /\ ~Added(b)' /\ ~Ticking(frames) /\ Ticking(frames')
  BY TickLinks
<1>2. /\ counter' = counter + increment /\ counter' <= MaxCount
      /\ UNCHANGED <<increment, trigger, interval, enabled, start, calls>>
  BY DEF tick, config, fields
<1>3. increment \in Nat \ {0} /\ counter \in Nat
  BY Numbers
<1>4. ASSUME NEW b \in Alarms PROVE Timed(b)' /\ (Punctual(b)' => Current(b)')
  <2>1. Timed(b) /\ (Punctual(b) => Current(b)) /\ InPhase(b) /\ trigger[b] \in Nat /\ interval[b] \in Nat
    BY Numbers DEF Timely, Timed, Types
  <2>2. InPhase(b)'
    <3>1. PICK n \in Nat : /\ trigger[b] = start[b] + n * interval[b]
                           /\ n > 0 => trigger[b] - interval[b] <= counter
      BY <2>1 DEF InPhase
    <3>2. n > 0 => trigger[b] - interval[b] <= counter'
      BY <1>2, <1>3, <2>1, <3>1
    <3> QED BY <1>2, <3>1, <3>2 DEF InPhase
  <2>3. handled' = handled
    BY <1>1, <1>2, <1>3 DEF handled
  <2>4. interval[b] # 0 => trigger[b] <= counter' + interval[b]
    BY <1>2, <1>3, <2>1 DEF Timed
  <2>5. Timed(b)'
    BY <1>1, <1>2, <2>1, <2>2, <2>4 DEF Timed
  <2>6. Punctual(b)' => Punctual(b)
    BY <1>2 DEF Punctual, Apart
  <2>7. Current(b) => Current(b)'
    BY <1>1, <1>2, <2>3 DEF Current
  <2> QED BY <2>1, <2>5, <2>6, <2>7
<1> QED BY <1>2, <1>4 DEF Timely

\* The alarm the scan handles has its next trigger an interval later.
LEMMA HandleTimes ==
    ASSUME NoWrap, Types, Linked, Timely, At("scan"), UNCHANGED <<config, counter, start>>,
           NEW a \in linked, a \in Alarms, trigger[a] <= counter, Handle(a)
    PROVE  Timely'
<1> DEFINE i == interval[a]
           t == (trigger[a] + i) % Word
           list == unlink(alarm_list, a)
           rest == <<frame("call", a)>> \o frames
<1>1. /\ \A b : ~Added(b)
      /\ \A b : Added(b)' <=> b = a /\ i # 0 /\ t <= counter
      /\ Ticking(frames) /\ Ticking(frames')
  <2>1. UNCHANGED config
    OBVIOUS
  <2> QED BY <2>1, HandleLinks
<1>2. UNCHANGED <<counter, increment, start>>
  BY DEF config
<1>3. CASE i # 0
  <2>1. add_alarm(a, t, i, list, rest, calls)
    BY <1>3 DEF Handle
  <2>2. /\ trigger[a] \in Nat /\ i \in Intervals \cup {0} /\ i \in Nat /\ counter \in Nat
        /\ Word \in Nat \ {0} /\ MaxCount \in Nat /\ start[a] \in Nat
    BY Numbers, AlarmBoundAssumption DEF Types
  <2>3. t = trigger[a] + i
    <3>1. counter + i < Word
      BY <2>2, <1>3 DEF NoWrap, Timely
    <3> QED BY <2>2, <3>1
  <2>4. t \in Nat /\ t < Word /\ t <= counter + i /\ t - i <= counter
    BY <2>2, <2>3
  <2>5. \E n \in Nat : t = start'[a] + n * i /\ (n > 0 => t - i <= counter)
    <3>1. PICK n \in Nat : trigger[a] = start[a] + n * i
      BY DEF Timely, Timed, InPhase
    <3>2. n + 1 \in Nat /\ t = start[a] + (n + 1) * i
      <4> HIDE DEF t, i
      <4>1. trigger[a] = start[a] + n * i
        BY <3>1 DEF i
      <4> QED BY <2>2, <2>3, <4>1
    <3> QED BY <1>2, <2>4, <3>2
  <2>6. \A b \in Alarms : Added(b)' <=> Added(b) \/ (b = a /\ t <= counter)
    BY <1>1, <1>3
  <2>7. \A b \in Alarms \ {a} : calls'[b] = calls[b]
    BY <2>1 DEF add_alarm, count, Types
  <2> HIDE DEF t, i, list, rest
  <2> QED BY <1>1, <1>2, <2>1, <2>2, <2>4, <2>5, <2>6, <2>7, AddTimed
<1>4. CASE i = 0
  <2>1. UNCHANGED <<trigger, interval, calls>> /\ enabled' = [enabled EXCEPT ![a] = FALSE]
    BY <1>4 DEF Handle
  <2>2. ASSUME NEW b \in Alarms PROVE Timed(b)' /\ (Punctual(b)' => Current(b)')
    <3>1. UNCHANGED <<trigger[b], interval[b], start[b]>> /\ (enabled'[b] => enabled[b])
      BY <1>2, <2>1 DEF Types
    <3>2. Added(b)' <=> Added(b)
      BY <1>1, <1>4
    <3> QED BY <1>1, <1>2, <2>1, <3>1, <3>2, TimedElsewhere DEF Timely
  <2> QED BY <1>2, <2>2 DEF Timely
<1> QED BY <1>3, <1>4

\* What the scan finds nothing due of has its triggers ahead.
LEMMA NothingDue ==
    ASSUME Types, Linked, Due = {}, NEW a \in linked
    PROVE  trigger[a] > counter
<1> DEFINE due == {n \in 1..Len(alarm_list) : trigger[alarm_list[n]] <= counter}
<1>1. alarm_list \in Seq(Alarms) /\ trigger \in [Alarms -> Nat] /\ counter \in Nat
  BY Numbers DEF Types
<1>2. due = {}
  <2> SUFFICES ASSUME due # {} PROVE FALSE
    OBVIOUS
  <2>1. PICK n \in due : \A m \in due : n <= m
    <3>1. due \in SUBSET Nat
      OBVIOUS
    <3> HIDE DEF due
    <3> QED BY <3>1, LeastNumber
  <2>2. sorted => n = 1
    <3> SUFFICES ASSUME sorted PROVE n = 1
      OBVIOUS
    <3>1. n \in 1..Len(alarm_list) /\ 1 \in 1..Len(alarm_list) /\ 1 <= n
      BY <1>1, <2>1
    <3>2. trigger[alarm_list[1]] <= trigger[alarm_list[n]]
      BY <3>1 DEF Linked, Rising
    <3>3. alarm_list[1] \in Alarms /\ alarm_list[n] \in Alarms
      BY <1>1, <3>1
    <3>4. 1 \in due
      BY <1>1, <2>1, <3>1, <3>2, <3>3
    <3> QED BY <2>1, <3>1, <3>4
  <2>3. n \in Due
    BY <2>1, <2>2 DEF Due
  <2> QED BY <2>3
<1>3. PICK n \in 1..Len(alarm_list) : alarm_list[n] = a
  BY <1>1, OnList DEF linked
<1>4. ~(trigger[a] <= counter) /\ a \in Alarms
  BY <1>1, <1>2, <1>3
<1> QED BY <1>1, <1>4

\* When tick() finds nothing due, every linked alarm is ahead of the counter.
LEMMA DoneTimes ==
    ASSUME Types, Linked, Timely, TickDone
    PROVE  Timely'
<1>1. \A b : ~Added(b) /\ ~Added(b)' /\ Ticking(frames) /\ ~Ticking(frames')
  BY DoneLinks
<1>2. UNCHANGED <<counter, increment, trigger, interval, enabled, start>>
  BY DEF TickDone, config, fields
<1>3. ASSUME NEW b \in Alarms PROVE Timed(b)' /\ Current(b)'
  <2>1. enabled[b] => trigger[b] > counter
    BY <1>1, NothingDue DEF Linked, TickDone
  <2>2. Timed(b)'
    BY <1>1, <1>2 DEF InPhase, Timely, Timed
  <2>3. handled' = counter
    BY <1>1, <1>2 DEF handled
  <2> QED BY <1>1, <1>2, <2>1, <2>2, <2>3 DEF Current
<1> QED BY <1>2, <1>3 DEF Timely

\* disable() and the calls and returns of alarm functions change no trigger.
LEMMA OtherTimes ==
    ASSUME Types, Linked, Timely,
           (\E a \in Alarms : disable(a)) \/ FunctionReturns \/ TickCallsAlarm \/ UNCHANGED vars
    PROVE  Timely'
<1>1. /\ \A b : Added(b)' <=> Added(b)
      /\ Ticking(frames') <=> Ticking(frames)
  <2>1. ASSUME UNCHANGED vars PROVE frames' = frames
    BY <2>1 DEF vars
  <2>2. CASE UNCHANGED vars
    BY <2>1, <2>2 DEF Added
  <2>3. CASE TickCallsAlarm
    BY <2>3, CallLinks
  <2> QED BY <2>2, <2>3, DisableLinks, ReturnLinks
<1>2. /\ UNCHANGED <<counter, increment, trigger, interval, start>>
      /\ \A b \in Alarms : enabled'[b] => enabled[b]
      /\ \A b \in Alarms : calls'[b] # Ignored => calls[b] # Ignored
  BY DEF disable, FunctionReturns, TickCallsAlarm, count, vars, config, fields, Types
<1>3. ASSUME NEW b \in Alarms PROVE Timed(b)' /\ (Punctual(b)' => Current(b)')
  BY <1>1, <1>2, TimedElsewhere DEF Timely
<1> QED BY <1>2, <1>3 DEF Timely

\* The alarms are timed at the start.
LEMMA InitTimes == NoWrap /\ Init => Timely
<1> SUFFICES ASSUME NoWrap, Init PROVE Timely
  OBVIOUS
<1>1. counter = 0 /\ counter <= MaxCount /\ 0 < Word
  BY AlarmBoundAssumption, WordAssumption DEF Init, NoWrap
<1>2. ASSUME NEW a \in Alarms PROVE Timed(a) /\ Current(a)
  <2>1. trigger[a] = 0 /\ interval[a] = 0 /\ start[a] = 0 /\ ~enabled[a] /\ frames = <<>>
    BY DEF Init
  <2>2. InPhase(a)
    <3>1. 0 \in Nat /\ trigger[a] = start[a] + 0 * interval[a] /\ ~(0 > 0)
      BY <2>1
    <3> QED BY <3>1 DEF InPhase
  <2>3. ~Added(a)
    BY <2>1 DEF Added, In
  <2> QED BY <1>1, <2>1, <2>2, <2>3 DEF Timed, Current
<1> QED BY <1>1, <1>2 DEF Timely

\* They are through every step.
LEMMA NextTimes ==
    ~Reentrant /\ Near /\ NoWrap /\ Types /\ Linked /\ Timely /\ [Next]_vars => Timely'
<1> SUFFICES ASSUME ~Reentrant, Near, NoWrap, Types, Linked, Timely, [Next]_vars
             PROVE  Timely'
  OBVIOUS
<1>1. ASSUME NEW a \in Alarms, NEW o \in Offsets, NEW i \in Intervals, counter + o >= 0,
             initialize(a, counter + o, i)
      PROVE  Timely'
  BY <1>1, InitializeTimes
<1>2. ASSUME NEW a \in Alarms, enable(a) PROVE Timely'
  BY <1>2, EnableTimes
<1>3. CASE ScanFindsDue
  <2>1. PICK a \in linked : Handle(a) /\ a \in Alarms /\ trigger[a] <= counter
    BY <1>3, ScanHandles
  <2>2. At("scan") /\ UNCHANGED <<config, counter, start>>
    BY <1>3, ScanHandles
  <2> QED BY <2>1, <2>2, HandleTimes
<1> QED BY <1>1, <1>2, <1>3, RequeueTimes, TickTimes, DoneTimes, OtherTimes DEF Next

\* All of it together, for a program whose alarms are near.
LEMMA Timing == ~Reentrant /\ Near /\ NoWrap => (Spec => [](Types /\ Linked /\ Timely))
<1> SUFFICES ASSUME ~Reentrant, Near, NoWrap PROVE Spec => [](Types /\ Linked /\ Timely)
  OBVIOUS
<1>1. Init => Timely
  BY InitTimes
<1>2. Types /\ Linked /\ Timely /\ [Next]_vars => Timely'
  BY NextTimes
<1>3. Spec => []Linked
  BY Linking
<1> QED BY <1>1, <1>2, <1>3, Typing, PTL DEF Spec

\* At rest nothing is under way.
LEMMA RestAlone ==
    ASSUME AtRest
    PROVE  ~Ticking(frames) /\ \A a : ~Added(a) /\ ~Owed(a)
BY DEF AtRest, Ticking, Added, Owed, In

\* The bounds of what wraps.
InRange == counter <= MaxCount /\ \A a \in Alarms : trigger[a] < Word

\* add_alarm() stores a trigger that is within the word.
LEMMA AddInRange ==
    ASSUME Types, InRange, NEW a \in Alarms, NEW t, t < Word, NEW i, NEW list, NEW rest,
           NEW called, add_alarm(a, t, i, list, rest, called), counter' = counter
    PROVE  InRange'
<1>1. trigger' = [trigger EXCEPT ![a] = t]
  BY DEF add_alarm
<1> QED BY <1>1 DEF InRange, Types

\* So is what synchronize() makes of one.
LEMMA SynchronizeInRange ==
    ASSUME Types, NEW t \in Nat, t < Word, NEW i \in Nat
    PROVE  synchronize(t, i) < Word
<1> DEFINE d == (counter + i - t) % Word
           q == (d - 1) \div i
<1>1. Word \in Nat \ {0} /\ counter \in Nat
  BY Numbers
<1>2. d \in Nat
  BY <1>1
<1> HIDE DEF d
<1>3. i # 0 /\ d > i => q \in Nat
  BY <1>2
<1> HIDE DEF q
<1>4. i # 0 /\ d > i => (t + i * q) % Word < Word
  BY <1>1, <1>3
<1>5. synchronize(t, i) = IF i # 0 /\ d > i THEN (t + i * q) % Word ELSE t
  BY DEF synchronize, d, q
<1> QED BY <1>4, <1>5

\* Every step keeps both within their bounds.
LEMMA NextInRange == NoWrap /\ Types /\ InRange /\ [Next]_vars => InRange'
<1> SUFFICES ASSUME NoWrap, Types, InRange, [Next]_vars PROVE InRange'
  OBVIOUS
<1>1. Word \in Nat \ {0} /\ counter \in Nat /\ MaxCount \in Nat
  BY Numbers, AlarmBoundAssumption
<1>2. \A a \in Alarms : trigger[a] \in Nat /\ interval[a] \in Nat /\ trigger[a] < Word
  BY Numbers DEF Types, InRange
<1>3. ASSUME NEW a \in Alarms, NEW o \in Offsets, NEW i \in Intervals,
             initialize(a, counter + o, i)
      PROVE  InRange'
  <2>1. counter + o < Word
    BY <1>1, WordAssumption DEF NoWrap, InRange
  <2> QED BY <1>3, <2>1, AddInRange DEF initialize
<1>4. ASSUME NEW a \in Alarms, enable(a) PROVE InRange'
  <2>1. synchronize(trigger[a], interval[a]) < Word
    BY <1>2, SynchronizeInRange
  <2> QED BY <1>4, <2>1, AddInRange DEF enable
<1>5. ASSUME NEW a \in Alarms, disable(a) PROVE InRange'
  BY <1>5 DEF disable, InRange
<1>6. CASE AddedRequeues
  <2> DEFINE s == (trigger[self] + interval[self]) % Word
             next == synchronize(s, interval[self])
  <2>1. self \in Alarms
    BY <1>6, PopTyped DEF Types, AddedRequeues, Requeue, At, self
  <2>2. s \in Nat /\ s < Word /\ interval[self] \in Nat
    BY <1>1, <1>2, <2>1
  <2>3. next < Word
    BY <2>2, SynchronizeInRange
  <2>4. counter' = counter /\ trigger' \in {trigger, [trigger EXCEPT ![self] = next]}
    BY <1>6 DEF AddedRequeues, Requeue
  <2> HIDE DEF next
  <2> QED BY <2>1, <2>3, <2>4 DEF InRange, Types
<1>7. CASE tick
  BY <1>7 DEF tick, InRange, fields
<1>8. CASE ScanFindsDue
  <2>1. counter' = counter
    BY <1>8, ScanHandles
  <2>2. PICK a \in Alarms : Handle(a)
    BY <1>8, ScanHandles
  <2>3. (trigger[a] + interval[a]) % Word < Word
    BY <1>1, <1>2
  <2>4. CASE interval[a] # 0
    BY <2>1, <2>2, <2>3, <2>4, AddInRange DEF Handle
  <2>5. CASE interval[a] = 0
    BY <2>1, <2>2, <2>5 DEF Handle, InRange
  <2> QED BY <2>4, <2>5
<1>9. CASE FunctionReturns \/ TickCallsAlarm \/ TickDone \/ UNCHANGED vars
  BY <1>9 DEF FunctionReturns, TickCallsAlarm, TickDone, vars, fields, InRange
<1> QED BY <1>3, <1>4, <1>5, <1>6, <1>7, <1>8, <1>9 DEF Next

\* No counter, trigger or frame of any program leaves its range while the
\* counter does not come within an interval or an offset of the end of its word.
THEOREM AlarmTypes == NoWrap => (Spec => []AlarmTypeOK)
<1>1. ASSUME NoWrap, Types, InRange, sorted \in SortList PROVE AlarmTypeOK
  <2>1. MaxCount \in Nat /\ Word \in Nat /\ counter \in Nat
    BY <1>1, Numbers, AlarmBoundAssumption
  <2>2. counter \in 0..Word-1
    BY <1>1, <2>1 DEF NoWrap, InRange
  <2>3. \A a \in Alarms : trigger[a] \in 0..Word-1
    BY <1>1, <2>1 DEF Types, InRange
  <2>4. trigger \in [Alarms -> 0..Word-1]
    BY <1>1, <2>3 DEF Types
  <2>5. interval \in [Alarms -> Nat]
    <3>1. \A i \in Intervals \cup {0} : i \in Nat
      BY <1>1, Numbers
    <3>2. interval \in [Alarms -> Intervals \cup {0}]
      BY <1>1 DEF Types
    <3> QED BY <3>1, <3>2
  <2> QED BY <1>1, <2>2, <2>4, <2>5 DEF Types, AlarmTypeOK, FramesTyped
<1>2. Init => sorted \in SortList
  BY DEF Init
<1>3. sorted \in SortList /\ [Next]_vars => (sorted \in SortList)'
  <2> SUFFICES ASSUME sorted \in SortList, [Next]_vars PROVE sorted' \in SortList
    OBVIOUS
  <2>1. sorted' = sorted
    BY DEF Next, vars, config, initialize, enable, disable, FunctionReturns, AddedRequeues,
           Requeue, tick, ScanFindsDue, TickCallsAlarm, TickDone
  <2> QED BY <2>1
<1>4. NoWrap /\ Init => InRange
  BY AlarmBoundAssumption, WordAssumption DEF Init, InRange, NoWrap
<1> SUFFICES ASSUME NoWrap PROVE Spec => []AlarmTypeOK
  OBVIOUS
<1>5. Types /\ InRange /\ [Next]_vars => InRange'
  BY NextInRange
<1> QED BY <1>1, <1>2, <1>3, <1>4, <1>5, Typing, PTL DEF Spec

\* Between ticks every linked alarm has its trigger ahead, however alarm
\* functions set up, enable and disable alarms in the middle of a tick: of a
\* program none of whose triggers falls on the time it is asked for.
THEOREM NeverOverdue == ~Reentrant /\ Near /\ Apart /\ NoWrap => (Spec => []NoneOverdue)
<1>1. ASSUME Apart, Types, Linked, Timely PROVE NoneOverdue
  <2> SUFFICES ASSUME AtRest, NEW a \in linked PROVE trigger[a] > counter
    BY DEF NoneOverdue
  <2>1. a \in Alarms
    BY <1>1, OnList DEF Types, linked
  <2>2. enabled[a] /\ ~Added(a) /\ Current(a) /\ ~Ticking(frames)
    BY <1>1, <2>1, RestAlone DEF Linked, Timely, Punctual
  <2> QED BY <2>2 DEF Current, handled
<1> SUFFICES ASSUME ~Reentrant, Near, Apart, NoWrap PROVE Spec => []NoneOverdue
  OBVIOUS
<1>2. Spec => [](Types /\ Linked /\ Timely)
  BY Timing
<1> QED BY <1>1, <1>2, PTL

\* Multiples of the interval.
LEMMA Phase ==
    ASSUME NEW s \in Nat, NEW n \in Nat, NEW i \in Nat \ {0}, NEW t, t = s + n * i
    PROVE  t >= s /\ (t - s) % i = 0 /\ (t > s => n > 0)
<1> DEFINE p == n * i
<1>1. p \in Nat /\ p % i = 0 /\ (n = 0 => p = 0)
  OBVIOUS
<1> HIDE DEF p
<1>2. t = s + p
  BY DEF p
<1>3. t - s = p /\ t >= s /\ (t > s => p # 0)
  BY <1>1, <1>2
<1> QED BY <1>1, <1>3

\* A linked periodic alarm has the next trigger of the schedule it was given,
\* through any number of ticks, disables and enables.
THEOREM KeepsSchedule == ~Reentrant /\ Near /\ NoWrap => (Spec => []OnSchedule)
<1>1. ASSUME Types, Linked, Timely PROVE OnSchedule
  <2> SUFFICES ASSUME AtRest, NEW a \in linked
               PROVE  IF interval[a] = 0 THEN trigger[a] = start[a]
                      ELSE /\ trigger[a] >= start[a]
                           /\ (trigger[a] - start[a]) % interval[a] = 0
                           /\ trigger[a] > start[a] => trigger[a] - interval[a] <= counter
    BY DEF OnSchedule
  <2>1. a \in Alarms
    BY <1>1, OnList DEF Types, linked
  <2>2. interval[a] \in Nat /\ start[a] \in Nat /\ trigger[a] \in Nat
    BY <1>1, <2>1, Numbers DEF Types
  <2>3. PICK n \in Nat : /\ trigger[a] = start[a] + n * interval[a]
                         /\ n > 0 => trigger[a] - interval[a] <= counter
    BY <1>1, <2>1 DEF Timely, Timed, InPhase
  <2>4. CASE interval[a] = 0
    BY <2>2, <2>3, <2>4
  <2>5. CASE interval[a] # 0
    <3>1. interval[a] \in Nat \ {0}
      BY <2>2, <2>5
    <3>2. /\ trigger[a] >= start[a] /\ (trigger[a] - start[a]) % interval[a] = 0
          /\ trigger[a] > start[a] => n > 0
      BY ONLY <2>2, <2>3, <3>1, Phase
    <3> QED BY <2>3, <2>5, <3>2
  <2> QED BY <2>4, <2>5
<1> SUFFICES ASSUME ~Reentrant, Near, NoWrap PROVE Spec => []OnSchedule
  OBVIOUS
<1>2. Spec => [](Types /\ Linked /\ Timely)
  BY Timing
<1> QED BY <1>1, <1>2, PTL

-----------------------------------------------------------------------------
(* Calls of the alarm functions.                                           *)

\* A tick adds no more than two intervals and one to the counter: the immediate
\* call and its synchronize() then skip no trigger.
Frequent == \A n \in Increments, i \in Intervals : i = 0 \/ n <= 2 * i + 1

one(b) == IF b THEN 1 ELSE 0

\* The triggers the alarm has left behind: those its function was called for,
\* and the one tick() is about to call it for, less the one add_alarm() called
\* it for before it moved the trigger on.
passed(a) == calls[a] + one(Owed(a)) - one(Added(a))

\* An alarm left alone since it was set to a time to come: one without an
\* interval has not been called and is enabled, or was once and is not; a
\* periodic one has its trigger as many intervals after start as it passed.
Counted(a) ==
    calls[a] # Ignored =>
        IF interval[a] = 0
        THEN /\ ~Added(a)
             /\ \/ enabled[a] /\ ~Owed(a) /\ calls[a] = 0
                \/ ~enabled[a] /\ passed(a) = 1 /\ start[a] <= counter
        ELSE /\ Added(a) => Owed(a) /\ trigger[a] + interval[a] >= counter
             /\ enabled[a] /\ passed(a) >= 0
             /\ trigger[a] = start[a] + interval[a] * passed(a)
             /\ passed(a) > 0 => trigger[a] - interval[a] <= counter

Counting == \A a \in Alarms : Counted(a)

\* An alarm that keeps its fields and its calls stays counted.
LEMMA CountedElsewhere ==
    ASSUME NEW b \in Alarms, Counted(b), counter' = counter,
           UNCHANGED <<trigger[b], interval[b], start[b], enabled[b], calls[b]>>,
           Added(b)' <=> Added(b), Owed(b)' <=> Owed(b)
    PROVE  Counted(b)'
<1>1. passed(b)' = passed(b)
  BY DEF passed, one
<1> QED BY <1>1 DEF Counted

\* A call is made while tick() owes an alarm its call only from inside
\* add_alarm() of that very alarm.
LEMMA OwedAdded ==
    ASSUME Nested(frames), Caller, NEW a, Owed(a)
    PROVE  Added(a)
<1>1. PICK n \in 1..Len(frames) : frames[n].pc = "call" /\ frames[n].alarm = a
  BY DEF Owed, In
<1>2. /\ frames # <<>> /\ frames \in Seq(Frame) /\ Len(frames) \in Nat
  BY <1>1 DEF Nested
<1>3. Head(frames).pc = "run" /\ Head(frames) = frames[1]
  BY <1>2 DEF Caller, AtRest, At
<1>4. n > 1 /\ n - 1 \in 1..Len(frames)
  BY <1>1, <1>2, <1>3
<1>5. frames[n-1].pc = "added" /\ frames[n-1].alarm = frames[n].alarm
  BY <1>1, <1>4 DEF Nested
<1> QED BY <1>1, <1>4, <1>5 DEF Added, In

\* An alarm that is set up is counted from then on if its trigger is ahead.
LEMMA InitializeCounts ==
    ASSUME ~Reentrant, Types, Linked, Counting, NEW a \in Alarms, NEW t \in Nat,
           NEW i \in Intervals, initialize(a, t, i)
    PROVE  Counting'
<1> DEFINE list == IF enabled[a] THEN unlink(alarm_list, a) ELSE alarm_list
<1>1. /\ ~Added(a)
      /\ \A b : Added(b)' <=> Added(b) \/ (b = a /\ t <= counter)
      /\ \A b : Owed(b)' <=> Owed(b)
  BY InitializeLinks
<1>2. ~Owed(a)
  BY <1>1, OwedAdded DEF initialize, Linked
<1>3. add_alarm(a, t, i, list, Called, afresh(a, t)) /\ counter' = counter
  BY DEF initialize
<1> HIDE DEF list
<1>4. /\ trigger'[a] = t /\ interval'[a] = i /\ enabled'[a]
      /\ \A b \in Alarms \ {a} : UNCHANGED <<trigger[b], interval[b], enabled[b]>>
  BY <1>3 DEF add_alarm, Types
<1>5. start'[a] = t /\ \A b \in Alarms \ {a} : start'[b] = start[b]
  BY DEF initialize, Types
<1>6. /\ t > counter => calls'[a] = 0
      /\ t <= counter => calls'[a] = Ignored
      /\ \A b \in Alarms \ {a} : calls'[b] = calls[b]
  BY <1>3, Numbers DEF add_alarm, afresh, count, Types
<1>7. ASSUME NEW b \in Alarms, b # a PROVE Counted(b)'
  BY <1>1, <1>3, <1>4, <1>5, <1>6, <1>7, CountedElsewhere DEF Counting
<1>8. Counted(a)'
  <2>1. CASE t > counter
    <3>1. ~Added(a)' /\ ~Owed(a)' /\ calls'[a] = 0
      BY <1>1, <1>2, <1>6, <2>1, Numbers
    <3>2. passed(a)' = 0
      BY <3>1 DEF passed, one
    <3>3. t = t + i * 0
      BY WordAssumption
    <3> QED BY <1>4, <1>5, <3>1, <3>2, <3>3 DEF Counted
  <2>2. CASE t <= counter
    BY <1>6, <2>2 DEF Counted
  <2> QED BY <2>1, <2>2, Numbers
<1> QED BY <1>7, <1>8 DEF Counting

\* What add_alarm() on its way, or the scan, moves on is counted with it.
LEMMA RequeueCounts ==
    ASSUME NoWrap, Types, Linked, Timely, Counting, AddedRequeues
    PROVE  Counting'
<1> PICK a : a = self
  OBVIOUS
<1> DEFINE i == interval[a]
           t == trigger[a]
           next == synchronize((t + i) % Word, i)
<1>1. Requeue(next) /\ next \in Nat
  BY AddedNext DEF AddedRequeues
<1>2. /\ a \in Alarms /\ Added(a)
      /\ \A b : Added(b)' <=> Added(b) /\ b # a
      /\ \A b : Owed(b)' <=> Owed(b)
  BY <1>1, RequeueLinks
<1>3. t \in Nat /\ i \in Intervals \cup {0} /\ i \in Nat /\ counter \in Nat /\ start[a] \in Nat
      /\ calls[a] \in Nat \cup {Ignored}
  BY <1>2, Numbers DEF Types
<1>4. counter <= MaxCount /\ t <= counter
  BY <1>2 DEF Timely, Timed
<1>5. UNCHANGED <<counter, interval, start, calls>>
  BY <1>1 DEF Requeue
<1>6. /\ i # 0 /\ enabled[a] =>
            trigger' = [trigger EXCEPT ![a] = next] /\ enabled' = enabled
      /\ ~(i # 0 /\ enabled[a]) =>
            trigger' = trigger /\ enabled' = [enabled EXCEPT ![a] = FALSE]
  BY <1>1 DEF Requeue
<1>7. ASSUME NEW b \in Alarms, b # a PROVE Counted(b)'
  <2>1. UNCHANGED <<trigger[b], interval[b], start[b], enabled[b], calls[b]>>
    BY <1>5, <1>6, <1>7 DEF Types
  <2> QED BY <1>2, <1>5, <1>7, <2>1, CountedElsewhere DEF Counting
<1>8. Counted(a)'
  <2>1. CASE calls[a] = Ignored
    BY <1>5, <2>1 DEF Counted
  <2>2. CASE calls[a] # Ignored
    <3>1. /\ i # 0 /\ Owed(a) /\ t + i >= counter /\ enabled[a] /\ passed(a) >= 0
          /\ t = start[a] + i * passed(a)
      BY <1>2, <2>2 DEF Counting, Counted
    <3>2. next = t + i
      BY <1>3, <1>4, <3>1, NextTrigger
    <3>3. trigger'[a] = next /\ interval'[a] = i /\ start'[a] = start[a] /\ enabled'[a]
      BY <1>2, <1>5, <1>6, <3>1 DEF Types
    <3> HIDE DEF next, t, i
    <3>4. passed(a) \in Int /\ passed(a)' = passed(a) + 1 /\ ~Added(a)'
      BY <1>2, <1>3, <1>5, <3>1 DEF passed, one, Ignored
    <3> DEFINE p == passed(a)
    <3> HIDE DEF p
    <3>5. trigger'[a] = start'[a] + i * (p + 1)
      <4>1. i * (p + 1) = i * p + i
        BY <1>3, <3>4 DEF p
      <4> QED BY <1>3, <3>1, <3>2, <3>3, <3>4, <4>1 DEF p
    <3>6. trigger'[a] = start'[a] + i * passed(a)' /\ passed(a)' >= 0
      BY <3>1, <3>4, <3>5 DEF p
    <3>7. trigger'[a] - interval'[a] <= counter'
      BY <1>3, <1>4, <1>5, <3>2, <3>3
    <3> QED BY ONLY <3>1, <3>3, <3>4, <3>6, <3>7 DEF Counted
  <2> QED BY <2>1, <2>2
<1> QED BY <1>7, <1>8 DEF Counting

\* A tick leaves every count as it is.
LEMMA TickCounts ==
    ASSUME Types, Linked, Counting, tick
    PROVE  Counting'
<1>1. /\ \A b : ~Added(b) /\ ~Added(b)' /\ ~Owed(b) /\ ~Owed(b)'
  BY TickLinks
<1>2. /\ counter' >= counter /\ counter \in Nat /\ counter' \in Nat
      /\ UNCHANGED <<trigger, interval, enabled, start, calls>>
  BY Numbers DEF tick, config, fields
<1>3. ASSUME NEW b \in Alarms PROVE Counted(b)'
  <2>1. passed(b)' = passed(b)
    BY <1>1, <1>2 DEF passed, one
  <2>2. /\ trigger[b] \in Nat /\ interval[b] \in Nat /\ start[b] \in Nat
    BY Numbers DEF Types
  <2>3. start[b] <= counter => start'[b] <= counter'
    BY <1>2, <2>2
  <2>4. trigger[b] - interval[b] <= counter => trigger'[b] - interval'[b] <= counter'
    BY <1>2, <2>2
  <2>5. Counted(b)
    BY DEF Counting
  <2> QED BY <1>1, <1>2, <2>1, <2>3, <2>4, <2>5 DEF Counted
<1> QED BY <1>3 DEF Counting

\* What the scan handles it will call, or add_alarm() does.
LEMMA HandleCounts ==
    ASSUME NoWrap, Frequent, Types, Linked, Timely, Counting, At("scan"),
           UNCHANGED <<config, counter, start>>,
           NEW a \in linked, a \in Alarms, trigger[a] <= counter, Handle(a)
    PROVE  Counting'
<1> DEFINE i == interval[a]
           t == (trigger[a] + i) % Word
           list == unlink(alarm_list, a)
           rest == <<frame("call", a)>> \o frames
<1>1. /\ \A b : ~Added(b) /\ ~Owed(b)
      /\ \A b : Added(b)' <=> b = a /\ i # 0 /\ t <= counter
      /\ \A b : Owed(b)' <=> b = a
      /\ Ticking(frames)
  <2>1. UNCHANGED config
    OBVIOUS
  <2> QED BY <2>1, HandleLinks
<1>2. /\ trigger[a] \in Nat /\ i \in Intervals \cup {0} /\ i \in Nat /\ counter \in Nat
      /\ Word \in Nat \ {0} /\ MaxCount \in Nat /\ start[a] \in Nat
      /\ calls[a] \in Nat \cup {Ignored} /\ increment \in Increments /\ increment \in Nat \ {0}
  BY Numbers, AlarmBoundAssumption DEF Types
<1>3. enabled[a] /\ (calls[a] # Ignored => trigger[a] > counter - increment)
  BY <1>1 DEF Linked, Timely, Punctual, Current, handled
<1>4. Counted(a)
  BY DEF Counting
<1>5. CASE i # 0
  <2>1. add_alarm(a, t, i, list, rest, calls)
    BY <1>5 DEF Handle
  <2>2. t = trigger[a] + i
    <3>1. counter + i < Word
      BY <1>2, <1>5 DEF NoWrap, Timely
    <3> QED BY <1>2, <3>1
  <2>3. increment <= 2 * i + 1
    BY <1>2, <1>5 DEF Frequent
  <2> HIDE DEF t, i, list, rest
  <2>4. /\ trigger'[a] = t /\ interval'[a] = i /\ enabled'[a]
        /\ \A b \in Alarms \ {a} : UNCHANGED <<trigger[b], interval[b], enabled[b]>>
    BY <2>1 DEF add_alarm, Types
  <2>5. calls' = IF t <= counter THEN count(calls, a) ELSE calls
    BY <2>1 DEF add_alarm
  <2>6. ASSUME NEW b \in Alarms, b # a PROVE Counted(b)'
    <3>1. calls'[b] = calls[b]
      BY <2>5, <2>6 DEF count, Types
    <3> QED BY <1>1, <2>4, <2>6, <3>1, CountedElsewhere DEF Counting
  <2>7. Counted(a)'
    <3>1. CASE calls[a] = Ignored
      <4>1. calls'[a] = Ignored
        BY <2>5, <3>1 DEF count
      <4> QED BY <4>1 DEF Counted
    <3>2. CASE calls[a] # Ignored
      <4>1. /\ passed(a) = calls[a] /\ calls[a] \in Nat
        BY <1>1, <1>2, <3>2 DEF passed, one
      <4>2. trigger[a] = start[a] + i * calls[a]
        BY <1>4, <1>5, <3>2, <4>1 DEF Counted, i
      <4>3. passed(a)' = calls[a] + 1
        <5>1. CASE t <= counter
          <6>1. calls'[a] = calls[a] + 1 /\ Added(a)' /\ Owed(a)'
            BY <1>1, <1>5, <2>5, <3>2, <5>1 DEF count, Types
          <6> QED BY <4>1, <6>1 DEF passed, one
        <5>2. CASE ~(t <= counter)
          <6>1. calls'[a] = calls[a] /\ ~Added(a)' /\ Owed(a)'
            BY <1>1, <2>5, <5>2
          <6> QED BY <4>1, <6>1 DEF passed, one
        <5> QED BY <5>1, <5>2
      <4>4. trigger'[a] = start'[a] + interval'[a] * passed(a)'
        <5> DEFINE c == calls[a]
        <5> HIDE DEF c
        <5>1. i * (c + 1) = i * c + i
          BY <1>2, <4>1 DEF c
        <5> QED BY <1>2, <2>2, <2>4, <4>1, <4>2, <4>3, <5>1 DEF c
      <4>5. trigger'[a] + interval'[a] >= counter'
        BY <1>2, <1>3, <2>2, <2>3, <2>4, <3>2
      <4>6. trigger'[a] - interval'[a] <= counter'
        BY <1>2, <2>2, <2>4
      <4>7. passed(a)' >= 0 /\ Owed(a)'
        BY <1>1, <4>1, <4>3
      <4>8. interval'[a] # 0
        BY <1>5, <2>4
      <4> QED BY ONLY <2>4, <4>4, <4>5, <4>6, <4>7, <4>8 DEF Counted
    <3> QED BY <3>1, <3>2
  <2> QED BY <2>6, <2>7 DEF Counting
<1>6. CASE i = 0
  <2>1. UNCHANGED <<trigger, interval, calls>> /\ enabled' = [enabled EXCEPT ![a] = FALSE]
    BY <1>6 DEF Handle
  <2>2. ASSUME NEW b \in Alarms, b # a PROVE Counted(b)'
    <3>1. UNCHANGED <<trigger[b], interval[b], start[b], enabled[b], calls[b]>>
      BY <2>1, <2>2 DEF Types
    <3> QED BY <1>1, <2>2, <3>1, CountedElsewhere DEF Counting
  <2>3. Counted(a)'
    <3>1. CASE calls[a] = Ignored
      BY <2>1, <3>1 DEF Counted
    <3>2. CASE calls[a] # Ignored
      <4>1. calls[a] = 0
        BY <1>3, <1>4, <1>6, <3>2 DEF Counted
      <4>2. ~Added(a)' /\ Owed(a)' /\ ~enabled'[a] /\ calls'[a] = 0 /\ interval'[a] = 0
        BY <1>1, <1>6, <2>1, <4>1 DEF Types
      <4>3. passed(a)' = 1
        BY <4>2 DEF passed, one
      <4>4. start'[a] <= counter'
        <5>1. PICK n \in Nat : trigger[a] = start[a] + n * i
          BY DEF Timely, Timed, InPhase
        <5>2. trigger[a] = start[a]
          BY <1>2, <1>6, <5>1
        <5> QED BY <5>2
      <4> QED BY <4>2, <4>3, <4>4 DEF Counted
    <3> QED BY <3>1, <3>2
  <2> QED BY <2>2, <2>3 DEF Counting
<1> QED BY <1>5, <1>6

\* The call tick() owed is made, and counted.
LEMMA CallCounts ==
    ASSUME Types, Linked, Counting, TickCallsAlarm
    PROVE  Counting'
<1> PICK a : a = self
  OBVIOUS
<1>1. /\ a \in Alarms /\ \A b : Owed(b) <=> b = a
      /\ \A b : ~Owed(b)' /\ ~Added(b) /\ ~Added(b)'
  BY CallLinks
<1>2. /\ calls' = count(calls, a)
      /\ UNCHANGED <<counter, trigger, interval, enabled, start>>
  BY DEF TickCallsAlarm, fields
<1>3. ASSUME NEW b \in Alarms, b # a PROVE Counted(b)'
  <2>1. calls'[b] = calls[b]
    BY <1>2, <1>3 DEF count, Types
  <2> QED BY <1>1, <1>2, <1>3, <2>1, CountedElsewhere DEF Counting
<1>4. Counted(a)'
  <2>1. CASE calls[a] = Ignored
    <3>1. calls'[a] = Ignored
      BY <1>2, <2>1 DEF count
    <3> QED BY <3>1 DEF Counted
  <2>2. CASE calls[a] # Ignored
    <3>1. calls[a] \in Nat /\ calls'[a] = calls[a] + 1
      BY <1>1, <1>2, <2>2 DEF count, Types
    <3>2. passed(a)' = passed(a) /\ Owed(a) /\ ~Added(a)' /\ ~Owed(a)'
      BY <1>1, <3>1 DEF passed, one
    <3>3. Counted(a)
      BY <1>1 DEF Counting
    <3> QED BY <1>2, <2>2, <3>2, <3>3 DEF Counted
  <2> QED BY <2>1, <2>2
<1> QED BY <1>3, <1>4 DEF Counting

\* enable() and disable() end the count of an alarm.
LEMMA EnableCounts ==
    ASSUME ~Reentrant, Types, Linked, Counting, NEW a \in Alarms, enable(a) \/ disable(a)
    PROVE  Counting'
<1>1. /\ counter' = counter /\ start' = start /\ calls'[a] = Ignored
      /\ \A b \in Alarms \ {a} :
            UNCHANGED <<trigger[b], interval[b], enabled[b], calls[b]>>
  <2>1. CASE enable(a)
    <3>1. calls' \in {[calls EXCEPT ![a] = Ignored], count([calls EXCEPT ![a] = Ignored], a)}
      BY <2>1 DEF enable, add_alarm
    <3>2. /\ trigger' = [trigger EXCEPT ![a] = synchronize(trigger[a], interval[a])]
          /\ interval' = [interval EXCEPT ![a] = interval[a]]
          /\ enabled' = [enabled EXCEPT ![a] = TRUE]
          /\ counter' = counter /\ start' = start
      BY <2>1 DEF enable, add_alarm
    <3>3. calls' = [calls EXCEPT ![a] = Ignored]
      BY <3>1 DEF count, Types
    <3> HIDE DEF synchronize
    <3> QED BY <3>2, <3>3 DEF Types
  <2>2. CASE disable(a)
    BY <2>2 DEF disable, Types
  <2> QED BY <2>1, <2>2
<1>2. \A b \in Alarms \ {a} : (Added(b)' <=> Added(b)) /\ (Owed(b)' <=> Owed(b))
  BY EnableLinks, DisableLinks
<1>3. ASSUME NEW b \in Alarms, b # a PROVE Counted(b)'
  BY <1>1, <1>2, <1>3, CountedElsewhere DEF Counting
<1>4. Counted(a)'
  BY <1>1 DEF Counted
<1> QED BY <1>3, <1>4 DEF Counting

\* Returns count nothing.
LEMMA OtherCounts ==
    ASSUME Linked, Counting, FunctionReturns \/ TickDone \/ UNCHANGED vars
    PROVE  Counting'
<1>1. \A b : (Added(b)' <=> Added(b)) /\ (Owed(b)' <=> Owed(b))
  <2>1. CASE UNCHANGED vars
    <3>1. frames' = frames
      BY <2>1 DEF vars
    <3> QED BY <3>1 DEF Added, Owed
  <2> QED BY <2>1, ReturnLinks, DoneLinks
<1>2. UNCHANGED <<counter, trigger, interval, enabled, start, calls>>
  BY DEF FunctionReturns, TickDone, vars, fields
<1>3. ASSUME NEW b \in Alarms PROVE Counted(b)'
  BY <1>1, <1>2, CountedElsewhere DEF Counting
<1> QED BY <1>3 DEF Counting

\* Every step keeps the counts.
LEMMA NextCounts ==
    ~Reentrant /\ NoWrap /\ Frequent /\ Types /\ Linked /\ Timely /\ Counting /\ [Next]_vars
      => Counting'
<1> SUFFICES ASSUME ~Reentrant, NoWrap, Frequent, Types, Linked, Timely, Counting, [Next]_vars
             PROVE  Counting'
  OBVIOUS
<1>1. ASSUME NEW a \in Alarms, NEW o \in Offsets, NEW i \in Intervals, counter + o >= 0,
             initialize(a, counter + o, i)
      PROVE  Counting'
  <2>1. counter + o \in Nat
    BY <1>1, WordAssumption, Numbers
  <2> QED BY <1>1, <2>1, InitializeCounts
<1>2. ASSUME NEW a \in Alarms, enable(a) \/ disable(a) PROVE Counting'
  BY <1>2, EnableCounts
<1>3. CASE ScanFindsDue
  <2>1. PICK a \in linked : Handle(a) /\ a \in Alarms /\ trigger[a] <= counter
    BY <1>3, ScanHandles
  <2>2. At("scan") /\ UNCHANGED <<config, counter, start>>
    BY <1>3, ScanHandles
  <2> QED BY <2>1, <2>2, HandleCounts
<1> QED BY <1>1, <1>2, <1>3, RequeueCounts, TickCounts, CallCounts, OtherCounts DEF Next

\* The triggers from s to c, i apart, when the next one is t.
LEMMA Occurrences ==
    ASSUME NEW s \in Nat, NEW c \in Nat, NEW i \in Nat \ {0}, NEW n \in Nat \ {0}, NEW t,
           t = s + i * n, t > c, t - i <= c
    PROVE  c >= s /\ (c - s) \div i + 1 = n
<1> DEFINE m == n - 1
           p == i * m
           q == (c - s) \div i
<1>1. m \in Nat /\ n = m + 1
  OBVIOUS
<1>2. p \in Nat
  BY <1>1
<1>3. t = s + p + i
  <2>1. i * n = i * m + i
    OBVIOUS
  <2> QED BY <2>1
<1> HIDE DEF m
<1>4. p <= c - s /\ c - s < p + i /\ c >= s
  <2> HIDE DEF p
  <2> QED BY <1>2, <1>3
<1>5. q \in Int /\ i * q <= c - s /\ c - s < i * q + i
  <2> DEFINE d == c - s
  <2>1. d \in Nat
    BY <1>2, <1>4
  <2> HIDE DEF d
  <2>2. d \div i \in Int /\ i * (d \div i) <= d /\ d < i * (d \div i) + i
    BY <2>1
  <2> QED BY <2>2 DEF d
<1> HIDE DEF q
<1>6. i * m < i * (q + 1) /\ i * q < i * (m + 1)
  <2>1. i * (q + 1) = i * q + i /\ i * (m + 1) = i * m + i /\ i * q \in Int
    BY <1>1, <1>5
  <2> QED BY <1>1, <1>4, <1>5, <2>1
<1>7. m < q + 1 /\ q < m + 1
  <2>1. \A x, y \in Int : i * x < i * y => x < y
    OBVIOUS
  <2> QED BY <1>1, <1>5, <1>6, <2>1
<1>8. q = m
  BY <1>1, <1>5, <1>7
<1> QED BY <1>1, <1>4, <1>8 DEF q

\* Between ticks, the function of an alarm set to a time to come and left alone
\* since has been called once for each trigger that has passed, neither skipped
\* nor called twice when alarm functions of the same tick change the list.
THEOREM EachTriggerCalled ==
    ~Reentrant /\ Near /\ NoWrap /\ Frequent => (Spec => []CalledAtEachTrigger)
<1>1. ASSUME Types, Linked, Timely, Counting PROVE CalledAtEachTrigger
  <2> SUFFICES ASSUME AtRest, NEW a \in Alarms, calls[a] # Ignored
               PROVE  calls[a] = CASE counter < start[a] -> 0
                     [] counter >= start[a] /\ interval[a] = 0 -> 1
                     [] counter >= start[a] /\ interval[a] > 0 ->
                          (counter - start[a]) \div interval[a] + 1
    BY DEF CalledAtEachTrigger
  <2> DEFINE i == interval[a]
             n == calls[a]
  <2>1. /\ i \in Nat /\ start[a] \in Nat /\ trigger[a] \in Nat /\ counter \in Nat /\ n \in Nat
    BY <1>1, Numbers DEF Types
  <2>2. ~Ticking(frames) /\ ~Added(a) /\ ~Owed(a)
    BY RestAlone
  <2>3. InPhase(a) /\ Current(a) /\ Counted(a)
    BY <1>1 DEF Timely, Timed, Punctual, Counting
  <2>4. passed(a) = n
    BY <2>1, <2>2 DEF passed, one
  <2>5. enabled[a] => trigger[a] > counter
    BY <2>2, <2>3 DEF Current, handled
  <2>6. CASE i = 0
    <3>1. PICK m \in Nat : trigger[a] = start[a] + m * i
      BY <2>3 DEF InPhase
    <3>2. trigger[a] = start[a]
      BY <2>1, <2>6, <3>1
    <3>3. \/ enabled[a] /\ n = 0
          \/ n = 1 /\ start[a] <= counter
      BY <2>3, <2>4, <2>6 DEF Counted
    <3> QED BY <2>1, <2>5, <2>6, <3>2, <3>3
  <2>7. CASE i # 0
    <3>1. /\ trigger[a] > counter /\ trigger[a] = start[a] + i * n
          /\ n > 0 => trigger[a] - i <= counter
      BY <2>3, <2>4, <2>5, <2>7 DEF Counted
    <3>2. CASE n = 0
      <4>1. counter < start[a]
        BY <2>1, <3>1, <3>2
      <4> QED BY <3>2, <4>1, <2>1
    <3>3. CASE n # 0
      <4> HIDE DEF n, i
      <4>1. counter >= start[a] /\ (counter - start[a]) \div i + 1 = n
        <5>1. i \in Nat \ {0} /\ n \in Nat \ {0} /\ trigger[a] - i <= counter
          BY <2>1, <2>7, <3>1, <3>3
        <5>2. trigger[a] = start[a] + i * n /\ trigger[a] > counter
          BY <3>1
        <5> QED BY ONLY <2>1, <5>1, <5>2, Occurrences
      <4>2. ~(counter < start[a]) /\ i > 0
        BY <2>1, <2>7, <4>1
      <4> QED BY <2>7, <4>1, <4>2 DEF n, i
    <3> QED BY <3>2, <3>3
  <2> QED BY <2>6, <2>7
<1>2. ASSUME Init PROVE Counting
  BY <1>2 DEF Init, Counting, Counted
<1> SUFFICES ASSUME ~Reentrant, Near, NoWrap, Frequent PROVE Spec => []CalledAtEachTrigger
  OBVIOUS
<1>3. Types /\ Linked /\ Timely /\ Counting /\ [Next]_vars => Counting'
  BY NextCounts
<1>4. Spec => [](Types /\ Linked /\ Timely)
  BY Timing
<1> QED BY <1>1, <1>2, <1>3, <1>4, PTL DEF Spec
=============================================================================
