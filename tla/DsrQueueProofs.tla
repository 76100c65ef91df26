--------------------------- MODULE DsrQueueProofs ---------------------------
(***************************************************************************)
(* The pointers of the DSR list form the lists they should, and the list   *)
(* delivers DSRs as DsrDelivery says, for any number of interrupts.        *)
(***************************************************************************)
EXTENDS DsrQueue, SequenceTheorems, TLAPS

\* ListsAgree is inductive with types, and with a walk over only at its end.
IInv == /\ DsrTypeOK
        /\ ListsAgree
        /\ ~calling => next = Null

-----------------------------------------------------------------------------
(* Lists.                                                                  *)

\* The first element is the head the pointers start at.
LEMMA HeadOfList ==
    ASSUME NEW head, NEW q \in Seq(Interrupts), Links(head, q)
    PROVE  /\ head = Null <=> q = <<>>
           /\ head # Null => /\ Len(q) \in Nat \ {0} /\ head = q[1] /\ Head(q) = head
                             /\ head \in Interrupts /\ On(q, head)
<1>1. CASE q = <<>>
  BY <1>1 DEF Links
<1>2. CASE q # <<>>
  <2>1. Len(q) \in Nat \ {0} /\ q[1] \in Interrupts /\ Head(q) = q[1]
    BY <1>2
  <2> QED BY <1>2, <2>1, NullAssumption DEF Links, On
<1> QED BY <1>1, <1>2

\* What is on a tail, and on a list with one more element.
LEMMA TailOfList ==
    ASSUME NEW q \in Seq(Interrupts), Distinct(q), q # <<>>
    PROVE  /\ Tail(q) \in Seq(Interrupts) /\ Distinct(Tail(q))
           /\ \A i : On(Tail(q), i) <=> On(q, i) /\ i # q[1]
<1> DEFINE r == Tail(q)
<1>1. /\ r \in Seq(Interrupts) /\ Len(q) \in Nat \ {0} /\ Len(r) = Len(q) - 1
      /\ \A n \in 1..Len(r) : r[n] = q[n+1]
  BY q # <<>>
<1> HIDE DEF r
<1>2. Distinct(r)
  BY <1>1 DEF Distinct
<1>3. ASSUME NEW i PROVE On(r, i) <=> On(q, i) /\ i # q[1]
  <2>1. ASSUME On(r, i) PROVE On(q, i) /\ i # q[1]
    <3>1. PICK n \in 1..Len(r) : r[n] = i
      BY <2>1 DEF On
    <3>2. n + 1 \in 1..Len(q) /\ q[n+1] = i /\ 1 \in 1..Len(q) /\ n + 1 # 1
      BY <1>1, <3>1
    <3> QED BY <3>2 DEF On, Distinct
  <2>2. ASSUME On(q, i), i # q[1] PROVE On(r, i)
    <3>1. PICK n \in 1..Len(q) : q[n] = i
      BY <2>2 DEF On
    <3>2. n - 1 \in 1..Len(r) /\ r[n-1] = i
      BY <1>1, <2>2, <3>1
    <3> QED BY <3>2 DEF On
  <2> QED BY <2>1, <2>2
<1> QED BY <1>1, <1>2, <1>3 DEF r

\* Appending what is not on the list yet.
LEMMA AppendToList ==
    ASSUME NEW q \in Seq(Interrupts), Distinct(q), NEW i \in Interrupts, ~On(q, i)
    PROVE  /\ Append(q, i) \in Seq(Interrupts) /\ Distinct(Append(q, i))
           /\ \A j : On(Append(q, i), j) <=> On(q, j) \/ j = i
<1> DEFINE r == Append(q, i)
<1>1. /\ r \in Seq(Interrupts) /\ Len(q) \in Nat /\ Len(r) = Len(q) + 1
      /\ \A n \in 1..Len(q) : r[n] = q[n]
      /\ r[Len(q)+1] = i
  OBVIOUS
<1> HIDE DEF r
<1>2. Distinct(r)
  BY <1>1 DEF Distinct, On
<1>3. ASSUME NEW j PROVE On(r, j) <=> On(q, j) \/ j = i
  <2>1. On(r, j) => On(q, j) \/ j = i
    BY <1>1 DEF On
  <2>2. On(q, j) => On(r, j)
    BY <1>1 DEF On
  <2>3. On(r, i)
    BY <1>1 DEF On
  <2> QED BY <2>1, <2>2, <2>3
<1> QED BY <1>1, <1>2, <1>3 DEF r

\* Concatenation keeps the first element.
LEMMA ConcatTail ==
    ASSUME NEW q \in Seq(Interrupts), q # <<>>, NEW r \in Seq(Interrupts)
    PROVE  /\ q \o r # <<>> /\ Head(q \o r) = Head(q)
           /\ Tail(q) \o r = Tail(q \o r)
<1>1. Len(q) \in Nat \ {0} /\ Len(r) \in Nat
  OBVIOUS
<1>2. /\ q \o r \in Seq(Interrupts) /\ Len(q \o r) = Len(q) + Len(r)
      /\ Tail(q) \in Seq(Interrupts) /\ Len(Tail(q)) = Len(q) - 1
  BY <1>1
<1>3. /\ Tail(q) \o r \in Seq(Interrupts) /\ Tail(q \o r) \in Seq(Interrupts)
      /\ Len(Tail(q) \o r) = Len(q) + Len(r) - 1 /\ Len(Tail(q \o r)) = Len(q) + Len(r) - 1
  BY <1>1, <1>2
<1>4. ASSUME NEW n \in 1..Len(q) + Len(r) - 1
      PROVE  (Tail(q) \o r)[n] = Tail(q \o r)[n]
  BY <1>1, <1>2, <1>3
<1>5. Tail(q) \o r = Tail(q \o r)
  BY <1>3, <1>4, SeqEqual
<1> QED BY <1>1, <1>2, <1>5

\* A list of other interrupts is not disturbed by a change of i's pointer.
LEMMA LinksElsewhere ==
    ASSUME NEW head, NEW q \in Seq(Interrupts), Links(head, q),
           NEW i, ~On(q, i), NEW v,
           next_dsr \in [Interrupts -> Interrupts \cup {Null}],
           next_dsr' = [next_dsr EXCEPT ![i] = v]
    PROVE  /\ head = IF q = <<>> THEN Null ELSE q[1]
           /\ \A n \in 1..Len(q) :
                 next_dsr'[q[n]] = IF n = Len(q) THEN Null ELSE q[n+1]
<1>1. \A n \in 1..Len(q) : q[n] \in Interrupts /\ q[n] # i
  BY DEF On
<1>2. \A n \in 1..Len(q) : next_dsr'[q[n]] = next_dsr[q[n]]
  BY <1>1
<1> QED BY <1>2 DEF Links

-----------------------------------------------------------------------------
(* The steps preserve the invariant.                                       *)

\* Posting keeps the lists.
LEMMA PostStep ==
    ASSUME IInv, NEW i \in Interrupts, post_dsr(i)
    PROVE  IInv'
<1>1. CASE dsr_count[i] # 0
  <2>1. UNCHANGED <<dsr_list, dsr_list_tail, next_dsr, pended, calling, intr, next,
                    count, batch>>
    BY <1>1 DEF post_dsr, list_vars
  <2>2. dsr_count' = [dsr_count EXCEPT ![i] = @ + 1] /\ dsr_count \in [Interrupts -> Nat]
    BY DEF post_dsr, IInv, DsrTypeOK
  <2>3. dsr_count' \in [Interrupts -> Nat]
        /\ \A j \in Interrupts : dsr_count'[j] > 0 <=> dsr_count[j] > 0
    BY <1>1, <2>2
  <2>4. DsrTypeOK'
    BY <2>1, <2>3 DEF IInv, DsrTypeOK
  <2>5. \A j \in Interrupts : dsr_count'[j] = 0 => dsr_count[j] = 0
    BY <2>2, <2>3
  <2>6. ListsAgree'
    BY <2>1, <2>3, <2>5 DEF IInv, ListsAgree, Links, Distinct, On
  <2> QED BY <2>1, <2>4, <2>6 DEF IInv
<1>2. CASE dsr_count[i] = 0
  <2>1. /\ dsr_list_tail' = i /\ pended' = Append(pended, i)
        /\ UNCHANGED <<calling, intr, next, count, batch>>
        /\ dsr_count' = [dsr_count EXCEPT ![i] = @ + 1]
    BY <1>2 DEF post_dsr
  <2>2. /\ DsrTypeOK /\ ListsAgree
        /\ pended \in Seq(Interrupts) /\ batch \in Seq(Interrupts)
        /\ next_dsr \in [Interrupts -> Interrupts \cup {Null}]
        /\ dsr_count \in [Interrupts -> Nat]
        /\ Links(dsr_list, pended) /\ Links(next, batch)
        /\ Distinct(pended) /\ Distinct(batch)
    BY DEF IInv, DsrTypeOK, ListsAgree
  <2>3. ~On(pended, i) /\ ~On(batch, i) /\ next_dsr[i] = Null
    BY <1>2, <2>2 DEF ListsAgree
  <2>4. /\ pended' \in Seq(Interrupts) /\ Distinct(pended')
        /\ \A j : On(pended', j) <=> On(pended, j) \/ j = i
    BY <2>1, <2>2, <2>3, AppendToList
  <2>5. /\ dsr_count' \in [Interrupts -> Nat]
        /\ \A j \in Interrupts : dsr_count'[j] > 0 <=> dsr_count[j] > 0 \/ j = i
        /\ \A j \in Interrupts : dsr_count'[j] = 0 => dsr_count[j] = 0
    BY <2>1, <2>2
  <2>6. Distinct(pended)' /\ Distinct(batch)'
    BY <2>1, <2>2, <2>4 DEF Distinct
  <2>7. \A j \in Interrupts :
            (/\ dsr_count[j] > 0 <=> On(pended, j) \/ On(batch, j)
             /\ ~(On(pended, j) /\ On(batch, j)))'
    <3> SUFFICES ASSUME NEW j \in Interrupts
                 PROVE  /\ dsr_count'[j] > 0 <=> On(pended', j) \/ On(batch', j)
                        /\ ~(On(pended', j) /\ On(batch', j))
      BY DEF On
    <3>1. dsr_count[j] > 0 <=> On(pended, j) \/ On(batch, j)
      BY <2>2 DEF ListsAgree
    <3>2. ~(On(pended, j) /\ On(batch, j))
      BY <2>2 DEF ListsAgree
    <3> QED BY <2>1, <2>3, <2>4, <2>5, <3>1, <3>2
  <2>8. CASE dsr_list_tail = Null
    <3>1. dsr_list' = i /\ next_dsr' = next_dsr
      BY <1>2, <2>8 DEF post_dsr
    <3>2. pended = <<>>
      <4>1. pended # <<>> => pended[Len(pended)] \in Interrupts
        BY <2>2
      <4> QED BY <2>2, <2>8, <4>1, NullAssumption DEF ListsAgree
    <3>3. pended' = <<i>>
      BY <2>1, <3>2
    <3>4. Links(dsr_list, pended)' /\ Links(next, batch)'
      BY <2>1, <2>2, <2>3, <3>1, <3>3 DEF Links
    <3>5. dsr_list_tail' = IF pended' = <<>> THEN Null ELSE pended'[Len(pended')]
      BY <2>1, <3>3
    <3>6. \A j \in Interrupts : dsr_count'[j] = 0 => next_dsr'[j] = Null
      BY <2>2, <2>5, <3>1 DEF ListsAgree
    <3>7. ListsAgree'
      BY <2>6, <2>7, <3>4, <3>5, <3>6 DEF ListsAgree
    <3>8. DsrTypeOK'
      BY <2>1, <2>2, <2>4, <2>5, <3>1 DEF DsrTypeOK
    <3> QED BY <2>1, <3>7, <3>8 DEF IInv
  <2>9. CASE dsr_list_tail # Null
    <3> DEFINE last == pended[Len(pended)]
    <3>1. dsr_list' = dsr_list /\ next_dsr' = [next_dsr EXCEPT ![dsr_list_tail] = i]
      BY <1>2, <2>9 DEF post_dsr
    <3>2. pended # <<>> /\ dsr_list_tail = last
      BY <2>2, <2>9 DEF ListsAgree
    <3>3. Len(pended) \in Nat \ {0} /\ last \in Interrupts /\ On(pended, last)
      BY <2>2, <3>2 DEF On
    <3>4. ~On(batch, last) /\ dsr_count[last] > 0
      BY <2>2, <3>3 DEF ListsAgree
    <3>5. next_dsr' \in [Interrupts -> Interrupts \cup {Null}]
          /\ next_dsr'[last] = i
          /\ \A j \in Interrupts \ {last} : next_dsr'[j] = next_dsr[j]
      BY <2>2, <3>1, <3>2, <3>3
    <3>6. Links(next, batch)'
      <4>1. \A n \in 1..Len(batch) : batch[n] \in Interrupts \ {last}
        BY <2>2, <3>4 DEF On
      <4> QED BY <2>1, <2>2, <3>5, <4>1 DEF Links
    <3>7. Links(dsr_list, pended)'
      <4>1. /\ Len(pended') = Len(pended) + 1 /\ pended'[Len(pended)+1] = i
            /\ \A n \in 1..Len(pended) : pended'[n] = pended[n]
        BY <2>1, <2>2
      <4>2. pended' # <<>> /\ pended'[1] = pended[1] /\ dsr_list = pended[1]
        BY <2>2, <3>2, <3>3, <4>1 DEF Links
      <4>3. ASSUME NEW n \in 1..Len(pended')
            PROVE  next_dsr'[pended'[n]] = IF n = Len(pended') THEN Null ELSE pended'[n+1]
        <5>1. CASE n = Len(pended) + 1
          <6>1. i # last
            BY <2>3, <3>3
          <6> QED BY <2>3, <3>5, <4>1, <5>1, <6>1
        <5>2. CASE n = Len(pended)
          BY <3>3, <3>5, <4>1, <5>2
        <5>3. CASE n \in 1..Len(pended)-1
          <6>1. pended[n] # last /\ pended[n] \in Interrupts
            BY <2>2, <3>3, <5>3 DEF Distinct
          <6>2. n \in 1..Len(pended) /\ n + 1 \in 1..Len(pended) /\ n # Len(pended')
            BY <3>3, <4>1, <5>3
          <6>3. next_dsr[pended[n]] = pended[n+1]
            BY <2>2, <3>3, <5>3, <6>2 DEF Links
          <6> QED BY <3>5, <4>1, <6>1, <6>2, <6>3
        <5> QED BY <3>3, <4>1, <5>1, <5>2, <5>3
      <4> QED BY <3>1, <4>2, <4>3 DEF Links
    <3>8. dsr_list_tail' = IF pended' = <<>> THEN Null ELSE pended'[Len(pended')]
      <4>1. Len(pended') = Len(pended) + 1 /\ pended'[Len(pended) + 1] = i /\ pended' # <<>>
        BY <2>1, <2>2
      <4> QED BY <2>1, <4>1
    <3>9. \A j \in Interrupts : dsr_count'[j] = 0 => next_dsr'[j] = Null
      BY <2>2, <2>5, <3>4, <3>5 DEF ListsAgree
    <3>10. ListsAgree'
      BY <2>6, <2>7, <3>6, <3>7, <3>8, <3>9 DEF ListsAgree
    <3>11. DsrTypeOK'
      BY <2>1, <2>2, <2>4, <2>5, <3>1, <3>5 DEF DsrTypeOK
    <3> QED BY <2>1, <3>10, <3>11 DEF IInv
  <2> QED BY <2>8, <2>9
<1> QED BY <1>1, <1>2

\* Taking the head of a list q leaves its tail; a disjoint list r stays.
LEMMA TakeStep ==
    ASSUME IInv, NEW i \in Interrupts, Take(i),
           NEW q \in Seq(Interrupts), NEW r \in Seq(Interrupts), NEW head,
           q # <<>>, q[1] = i, Links(i, q), Links(head, r),
           Distinct(q), Distinct(r),
           \A j \in Interrupts : dsr_count[j] > 0 <=> On(q, j) \/ On(r, j),
           \A j \in Interrupts : ~(On(q, j) /\ On(r, j))
    PROVE  /\ Tail(q) \in Seq(Interrupts) /\ Distinct(Tail(q))
           /\ next' = IF Tail(q) = <<>> THEN Null ELSE Tail(q)[1]
           /\ \A n \in 1..Len(Tail(q)) : next_dsr'[Tail(q)[n]] = IF n = Len(Tail(q)) THEN Null ELSE Tail(q)[n+1]
           /\ \A n \in 1..Len(r) : next_dsr'[r[n]] = IF n = Len(r) THEN Null ELSE r[n+1]
           /\ \A j \in Interrupts : /\ dsr_count'[j] > 0 <=> On(Tail(q), j) \/ On(r, j)
                                    /\ ~(On(Tail(q), j) /\ On(r, j))
                                    /\ dsr_count'[j] = 0 => next_dsr'[j] = Null
           /\ intr' = i /\ calling' = TRUE /\ next' \in Interrupts \cup {Null}
           /\ next_dsr' \in [Interrupts -> Interrupts \cup {Null}]
           /\ dsr_count' \in [Interrupts -> Nat] /\ count' \in Nat
<1> DEFINE t == Tail(q)
<1>1. /\ next_dsr \in [Interrupts -> Interrupts \cup {Null}]
      /\ dsr_count \in [Interrupts -> Nat]
      /\ \A j \in Interrupts : dsr_count[j] = 0 => next_dsr[j] = Null
  BY DEF IInv, DsrTypeOK, ListsAgree
<1>2. /\ intr' = i /\ count' = dsr_count[i] /\ next' = next_dsr[i] /\ calling' = TRUE
      /\ dsr_count' = [dsr_count EXCEPT ![i] = 0]
      /\ next_dsr'  = [next_dsr EXCEPT ![i] = Null]
  BY DEF Take
<1>3. /\ t \in Seq(Interrupts) /\ Distinct(t)
      /\ \A j : On(t, j) <=> On(q, j) /\ j # i
  BY TailOfList
<1>4. /\ Len(q) \in Nat \ {0} /\ Len(t) = Len(q) - 1
      /\ \A n \in 1..Len(t) : t[n] = q[n+1]
  OBVIOUS
<1> HIDE DEF t
<1>5. On(q, i) /\ ~On(r, i)
  BY <1>4 DEF On
<1>6. next' = IF t = <<>> THEN Null ELSE t[1]
  <2>1. next_dsr[q[1]] = IF 1 = Len(q) THEN Null ELSE q[1+1]
    <3>1. 1 \in 1..Len(q)
      BY <1>4
    <3> QED BY <3>1 DEF Links
  <2>2. CASE Len(q) = 1
    BY <1>2, <1>3, <1>4, <2>1, <2>2
  <2>3. CASE Len(q) # 1
    <3>1. t # <<>> /\ t[1] = q[2]
      BY <1>3, <1>4, <2>3
    <3>2. next_dsr[i] = q[2]
      BY <2>1, <2>3
    <3> QED BY <1>2, <3>1, <3>2
  <2> QED BY <2>2, <2>3
<1>7. ASSUME NEW n \in 1..Len(t)
      PROVE  next_dsr'[t[n]] = IF n = Len(t) THEN Null ELSE t[n+1]
  <2>1. n + 1 \in 1..Len(q) /\ t[n] = q[n+1] /\ 1 \in 1..Len(q) /\ q[n+1] \in Interrupts
    BY <1>4
  <2>2. q[n+1] # i
    BY <2>1, <1>4 DEF Distinct
  <2>3. next_dsr[q[n+1]] = IF n + 1 = Len(q) THEN Null ELSE q[(n+1)+1]
    BY <2>1 DEF Links
  <2>4. n # Len(t) => t[n+1] = q[(n+1)+1]
    <3> SUFFICES ASSUME n # Len(t) PROVE n + 1 \in 1..Len(t)
      BY <1>4
    <3> QED BY <1>4
  <2>5. next_dsr'[t[n]] = next_dsr[q[n+1]]
    BY <1>1, <1>2, <2>1, <2>2
  <2>6. n = Len(t) <=> n + 1 = Len(q)
    BY <1>4
  <2> QED BY <2>3, <2>4, <2>5, <2>6
<1>8. \A n \in 1..Len(r) : next_dsr'[r[n]] = IF n = Len(r) THEN Null ELSE r[n+1]
  BY <1>1, <1>2, <1>5, LinksElsewhere
<1>9. ASSUME NEW j \in Interrupts
      PROVE  /\ dsr_count'[j] > 0 <=> On(t, j) \/ On(r, j)
             /\ ~(On(t, j) /\ On(r, j))
             /\ dsr_count'[j] = 0 => next_dsr'[j] = Null
  <2>1. CASE j = i
    BY <1>1, <1>2, <1>3, <1>5, <2>1
  <2>2. CASE j # i
    BY <1>1, <1>2, <1>3, <2>2
  <2> QED BY <2>1, <2>2
<1>10. /\ intr' = i /\ calling' = TRUE /\ next' \in Interrupts \cup {Null}
       /\ next_dsr' \in [Interrupts -> Interrupts \cup {Null}]
       /\ dsr_count' \in [Interrupts -> Nat] /\ count' \in Nat
  BY <1>1, <1>2
<1> QED BY <1>3, <1>6, <1>7, <1>8, <1>9, <1>10 DEF t

\* Detaching the list keeps the invariant; the rest of the old one is empty.
LEMMA DetachStep ==
    ASSUME IInv, Detach
    PROVE  IInv' /\ batch = <<>> /\ pended # <<>> /\ Head(pended) = dsr_list
<1>1. /\ ~calling /\ dsr_list # Null /\ Take(dsr_list)
      /\ dsr_list' = Null /\ dsr_list_tail' = Null
      /\ batch' = Tail(pended) /\ pended' = <<>>
  BY DEF Detach
<1>2. /\ pended \in Seq(Interrupts) /\ batch \in Seq(Interrupts) /\ next = Null
      /\ Links(dsr_list, pended) /\ Links(next, batch)
      /\ Distinct(pended) /\ Distinct(batch)
      /\ \A j \in Interrupts : dsr_count[j] > 0 <=> On(pended, j) \/ On(batch, j)
      /\ \A j \in Interrupts : ~(On(pended, j) /\ On(batch, j))
  BY <1>1 DEF IInv, DsrTypeOK, ListsAgree
<1>3. batch = <<>>
  BY <1>2, HeadOfList
<1>4. pended # <<>> /\ dsr_list \in Interrupts /\ pended[1] = dsr_list
      /\ Head(pended) = dsr_list
  BY <1>1, <1>2, HeadOfList
<1>5. /\ Tail(pended) \in Seq(Interrupts) /\ Distinct(Tail(pended))
      /\ next' = IF Tail(pended) = <<>> THEN Null ELSE Tail(pended)[1]
      /\ \A n \in 1..Len(Tail(pended)) :
            next_dsr'[Tail(pended)[n]] = IF n = Len(Tail(pended)) THEN Null ELSE Tail(pended)[n+1]
      /\ \A j \in Interrupts : /\ dsr_count'[j] > 0 <=> On(Tail(pended), j) \/ On(batch, j)
                               /\ dsr_count'[j] = 0 => next_dsr'[j] = Null
      /\ intr' = dsr_list /\ calling' = TRUE /\ next' \in Interrupts \cup {Null}
      /\ next_dsr' \in [Interrupts -> Interrupts \cup {Null}]
      /\ dsr_count' \in [Interrupts -> Nat] /\ count' \in Nat
  BY <1>1, <1>2, <1>4, TakeStep
<1>6. \A j : ~On(batch, j) /\ ~On(pended', j)
  BY <1>1, <1>3 DEF On
<1>7. Distinct(pended') /\ pended' \in Seq(Interrupts) /\ Len(pended') = 0
  BY <1>1 DEF Distinct
<1>8. Links(dsr_list, pended)' /\ Links(next, batch)'
  BY <1>1, <1>5, <1>7 DEF Links
<1>9. ListsAgree'
  <2>1. Distinct(pended)' /\ Distinct(batch)'
    BY <1>1, <1>5, <1>7 DEF Distinct
  <2>2. \A j \in Interrupts : (/\ dsr_count[j] > 0 <=> On(pended, j) \/ On(batch, j)
                               /\ ~(On(pended, j) /\ On(batch, j))
                               /\ dsr_count[j] = 0 => next_dsr[j] = Null)'
    <3> SUFFICES ASSUME NEW j \in Interrupts
                 PROVE  /\ dsr_count'[j] > 0 <=> On(pended', j) \/ On(batch', j)
                        /\ ~(On(pended', j) /\ On(batch', j))
                        /\ dsr_count'[j] = 0 => next_dsr'[j] = Null
      BY DEF On
    <3> QED BY <1>1, <1>5, <1>6
  <2> QED BY <1>1, <1>8, <2>1, <2>2 DEF ListsAgree
<1>10. DsrTypeOK'
  BY <1>1, <1>4, <1>5, <1>7 DEF DsrTypeOK
<1> QED BY <1>3, <1>4, <1>5, <1>9, <1>10 DEF IInv

\* Going on to the next DSR keeps the invariant.
LEMMA CallNextStep ==
    ASSUME IInv, CallNext
    PROVE  IInv' /\ batch # <<>> /\ Head(batch) = next
<1>1. /\ calling /\ next # Null /\ Take(next) /\ batch' = Tail(batch)
      /\ dsr_list' = dsr_list /\ dsr_list_tail' = dsr_list_tail /\ pended' = pended
  BY DEF CallNext, list_vars
<1>2. /\ pended \in Seq(Interrupts) /\ batch \in Seq(Interrupts)
      /\ Links(dsr_list, pended) /\ Links(next, batch)
      /\ Distinct(pended) /\ Distinct(batch)
      /\ dsr_list_tail = IF pended = <<>> THEN Null ELSE pended[Len(pended)]
      /\ {dsr_list, dsr_list_tail} \subseteq Interrupts \cup {Null}
      /\ \A j \in Interrupts : /\ dsr_count[j] > 0 <=> On(pended, j) \/ On(batch, j)
                               /\ ~(On(pended, j) /\ On(batch, j))
  BY DEF IInv, DsrTypeOK, ListsAgree
<1>3. batch # <<>> /\ next \in Interrupts /\ batch[1] = next /\ Head(batch) = next
  BY <1>1, <1>2, HeadOfList
<1>4. \A j \in Interrupts : dsr_count[j] > 0 <=> On(batch, j) \/ On(pended, j)
  BY <1>2
<1>5. \A j \in Interrupts : ~(On(batch, j) /\ On(pended, j))
  BY <1>2
<1>6. /\ Tail(batch) \in Seq(Interrupts) /\ Distinct(Tail(batch))
      /\ next' = IF Tail(batch) = <<>> THEN Null ELSE Tail(batch)[1]
      /\ \A n \in 1..Len(Tail(batch)) :
            next_dsr'[Tail(batch)[n]] = IF n = Len(Tail(batch)) THEN Null ELSE Tail(batch)[n+1]
      /\ \A n \in 1..Len(pended) :
            next_dsr'[pended[n]] = IF n = Len(pended) THEN Null ELSE pended[n+1]
      /\ \A j \in Interrupts : /\ dsr_count'[j] > 0 <=> On(Tail(batch), j) \/ On(pended, j)
                               /\ ~(On(Tail(batch), j) /\ On(pended, j))
                               /\ dsr_count'[j] = 0 => next_dsr'[j] = Null
      /\ intr' = next /\ calling' = TRUE /\ next' \in Interrupts \cup {Null}
      /\ next_dsr' \in [Interrupts -> Interrupts \cup {Null}]
      /\ dsr_count' \in [Interrupts -> Nat] /\ count' \in Nat
  BY <1>1, <1>2, <1>3, <1>4, <1>5, TakeStep
<1>7. Links(dsr_list, pended)' /\ Links(next, batch)'
  BY <1>1, <1>2, <1>6 DEF Links
<1>9. ListsAgree'
  <2>1. Distinct(pended)' /\ Distinct(batch)'
    BY <1>1, <1>2, <1>6 DEF Distinct
  <2>2. \A j \in Interrupts : (/\ dsr_count[j] > 0 <=> On(pended, j) \/ On(batch, j)
                               /\ ~(On(pended, j) /\ On(batch, j))
                               /\ dsr_count[j] = 0 => next_dsr[j] = Null)'
    <3> SUFFICES ASSUME NEW j \in Interrupts
                 PROVE  /\ dsr_count'[j] > 0 <=> On(pended', j) \/ On(batch', j)
                        /\ ~(On(pended', j) /\ On(batch', j))
                        /\ dsr_count'[j] = 0 => next_dsr'[j] = Null
      BY DEF On
    <3> QED BY <1>1, <1>6
  <2>3. dsr_list_tail' = IF pended' = <<>> THEN Null ELSE pended'[Len(pended')]
    BY <1>1, <1>2
  <2> QED BY <1>7, <2>1, <2>2, <2>3 DEF ListsAgree
<1>10. DsrTypeOK'
  BY <1>1, <1>2, <1>3, <1>6 DEF DsrTypeOK
<1> QED BY <1>3, <1>6, <1>9, <1>10 DEF IInv

\* The end of the walk, and steps of others, change no list.
LEMMA OtherStep ==
    ASSUME IInv, Done \/ UNCHANGED vars
    PROVE  IInv'
<1>1. UNCHANGED <<dsr_list, dsr_list_tail, next_dsr, dsr_count, intr, next, count,
                  pended, batch>>
  BY DEF Done, vars, list_vars
<1>2. calling' \in BOOLEAN /\ (~calling' => next' = Null)
  BY DEF Done, vars, IInv, DsrTypeOK
<1> QED BY <1>1, <1>2 DEF IInv, DsrTypeOK, ListsAgree, Links, Distinct, On

-----------------------------------------------------------------------------
(* Theorems.                                                               *)

\* It holds before anything is posted.
LEMMA InitInvariant == ASSUME Init PROVE IInv
<1>1. /\ pended = <<>> /\ batch = <<>> /\ Len(pended) = 0 /\ Len(batch) = 0
      /\ pended \in Seq(Interrupts) /\ batch \in Seq(Interrupts)
  BY DEF Init
<1>2. Links(dsr_list, pended) /\ Links(next, batch)
  BY <1>1 DEF Init, Links
<1>3. \A j : ~On(pended, j) /\ ~On(batch, j)
  BY <1>1 DEF On
<1>4. Distinct(pended) /\ Distinct(batch)
  BY <1>1 DEF Distinct
<1>5. ListsAgree
  BY <1>1, <1>2, <1>3, <1>4 DEF ListsAgree, Init
<1> QED BY <1>1, <1>5 DEF Init, IInv, DsrTypeOK

\* The pointers always form the pended list and the rest of the detached one,
\* with the interrupts that have posts on them: no DSR is lost, none linked
\* twice, and the tail is never left behind.
THEOREM ListsCorrect == Spec => []ListsAgree
<1>1. Init => IInv
  BY InitInvariant
<1>2. IInv /\ [Next]_vars => IInv'
  BY PostStep, DetachStep, CallNextStep, OtherStep DEF Next, CallDSRs
<1>3. IInv => ListsAgree
  BY DEF IInv
<1> QED BY <1>1, <1>2, <1>3, PTL DEF Spec

\* Taking the head of order and its count is the abstract call.
LEMMA CallImplements ==
    ASSUME IInv, NEW i \in Interrupts, Take(i),
           batch \o pended # <<>>, Head(batch \o pended) = i,
           (batch \o pended)' = Tail(batch \o pended)
    PROVE  Delivery!Call(i)
<1>1. i # Null /\ intr' = i /\ count' = dsr_count[i]
      /\ dsr_count' = [dsr_count EXCEPT ![i] = 0]
  BY NullAssumption DEF Take
<1> QED BY <1>1 DEF Delivery!Call

\* Every step of the list is a step of DsrDelivery or none.
LEMMA StepImplements ==
    ASSUME IInv, [Next]_vars
    PROVE  [Delivery!Next]_Delivery!vars
<1>0. /\ pended \in Seq(Interrupts) /\ batch \in Seq(Interrupts)
      /\ dsr_count \in [Interrupts -> Nat]
  BY DEF IInv, DsrTypeOK
<1>1. ASSUME NEW i \in Interrupts, post_dsr(i)
      PROVE  Delivery!Post(i)
  <2>1. /\ dsr_count' = [dsr_count EXCEPT ![i] = @ + 1]
        /\ pended' = IF dsr_count[i] = 0 THEN Append(pended, i) ELSE pended
        /\ batch' = batch /\ intr' = intr /\ count' = count
    BY <1>1 DEF post_dsr
  <2>2. batch \o Append(pended, i) = Append(batch \o pended, i)
    BY <1>0
  <2> QED BY <2>1, <2>2 DEF Delivery!Post
<1>2. CASE Detach
  <2>1. /\ batch = <<>> /\ pended # <<>> /\ Head(pended) = dsr_list
        /\ Take(dsr_list) /\ batch' = Tail(pended) /\ pended' = <<>>
    BY <1>2, DetachStep DEF Detach
  <2>2. batch \o pended = pended
    BY <1>0, <2>1
  <2>3. (batch \o pended)' = Tail(pended)
    <3>1. Tail(pended) \in Seq(Interrupts)
      BY <1>0, <2>1
    <3> QED BY <2>1, <3>1
  <2>4. dsr_list \in Interrupts
    BY <1>0, <2>1
  <2>5. Delivery!Call(dsr_list)
    BY <2>1, <2>2, <2>3, <2>4, CallImplements
  <2> QED BY <2>4, <2>5 DEF Delivery!Next
<1>3. CASE CallNext
  <2>1. /\ batch # <<>> /\ Head(batch) = next /\ Take(next)
        /\ batch' = Tail(batch) /\ pended' = pended
    BY <1>3, CallNextStep DEF CallNext
  <2>2. next \in Interrupts
    BY <1>0, <2>1
  <2>3. /\ batch \o pended # <<>> /\ Head(batch \o pended) = next
        /\ Tail(batch) \o pended = Tail(batch \o pended)
    BY <1>0, <2>1, ConcatTail
  <2>4. Delivery!Call(next)
    BY <2>1, <2>2, <2>3, CallImplements
  <2> QED BY <2>2, <2>4 DEF Delivery!Next
<1>4. CASE Done \/ UNCHANGED vars
  BY <1>4 DEF Done, vars, Delivery!vars
<1> QED BY <1>1, <1>2, <1>3, <1>4 DEF Next, CallDSRs, Delivery!Next

\* The linked list implements the delivery of DSRs: each call comes in the
\* order of first posts and with the number of posts since the last one.
THEOREM ListDelivers == Spec => DeliversDSRs
<1>1. Init => Delivery!Init
  BY NullAssumption DEF Init, Delivery!Init
<1>2. Init => IInv
  BY InitInvariant
<1>3. IInv /\ [Next]_vars => IInv'
  BY PostStep, DetachStep, CallNextStep, OtherStep DEF Next, CallDSRs
<1>4. IInv /\ [Next]_vars => [Delivery!Next]_Delivery!vars
  BY StepImplements
<1> QED BY <1>1, <1>2, <1>3, <1>4, PTL DEF Spec, DeliversDSRs, Delivery!Spec
=============================================================================
