---------------------------- MODULE MailboxProofs ----------------------------
(***************************************************************************)
(* The ring of a mailbox is a queue: what is stored goes behind what is    *)
(* there, wherever the ring begins and however it wraps around.            *)
(***************************************************************************)
EXTENDS Mailboxes, SequenceTheorems, TLAPS

Contents == Messages \cup {NoMessage}

Mboxes == [base : Slots, count : 0..Size, itemqueue : [Slots -> Contents]]

ring(mb) == [i \in 1..mb.count |-> mb.itemqueue[wrapped(mb.base + i - 1)]]

\* Positions that wrap around do not collide.
LEMMA WrapFacts ==
    ASSUME NEW b \in Slots
    PROVE  /\ \A i \in 0..Size-1 : wrapped(b + i) \in Slots
           /\ \A i, j \in 0..Size-1 : wrapped(b + i) = wrapped(b + j) => i = j
           /\ \A i \in 0..Size-1 : i + 1 < Size =>
                wrapped(wrapped(b + 1) + i) = wrapped(b + (i + 1))
           /\ wrapped(b + 1) \in Slots
           /\ wrapped(b) = b
<1>1. Size \in Nat \ {0} /\ b \in Nat /\ b < Size
  BY MailboxAssumption DEF Slots
<1> QED BY <1>1 DEF wrapped, Slots

\* The ring is a sequence.
LEMMA RingType ==
    ASSUME NEW mb \in Mboxes
    PROVE  ring(mb) \in Seq(Contents) /\ Len(ring(mb)) = mb.count
<1>1. /\ mb.base \in Slots /\ mb.count \in Nat /\ mb.count <= Size
      /\ mb.itemqueue \in [Slots -> Contents] /\ Size \in Nat \ {0}
  BY MailboxAssumption DEF Mboxes
<1>2. \A i \in 1..mb.count : wrapped(mb.base + i - 1) \in Slots
  <2> SUFFICES ASSUME NEW i \in 1..mb.count
               PROVE  wrapped(mb.base + i - 1) \in Slots
    OBVIOUS
  <2>1. i - 1 \in 0..Size-1 /\ mb.base + i - 1 = mb.base + (i - 1)
    BY <1>1 DEF Slots
  <2> QED BY <1>1, <2>1, WrapFacts
<1> QED BY <1>1, <1>2 DEF ring

\* put() stores behind, and get() takes from the front.
LEMMA RingFacts ==
    ASSUME NEW mb \in Mboxes
    PROVE  /\ mb.count < Size => \A m \in Messages :
                /\ store(mb, m) \in Mboxes /\ store(mb, m).count = mb.count + 1
                /\ ring(store(mb, m)) = Append(ring(mb), m)
                /\ newest(store(mb, m)) = m
           /\ mb.count > 0 =>
                /\ removed(mb) \in Mboxes /\ removed(mb).count = mb.count - 1
                /\ ring(mb) # <<>> /\ oldest(mb) = Head(ring(mb))
                /\ ring(removed(mb)) = Tail(ring(mb))
<1>1. /\ mb.base \in Slots /\ mb.count \in Nat /\ mb.count <= Size
      /\ mb.itemqueue \in [Slots -> Contents] /\ Size \in Nat \ {0}
  BY MailboxAssumption DEF Mboxes
<1>2. \A i \in 1..mb.count : /\ i - 1 \in 0..Size-1 /\ mb.base + i - 1 = mb.base + (i - 1)
                             /\ wrapped(mb.base + i - 1) \in Slots
  <2> SUFFICES ASSUME NEW i \in 1..mb.count
               PROVE  /\ i - 1 \in 0..Size-1 /\ mb.base + i - 1 = mb.base + (i - 1)
                      /\ wrapped(mb.base + i - 1) \in Slots
    OBVIOUS
  <2>1. i - 1 \in 0..Size-1 /\ mb.base + i - 1 = mb.base + (i - 1)
    BY <1>1 DEF Slots
  <2> QED BY <1>1, <2>1, WrapFacts
<1>3. ring(mb) \in Seq(Contents) /\ Len(ring(mb)) = mb.count
  BY RingType
<1>4. ASSUME mb.count < Size, NEW m \in Messages
      PROVE  /\ store(mb, m) \in Mboxes /\ store(mb, m).count = mb.count + 1
             /\ ring(store(mb, m)) = Append(ring(mb), m)
             /\ newest(store(mb, m)) = m
  <2> DEFINE slot == wrapped(mb.base + mb.count)
             iq   == [mb.itemqueue EXCEPT ![slot] = m]
             mb2  == store(mb, m)
  <2>1. slot \in Slots /\ mb.count \in 0..Size-1
    BY <1>1, <1>4, WrapFacts
  <2>2. /\ mb2.base = mb.base /\ mb2.count = mb.count + 1 /\ mb2.itemqueue = iq
        /\ mb2 = [base |-> mb.base, count |-> mb.count + 1, itemqueue |-> iq]
    <3>1. mb = [base |-> mb.base, count |-> mb.count, itemqueue |-> mb.itemqueue]
      BY DEF Mboxes
    <3>2. mb2 = [mb EXCEPT !.itemqueue = iq, !.count = mb.count + 1]
      BY DEF store
    <3> HIDE DEF mb2, iq
    <3> QED BY <3>1, <3>2
  <2>3. iq \in [Slots -> Contents] /\ iq[slot] = m
        /\ \A s \in Slots : s # slot => iq[s] = mb.itemqueue[s]
    BY <1>1, <2>1 DEF Contents
  <2>4. mb.count + 1 \in 0..Size /\ mb2.count \in Nat
    BY <1>1, <1>4, <2>2
  <2> HIDE DEF mb2, iq, slot
  <2>5. mb2 \in Mboxes
    BY <1>1, <2>2, <2>3, <2>4 DEF Mboxes
  <2>6. newest(mb2) = m
    <3>1. mb2.base + mb2.count - 1 = mb.base + mb.count
      BY <1>1, <2>2 DEF Slots
    <3> QED BY <2>2, <2>3, <3>1 DEF newest, slot
  <2>7. ASSUME NEW i \in 1..mb.count + 1
        PROVE  ring(mb2)[i] = Append(ring(mb), m)[i]
    <3>1. ring(mb2)[i] = iq[wrapped(mb.base + i - 1)]
      BY <2>2 DEF ring
    <3>2. CASE i = mb.count + 1
      <4>1. mb.base + i - 1 = mb.base + mb.count
        BY <1>1, <3>2 DEF Slots
      <4> QED BY <1>3, <2>3, <3>1, <3>2, <4>1 DEF slot
    <3>3. CASE i # mb.count + 1
      <4>1. i \in 1..mb.count /\ i - 1 # mb.count
        BY <1>1, <3>3
      <4>2. wrapped(mb.base + i - 1) # slot
        BY <1>1, <1>2, <2>1, <4>1, WrapFacts DEF slot
      <4>3. ring(mb2)[i] = mb.itemqueue[wrapped(mb.base + i - 1)]
        BY <1>2, <2>3, <3>1, <4>1, <4>2
      <4>4. Append(ring(mb), m)[i] = ring(mb)[i]
        BY <1>3, <4>1
      <4> QED BY <4>1, <4>3, <4>4 DEF ring
    <3> QED BY <3>2, <3>3
  <2>8. ring(mb2) = Append(ring(mb), m)
    <3>1. ring(mb2) \in Seq(Contents) /\ Len(ring(mb2)) = mb.count + 1
      BY <2>2, <2>5, RingType
    <3>2. /\ Append(ring(mb), m) \in Seq(Contents)
          /\ Len(Append(ring(mb), m)) = mb.count + 1
      BY <1>3, AppendProperties DEF Contents
    <3> QED BY <2>7, <3>1, <3>2, SeqEqual
  <2> QED BY <2>2, <2>5, <2>6, <2>8 DEF mb2
<1>5. ASSUME mb.count > 0
      PROVE  /\ removed(mb) \in Mboxes /\ removed(mb).count = mb.count - 1
             /\ ring(mb) # <<>> /\ oldest(mb) = Head(ring(mb))
             /\ ring(removed(mb)) = Tail(ring(mb))
  <2> DEFINE mb2 == removed(mb)
             b2  == wrapped(mb.base + 1)
  <2>1. b2 \in Slots
    BY <1>1, WrapFacts
  <2>2. /\ mb2.base = b2 /\ mb2.count = mb.count - 1 /\ mb2.itemqueue = mb.itemqueue
        /\ mb2 = [base |-> b2, count |-> mb.count - 1, itemqueue |-> mb.itemqueue]
    <3>1. mb = [base |-> mb.base, count |-> mb.count, itemqueue |-> mb.itemqueue]
      BY DEF Mboxes
    <3>2. mb2 = [mb EXCEPT !.base = b2, !.count = mb.count - 1]
      BY DEF removed
    <3> HIDE DEF mb2, b2
    <3> QED BY <3>1, <3>2
  <2>3. mb.count - 1 \in 0..Size
    BY <1>1, <1>5
  <2> HIDE DEF mb2
  <2>4. mb2 \in Mboxes
    BY <1>1, <2>1, <2>2, <2>3 DEF Mboxes
  <2>5. ring(mb) # <<>> /\ oldest(mb) = Head(ring(mb))
    <3>1. 1 \in 1..mb.count /\ mb.base + 1 - 1 = mb.base
      BY <1>1, <1>5 DEF Slots
    <3>2. ring(mb)[1] = mb.itemqueue[mb.base]
      BY <1>1, <3>1, WrapFacts DEF ring
    <3>3. ring(mb) # <<>> /\ Head(ring(mb)) = ring(mb)[1]
      BY <1>3, <3>1
    <3> QED BY <3>2, <3>3 DEF oldest
  <2>6. ASSUME NEW i \in 1..mb.count - 1
        PROVE  ring(mb2)[i] = Tail(ring(mb))[i]
    <3>1. /\ i - 1 \in 0..Size-1 /\ (i - 1) + 1 < Size /\ i + 1 \in 1..mb.count
          /\ (i - 1) + 1 = i /\ b2 + i - 1 = b2 + (i - 1)
          /\ mb.base + (i + 1) - 1 = mb.base + i
      BY <1>1, <2>1 DEF Slots
    <3>2. wrapped(b2 + (i - 1)) = wrapped(mb.base + ((i - 1) + 1))
      BY <1>1, <3>1, WrapFacts
    <3>3. ring(mb2)[i] = mb.itemqueue[wrapped(b2 + i - 1)]
      BY <2>2 DEF ring
    <3>4. ring(mb)[i + 1] = mb.itemqueue[wrapped(mb.base + i)]
      BY <3>1 DEF ring
    <3>5. Tail(ring(mb))[i] = ring(mb)[i + 1]
      BY <1>3, <2>5
    <3> QED BY <3>1, <3>2, <3>3, <3>4, <3>5
  <2>7. ring(mb2) = Tail(ring(mb))
    <3>1. ring(mb2) \in Seq(Contents) /\ Len(ring(mb2)) = mb.count - 1
      BY <2>2, <2>4, RingType
    <3>2. Tail(ring(mb)) \in Seq(Contents) /\ Len(Tail(ring(mb))) = mb.count - 1
      BY <1>3, <2>5, HeadTailProperties
    <3> QED BY <2>6, <3>1, <3>2, SeqEqual
  <2> QED BY <2>2, <2>4, <2>5, <2>7 DEF mb2
<1> QED BY <1>4, <1>5

=============================================================================
