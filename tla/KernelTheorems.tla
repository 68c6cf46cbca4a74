--------------------------- MODULE KernelTheorems ---------------------------
(***************************************************************************)
(* The inductive invariant of the mailbox, whose queue has to be in order  *)
(* and whose notifications, one for each message, have to be enough, and   *)
(* the theorems about KernelObjects.  A step of the frame is a step of the *)
(* object in use, so that the invariant of KernelObjects is the invariant  *)
(* of that object.                                                         *)
(***************************************************************************)
EXTENDS KernelProofs, WellFoundedInduction

-----------------------------------------------------------------------------
(* The queue of a mailbox *)

LEMMA SameRemoveFirst == \A s, e : Mbx!RemoveFirst(s, e) = Sema!RemoveFirst(s, e)
  BY DEF Mbx!RemoveFirst, Sema!RemoveFirst, Mbx!SelectInSeq, Sema!SelectInSeq,
         Mbx!Min, Sema!Min, Mbx!RemoveAt, Sema!RemoveAt

\* A set of places that is not empty has a first one.
LEMMA FirstPlace ==
  ASSUME NEW I, I \subseteq Nat, I # {}
  PROVE  Mbx!Min(I) \in I /\ \A i \in I : Mbx!Min(I) <= i
<1> DEFINE R == {ss \in Nat \X Nat : ss[1] < ss[2]}
<1>1. IsWellFoundedOn(R, Nat)
  BY NatLessThanWellFounded DEF OpToRel
<1>2. \A x, y \in Nat : y < x => <<y, x>> \in R
  OBVIOUS
<1> HIDE DEF R
<1>3. PICK x \in I : \A y \in I : ~(<<y, x>> \in R)
  BY <1>1, WFMin
<1>4. \A y \in I : x <= y
  <2> TAKE y \in I
  <2>1. x \in Nat /\ y \in Nat /\ ~(y < x)
    BY <1>2, <1>3
  <2> QED
    BY <2>1
<1> QED
  BY <1>3, <1>4 DEF Mbx!Min

\* What stands where after an insertion in front of place p.
LEMMA InsertAtProperties ==
  ASSUME NEW S, NEW s \in Seq(S), NEW p \in 1..Len(s), NEW e \in S
  PROVE  LET r == Mbx!InsertAt(s, p, e)
         IN  /\ r \in Seq(S) /\ Len(r) = Len(s) + 1 /\ r[p] = e
             /\ \A i \in 1..Len(s) : r[IF i < p THEN i ELSE i + 1] = s[i]
<1> DEFINE a == SubSeq(s, 1, p - 1)
           b == SubSeq(s, p, Len(s))
           c == a \o <<e>>
<1>1. a \in Seq(S) /\ Len(a) = p - 1 /\ \A j \in 1..(p - 1) : a[j] = s[j]
  BY SubSeqProperties
<1>2. b \in Seq(S) /\ Len(b) = Len(s) - p + 1 /\ \A j \in 1..(Len(s) - p + 1) : b[j] = s[p + j - 1]
  BY SubSeqProperties
<1>3. Mbx!InsertAt(s, p, e) = c \o b
  BY DEF Mbx!InsertAt
<1> HIDE DEF a, b
<1>4. c \in Seq(S) /\ Len(c) = p /\ c[p] = e /\ \A j \in 1..(p - 1) : c[j] = s[j]
  BY <1>1
<1> HIDE DEF c
<1>5. c \o b \in Seq(S) /\ Len(c \o b) = Len(s) + 1
  BY <1>2, <1>4
<1>6. (c \o b)[p] = e
  BY <1>2, <1>4
<1>7. ASSUME NEW i \in 1..Len(s) PROVE (c \o b)[IF i < p THEN i ELSE i + 1] = s[i]
  <2>1. CASE i < p
    BY <2>1, <1>2, <1>4
  <2>2. CASE ~(i < p)
    <3>1. (c \o b)[i + 1] = b[i + 1 - p]
      BY <2>2, <1>2, <1>4
    <3>2. i + 1 - p \in 1..(Len(s) - p + 1) /\ p + (i + 1 - p) - 1 = i
      BY <2>2
    <3> QED
      BY <3>1, <3>2, <1>2, <2>2
  <2> QED
    BY <2>1, <2>2
<1> QED
  BY <1>3, <1>5, <1>6, <1>7

Queues == messages \in Seq(Messages) /\ arrivals \in Seq(Messages)

\* The place enqueue gives to a message.
LEMMA EnqueuePlace ==
  ASSUME Queues, NEW m \in Messages
  PROVE  LET n == Len(messages)
             q == Mbx!Enqueue(m)
         IN  /\ q \in Seq(Messages) /\ Len(q) = n + 1
             /\ \E p \in 1..(n + 1) :
                  /\ q[p] = m
                  /\ \A i \in 1..n : q[IF i < p THEN i ELSE i + 1] = messages[i]
                  /\ Prioritised => \A i \in 1..n : i < p => Priority[messages[i]] <= Priority[m]
                  /\ p <= n => Prioritised /\ Priority[messages[p]] > Priority[m]
<1> DEFINE n == Len(messages)
           q == Mbx!Enqueue(m)
           I == {i \in 1..n : Priority[messages[i]] > Priority[m]}
           at == IF I # {} THEN Mbx!Min(I) ELSE 0
<1>1. q = IF ~Prioritised \/ at = 0 THEN Append(messages, m) ELSE Mbx!InsertAt(messages, at, m)
  BY DEF Mbx!Enqueue, Mbx!SelectInSeq
<1>2. messages \in Seq(Messages) /\ n \in Nat /\ I \subseteq 1..n
  BY DEF Queues
<1>3. \A i \in 1..n : Priority[messages[i]] \in Nat /\ Priority[m] \in Nat
  BY <1>2, ElementOfSeq, ObjectsAssumption DEF Mbx!MbxAssumption
<1>4. I # {} => at \in I /\ \A i \in I : at <= i
  <2>1. I \subseteq Nat
    BY <1>2
  <2> HIDE DEF I
  <2>2. I # {} => at = Mbx!Min(I)
    OBVIOUS
  <2> HIDE DEF at
  <2> QED
    BY <2>1, <2>2, FirstPlace
<1> HIDE DEF at
<1>5. CASE ~Prioritised \/ I = {}
  <2>1. q = Append(messages, m)
    BY <1>1, <1>5 DEF at
  <2>2. q \in Seq(Messages) /\ Len(q) = n + 1 /\ q[n + 1] = m /\ \A i \in 1..n : q[i] = messages[i]
    BY <1>2, <2>1, AppendProperties
  <2>3. Prioritised => \A i \in 1..n : Priority[messages[i]] <= Priority[m]
    BY <1>3, <1>5
  <2> HIDE DEF q, n
  <2>4. n + 1 \in 1..(n + 1) /\ ~(n + 1 <= n) /\ \A i \in 1..n : i < n + 1
    BY <1>2
  <2> QED
    BY <2>2, <2>3, <2>4 DEF q, n
<1>6. CASE Prioritised /\ I # {}
  <2>1. at \in 1..n /\ at # 0 /\ Priority[messages[at]] > Priority[m]
    BY <1>4, <1>6
  <2>2. q = Mbx!InsertAt(messages, at, m)
    BY <1>1, <1>6, <2>1
  <2>3. /\ q \in Seq(Messages) /\ Len(q) = n + 1 /\ q[at] = m
        /\ \A i \in 1..n : q[IF i < at THEN i ELSE i + 1] = messages[i]
    <3> HIDE DEF q, I
    <3>1. messages \in Seq(Messages) /\ at \in 1..Len(messages)
      BY <1>2, <2>1
    <3>2. LET r == Mbx!InsertAt(messages, at, m)
          IN  /\ r \in Seq(Messages) /\ Len(r) = Len(messages) + 1 /\ r[at] = m
              /\ \A i \in 1..Len(messages) : r[IF i < at THEN i ELSE i + 1] = messages[i]
      BY <3>1, InsertAtProperties
    <3> QED
      BY <2>2, <3>2
  <2>4. \A i \in 1..n : i < at => Priority[messages[i]] <= Priority[m]
    BY <1>3, <1>4, <1>6, <2>1
  <2> HIDE DEF q, n, I
  <2>5. at \in 1..(n + 1)
    BY <1>2, <2>1
  <2> QED
    BY <1>6, <2>1, <2>3, <2>4, <2>5 DEF q, n
<1> QED
  BY <1>5, <1>6

Earlier(s, a, b) == \E k, l \in 1..Len(s) : k < l /\ s[k] = a /\ s[l] = b

\* q is a queue of the messages that s has in their order of arrival.
QueueOf(q, s) ==
    /\ q \in Seq(Messages) /\ s \in Seq(Messages) /\ Len(q) = Len(s)
    /\ Sema!Range(q) = Sema!Range(s) /\ Sema!IsInjective(q) /\ Sema!IsInjective(s)
    /\ \A i, j \in 1..Len(q) : i < j =>
         IF Prioritised /\ Priority[q[i]] # Priority[q[j]]
           THEN Priority[q[i]] < Priority[q[j]] ELSE Earlier(s, q[i], q[j])

LEMMA QueueOrdered ==
  /\ QueueOf(messages, arrivals) => Mbx!QueueOrder
  /\ QueueOf(messages, arrivals)' => Mbx!QueueOrder'
<1> USE DEF QueueOf, Mbx!QueueOrder, Mbx!SentBefore, Earlier,
            Mbx!Range, Sema!Range, Mbx!IsInjective, Sema!IsInjective
<1>1. QueueOf(messages, arrivals) => Mbx!QueueOrder
  OBVIOUS
<1>2. QueueOf(messages, arrivals)' => Mbx!QueueOrder'
  OBVIOUS
<1> QED
  BY <1>1, <1>2

\* A message that is sent takes its place among the queued ones.
LEMMA EnqueueSorts ==
  ASSUME QueueOf(messages, arrivals), NEW m \in Messages, m \notin Mbx!Range(messages)
  PROVE  QueueOf(Mbx!Enqueue(m), Append(arrivals, m))
<1> DEFINE n == Len(messages)
           q == Mbx!Enqueue(m)
           s == Append(arrivals, m)
<1>1. messages \in Seq(Messages) /\ arrivals \in Seq(Messages) /\ n \in Nat /\ Len(arrivals) = n
  BY DEF QueueOf
<1>2. /\ q \in Seq(Messages) /\ Len(q) = n + 1
      /\ \E p \in 1..(n + 1) :
           /\ q[p] = m
           /\ \A i \in 1..n : q[IF i < p THEN i ELSE i + 1] = messages[i]
           /\ Prioritised => \A i \in 1..n : i < p => Priority[messages[i]] <= Priority[m]
           /\ p <= n => Prioritised /\ Priority[messages[p]] > Priority[m]
  <2>1. Queues
    BY <1>1 DEF Queues
  <2> QED
    BY <2>1, EnqueuePlace
<1>4. /\ s \in Seq(Messages) /\ Len(s) = n + 1 /\ s[n + 1] = m
      /\ \A i \in 1..n : s[i] = arrivals[i]
  BY <1>1, AppendProperties
<1>5. Sema!Range(s) = Sema!Range(arrivals) \cup {m} /\ Sema!IsInjective(s)
  <2>1. Sema!IsInjective(arrivals) /\ m \notin Sema!Range(arrivals)
    BY DEF QueueOf, Mbx!Range, Sema!Range
  <2> QED
    BY <1>1, <2>1, AppendInjects
<1>6. \A i \in 1..n : messages[i] # m
  BY <1>1 DEF Mbx!Range
<1>7. \A i, j \in 1..n : messages[i] = messages[j] => i = j
  BY <1>1 DEF QueueOf, Sema!IsInjective
<1>8. \A i \in 1..n : \E k \in 1..n : arrivals[k] = messages[i]
  <2>1. DOMAIN messages = 1..n /\ DOMAIN arrivals = 1..n
    BY <1>1
  <2>2. \A i \in 1..n : messages[i] \in Sema!Range(messages)
    BY <2>1 DEF Sema!Range
  <2>3. \A x \in Sema!Range(arrivals) : \E k \in 1..n : arrivals[k] = x
    BY <2>1 DEF Sema!Range
  <2> QED
    BY <2>2, <2>3 DEF QueueOf
<1>9. \A i \in 1..n : Priority[messages[i]] \in Nat /\ Priority[m] \in Nat
  BY <1>1, ElementOfSeq, ObjectsAssumption DEF Mbx!MbxAssumption
<1>10. \A i, j \in 1..n : i < j =>
         IF Prioritised /\ Priority[messages[i]] # Priority[messages[j]]
           THEN Priority[messages[i]] < Priority[messages[j]]
           ELSE Earlier(arrivals, messages[i], messages[j])
  BY DEF QueueOf
<1> HIDE DEF q, s, n
<1>3. PICK p \in 1..(n + 1) :
           /\ q[p] = m
           /\ \A i \in 1..n : q[IF i < p THEN i ELSE i + 1] = messages[i]
           /\ Prioritised => \A i \in 1..n : i < p => Priority[messages[i]] <= Priority[m]
           /\ p <= n => Prioritised /\ Priority[messages[p]] > Priority[m]
  BY <1>2
\* Every place but p has a message that was there before.
<1>11. ASSUME NEW i \in 1..(n + 1), i # p
       PROVE  \E o \in 1..n : q[i] = messages[o] /\ i = (IF o < p THEN o ELSE o + 1)
  <2>1. CASE i < p
    <3>1. i \in 1..n /\ q[i] = messages[i]
      BY <1>1, <1>3, <2>1
    <3> QED
      BY <2>1, <3>1
  <2>2. CASE i > p
    <3>1. i - 1 \in 1..n /\ ~(i - 1 < p) /\ i - 1 + 1 = i
      BY <1>1, <2>2
    <3>2. q[i] = messages[i - 1]
      BY <1>3, <3>1
    <3> QED
      BY <3>1, <3>2
  <2> QED
    BY <1>1, <1>11, <2>1, <2>2
<1>12. Sema!Range(q) = Sema!Range(messages) \cup {m}
  <2>1. DOMAIN q = 1..(n + 1) /\ DOMAIN messages = 1..n
    BY <1>1, <1>2 DEF n
  <2>2. \A i \in 1..(n + 1) : q[i] \in Sema!Range(messages) \cup {m}
    BY <1>3, <1>11, <2>1 DEF Sema!Range
  <2>3. \A o \in 1..n : \E i \in 1..(n + 1) : q[i] = messages[o]
    <3> TAKE o \in 1..n
    <3>1. (IF o < p THEN o ELSE o + 1) \in 1..(n + 1)
      BY <1>1
    <3> QED
      BY <1>3, <3>1
  <2> QED
    BY <1>3, <2>1, <2>2, <2>3 DEF Sema!Range
<1>13. Sema!IsInjective(q)
  <2>1. DOMAIN q = 1..(n + 1)
    BY <1>2
  <2>2. ASSUME NEW i \in 1..(n + 1), NEW j \in 1..(n + 1), q[i] = q[j] PROVE i = j
    <3>1. CASE i = p \/ j = p
      BY <1>3, <1>6, <1>11, <2>2, <3>1
    <3>2. CASE i # p /\ j # p
      <4>1. PICK o \in 1..n : q[i] = messages[o] /\ i = (IF o < p THEN o ELSE o + 1)
        BY <1>11, <3>2
      <4>2. PICK u \in 1..n : q[j] = messages[u] /\ j = (IF u < p THEN u ELSE u + 1)
        BY <1>11, <3>2
      <4>3. o = u
        BY <1>7, <2>2, <4>1, <4>2
      <4> QED
        BY <4>1, <4>2, <4>3
    <3> QED
      BY <3>1, <3>2
  <2> QED
    BY <2>1, <2>2 DEF Sema!IsInjective
<1>14. \A a, b : Earlier(arrivals, a, b) => Earlier(s, a, b)
  <2> SUFFICES ASSUME NEW a, NEW b, Earlier(arrivals, a, b) PROVE Earlier(s, a, b)
    OBVIOUS
  <2>1. PICK k, l \in 1..n : k < l /\ arrivals[k] = a /\ arrivals[l] = b
    BY <1>1 DEF Earlier
  <2>2. s[k] = a /\ s[l] = b /\ k \in 1..Len(s) /\ l \in 1..Len(s)
    BY <1>1, <1>4, <2>1
  <2> QED
    BY <2>1, <2>2 DEF Earlier
<1>15. \A i \in 1..n : Earlier(s, messages[i], m)
  <2> TAKE i \in 1..n
  <2>1. PICK k \in 1..n : arrivals[k] = messages[i]
    BY <1>8
  <2>2. k < n + 1 /\ k \in 1..Len(s) /\ n + 1 \in 1..Len(s) /\ s[k] = messages[i]
    BY <1>1, <1>4, <2>1
  <2> QED
    BY <1>4, <2>2 DEF Earlier
<1>16. \A o \in 1..n : o >= p => Prioritised /\ Priority[messages[o]] > Priority[m]
  <2> SUFFICES ASSUME NEW o \in 1..n, o >= p
               PROVE  Prioritised /\ Priority[messages[o]] > Priority[m]
    OBVIOUS
  <2>1. p \in 1..n /\ Prioritised /\ Priority[messages[p]] > Priority[m]
    BY <1>1, <1>3
  <2>2. CASE o = p
    BY <2>1, <2>2
  <2>3. CASE o > p
    <3>1. Priority[messages[p]] <= Priority[messages[o]]
      BY <1>9, <1>10, <2>1, <2>3
    <3> QED
      BY <1>9, <2>1, <3>1
  <2> QED
    BY <1>1, <2>2, <2>3
<1>17. ASSUME NEW i \in 1..(n + 1), NEW j \in 1..(n + 1), i < j
       PROVE  IF Prioritised /\ Priority[q[i]] # Priority[q[j]]
                THEN Priority[q[i]] < Priority[q[j]] ELSE Earlier(s, q[i], q[j])
  <2>1. CASE i = p
    <3>1. PICK o \in 1..n : q[j] = messages[o] /\ j = (IF o < p THEN o ELSE o + 1)
      BY <1>11, <1>17, <2>1
    <3>2. o >= p
      BY <1>17, <2>1, <3>1
    <3> QED
      BY <1>3, <1>9, <1>16, <2>1, <3>1, <3>2
  <2>2. CASE j = p
    <3>1. PICK o \in 1..n : q[i] = messages[o] /\ i = (IF o < p THEN o ELSE o + 1)
      BY <1>11, <1>17, <2>2
    <3>2. o < p
      BY <1>17, <2>2, <3>1
    <3>3. Earlier(s, q[i], q[j])
      BY <1>3, <1>15, <2>2, <3>1
    <3> QED
      BY <1>3, <1>9, <2>2, <3>1, <3>2, <3>3
  <2>3. CASE i # p /\ j # p
    <3>1. PICK o \in 1..n : q[i] = messages[o] /\ i = (IF o < p THEN o ELSE o + 1)
      BY <1>11, <2>3
    <3>2. PICK u \in 1..n : q[j] = messages[u] /\ j = (IF u < p THEN u ELSE u + 1)
      BY <1>11, <2>3
    <3>3. o < u
      BY <1>17, <3>1, <3>2
    <3> QED
      BY <1>10, <1>14, <3>1, <3>2, <3>3
  <2> QED
    BY <2>1, <2>2, <2>3
<1>18. Sema!Range(messages) = Sema!Range(arrivals)
  BY DEF QueueOf
<1> QED
  BY <1>2, <1>4, <1>5, <1>12, <1>13, <1>17, <1>18 DEF QueueOf, q, s

\* The first message leaves, wherever it is in the order of arrival.
LEMMA PopSorts ==
  ASSUME QueueOf(messages, arrivals), messages # <<>>
  PROVE  QueueOf(Tail(messages), Mbx!RemoveFirst(arrivals, Head(messages)))
<1> DEFINE n == Len(messages)
           h == messages[1]
           q == Tail(messages)
           s == Sema!RemoveFirst(arrivals, h)
<1>1. /\ messages \in Seq(Messages) /\ arrivals \in Seq(Messages) /\ n \in Nat /\ n >= 1
      /\ Len(arrivals) = n /\ Head(messages) = h
  BY EmptySeq DEF QueueOf
<1>2. q \in Seq(Messages) /\ Len(q) = n - 1 /\ \A i \in 1..(n - 1) : q[i] = messages[i + 1]
  BY <1>1, HeadTailProperties
<1>3. Sema!IsInjective(arrivals) /\ h \in Sema!Range(arrivals)
  <2>1. h \in Sema!Range(messages)
    BY <1>1 DEF Sema!Range
  <2> QED
    BY <2>1 DEF QueueOf
<1>4. s \in Seq(Messages) /\ Sema!IsInjective(s) /\ Sema!Range(s) = Sema!Range(arrivals) \ {h}
  BY <1>1, <1>3, RemoveFirstPresent
<1>5. PICK k \in 1..n : arrivals[k] = h
  BY <1>1, <1>3 DEF Sema!Range
<1>6. Len(s) = n - 1 /\ \A j \in 1..(n - 1) : s[j] = IF j < k THEN arrivals[j] ELSE arrivals[j + 1]
  <2>1. s = Sema!RemoveAt(arrivals, k)
    BY <1>1, <1>3, <1>5, RemoveFirstIsRemoveAt
  <2>2. LET r == Sema!RemoveAt(arrivals, k)
        IN  /\ Len(r) = Len(arrivals) - 1
            /\ \A j \in 1..(Len(arrivals) - 1) : r[j] = IF j < k THEN arrivals[j] ELSE arrivals[j + 1]
    <3>1. arrivals \in Seq(Messages) /\ k \in 1..Len(arrivals)
      BY <1>1
    <3> QED
      BY <3>1, RemoveAtProperties
  <2> HIDE DEF s, n
  <2> QED
    BY <1>1, <2>1, <2>2
<1>7. \A i, j \in 1..n : messages[i] = messages[j] => i = j
  BY <1>1 DEF QueueOf, Sema!IsInjective
<1>8. \A i, j \in 1..n : i < j =>
         IF Prioritised /\ Priority[messages[i]] # Priority[messages[j]]
           THEN Priority[messages[i]] < Priority[messages[j]]
           ELSE Earlier(arrivals, messages[i], messages[j])
  BY DEF QueueOf
<1>9. Sema!Range(messages) = Sema!Range(arrivals)
  BY DEF QueueOf
<1>10. Mbx!RemoveFirst(arrivals, Head(messages)) = s
  BY <1>1, SameRemoveFirst
<1> HIDE DEF q, s, n, h
<1>11. Sema!Range(q) = Sema!Range(messages) \ {h}
  <2>1. DOMAIN q = 1..(n - 1) /\ DOMAIN messages = 1..n
    BY <1>1, <1>2 DEF n
  <2>2. \A i \in 1..(n - 1) : i + 1 \in 1..n /\ messages[i + 1] # h
    BY <1>1, <1>7 DEF h
  <2>3. \A i \in 1..n : messages[i] # h => i - 1 \in 1..(n - 1) /\ q[i - 1] = messages[i]
    <3> SUFFICES ASSUME NEW i \in 1..n, messages[i] # h
                 PROVE  i - 1 \in 1..(n - 1) /\ q[i - 1] = messages[i]
      OBVIOUS
    <3>1. i # 1
      BY DEF h
    <3>2. i - 1 \in 1..(n - 1) /\ i - 1 + 1 = i
      BY <1>1, <3>1
    <3> QED
      BY <1>2, <3>2
  <2>4. \A x \in Sema!Range(q) : x \in Sema!Range(messages) \ {h}
    BY <1>2, <2>1, <2>2 DEF Sema!Range
  <2>5. \A x \in Sema!Range(messages) \ {h} : x \in Sema!Range(q)
    BY <2>1, <2>3 DEF Sema!Range
  <2> QED
    BY <2>4, <2>5
<1>12. Sema!IsInjective(q)
  <2>1. DOMAIN q = 1..(n - 1)
    BY <1>2
  <2>2. \A i, j \in 1..(n - 1) : q[i] = q[j] => i = j
    <3> TAKE i, j \in 1..(n - 1)
    <3>1. i + 1 \in 1..n /\ j + 1 \in 1..n
      BY <1>1
    <3> QED
      BY <1>2, <1>7, <3>1
  <2> QED
    BY <2>1, <2>2 DEF Sema!IsInjective
<1>13. ASSUME NEW a, NEW b, a # h, b # h, Earlier(arrivals, a, b) PROVE Earlier(s, a, b)
  <2>1. PICK u, v \in 1..n : u < v /\ arrivals[u] = a /\ arrivals[v] = b
    BY <1>1, <1>13 DEF Earlier
  <2>2. u # k /\ v # k
    BY <1>5, <1>13, <2>1
  <2>3. \E x \in 1..(n - 1) : s[x] = a /\ x = (IF u < k THEN u ELSE u - 1)
    <3>1. CASE u < k
      BY <1>1, <1>6, <2>1, <3>1
    <3>2. CASE u > k
      <4>1. u - 1 \in 1..(n - 1) /\ ~(u - 1 < k) /\ u - 1 + 1 = u
        BY <1>1, <3>2
      <4> QED
        BY <1>6, <2>1, <3>2, <4>1
    <3> QED
      BY <2>2, <3>1, <3>2
  <2>4. \E x \in 1..(n - 1) : s[x] = b /\ x = (IF v < k THEN v ELSE v - 1)
    <3>1. CASE v < k
      BY <1>1, <1>6, <2>1, <3>1
    <3>2. CASE v > k
      <4>1. v - 1 \in 1..(n - 1) /\ ~(v - 1 < k) /\ v - 1 + 1 = v
        BY <1>1, <3>2
      <4> QED
        BY <1>6, <2>1, <3>2, <4>1
    <3> QED
      BY <2>2, <3>1, <3>2
  <2> QED
    BY <1>6, <2>1, <2>2, <2>3, <2>4 DEF Earlier
<1>14. ASSUME NEW i \in 1..(n - 1), NEW j \in 1..(n - 1), i < j
       PROVE  IF Prioritised /\ Priority[q[i]] # Priority[q[j]]
                THEN Priority[q[i]] < Priority[q[j]] ELSE Earlier(s, q[i], q[j])
  <2>1. i + 1 \in 1..n /\ j + 1 \in 1..n /\ i + 1 < j + 1 /\ 1 \in 1..n /\ i + 1 # 1 /\ j + 1 # 1
    BY <1>1, <1>14
  <2>2. q[i] = messages[i + 1] /\ q[j] = messages[j + 1]
    BY <1>2
  <2>3. q[i] # h /\ q[j] # h
    BY <1>7, <2>1, <2>2 DEF h
  <2> QED
    BY <1>8, <1>13, <2>1, <2>2, <2>3
<1>15. Len(q) = Len(s) /\ Sema!Range(q) = Sema!Range(s)
  BY <1>2, <1>4, <1>6, <1>9, <1>11
<1>16. \A i, j \in 1..Len(q) : i < j =>
         IF Prioritised /\ Priority[q[i]] # Priority[q[j]]
           THEN Priority[q[i]] < Priority[q[j]] ELSE Earlier(s, q[i], q[j])
  BY <1>2, <1>14
<1>17. QueueOf(q, s)
  BY <1>2, <1>4, <1>12, <1>15, <1>16 DEF QueueOf
<1>18. Tail(messages) = q
  BY DEF q
<1> QED
  BY <1>10, <1>17, <1>18

-----------------------------------------------------------------------------
(* The mailbox *)

\* A receiver that has seen something finds it when it takes it.
MbxReady == \A t \in Threads : pc[t] = "commit" => messages # <<>> \/ deleted \/ exit

\* A receiver that gives up or is about to block has seen nothing, and nothing
\* can come before it has dropped the mailbox.
NothingSeen ==
    \A t \in Threads : pc[t] \in {"park", "timeout"} => (messages = <<>> /\ ~deleted) \/ exit

\* A mailbox is deleted when it has left the table, and before the deletion
\* notifies.
DeletedIsGone ==
    /\ deleted <=> ~alive
    /\ \A t \in Threads : pc[t] = "announce" => deleted

MbxInv ==
    /\ Mbx!HleTypeOK /\ deleted \in BOOLEAN /\ QueueOf(messages, arrivals)
    /\ HolderPlace /\ FlagBeforeNotify
    /\ MbxReady /\ NothingSeen /\ DeletedIsGone
    /\ Mbx!DeleteWakesAll
    /\ ~exit /\ ~deleted => IsFiniteSet(Awake)
    /\ Mbx!EnoughAwake

LEMMA MbxCardinality == \A S : Mbx!Cardinality(S) = Cardinality(S)
  BY Zenon DEF Mbx!Cardinality, Cardinality

\* A step of the mailbox keeps its invariant.
LEMMA MbxStep == MbxInv /\ [Mbx!Next]_(Mbx!vars) => MbxInv'
<1> SUFFICES ASSUME MbxInv, [Mbx!Next]_(Mbx!vars) PROVE MbxInv'
  OBVIOUS
<1> DEFINE Queue  == QueueOf(messages, arrivals)
           Places == /\ Mbx!HleTypeOK /\ deleted \in BOOLEAN /\ HolderPlace /\ FlagBeforeNotify
                     /\ MbxReady /\ NothingSeen /\ DeletedIsGone /\ Mbx!DeleteWakesAll
           Sleepers == \E u \in Threads : pc[u] \in {"park", "parked"}
           Enough == ~exit /\ ~deleted => /\ IsFiniteSet(Awake)
                                          /\ Sleepers => Len(messages) <= Cardinality(Awake)
<1>inv. MbxInv <=> Queue /\ Places /\ Enough
  <2>1. Awake = {t \in Threads : (Mbx!Waits(t) /\ ~Mbx!Asleep(t)) \/ pc[t] = "signal"}
    BY DEF Awake, Mbx!Waits, Mbx!Asleep, Mbx!WaitPCs, WaitPCs
  <2> QED
    BY <2>1, MbxCardinality DEF MbxInv, Mbx!EnoughAwake, Mbx!Asleep
<1>inv2. Queue' /\ Places' /\ Enough' => MbxInv'
  <2>1. Awake' = {t \in Threads : (Mbx!Waits(t)' /\ ~Mbx!Asleep(t)') \/ pc'[t] = "signal"}
    BY DEF Awake, Mbx!Waits, Mbx!Asleep, Mbx!WaitPCs, WaitPCs
  <2> QED
    BY <2>1, MbxCardinality DEF MbxInv, Mbx!EnoughAwake, Mbx!Asleep
<1>0. Queue /\ Places /\ Enough
  BY <1>inv
<1>same. ASSUME UNCHANGED <<messages, arrivals>> PROVE Queue'
  BY <1>0, <1>same DEF QueueOf
<1>len. Len(messages) \in Nat /\ (messages = <<>> <=> Len(messages) = 0) /\ messages \in Seq(Messages)
  BY <1>0, EmptySeq DEF QueueOf
<1>pop. ASSUME Mbx!Pop, messages # <<>>
        PROVE  Queue' /\ Len(messages') = Len(messages) - 1
  <2>1. messages' = Tail(messages) /\ arrivals' = Mbx!RemoveFirst(arrivals, Head(messages))
    BY <1>pop DEF Mbx!Pop
  <2>2. Queue'
    BY <1>0, <1>pop, <2>1, PopSorts
  <2> QED
    BY <1>len, <1>pop, <2>1, <2>2, HeadTailProperties
<1> HIDE DEF Queue
<1> USE HleAssumption DEF Mbx!HleTypeOK, Mbx!HlePCs, HolderPlace, HoldsMutex, FlagBeforeNotify,
        MbxReady, NothingSeen, DeletedIsGone, Mbx!DeleteWakesAll, Mbx!Asleep, Mbx!Goto, Mbx!hle
<1>1. ASSUME NEW t \in Threads, Mbx!CommitReceive(t) PROVE MbxInv'
  <2>1. /\ pc[t] = "commit" /\ pc' = [pc EXCEPT ![t] = "resume"]
        /\ mutex = t /\ mutex' = NoThread
        /\ timed' = [timed EXCEPT ![t] = FALSE]
        /\ UNCHANGED <<cpu, exit, host, calls, alive, deleted>>
        /\ IF deleted \/ exit THEN UNCHANGED <<messages, arrivals>> ELSE Mbx!Pop
    BY <1>0, <1>1 DEF Mbx!CommitReceive, Mbx!EndWait
  <2>2. Queue' /\ (~deleted /\ ~exit => messages # <<>> /\ Len(messages') = Len(messages) - 1)
    BY <1>0, <1>same, <1>pop, <2>1
  <2>3. Places'
    BY <1>0, <2>1
  <2>4. Enough'
    <3> SUFFICES ASSUME ~exit', ~deleted'
                 PROVE  IsFiniteSet(Awake)' /\ (Sleepers' => Len(messages') <= Cardinality(Awake'))
      OBVIOUS
    <3>1. t \in Awake /\ Awake' = Awake \ {t}
      BY <1>0, <2>1 DEF Awake, WaitPCs
    <3>2. Sleepers' => Sleepers
      BY <1>0, <2>1
    <3>4. IsFiniteSet(Awake') /\ Cardinality(Awake') = Cardinality(Awake) - 1 /\ Cardinality(Awake) \in Nat
      BY <1>0, <2>1, <3>1, AwakeShrinks, FS_CardinalityType
    <3> QED
      BY <1>0, <1>len, <2>1, <2>2, <3>2, <3>4
  <2> QED
    BY <1>inv2, <2>2, <2>3, <2>4
\* A thread leaves the awake ones when there is nothing to receive.
<1>leaves. ASSUME NEW t, Awake' = Awake \ {t}, ~exit /\ ~deleted => messages = <<>>,
                  UNCHANGED <<exit, deleted, messages, arrivals>>, Places'
           PROVE  MbxInv'
  <2>1. ~exit /\ ~deleted => IsFiniteSet(Awake') /\ Cardinality(Awake') \in Nat
    BY <1>0, <1>leaves, AwakeShrinks
  <2>2. Enough'
    BY <1>len, <1>leaves, <2>1
  <2> QED
    BY <1>inv2, <1>same, <1>leaves, <2>2
<1>2. ASSUME NEW t \in Threads, Mbx!ReceiveTimesOut(t) PROVE MbxInv'
  <2>1. /\ pc[t] = "timeout" /\ pc' = [pc EXCEPT ![t] = "resume"]
        /\ mutex = t /\ mutex' = NoThread
        /\ timed' = [timed EXCEPT ![t] = FALSE]
        /\ UNCHANGED <<cpu, exit, host, calls, alive, deleted, messages, arrivals>>
    BY <1>0, <1>2 DEF Mbx!ReceiveTimesOut, Mbx!EndWait, Mbx!mbx
  <2>2. Places' /\ Awake' = Awake \ {t}
    BY <1>0, <2>1 DEF Awake, WaitPCs
  <2>3. ~exit /\ ~deleted => messages = <<>>
    BY <1>0, <2>1
  <2> QED
    BY <1>leaves, <2>1, <2>2, <2>3
<1>3. ASSUME NEW t \in Threads, Mbx!SendNotifies(t) PROVE MbxInv'
  <2>1. /\ pc[t] = "signal" /\ Mbx!NotifyOne(t, "return")
        /\ UNCHANGED <<cpu, exit, host, calls, mutex, alive, timed, messages, arrivals, deleted>>
    BY <1>3 DEF Mbx!SendNotifies, Mbx!mbx
  <2>2. CASE \E w \in Threads : pc[w] = "parked" /\ pc' = [pc EXCEPT ![t] = "return", ![w] = "woken"]
    <3>1. PICK w \in Threads : pc[w] = "parked" /\ pc' = [pc EXCEPT ![t] = "return", ![w] = "woken"]
      BY <2>2
    <3>2. Places'
      BY <1>0, <2>1, <3>1
    <3>3. t \in Awake /\ w \notin Awake /\ Awake' = (Awake \ {t}) \cup {w}
      BY <1>0, <2>1, <3>1 DEF Awake, WaitPCs
    <3>4. Sleepers' => Sleepers
      BY <1>0, <2>1, <3>1
    <3>5. ~exit /\ ~deleted => IsFiniteSet(Awake') /\ Cardinality(Awake') = Cardinality(Awake)
      BY <1>0, <3>3, AwakeHandedOver
    <3>6. Enough'
      BY <1>0, <2>1, <3>4, <3>5
    <3> QED
      BY <1>inv2, <1>same, <2>1, <3>2, <3>6
  <2>3. CASE (\A w \in Threads : pc[w] # "parked") /\ pc' = [pc EXCEPT ![t] = "return"]
    <3>1. Places'
      BY <1>0, <2>1, <2>3
    <3>2. Awake' = Awake \ {t}
      BY <1>0, <2>1, <2>3 DEF Awake, WaitPCs
    <3>3. Sleepers' /\ ~exit => messages = <<>>
      BY <1>0, <2>1, <2>3
    <3>4. ~exit /\ ~deleted => IsFiniteSet(Awake') /\ Cardinality(Awake') \in Nat
      BY <1>0, <3>2, AwakeShrinks
    <3>5. Enough'
      BY <1>len, <2>1, <3>3, <3>4
    <3> QED
      BY <1>inv2, <1>same, <2>1, <3>1, <3>5
  <2> QED
    BY <2>1, <2>2, <2>3 DEF Mbx!NotifyOne
<1>4. ASSUME NEW t \in Threads, Mbx!DeleteNotifies(t) PROVE MbxInv'
  <2>1. /\ pc[t] = "announce" /\ deleted
        /\ UNCHANGED <<cpu, exit, host, calls, mutex, alive, timed, messages, arrivals, deleted>>
    BY <1>0, <1>4 DEF Mbx!DeleteNotifies, Mbx!mbx
  <2>2. /\ pc' \in [Threads -> Mbx!HlePCs] /\ pc'[t] = "return"
        /\ \A u \in Threads : u # t => pc'[u] = IF pc[u] = "parked" THEN "woken" ELSE pc[u]
    BY <1>0, <1>4 DEF Mbx!DeleteNotifies, Mbx!NotifyAll
  <2>3. \A u \in Threads : pc'[u] # "parked" /\ (pc'[u] = "park" => pc[u] = "park")
    BY <2>2
  <2>4. Places'
    BY <1>0, <2>1, <2>2, <2>3
  <2> QED
    BY <1>inv2, <1>same, <2>1, <2>4
<1>5. ASSUME NEW t \in Threads, Mbx!Evaluate(t, Mbx!Available), UNCHANGED mbx PROVE MbxInv'
  <2>1. /\ pc[t] = "eval"
        /\ UNCHANGED <<cpu, exit, host, calls, mutex, alive, timed, messages, arrivals, deleted>>
        /\ pc' = [pc EXCEPT ![t] = IF messages # <<>> \/ deleted \/ exit THEN "commit" ELSE "park"]
    BY <1>5 DEF Mbx!Evaluate, Mbx!Available, mbx
  <2>2. Places'
    BY <1>0, <2>1
  <2>3. CASE messages # <<>> \/ deleted \/ exit
    <3>1. Awake' = Awake /\ (Sleepers' => Sleepers)
      BY <1>0, <2>1, <2>3 DEF Awake, WaitPCs
    <3> QED
      BY <1>0, <1>inv2, <1>same, <2>1, <2>2, <3>1
  <2>4. CASE ~(messages # <<>> \/ deleted \/ exit)
    <3>1. Awake' = Awake \ {t}
      BY <1>0, <2>1, <2>4 DEF Awake, WaitPCs
    <3> QED
      BY <1>leaves, <2>1, <2>2, <2>4, <3>1
  <2> QED
    BY <2>3, <2>4
<1>6. ASSUME NEW t \in Threads, Mbx!Park(t), UNCHANGED mbx PROVE MbxInv'
  <2>1. /\ pc[t] = "park" /\ pc' = [pc EXCEPT ![t] = "parked"] /\ mutex' = NoThread
        /\ UNCHANGED <<cpu, exit, host, calls, alive, timed, messages, arrivals, deleted>>
    BY <1>6 DEF Mbx!Park, mbx
  <2>2. Places'
    BY <1>0, <2>1
  <2>3. Awake' = Awake /\ Sleepers
    BY <1>0, <2>1 DEF Awake, WaitPCs
  <2> QED
    BY <1>0, <1>inv2, <1>same, <2>1, <2>2, <2>3
\* A thread joins the awake ones, or nothing changes for them.
<1>moves. ASSUME NEW t \in Threads, NEW p, pc' = [pc EXCEPT ![t] = p],
             Awake' = Awake \cup {t} \/ Awake' = Awake,
             p \notin {"park", "parked"}, UNCHANGED <<exit, deleted, messages, arrivals>>, Places'
          PROVE  MbxInv'
  <2>1. Sleepers' => Sleepers
    BY <1>0, <1>moves
  <2>2. ~exit /\ ~deleted => IsFiniteSet(Awake') /\ Cardinality(Awake') >= Cardinality(Awake)
    <3>1. CASE Awake' = Awake
      BY <1>0, <1>moves, <3>1, FS_CardinalityType
    <3>2. CASE Awake' = Awake \cup {t}
      <4>1. ASSUME ~exit, ~deleted PROVE IsFiniteSet(Awake)
        BY <1>0, <4>1
      <4>2. ASSUME ~exit, ~deleted
            PROVE  /\ IsFiniteSet(Awake') /\ Cardinality(Awake) \in Nat
                   /\ Cardinality(Awake') = IF t \in Awake THEN Cardinality(Awake) ELSE Cardinality(Awake) + 1
        BY <3>2, <4>1, <4>2, AwakeGrows, FS_CardinalityType
      <4> QED
        BY <4>2
    <3> QED
      BY <1>moves, <3>1, <3>2
  <2>3. Enough'
    BY <1>0, <1>len, <1>moves, <2>1, <2>2, FS_CardinalityType
  <2> QED
    BY <1>inv2, <1>same, <1>moves, <2>3
<1>7. ASSUME NEW t \in Threads, Mbx!Relock(t), UNCHANGED mbx PROVE MbxInv'
  <2>1. Places' /\ Awake' = Awake
    BY <1>0, <1>7 DEF Mbx!Relock, mbx, Awake, WaitPCs
  <2> QED
    BY <1>moves, <1>7, <2>1 DEF Mbx!Relock, mbx
<1>8. ASSUME NEW t \in Threads, Mbx!RelockExpired(t, Mbx!Available), UNCHANGED mbx PROVE MbxInv'
  <2>1. Places' /\ Awake' = Awake
    BY <1>0, <1>8 DEF Mbx!RelockExpired, Mbx!Available, mbx, Awake, WaitPCs
  <2>2. PICK p \in {"commit", "timeout"} : pc' = [pc EXCEPT ![t] = p]
    BY <1>8 DEF Mbx!RelockExpired
  <2> QED
    BY <1>moves, <1>8, <2>1, <2>2 DEF Mbx!RelockExpired, mbx
<1>9. ASSUME NEW t \in Threads, NEW w \in Timeouts, Mbx!ReceiveMbx(t, w) PROVE MbxInv'
  <2>1. Places' /\ Awake' = Awake \cup {t}
    BY <1>0, <1>9 DEF Mbx!ReceiveMbx, Mbx!BeginWait, Mbx!WithoutCpu, Mbx!mbx, Awake, WaitPCs
  <2> QED
    BY <1>moves, <1>9, <2>1 DEF Mbx!ReceiveMbx, Mbx!BeginWait, Mbx!mbx
<1>10. ASSUME NEW t \in Threads, Mbx!PollMbx(t) PROVE MbxInv'
  <2>1. /\ pc[t] = "guest" /\ pc' = [pc EXCEPT ![t] = Mbx!Quietly]
        /\ mutex = NoThread /\ UNCHANGED <<cpu, exit, host, mutex, alive, timed, deleted>>
        /\ calls' = [calls EXCEPT ![t] = @ - 1] /\ calls[t] > 0 /\ Mbx!Quietly \in {"return", "guest"}
        /\ IF messages = <<>> THEN UNCHANGED <<messages, arrivals>> ELSE Mbx!Pop
    BY <1>10 DEF Mbx!PollMbx, Mbx!LockedCall, Mbx!Call, Mbx!Quietly
  <2>2. Queue' /\ (messages = <<>> => messages' = <<>>) /\ Len(messages') <= Len(messages)
    <3>1. CASE messages = <<>>
      BY <1>len, <1>same, <2>1, <3>1
    <3>2. CASE messages # <<>>
      BY <1>len, <1>pop, <2>1, <3>2
    <3> QED
      BY <3>1, <3>2
  <2>3. Places'
    BY <1>0, <2>1, <2>2
  <2>4. Awake' = Awake /\ (Sleepers' => Sleepers)
    BY <1>0, <2>1 DEF Awake, WaitPCs
  <2>5. Len(messages') \in Nat
    BY <2>2 DEF Queue, QueueOf
  <2>6. Enough'
    BY <1>0, <1>len, <2>1, <2>2, <2>4, <2>5, FS_CardinalityType
  <2> QED
    BY <1>inv2, <2>2, <2>3, <2>6
<1>11. ASSUME NEW t \in Threads, NEW m \in Messages, Mbx!SendMbx(t, m) PROVE MbxInv'
  <2>1. /\ pc[t] = "guest" /\ pc' = [pc EXCEPT ![t] = "signal"]
        /\ mutex = NoThread /\ UNCHANGED <<cpu, exit, host, mutex, alive, timed, deleted>>
        /\ calls' = [calls EXCEPT ![t] = @ - 1] /\ calls[t] > 0
        /\ m \notin Mbx!Range(messages)
        /\ messages' = Mbx!Enqueue(m) /\ arrivals' = Append(arrivals, m)
    BY <1>11 DEF Mbx!SendMbx, Mbx!LockedCall, Mbx!Call
  <2>2. Queue'
    BY <1>0, <2>1, EnqueueSorts DEF Queue
  <2>3. Len(messages') = Len(messages) + 1
    <3>1. Queues
      BY <1>0 DEF Queue, QueueOf, Queues
    <3> QED
      BY <2>1, <3>1, EnqueuePlace
  <2>4. Places'
    BY <1>0, <2>1
  <2>5. Enough'
    <3>1. Awake' = Awake \cup {t} /\ t \notin Awake /\ (Sleepers' => Sleepers)
      BY <1>0, <2>1 DEF Awake, WaitPCs
    <3>2. ~exit /\ ~deleted => /\ IsFiniteSet(Awake') /\ Cardinality(Awake') = Cardinality(Awake) + 1
                               /\ Cardinality(Awake) \in Nat
      BY <1>0, <3>1, AwakeGrows, FS_CardinalityType
    <3> QED
      BY <1>0, <1>len, <2>1, <2>3, <3>1, <3>2
  <2> QED
    BY <1>inv2, <2>2, <2>4, <2>5
<1>12. ASSUME NEW t \in Threads, (\E m \in Messages : Mbx!SendDuplicate(t, m)) \/ Mbx!UnknownMbx(t)
       PROVE MbxInv'
  <2>1. Mbx!Call(t, "return") /\ UNCHANGED <<alive, messages, arrivals, deleted>>
    BY <1>0, <1>12 DEF Mbx!SendDuplicate, Mbx!UnknownMbx, Mbx!LockedCall, Mbx!mbx
  <2>2. Places' /\ Awake' = Awake
    BY <1>0, <2>1 DEF Mbx!Call, Awake, WaitPCs
  <2> QED
    BY <1>moves, <2>1, <2>2 DEF Mbx!Call
<1>13. ASSUME NEW t \in Threads, Mbx!DeleteMbx(t) PROVE MbxInv'
  <2>1. /\ pc[t] = "guest" /\ pc' = [pc EXCEPT ![t] = "announce"]
        /\ mutex = NoThread /\ UNCHANGED <<cpu, exit, host, mutex, timed, messages, arrivals>>
        /\ calls' = [calls EXCEPT ![t] = @ - 1] /\ calls[t] > 0
        /\ alive' = FALSE /\ deleted' = TRUE
    BY <1>13 DEF Mbx!DeleteMbx, Mbx!LockedCall, Mbx!Call
  <2>2. Places'
    <3>1. pc'[t] = "announce"
      BY <1>0, <2>1
    <3>2. Mbx!HleTypeOK' /\ deleted' \in BOOLEAN /\ HolderPlace' /\ FlagBeforeNotify'
      <4>1. alive' \in BOOLEAN /\ deleted' \in BOOLEAN
        BY <2>1
      <4>2. pc' \in [Threads -> Mbx!HlePCs] /\ calls' \in [Threads -> Nat]
        BY <1>0, <2>1
      <4>3. HolderPlace'
        BY <1>0, <2>1
      <4> QED
        BY <1>0, <2>1, <4>1, <4>2, <4>3
    <3>3. MbxReady' /\ DeletedIsGone'
      BY <1>0, <2>1
    <3>4. NothingSeen'
      BY <1>0, <2>1
    <3>5. Mbx!DeleteWakesAll'
      BY <3>1
    <3> QED
      BY <3>2, <3>3, <3>4, <3>5
  <2> QED
    BY <1>inv2, <1>same, <2>1, <2>2
<1>14. ASSUME NEW t \in Threads, Mbx!CpuStep(t), UNCHANGED mbx PROVE MbxInv'
  <2>1. PICK p \in {"return", "guest", "finished", "yield"} :
          pc[t] \in {"resume", "yield", "return", "guest"} /\ pc' = [pc EXCEPT ![t] = p]
    BY <1>14 DEF Mbx!CpuStep, Mbx!TakeCpu, Mbx!Yield, Mbx!Finish
  <2>2. /\ cpu' \in Threads \cup {NoThread}
        /\ UNCHANGED <<exit, host, calls, mutex, alive, timed, messages, arrivals, deleted>>
    BY <1>0, <1>14 DEF Mbx!CpuStep, Mbx!TakeCpu, Mbx!Yield, Mbx!Finish, Mbx!WithoutCpu, mbx
  <2>3. Places' /\ Awake' = Awake
    BY <1>0, <2>1, <2>2 DEF Awake, WaitPCs
  <2> QED
    BY <1>moves, <2>1, <2>2, <2>3
<1>15. ASSUME NEW t \in Threads, Mbx!SpuriousWakeup(t) \/ Mbx!Expire(t), UNCHANGED mbx PROVE MbxInv'
  <2>1. PICK p \in {"woken", "expired"} : pc[t] = "parked" /\ pc' = [pc EXCEPT ![t] = p]
    BY <1>15 DEF Mbx!SpuriousWakeup, Mbx!Expire
  <2>2. UNCHANGED <<cpu, exit, host, calls, mutex, alive, timed, messages, arrivals, deleted>>
    BY <1>15 DEF Mbx!SpuriousWakeup, Mbx!Expire, mbx
  <2>3. Places' /\ Awake' = Awake \cup {t}
    BY <1>0, <2>1, <2>2 DEF Awake, WaitPCs
  <2> QED
    BY <1>moves, <2>1, <2>2, <2>3
<1>16. ASSUME Mbx!ExitFlag \/ Mbx!ExitNotify, UNCHANGED mbx PROVE MbxInv'
  <2>1. CASE Mbx!ExitFlag
    BY <1>0, <1>16, <1>inv2, <1>same, <2>1 DEF Mbx!ExitFlag, mbx
  <2>2. CASE Mbx!ExitNotify
    <3>1. exit' /\ UNCHANGED <<cpu, exit, calls, mutex, alive, timed, messages, arrivals, deleted>> /\ host' = "notified"
      BY <1>0, <1>16, <2>2 DEF Mbx!ExitNotify, mbx
    <3>2. /\ pc' \in [Threads -> Mbx!HlePCs]
          /\ \A u \in Threads : pc'[u] = pc[u] \/ (pc[u] = "parked" /\ pc'[u] = "woken")
      BY <1>0, <2>2 DEF Mbx!ExitNotify, Mbx!NotifyAll
    <3>3. Places'
      BY <1>0, <3>1, <3>2
    <3> QED
      BY <1>inv2, <1>same, <3>1, <3>3
  <2> QED
    BY <1>16, <2>1, <2>2
<1>17. CASE UNCHANGED Mbx!vars
  <2>1. UNCHANGED <<cpu, exit, host, pc, calls, mutex, alive, timed, messages, arrivals, deleted>>
    BY <1>17 DEF Mbx!vars, Mbx!mbx
  <2>2. Places' /\ Awake' = Awake
    BY <1>0, <2>1 DEF Awake
  <2> QED
    BY <1>0, <1>inv2, <1>same, <2>1, <2>2
<1> QED
  BY <1>1, <1>2, <1>3, <1>4, <1>5, <1>6, <1>7, <1>8, <1>9, <1>10, <1>11, <1>12, <1>13, <1>14,
     <1>15, <1>16, <1>17
     DEF Mbx!Next, Mbx!Running, Mbx!Relocking, Mbx!Guest, Mbx!Environment, Mbx!mbx, mbx

-----------------------------------------------------------------------------
(* The objects together *)

\* A variable pool has its mutex like the other objects.
LEMMA VplStep ==
  Vpl!HleTypeOK /\ HolderPlace /\ [Vpl!Next]_(Vpl!vars) => Vpl!HleTypeOK' /\ HolderPlace'
<1> SUFFICES ASSUME Vpl!HleTypeOK, HolderPlace, [Vpl!Next]_(Vpl!vars) PROVE Vpl!HleTypeOK' /\ HolderPlace'
  OBVIOUS
<1> USE HleAssumption DEF Vpl!HleTypeOK, Vpl!HlePCs, HolderPlace, HoldsMutex, Vpl!Goto, Vpl!hle
<1>1. ASSUME NEW t \in Threads, NEW p \in Vpl!HlePCs \ HoldsMutex,
             pc[t] \notin HoldsMutex, pc' = [pc EXCEPT ![t] = p],
             UNCHANGED <<exit, host, mutex, timed>>, alive' \in BOOLEAN,
             cpu' \in Threads \cup {NoThread}, calls' \in [Threads -> Nat]
      PROVE  Vpl!HleTypeOK' /\ HolderPlace'
  BY <1>1
<1>2. ASSUME NEW t \in Threads, NEW p \in {"return", "guest", "signal"}, Vpl!Call(t, p), alive' \in BOOLEAN
      PROVE  Vpl!HleTypeOK' /\ HolderPlace'
  <2>1. calls' \in [Threads -> Nat]
    BY <1>2 DEF Vpl!Call
  <2> QED
    BY <1>1, <1>2, <2>1 DEF Vpl!Call
<1>3. ASSUME NEW t \in Threads, Vpl!FreeNotifies(t) PROVE Vpl!HleTypeOK' /\ HolderPlace'
  BY <1>3 DEF Vpl!FreeNotifies, Vpl!NotifyOne
<1>4. ASSUME NEW t \in Threads, Vpl!Park(t) PROVE Vpl!HleTypeOK' /\ HolderPlace'
  BY <1>4 DEF Vpl!Park
<1>5. ASSUME NEW t \in Threads, Vpl!WakeUp(t) \/ Vpl!RetakeCpu(t) \/ Vpl!Retry(t)
      PROVE  Vpl!HleTypeOK' /\ HolderPlace'
  BY <1>1, <1>5 DEF Vpl!WakeUp, Vpl!RetakeCpu, Vpl!Retry
<1>6. ASSUME NEW t \in Threads, Vpl!RetryWaits(t) PROVE Vpl!HleTypeOK' /\ HolderPlace'
  BY <1>6 DEF Vpl!RetryWaits, Vpl!WithoutCpu
<1>7. ASSUME NEW t \in Threads, NEW n, Vpl!AllocateVplWaits(t, n) PROVE Vpl!HleTypeOK' /\ HolderPlace'
  BY <1>7 DEF Vpl!AllocateVplWaits, Vpl!WithoutCpu
<1>8. ASSUME NEW t \in Threads, NEW n, Vpl!AllocateVpl(t, n) PROVE Vpl!HleTypeOK' /\ HolderPlace'
  BY <1>2, <1>8 DEF Vpl!AllocateVpl, Vpl!LockedCall
<1>9. ASSUME NEW t \in Threads, NEW n, Vpl!TryAllocateVpl(t, n) PROVE Vpl!HleTypeOK' /\ HolderPlace'
  <2>1. Vpl!Quietly \in {"return", "guest"}
    BY DEF Vpl!Quietly
  <2> QED
    BY <1>2, <1>9, <2>1 DEF Vpl!TryAllocateVpl, Vpl!LockedCall
<1>10. ASSUME NEW t \in Threads, NEW b, Vpl!FreeVpl(t, b) PROVE Vpl!HleTypeOK' /\ HolderPlace'
  BY <1>2, <1>10 DEF Vpl!FreeVpl, Vpl!LockedCall
<1>11. ASSUME NEW t \in Threads, Vpl!FreeUnknown(t) \/ Vpl!DeleteVpl(t) \/ Vpl!UnknownVpl(t)
       PROVE  Vpl!HleTypeOK' /\ HolderPlace'
  BY <1>2, <1>11 DEF Vpl!FreeUnknown, Vpl!DeleteVpl, Vpl!UnknownVpl, Vpl!LockedCall
<1>12. ASSUME NEW t \in Threads, Vpl!CpuStep(t) PROVE Vpl!HleTypeOK' /\ HolderPlace'
  BY <1>12 DEF Vpl!CpuStep, Vpl!TakeCpu, Vpl!Yield, Vpl!Finish, Vpl!WithoutCpu
<1>13. ASSUME NEW t \in Threads, Vpl!SpuriousWakeup(t) \/ Vpl!Expire(t)
       PROVE  Vpl!HleTypeOK' /\ HolderPlace'
  BY <1>13 DEF Vpl!SpuriousWakeup, Vpl!Expire
<1>14. CASE Vpl!ExitFlag
  BY <1>14 DEF Vpl!ExitFlag
<1>15. CASE Vpl!ExitNotify
  <2>1. /\ UNCHANGED <<cpu, exit, calls, mutex, alive, timed>> /\ host' = "notified"
        /\ pc' \in [Threads -> Vpl!HlePCs]
        /\ \A u \in Threads : pc'[u] = pc[u] \/ (pc[u] = "parked" /\ pc'[u] = "woken")
    BY <1>15 DEF Vpl!ExitNotify, Vpl!NotifyAll
  <2> QED
    BY <2>1
<1>16. CASE UNCHANGED Vpl!vars
  BY <1>16 DEF Vpl!vars
<1> QED
  BY <1>3, <1>4, <1>5, <1>6, <1>7, <1>8, <1>9, <1>10, <1>11, <1>12, <1>13, <1>14, <1>15, <1>16
     DEF Vpl!Next, Vpl!Running, Vpl!Relocking, Vpl!Guest, Vpl!AllocateVplCB, Vpl!Environment

\* The invariant of the object in use.  What the proofs of the action
\* properties need of the counters of the others: they are numbers.
KernelInv ==
    /\ object \in AllObjects
    /\ object = "sema"  => SemaInv
    /\ object = "mbx"   => MbxInv
    /\ object = "mutex" => MutexInv
    /\ object = "flag"  => FlagInv
    /\ object = "sleep" => SleepInv
    /\ object = "fpl"   => FplInv
    /\ object = "vpl"   => Vpl!HleTypeOK /\ HolderPlace
    /\ count \in Nat /\ waiting \in Nat

LEMMA KernelInit == Init => KernelInv
<1> SUFFICES ASSUME Init PROVE KernelInv
  OBVIOUS
<1> USE HleAssumption DEF HoldsMutex, WaitPCs
<1>1. /\ cpu = NoThread /\ exit = FALSE /\ host = "run" /\ pc = [t \in Threads |-> "yield"]
      /\ calls \in [Threads -> Nat] /\ mutex = NoThread /\ alive = TRUE
      /\ timed = [t \in Threads |-> FALSE]
  BY DEF Init, HleInit
<1>2. HolderPlace /\ FlagBeforeNotify
  BY <1>1 DEF HolderPlace, FlagBeforeNotify
<1>3. SemaInv
  <2>1. count = Initial /\ tickets = <<>> /\ queued = [t \in Threads |-> FALSE]
        /\ amount = [t \in Threads |-> 0]
    BY DEF Init, Sema!ObjectInit
  <2>2. Sema!TypeOK
    <3>1. Sema!HleTypeOK
      BY <1>1 DEF Sema!HleTypeOK, Sema!HlePCs
    <3>2. count \in 0..Maximum /\ tickets \in Seq(Threads) /\ amount \in [Threads -> Nat]
      BY <2>1, SemaAmountsPositive
    <3>3. queued \in [Threads -> BOOLEAN]
      BY <2>1
    <3> QED
      BY <3>1, <3>2, <3>3 DEF Sema!TypeOK
  <2>3. Sema!QueueIsExact
    BY <1>1, <2>1 DEF Sema!QueueIsExact, Sema!Queues, Sema!Range, Sema!IsInjective
  <2>4. UnqueuedServed /\ SemaReady /\ UnservedBeforePark /\ Sema!NoLostWakeup
    BY <1>1, <2>1 DEF UnqueuedServed, SemaReady, UnservedBeforePark, Sema!NoLostWakeup
  <2> QED
    BY <1>2, <2>2, <2>3, <2>4 DEF SemaInv
<1>4. MbxInv
  <2>1. messages = <<>> /\ deleted = FALSE /\ arrivals = <<>>
    BY DEF Init, Mbx!ObjectInit
  <2>2. QueueOf(messages, arrivals)
    BY <2>1 DEF QueueOf, Sema!Range, Sema!IsInjective
  <2>3. Awake = {}
    BY <1>1 DEF Awake
  <2>4. IsFiniteSet(Awake)
    BY <2>3, FS_EmptySet
  <2>5. Mbx!HleTypeOK
    BY <1>1 DEF Mbx!HleTypeOK, Mbx!HlePCs
  <2>6. MbxReady /\ NothingSeen /\ DeletedIsGone
    BY <1>1, <2>1 DEF MbxReady, NothingSeen, DeletedIsGone
  <2>7. Mbx!DeleteWakesAll /\ Mbx!EnoughAwake
    BY <1>1, <2>1 DEF Mbx!DeleteWakesAll, Mbx!EnoughAwake, Mbx!Asleep
  <2> QED
    BY <1>2, <2>1, <2>2, <2>4, <2>5, <2>6, <2>7 DEF MbxInv
<1>5. MutexInv
  BY <1>1, <1>2, LockAmountsPositive
     DEF Init, Mutex!ObjectInit, MutexInv, Mutex!TypeOK, Mutex!HleTypeOK, Mutex!HlePCs, LockReady,
         LockAsked, LevelsAgree, Mutex!FreeIffUnowned, Mutex!OwnerNeverSleeps,
         Mutex!NoSleeperBesideFreeMutex, Mutex!Asleep
<1>6. FlagInv
  <2>1. bits = {} /\ waiting = 0 /\ wait = [t \in Threads |-> NoWait]
    BY DEF Init, Flag!ObjectInit
  <2>2. FlagTypeOK
    BY <1>1, <2>1 DEF FlagTypeOK, Flag!HleTypeOK, Flag!HlePCs
  <2>3. FlagWaiters = {}
    BY <1>1 DEF FlagWaiters
  <2>4. FlagAsked /\ FlagReady /\ UnmatchedBeforePark /\ Flag!NoLostWakeup
    BY <1>1 DEF FlagAsked, FlagReady, UnmatchedBeforePark, Flag!NoLostWakeup, Flag!Asleep
  <2> QED
    BY <1>2, <2>1, <2>2, <2>3, <2>4, FS_EmptySet DEF FlagInv
<1>7. ASSUME object = "sleep" PROVE SleepInv
  <2>1. /\ sleeper \in Threads
        /\ wakeupCount = 0 /\ sent = 0 /\ slept = 0 /\ cancelled = 0
    BY <1>7 DEF Init, Sleep!ObjectInit
  <2>2. Sleep!HleTypeOK
    BY <1>1 DEF Sleep!HleTypeOK, Sleep!HlePCs
  <2>3. OnlySleeperWaits /\ NoneBeforePark /\ Sleep!WakeupsConserved /\ Sleep!NoLostWakeup
    BY <1>1, <2>1 DEF OnlySleeperWaits, NoneBeforePark, Sleep!WakeupsConserved, Sleep!NoLostWakeup
  <2> QED
    BY <1>2, <2>1, <2>2, <2>3 DEF SleepInv, Sleep!TypeOK
<1>8. FplInv
  <2>1. free = Fpl!SetToSeq(Blocks) /\ given = [t \in Threads |-> {}]
    BY DEF Init, Fpl!ObjectInit
  <2>2. IsFiniteSet(Blocks)
    BY ObjectsAssumption, Zenon DEF Fpl!FplAssumption, Fpl!IsFiniteSet, IsFiniteSet
  <2>3. FplTypeOK
    BY <1>1, <2>1, <2>2, AllBlocksFree DEF FplTypeOK, Fpl!HleTypeOK, Fpl!HlePCs
  <2>4. BlocksDivided
    <3>1. /\ Fpl!IsInjective(free)
          /\ \A b \in Blocks : \E i \in 1..Len(free) : free[i] = b
          /\ free \in Seq(Blocks)
      BY <2>1, <2>2, AllBlocksFree
    <3> QED
      BY <2>1, <3>1 DEF BlocksDivided, Fpl!IsInjective
  <2>5. Awake = {}
    BY <1>1 DEF Awake
  <2>6. IsFiniteSet(Awake)
    BY <2>5, FS_EmptySet
  <2>7. FplReady /\ NoneFreeBeforePark /\ Fpl!EnoughAwake
    BY <1>1 DEF FplReady, NoneFreeBeforePark, Fpl!EnoughAwake, Fpl!Asleep
  <2> QED
    BY <1>2, <2>3, <2>4, <2>6, <2>7 DEF FplInv
<1>9. Vpl!HleTypeOK
  BY <1>1 DEF Vpl!HleTypeOK, Vpl!HlePCs
<1>10. object \in AllObjects /\ count \in Nat /\ waiting \in Nat
  BY ObjectsAssumption, SemaAmountsPositive DEF Init, Sema!ObjectInit, Flag!ObjectInit
<1> QED
  BY <1>2, <1>3, <1>4, <1>5, <1>6, <1>7, <1>8, <1>9, <1>10 DEF KernelInv

\* A step of the frame is a step of the object in use.
LEMMA FrameStep ==
  ASSUME object \in AllObjects, [Next]_vars
  PROVE  /\ object' = object
         /\ object = "sema"  => [Sema!Next]_(Sema!vars)
         /\ object = "mbx"   => [Mbx!Next]_(Mbx!vars)
         /\ object = "mutex" => [Mutex!Next]_(Mutex!vars)
         /\ object = "flag"  => [Flag!Next]_(Flag!vars)
         /\ object = "sleep" => [Sleep!Next]_(Sleep!vars)
         /\ object = "fpl"   => [Fpl!Next]_(Fpl!vars)
         /\ object = "vpl"   => [Vpl!Next]_(Vpl!vars)
         /\ object # "sema"  => UNCHANGED count
         /\ object # "flag"  => UNCHANGED waiting
<1>1. CASE Next
  <2>1. object' = object
    BY <1>1 DEF Next, Frame
  <2>2. /\ object = "sema"  => Sema!Next
        /\ object = "mbx"   => Mbx!Next
        /\ object = "mutex" => Mutex!Next
        /\ object = "flag"  => Flag!Next
        /\ object = "sleep" => Sleep!Next
        /\ object = "fpl"   => Fpl!Next
        /\ object = "vpl"   => Vpl!Next
    BY <1>1 DEF Next
  <2>3. (object # "sema" => UNCHANGED count) /\ (object # "flag" => UNCHANGED waiting)
    BY <1>1 DEF Next, Frame, sema, flag
  <2> QED
    BY <2>1, <2>2, <2>3
<1>2. CASE UNCHANGED vars
  <2>1. /\ UNCHANGED <<cpu, exit, host, pc, calls, mutex, alive, timed, object>>
        /\ UNCHANGED <<sema, mbx, mtx, flag, slp, fpl, vpl, count, waiting>>
    BY <1>2 DEF vars, hle, sema, flag
  <2>2. UNCHANGED <<Sema!vars, Mbx!vars, Mutex!vars>>
    BY <2>1 DEF Sema!vars, Sema!hle, Sema!sema, sema, Mbx!vars, Mbx!hle, Mbx!mbx, mbx,
                Mutex!vars, Mutex!hle, Mutex!mtx, mtx
  <2>3. UNCHANGED <<Flag!vars, Sleep!vars, Fpl!vars, Vpl!vars>>
    BY <2>1 DEF Flag!vars, Flag!hle, Flag!flag, flag, Sleep!vars, Sleep!hle, Sleep!slp, slp,
                Fpl!vars, Fpl!hle, Fpl!fpl, fpl, Vpl!vars, Vpl!hle, Vpl!vpl, vpl
  <2> QED
    BY <2>1, <2>2, <2>3
<1> QED
  BY <1>1, <1>2

LEMMA KernelStep == KernelInv /\ [Next]_vars => KernelInv'
<1> SUFFICES ASSUME KernelInv, [Next]_vars PROVE KernelInv'
  OBVIOUS
<1>1. object \in AllObjects
  BY DEF KernelInv
<1>2. /\ object' = object
      /\ object # "sema"  => UNCHANGED count
      /\ object # "flag"  => UNCHANGED waiting
  BY <1>1, FrameStep
<1>3. object = "sema" => SemaInv'
  BY <1>1, FrameStep, SemaStep DEF KernelInv
<1>4. object = "mbx" => MbxInv'
  BY <1>1, FrameStep, MbxStep DEF KernelInv
<1>5. object = "mutex" => MutexInv'
  BY <1>1, FrameStep, MutexStep DEF KernelInv
<1>6. object = "flag" => FlagInv'
  BY <1>1, FrameStep, FlagStep DEF KernelInv
<1>7. object = "sleep" => SleepInv'
  BY <1>1, FrameStep, SleepStep DEF KernelInv
<1>8. object = "fpl" => FplInv'
  BY <1>1, FrameStep, FplStep DEF KernelInv
<1>9. object = "vpl" => Vpl!HleTypeOK' /\ HolderPlace'
  BY <1>1, FrameStep, VplStep DEF KernelInv
<1>10. count' \in Nat
  <2>1. SemaInv' => count' \in Nat
    BY SemaAmountsPositive DEF SemaInv, Sema!TypeOK
  <2> QED
    BY <1>2, <1>3, <2>1 DEF KernelInv
<1>11. waiting' \in Nat
  <2>1. FlagInv' => waiting' \in Nat
    BY DEF FlagInv, FlagTypeOK
  <2> QED
    BY <1>2, <1>6, <2>1 DEF KernelInv
<1> QED
  BY <1>1, <1>2, <1>3, <1>4, <1>5, <1>6, <1>7, <1>8, <1>9, <1>10, <1>11 DEF KernelInv

\* The invariant of every object, whatever the guests call.
THEOREM KernelInvariant == Spec => []KernelInv
<1>1. Init => KernelInv
  BY KernelInit
<1>2. KernelInv /\ [Next]_vars => KernelInv'
  BY KernelStep
<1> QED
  BY <1>1, <1>2, PTL DEF Spec

\* The threads, the CPU and the exit have their types whatever object is in use.
LEMMA ThreadsTyped == KernelInv => HleTypeOK
  BY DEF KernelInv, AllObjects, SemaInv, MbxInv, MutexInv, FlagInv, SleepInv, FplInv, FlagTypeOK,
         FplTypeOK, HleTypeOK, HlePCs, Sema!TypeOK, Sema!HleTypeOK, Sema!HlePCs, Mbx!HleTypeOK,
         Mbx!HlePCs, Mutex!TypeOK, Mutex!HleTypeOK, Mutex!HlePCs, Flag!HleTypeOK, Flag!HlePCs,
         Sleep!TypeOK, Sleep!HleTypeOK, Sleep!HlePCs, Fpl!HleTypeOK, Fpl!HlePCs, Vpl!HleTypeOK,
         Vpl!HlePCs

\* What an object that is not in use keeps.
UnusedTyped ==
    /\ count \in 0..Maximum /\ tickets \in Seq(Threads)
    /\ queued \in [Threads -> BOOLEAN] /\ amount \in [Threads -> Nat]
    /\ messages \in Seq(Messages) /\ deleted \in BOOLEAN /\ arrivals \in Seq(Messages)
    /\ lockCount \in Nat /\ owner \in Threads \cup {NoThread}
    /\ levels \in [Threads -> LockAmounts \cup {0}] /\ depth \in [Threads -> Nat]
    /\ disciplined \in BOOLEAN

LEMMA TypesSplit ==
  ASSUME KernelInv
  PROVE  TypeOK <=> UnusedTyped
<1>1. HleTypeOK /\ object \in AllObjects /\ (object = "sleep" => Sleep!TypeOK)
  BY ThreadsTyped DEF KernelInv, SleepInv
<1>2. HleTypeOK <=> Sema!HleTypeOK
  BY DEF HleTypeOK, HlePCs, Sema!HleTypeOK, Sema!HlePCs
<1>3. HleTypeOK <=> Mbx!HleTypeOK
  BY DEF HleTypeOK, HlePCs, Mbx!HleTypeOK, Mbx!HlePCs
<1>4. HleTypeOK <=> Mutex!HleTypeOK
  BY DEF HleTypeOK, HlePCs, Mutex!HleTypeOK, Mutex!HlePCs
<1> QED
  BY <1>1, <1>2, <1>3, <1>4, Zenon DEF TypeOK, UnusedTyped, Sema!TypeOK, Mbx!TypeOK, Mutex!TypeOK

\* Every variable of threads, semaphores, mailboxes, mutexes and sleep states
\* keeps its type, a semaphore's count its maximum (sceKernelSignalSema.cpp).
THEOREM KernelTypes == Spec => []TypeOK
<1>1. Init => TypeOK
  <2> SUFFICES ASSUME Init PROVE TypeOK
    OBVIOUS
  <2>1. /\ count = Initial /\ tickets = <<>> /\ queued = [t \in Threads |-> FALSE]
        /\ amount = [t \in Threads |-> 0] /\ messages = <<>> /\ arrivals = <<>>
        /\ deleted = FALSE
    BY DEF Init, Sema!ObjectInit, Mbx!ObjectInit
  <2>2. /\ lockCount \in Nat /\ owner \in Threads \cup {NoThread}
        /\ levels \in [Threads -> LockAmounts \cup {0}] /\ depth \in [Threads -> Nat]
        /\ disciplined \in BOOLEAN
    BY DEF Init, Mutex!ObjectInit
  <2>3. count \in 0..Maximum /\ tickets \in Seq(Threads) /\ amount \in [Threads -> Nat]
    BY <2>1, SemaAmountsPositive
  <2>4. messages \in Seq(Messages) /\ arrivals \in Seq(Messages)
    BY <2>1
  <2>5. queued \in [Threads -> BOOLEAN] /\ deleted \in BOOLEAN
    BY <2>1
  <2>6. UnusedTyped
    BY <2>2, <2>3, <2>4, <2>5 DEF UnusedTyped
  <2> QED
    BY <2>6, KernelInit, TypesSplit
<1>2. KernelInv /\ UnusedTyped /\ KernelInv' /\ [Next]_vars => UnusedTyped'
  <2> SUFFICES ASSUME KernelInv, UnusedTyped, KernelInv', [Next]_vars PROVE UnusedTyped'
    OBVIOUS
  <2>1. /\ object' = object
        /\ object # "sema" => UNCHANGED sema
        /\ object # "mbx" => UNCHANGED mbx
        /\ object # "mutex" => UNCHANGED mtx
    BY DEF Next, Frame, vars
  <2>2. object = "sema" => Sema!TypeOK'
    BY <2>1 DEF KernelInv, SemaInv
  <2>3. object = "mutex" => Mutex!TypeOK'
    BY <2>1 DEF KernelInv, MutexInv
  <2>4. object = "mbx" => messages' \in Seq(Messages) /\ deleted' \in BOOLEAN /\ arrivals' \in Seq(Messages)
    BY <2>1 DEF KernelInv, MbxInv, QueueOf
  <2>5. /\ count' \in 0..Maximum /\ tickets' \in Seq(Threads)
        /\ queued' \in [Threads -> BOOLEAN] /\ amount' \in [Threads -> Nat]
    BY <2>1, <2>2 DEF UnusedTyped, sema, Sema!TypeOK
  <2>6. messages' \in Seq(Messages) /\ deleted' \in BOOLEAN /\ arrivals' \in Seq(Messages)
    BY <2>1, <2>4 DEF UnusedTyped, mbx
  <2>7. /\ lockCount' \in Nat /\ owner' \in Threads \cup {NoThread}
        /\ levels' \in [Threads -> LockAmounts \cup {0}] /\ depth' \in [Threads -> Nat]
        /\ disciplined' \in BOOLEAN
    BY <2>1, <2>3 DEF UnusedTyped, mtx, Mutex!TypeOK
  <2> QED
    BY <2>5, <2>6, <2>7 DEF UnusedTyped
<1>3. KernelInv /\ UnusedTyped => TypeOK
  BY TypesSplit
<1>4. Init => UnusedTyped
  BY <1>1, KernelInit, TypesSplit
<1> QED
  BY <1>2, <1>3, <1>4, KernelInvariant, PTL DEF Spec

\* The lock order of sceKernelReceiveMbx.cpp:62-65, for every kernel object:
\* nobody waits for the emulated CPU with the mutex of an object in its hands.
THEOREM NobodyWaitsForTheCpuLocked == Spec => []LockOrder
<1>1. KernelInv => LockOrder
  <2>1. KernelInv => HolderPlace
    BY DEF KernelInv, AllObjects, SemaInv, MbxInv, MutexInv, FlagInv, SleepInv, FplInv
  <2> QED
    BY <2>1 DEF HolderPlace, LockOrder, Mbx!LockOrder, Mbx!HoldsMutex, HoldsMutex
<1> QED
  BY <1>1, KernelInvariant, PTL

\* The guests' mutex excludes (sceKernelLockMutex.cpp:35-46,
\* sceKernelUnlockMutex.cpp:15-21) and leaves nobody asleep beside it.
THEOREM MutexExcludes == Spec => []MutexSound
<1>1. KernelInv => MutexSound
  <2>1. MutexInv => Mutex!Exclusive
    BY DEF MutexInv, LevelsAgree, Mutex!Exclusive, Mutex!TypeOK
  <2> QED
    BY <2>1 DEF KernelInv, MutexInv, MutexSound
<1> QED
  BY <1>1, KernelInvariant, PTL

\* Wakeups are counted and not lost (sleep_thread.hpp:19-29,
\* sceKernelWakeupThread.cpp:15-18).
THEOREM WakeupsCounted == Spec => []SleepWakeups
<1>1. KernelInv => SleepWakeups
  BY DEF KernelInv, SleepInv, SleepWakeups
<1> QED
  BY <1>1, KernelInvariant, PTL

\* The queue of a mailbox is in order (mailbox_state.hpp:16-35), and a send
\* that notifies one receiver (sceKernelSendMbx.cpp:31) and a deletion that
\* notifies all (sceKernelDeleteMbx.cpp:16-20) leave nobody asleep for nothing.
THEOREM MailboxDelivers == Spec => []MbxDelivers
<1>1. KernelInv => MbxDelivers
  BY QueueOrdered DEF KernelInv, MbxInv, MbxDelivers
<1> QED
  BY <1>1, KernelInvariant, PTL

\* A block of a fixed pool is free once or one thread's
\* (sceKernelAllocateFpl.cpp:16-22), and the notification of one waiter for
\* each block freed (sceKernelFreeFpl.cpp:16) is enough.
THEOREM FixedPoolConserved == Spec => []FixedPoolSound
<1>1. KernelInv => FixedPoolSound
  BY BlocksDividedConserved DEF KernelInv, FplInv, FixedPoolSound
<1> QED
  BY <1>1, KernelInvariant, PTL

\* A token of a semaphore is taken by the first waiter or when nobody waits.
LEMMA SemaTurn ==
  ASSUME SemaInv, [Sema!Next]_(Sema!vars), count' < count
  PROVE  tickets = <<>> \/ tickets' = Tail(tickets)
<1>0. count \in Nat
  BY SemaAmountsPositive DEF SemaInv, Sema!TypeOK
<1>1. PICK t \in Threads :
        Sema!CommitWait(t) \/ \E n \in SemaAmounts : Sema!SignalSema(t, n) \/ Sema!PollSema(t, n)
  <2>1. ~(count' = count)
    BY <1>0
  <2> QED
    BY <2>1 DEF Sema!Next, Sema!Step, Sema!Running, Sema!Relocking, Sema!Guest, Sema!WaitTimesOut,
           Sema!SignalNotifies, Sema!WaitSema, Sema!DeleteSema, Sema!Refused, Sema!vars, Sema!sema, sema
<1>2. CASE Sema!CommitWait(t)
  <2>1. /\ pc[t] = "commit" /\ pc' = [pc EXCEPT ![t] = IF queued[t] THEN "notify" ELSE "resume"]
        /\ count' = (IF exit THEN count ELSE count - amount[t])
        /\ queued' = [queued EXCEPT ![t] = FALSE] /\ Sema!RemoveWaiter(t)
    BY <1>2 DEF Sema!CommitWait, Sema!EndWait, Sema!Goto
  <2>2. ~exit
    BY <1>0, <2>1
  <2>3. CASE ~queued[t]
    BY <2>1, <2>3 DEF SemaInv, UnqueuedServed, WaitPCs
  <2>4. CASE queued[t]
    <3>1. Head(tickets) = t
      BY <2>1, <2>2, <2>4 DEF SemaInv, SemaReady
    <3>2. pc' = [pc EXCEPT ![t] = pc'[t]] /\ pc'[t] \notin WaitPCs
      BY <2>1 DEF WaitPCs, SemaInv, Sema!TypeOK, Sema!HleTypeOK
    <3>3. queued[t] /\ t = Head(tickets) => tickets' = Tail(tickets)
      BY <2>1, <3>2, SemaLeaves
    <3> QED
      BY <2>4, <3>1, <3>3
  <2> QED
    BY <2>3, <2>4
<1>3. ASSUME NEW n \in SemaAmounts, Sema!SignalSema(t, n) PROVE FALSE
  <2>1. count' = IF count + n < Maximum THEN count + n ELSE Maximum
    BY <1>3 DEF Sema!SignalSema
  <2>2. count \in 0..Maximum
    BY DEF SemaInv, Sema!TypeOK
  <2> QED
    BY <2>1, <2>2, SemaAmountsPositive
<1>4. ASSUME NEW n \in SemaAmounts, Sema!PollSema(t, n) PROVE tickets = <<>>
  BY <1>0, <1>4 DEF Sema!PollSema
<1> QED
  BY <1>1, <1>2, <1>3, <1>4

\* Semaphores serve in turn (sceKernelWaitSema.cpp:57-88,
\* sceKernelPollSema.cpp:21-25), and waits for an event flag end with their
\* pattern there (sceKernelWaitEventFlag.cpp:23-30); nobody is left asleep.
THEOREM WaitersAreServed == Spec => WaitersServed
<1>1. KernelInv => (object = "sema" => Sema!QueueIsExact /\ Sema!NoLostWakeup)
  BY DEF KernelInv, SemaInv
<1>2. KernelInv => (object = "flag" => Flag!WaitingExact /\ Flag!NoLostWakeup)
  <2>1. FlagInv => Flag!WaitingExact
    <3>1. FlagWaiters = {t \in Threads : Flag!Waits(t)}
      BY DEF FlagWaiters, Flag!Waits, Flag!WaitPCs, WaitPCs
    <3>2. \A S : Flag!Cardinality(S) = Cardinality(S)
      BY Zenon DEF Flag!Cardinality, Cardinality
    <3> QED
      BY <3>1, <3>2 DEF FlagInv, Flag!WaitingExact
  <2> QED
    BY <2>1 DEF KernelInv, FlagInv
<1>3. KernelInv /\ [Next]_vars
        => [count' < count => tickets = <<>> \/ tickets' = Tail(tickets)]_(Sema!vars)
  <2> SUFFICES ASSUME KernelInv, [Next]_vars, count' < count
               PROVE  tickets = <<>> \/ tickets' = Tail(tickets)
    OBVIOUS
  <2>1. CASE object = "sema"
    BY <2>1, FrameStep, SemaTurn DEF KernelInv
  <2>2. CASE object # "sema"
    BY <2>2, FrameStep DEF KernelInv
  <2> QED
    BY <2>1, <2>2
<1>4. KernelInv /\ [Next]_vars
        => [\A t \in Threads : Flag!CommitWait(t) /\ ~exit => Flag!Satisfied(t)]_(Flag!vars)
  <2> SUFFICES ASSUME KernelInv, [Next]_vars, NEW t \in Threads, Flag!CommitWait(t), ~exit
               PROVE  Flag!Satisfied(t)
    OBVIOUS
  <2>1. object = "flag"
    <3>1. waiting' # waiting
      BY DEF Flag!CommitWait, KernelInv
    <3> QED
      BY <3>1, FrameStep DEF KernelInv
  <2> QED
    BY <2>1 DEF Flag!CommitWait, KernelInv, FlagInv, FlagReady
<1> QED
  BY <1>1, <1>2, <1>3, <1>4, KernelInvariant, PTL
     DEF Spec, WaitersServed, Sema!NoOvertaking, Flag!ServedWithPattern
=============================================================================
