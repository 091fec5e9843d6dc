--------------------------- MODULE TaskTheorems ----------------------------
(***************************************************************************)
(* Proofs about the tasks of the backend: about the operators of the fair  *)
(* queue, about the queue under any puts and gets, and about the life      *)
(* cycle of the tasks that go through it.  For any number of tasks, users, *)
(* books and chapters, any concurrency and any bounds.                     *)
(***************************************************************************)
EXTENDS FairTaskQueue, TaskLifecycle,
        SequenceTheorems, FiniteSetTheorems, WellFoundedInduction, TLAPS

-----------------------------------------------------------------------------
(* The operators of FairQueue *)

\* A place is a user and a position in that user's deque.
LEMMA PlaceMembers ==
  ASSUME NEW q
  PROVE  \A p : p \in Places(q) <=> \E o \in Owners : \E i \in 1..Len(q.by[o]) : p = <<o, i>>
PROOF
  BY DEF Places

\* The positions of a sequence without the last one.
LEMMA WithoutLast ==
  ASSUME NEW n \in Nat \ {0}
  PROVE  \A i : i \in 1..(n - 1) <=> i \in 1..n /\ i # n
PROOF
  OBVIOUS

\* The fields of a queue have the types of the object's attributes.
LEMMA QueueFields ==
  ASSUME NEW T, NEW q \in Queues(T)
  PROVE  /\ q = [by |-> q.by, owners |-> q.owners, last |-> q.last, count |-> q.count]
         /\ q.by \in [Owners -> Seq(T)]
         /\ q.owners \in Seq(Owners)
         /\ q.last \in Owners \cup {NoOwner}
         /\ q.count \in Nat
PROOF
  BY DEF Queues

\* Head, Tail and the step back of a sequence, by their items.
LEMMA HeadAndTail ==
  ASSUME NEW S, NEW s \in Seq(S), s # <<>>
  PROVE  /\ Head(s) = s[1] /\ s[1] \in S
         /\ Len(s) \in Nat \ {0}
         /\ Tail(s) \in Seq(S) /\ Len(Tail(s)) = Len(s) - 1
         /\ \A i \in 1..(Len(s) - 1) : Tail(s)[i] = s[i + 1]
         /\ (Tail(s) = <<>>) <=> (Len(s) = 1)
PROOF
  <1>1. Len(s) \in Nat \ {0}
    BY EmptySeq
  <1>2. Tail(s) \in Seq(S) /\ Len(Tail(s)) = Len(s) - 1
    BY HeadTailProperties
  <1>3. \A i \in 1..(Len(s) - 1) : Tail(s)[i] = s[i + 1]
    BY <1>2, HeadTailProperties
  <1>4. Head(s) = s[1] /\ s[1] \in S
    BY <1>1, ElementOfSeq
  <1>5. (Tail(s) = <<>>) <=> (Len(s) = 1)
    <2>1. ASSUME Tail(s) = <<>> PROVE Len(s) = 1
      <3>1. Len(Tail(s)) = 0
        BY <2>1, EmptySeq, Zenon
      <3>2. Len(s) - 1 = 0
        BY <1>2, <3>1, Zenon
      <3> QED
        BY <1>1, <3>2
    <2>2. Tail(s) # <<>> => Len(s) # 1
      <3>1. Tail(s) # <<>> => Len(Tail(s)) \in Nat \ {0}
        BY <1>2, EmptySeq
      <3> QED
        BY <1>1, <1>2, <3>1
    <2> QED
      BY <2>1, <2>2
  <1> QED
    BY <1>1, <1>2, <1>3, <1>4, <1>5

LEMMA StepBack ==
  ASSUME NEW S, NEW s \in Seq(S), s # <<>>
  PROVE  LET r == Append(Tail(s), Head(s))
         IN  /\ r \in Seq(S) /\ Len(r) = Len(s)
             /\ \A i \in 1..(Len(s) - 1) : r[i] = s[i + 1]
             /\ r[Len(s)] = s[1]
PROOF
  <1>1. /\ Head(s) = s[1] /\ s[1] \in S /\ Len(s) \in Nat \ {0}
        /\ Tail(s) \in Seq(S) /\ Len(Tail(s)) = Len(s) - 1
        /\ \A i \in 1..(Len(s) - 1) : Tail(s)[i] = s[i + 1]
    BY HeadAndTail
  <1> QED
    BY <1>1, AppendProperties

-----------------------------------------------------------------------------
\* A fresh queue is coherent and holds nothing.
THEOREM EmptyQueueCoherent ==
  ASSUME NEW T
  PROVE  EmptyQueue \in Queues(T) /\ Coherent(EmptyQueue)
PROOF
  <1>1. EmptyQueue \in Queues(T)
    BY EmptySeq DEF EmptyQueue, Queues
  <1>2. Places(EmptyQueue) = {}
    BY PlaceMembers, EmptySeq DEF EmptyQueue
  <1>3. Waiting(EmptyQueue) = {} /\ Len(EmptyQueue.owners) = 0 /\ EmptyQueue.count = 0
    BY EmptySeq DEF EmptyQueue, Waiting
  <1> QED
    BY <1>1, <1>2, <1>3, FS_EmptySet DEF Coherent

\* A put adds one entry, keeps every other entry and the coherence of the fields.
THEOREM PutCoherent ==
  ASSUME NEW T, NEW q \in Queues(T), Coherent(q), NEW o \in Owners, NEW x \in T
  PROVE  /\ Put(q, o, x) \in Queues(T)
         /\ Coherent(Put(q, o, x))
         /\ \A y : Queued(Put(q, o, x), y) <=> y = x \/ Queued(q, y)
PROOF
  <1> DEFINE p == Put(q, o, x)
  <1>1. /\ q.by \in [Owners -> Seq(T)] /\ q.owners \in Seq(Owners)
        /\ q.last \in Owners \cup {NoOwner} /\ q.count \in Nat
    BY QueueFields
  <1>2. /\ p.by = [q.by EXCEPT ![o] = Append(@, x)]
        /\ p.owners = IF q.by[o] = <<>> THEN Append(q.owners, o) ELSE q.owners
        /\ p.count = q.count + 1
        /\ p.last = q.last
        /\ p \in Queues(T)
    <2>1. p = [by |-> [q.by EXCEPT ![o] = Append(@, x)],
               owners |-> IF q.by[o] = <<>> THEN Append(q.owners, o) ELSE q.owners,
               last |-> q.last, count |-> q.count + 1]
      BY DEF Put
    <2>2. Append(q.by[o], x) \in Seq(T) /\ Append(q.owners, o) \in Seq(Owners)
      BY <1>1, AppendProperties
    <2>3. [q.by EXCEPT ![o] = Append(@, x)] \in [Owners -> Seq(T)]
      BY <1>1, <2>2
    <2> HIDE DEF p
    <2> QED
      BY <1>1, <2>1, <2>2, <2>3 DEF Queues
  <1> HIDE DEF p
  <1>3. /\ Len(q.by[o]) \in Nat /\ Len(p.by[o]) = Len(q.by[o]) + 1
        /\ \A i \in 1..Len(q.by[o]) : p.by[o][i] = q.by[o][i]
        /\ p.by[o][Len(q.by[o]) + 1] = x
        /\ p.by[o] # <<>>
        /\ \A w \in Owners \ {o} : p.by[w] = q.by[w]
    BY <1>1, <1>2, AppendProperties, LenProperties
  <1>4. \A y : Queued(p, y) <=> y = x \/ Queued(q, y)
    <2>1. Queued(p, x)
      <3>1. Len(q.by[o]) + 1 \in 1..Len(p.by[o])
        BY <1>3
      <3> QED
        BY <1>3, <3>1 DEF Queued
    <2>2. ASSUME NEW y, Queued(q, y) PROVE Queued(p, y)
      <3>1. PICK w \in Owners : \E i \in 1..Len(q.by[w]) : q.by[w][i] = y
        BY <2>2 DEF Queued
      <3>2. PICK i \in 1..Len(q.by[w]) : q.by[w][i] = y
        BY <3>1
      <3>3. i \in 1..Len(p.by[w]) /\ p.by[w][i] = y
        BY <1>3, <3>2
      <3> QED
        BY <3>3 DEF Queued
    <2>3. ASSUME NEW y, Queued(p, y) PROVE y = x \/ Queued(q, y)
      <3>1. PICK w \in Owners : \E i \in 1..Len(p.by[w]) : p.by[w][i] = y
        BY <2>3 DEF Queued
      <3>2. PICK i \in 1..Len(p.by[w]) : p.by[w][i] = y
        BY <3>1
      <3>3. w = o => i \in 1..Len(q.by[o]) \/ i = Len(q.by[o]) + 1
        BY <1>3, <3>2
      <3> QED
        BY <1>3, <3>2, <3>3 DEF Queued
    <2> QED
      BY <2>1, <2>2, <2>3
  <1>5. /\ {p.owners[i] : i \in 1..Len(p.owners)} = Waiting(p)
        /\ \A i, j \in 1..Len(p.owners) : p.owners[i] = p.owners[j] => i = j
    <2>1. Waiting(p) = Waiting(q) \cup {o}
      BY <1>3 DEF Waiting
    <2>2. CASE q.by[o] = <<>>
      <3>1. o \notin Waiting(q)
        BY <2>2 DEF Waiting
      <3>2. /\ Len(q.owners) \in Nat /\ Len(p.owners) = Len(q.owners) + 1
            /\ \A i \in 1..Len(q.owners) : p.owners[i] = q.owners[i]
            /\ p.owners[Len(q.owners) + 1] = o
        BY <1>1, <1>2, <2>2, AppendProperties, LenProperties
      <3>3. {p.owners[i] : i \in 1..Len(p.owners)} = Waiting(p)
        <4>1. {q.owners[i] : i \in 1..Len(q.owners)} = Waiting(q)
          BY DEF Coherent
        <4>2. 1..Len(p.owners) = (1..Len(q.owners)) \cup {Len(q.owners) + 1}
          BY <3>2
        <4> QED
          BY <2>1, <3>2, <4>1, <4>2
      <3>4. ASSUME NEW i \in 1..Len(p.owners), NEW j \in 1..Len(p.owners),
                   p.owners[i] = p.owners[j]
            PROVE  i = j
        <4>1. \A k \in 1..Len(q.owners) : q.owners[k] # o
          BY <3>1 DEF Coherent
        <4>2. \A k, l \in 1..Len(q.owners) : q.owners[k] = q.owners[l] => k = l
          BY DEF Coherent
        <4> DEFINE n == Len(q.owners)
        <4>3. /\ n \in Nat /\ i \in 1..n + 1 /\ j \in 1..n + 1
              /\ i \in 1..n => p.owners[i] = q.owners[i] /\ q.owners[i] # o
              /\ j \in 1..n => p.owners[j] = q.owners[j] /\ q.owners[j] # o
              /\ p.owners[n + 1] = o
          BY <3>2, <4>1
        <4>4. CASE i \in 1..n /\ j \in 1..n
          BY <3>4, <4>2, <4>3, <4>4
        <4>5. CASE i = n + 1 \/ j = n + 1
          <5> HIDE DEF n
          <5> QED
            BY <3>4, <4>3, <4>5
        <4> QED
          <5> HIDE DEF n
          <5> QED
            BY <4>3, <4>4, <4>5
      <3> QED
        BY <3>3, <3>4
    <2>3. CASE q.by[o] # <<>>
      <3>1. p.owners = q.owners /\ o \in Waiting(q)
        BY <1>2, <2>3 DEF Waiting
      <3> QED
        BY <2>1, <3>1 DEF Coherent
    <2> QED
      BY <2>2, <2>3
  <1>6. IsFiniteSet(Places(p)) /\ p.count = Cardinality(Places(p))
    <2> DEFINE new == <<o, Len(q.by[o]) + 1>>
    <2>1. Places(p) = Places(q) \cup {new}
      <3>1. ASSUME NEW z PROVE z \in Places(p) => z \in Places(q) \cup {new}
        BY <1>3, PlaceMembers
      <3>2. ASSUME NEW z PROVE z \in Places(q) \cup {new} => z \in Places(p)
        <4>1. ASSUME z \in Places(q) PROVE z \in Places(p)
          <5>1. PICK w \in Owners : \E i \in 1..Len(q.by[w]) : z = <<w, i>>
            BY <4>1, PlaceMembers
          <5>2. PICK i \in 1..Len(q.by[w]) : z = <<w, i>>
            BY <5>1
          <5>3. i \in 1..Len(p.by[w])
            BY <1>3, <5>2
          <5> QED
            BY <5>2, <5>3, PlaceMembers
        <4>2. new \in Places(p)
          <5>1. Len(q.by[o]) + 1 \in 1..Len(p.by[o])
            BY <1>3
          <5> QED
            BY <5>1, PlaceMembers
        <4> QED
          BY <4>1, <4>2
      <3> QED
        BY <3>1, <3>2
    <2>2. new \notin Places(q)
      <3>1. Len(q.by[o]) + 1 \notin 1..Len(q.by[o])
        BY <1>3
      <3> QED
        BY <3>1, PlaceMembers
    <2> HIDE DEF new
    <2> QED
      BY <1>2, <2>1, <2>2, FS_AddElement DEF Coherent
  <1> QED
    BY <1>2, <1>4, <1>5, <1>6 DEF Coherent, p

-----------------------------------------------------------------------------
\* What the next get finds: the rotation is not empty, holds each waiting user
\* once, and its first user has a task.
LEMMA RotationOfWaiting ==
  ASSUME NEW T, NEW q \in Queues(T), Coherent(q), ~IsEmpty(q)
  PROVE  /\ Rotation(q) \in Seq(Owners) /\ Rotation(q) # <<>>
         /\ {Rotation(q)[i] : i \in 1..Len(Rotation(q))} = Waiting(q)
         /\ \A i, j \in 1..Len(Rotation(q)) : Rotation(q)[i] = Rotation(q)[j] => i = j
         /\ NextOwner(q) = Rotation(q)[1]
         /\ NextOwner(q) \in Waiting(q)
PROOF
  <1>1. /\ q.by \in [Owners -> Seq(T)] /\ q.owners \in Seq(Owners) /\ q.count \in Nat
    BY QueueFields
  <1>2. /\ {q.owners[i] : i \in 1..Len(q.owners)} = Waiting(q)
        /\ \A i, j \in 1..Len(q.owners) : q.owners[i] = q.owners[j] => i = j
    BY DEF Coherent
  <1>3. PICK o \in Owners : \E i \in 1..Len(q.by[o]) : TRUE
    <2>1. Places(q) # {}
      BY FS_EmptySet DEF Coherent, IsEmpty
    <2> QED
      BY <2>1, PlaceMembers
  <1>4. o \in Waiting(q)
    BY <1>1, <1>3, EmptySeq DEF Waiting
  <1>5. q.owners # <<>> /\ Len(q.owners) \in Nat \ {0}
    <2>1. PICK i \in 1..Len(q.owners) : q.owners[i] = o
      BY <1>2, <1>4
    <2>2. Len(q.owners) \in Nat /\ Len(q.owners) # 0
      BY <1>1, <2>1, LenProperties
    <2> QED
      BY <2>2, EmptySeq
  <1>6. /\ Rotation(q) \in Seq(Owners) /\ Len(Rotation(q)) = Len(q.owners)
        /\ {Rotation(q)[i] : i \in 1..Len(Rotation(q))} = Waiting(q)
        /\ \A i, j \in 1..Len(Rotation(q)) : Rotation(q)[i] = Rotation(q)[j] => i = j
    <2>1. CASE Len(q.owners) > 1 /\ Head(q.owners) = q.last
      <3> DEFINE r == Append(Tail(q.owners), Head(q.owners))
      <3>1. Rotation(q) = r
        BY <2>1 DEF Rotation
      <3>2. /\ r \in Seq(Owners) /\ Len(r) = Len(q.owners)
            /\ \A i \in 1..(Len(q.owners) - 1) : r[i] = q.owners[i + 1]
            /\ r[Len(q.owners)] = q.owners[1]
        BY <1>1, <1>5, StepBack
      <3> HIDE DEF r
      <3>3. {r[i] : i \in 1..Len(r)} = Waiting(q)
        <4>1. ASSUME NEW i \in 1..Len(r) PROVE \E j \in 1..Len(q.owners) : r[i] = q.owners[j]
          BY <1>5, <3>2
        <4>2. ASSUME NEW j \in 1..Len(q.owners) PROVE \E i \in 1..Len(r) : r[i] = q.owners[j]
          <5>1. CASE j = 1
            BY <1>5, <3>2, <5>1
          <5>2. CASE j # 1
            <6>1. j - 1 \in 1..(Len(q.owners) - 1) /\ j - 1 \in 1..Len(r) /\ (j - 1) + 1 = j
              BY <1>5, <3>2, <5>2
            <6> QED
              BY <3>2, <6>1
          <5> QED
            BY <5>1, <5>2
        <4> QED
          BY <1>2, <4>1, <4>2
      <3>4. \A i, j \in 1..Len(r) : r[i] = r[j] => i = j
        <4>1. \A i \in 1..Len(r) : r[i] = q.owners[IF i = Len(q.owners) THEN 1 ELSE i + 1]
          BY <1>5, <3>2
        <4> QED
          BY <1>2, <1>5, <3>2, <4>1
      <3> QED
        BY <3>1, <3>2, <3>3, <3>4
    <2>2. CASE ~(Len(q.owners) > 1 /\ Head(q.owners) = q.last)
      <3>1. Rotation(q) = q.owners
        BY <2>2 DEF Rotation
      <3> QED
        BY <1>1, <1>2, <3>1
    <2> QED
      BY <2>1, <2>2
  <1>7. Rotation(q) # <<>> /\ NextOwner(q) = Rotation(q)[1] /\ 1 \in 1..Len(Rotation(q))
    <2>1. Rotation(q) # <<>>
      BY <1>5, <1>6, EmptySeq
    <2> QED
      BY <1>5, <1>6, <2>1, HeadAndTail DEF NextOwner
  <1> QED
    BY <1>6, <1>7

\* The user served last is served again only when nobody else waits.
LEMMA ServedAgainAlone ==
  ASSUME NEW T, NEW q \in Queues(T), Coherent(q), ~IsEmpty(q), NextOwner(q) = q.last
  PROVE  Waiting(q) = {q.last}
PROOF
  <1>1. /\ Rotation(q) # <<>> /\ NextOwner(q) = Rotation(q)[1]
        /\ Rotation(q) \in Seq(Owners) /\ NextOwner(q) \in Waiting(q)
    BY RotationOfWaiting
  <1>2. /\ q.owners \in Seq(Owners)
        /\ {q.owners[i] : i \in 1..Len(q.owners)} = Waiting(q)
        /\ \A i, j \in 1..Len(q.owners) : q.owners[i] = q.owners[j] => i = j
    BY QueueFields DEF Coherent
  <1>3. q.owners # <<>> /\ Len(q.owners) \in Nat \ {0}
    BY <1>1, <1>2, EmptySeq
  <1>4. CASE Len(q.owners) > 1 /\ Head(q.owners) = q.last
    <2>1. Rotation(q) = Append(Tail(q.owners), Head(q.owners))
      BY <1>4 DEF Rotation
    <2>2. Rotation(q)[1] = q.owners[2] /\ Head(q.owners) = q.owners[1]
      <3>1. Append(Tail(q.owners), Head(q.owners))[1] = q.owners[1 + 1]
        BY <1>2, <1>3, <1>4, StepBack
      <3> QED
        BY <1>2, <1>3, <2>1, <3>1, HeadAndTail
    <2>3. 1 \in 1..Len(q.owners) /\ 2 \in 1..Len(q.owners)
      BY <1>3, <1>4
    <2> QED
      BY <1>1, <1>2, <1>4, <2>2, <2>3
  <1>5. CASE ~(Len(q.owners) > 1 /\ Head(q.owners) = q.last)
    <2>1. Rotation(q) = q.owners
      BY <1>5 DEF Rotation
    <2>2. Head(q.owners) = q.owners[1]
      BY <1>2, <1>3, HeadAndTail
    <2>3. Len(q.owners) = 1
      <3>1. Head(q.owners) = q.last
        BY <1>1, <2>1, <2>2, Zenon
      <3>2. ~(Len(q.owners) > 1)
        BY <1>5, <3>1, Zenon
      <3>3. \A n \in Nat \ {0} : ~(n > 1) => n = 1
        OBVIOUS
      <3> QED
        BY <1>3, <3>2, <3>3, Zenon
    <2>4. 1..Len(q.owners) = {1}
      BY <2>3
    <2> QED
      BY <1>1, <1>2, <2>1, <2>4
  <1> QED
    BY <1>4, <1>5

\* A get returns a task of a waiting user, removes that one entry and no other,
\* and leaves a coherent queue.
THEOREM GetCoherent ==
  ASSUME NEW T, NEW q \in Queues(T), Coherent(q), ~IsEmpty(q)
  PROVE  /\ Get(q) \in Queues(T)
         /\ Coherent(Get(q))
         /\ NextOwner(q) \in Owners /\ q.by[NextOwner(q)] # <<>>
         /\ NextItem(q) \in T
         /\ Queued(q, NextItem(q))
         /\ \A y : Queued(q, y) => y = NextItem(q) \/ Queued(Get(q), y)
         /\ \A y : Queued(Get(q), y) => Queued(q, y)
PROOF
  <1> DEFINE o == NextOwner(q)
             rot == Rotation(q)
             mine == q.by[o]
             g == Get(q)
  <1>1. /\ q.by \in [Owners -> Seq(T)] /\ q.owners \in Seq(Owners) /\ q.count \in Nat
    BY QueueFields
  <1>2. /\ rot \in Seq(Owners) /\ rot # <<>>
        /\ {rot[i] : i \in 1..Len(rot)} = Waiting(q)
        /\ \A i, j \in 1..Len(rot) : rot[i] = rot[j] => i = j
        /\ o = rot[1] /\ o \in Waiting(q)
    BY RotationOfWaiting
  <1>3. o \in Owners /\ mine # <<>> /\ mine \in Seq(T)
    BY <1>1, <1>2 DEF Waiting
  <1>4. /\ Head(mine) = mine[1] /\ mine[1] \in T
        /\ Len(mine) \in Nat \ {0}
        /\ Tail(mine) \in Seq(T) /\ Len(Tail(mine)) = Len(mine) - 1
        /\ \A i \in 1..(Len(mine) - 1) : Tail(mine)[i] = mine[i + 1]
    BY <1>3, HeadAndTail
  <1>5. /\ Len(rot) \in Nat \ {0}
        /\ Tail(rot) \in Seq(Owners) /\ Len(Tail(rot)) = Len(rot) - 1
        /\ \A i \in 1..(Len(rot) - 1) : Tail(rot)[i] = rot[i + 1]
    BY <1>2, HeadAndTail
  <1>6. /\ g.by = [q.by EXCEPT ![o] = Tail(mine)]
        /\ g.owners = IF Tail(mine) = <<>> THEN Tail(rot) ELSE Append(Tail(rot), o)
        /\ g.last = o /\ g.count = q.count - 1
        /\ g = [by |-> g.by, owners |-> g.owners, last |-> g.last, count |-> g.count]
    BY DEF Get
  <1>7. q.count \in Nat \ {0}
    BY <1>1 DEF IsEmpty
  <1>8. NextItem(q) = mine[1] /\ NextItem(q) \in T
    BY <1>4 DEF NextItem
  <1> HIDE DEF o, rot, mine, g
  <1>9. g \in Queues(T)
    <2>1. g.by \in [Owners -> Seq(T)]
      BY <1>1, <1>3, <1>4, <1>6
    <2>2. g.owners \in Seq(Owners)
      BY <1>3, <1>5, <1>6, AppendProperties
    <2>3. g.last \in Owners \cup {NoOwner} /\ g.count \in Nat
      BY <1>3, <1>6, <1>7
    <2> QED
      BY <1>6, <2>1, <2>2, <2>3 DEF Queues
  <1>10. /\ \A w \in Owners \ {o} : g.by[w] = q.by[w]
         /\ g.by[o] = Tail(mine)
         /\ mine = q.by[o]
    BY <1>1, <1>3, <1>6 DEF mine
  <1>11. ASSUME NEW y, Queued(q, y), y # NextItem(q) PROVE Queued(g, y)
    <2>1. PICK w \in Owners : \E i \in 1..Len(q.by[w]) : q.by[w][i] = y
      BY <1>11 DEF Queued
    <2>2. PICK i \in 1..Len(q.by[w]) : q.by[w][i] = y
      BY <2>1
    <2>3. CASE w # o
      BY <1>10, <2>2, <2>3 DEF Queued
    <2>4. CASE w = o
      <3>1. i # 1
        BY <1>8, <1>10, <1>11, <2>2, <2>4
      <3>2. i - 1 \in 1..(Len(mine) - 1) /\ (i - 1) + 1 = i
        BY <1>4, <1>10, <2>4, <3>1
      <3>3. i - 1 \in 1..Len(g.by[o]) /\ g.by[o][i - 1] = y
        BY <1>4, <1>10, <2>2, <2>4, <3>2
      <3> QED
        BY <1>3, <3>3 DEF Queued
    <2> QED
      BY <2>3, <2>4
  <1>12. Queued(q, NextItem(q))
    <2>1. 1 \in 1..Len(q.by[o]) /\ q.by[o][1] = NextItem(q)
      BY <1>4, <1>8, <1>10
    <2> QED
      BY <1>3, <2>1 DEF Queued
  <1>13. ASSUME NEW y, Queued(g, y) PROVE Queued(q, y)
    <2>1. PICK w \in Owners : \E i \in 1..Len(g.by[w]) : g.by[w][i] = y
      BY <1>13 DEF Queued
    <2>2. PICK i \in 1..Len(g.by[w]) : g.by[w][i] = y
      BY <2>1
    <2>3. CASE w # o
      BY <1>10, <2>2, <2>3 DEF Queued
    <2>4. CASE w = o
      <3>1. i \in 1..(Len(mine) - 1) /\ Tail(mine)[i] = y
        BY <1>4, <1>10, <2>2, <2>4
      <3>2. i + 1 \in 1..Len(mine) /\ mine[i + 1] = y
        BY <1>4, <3>1
      <3> QED
        BY <1>3, <1>10, <3>2 DEF Queued
    <2> QED
      BY <2>3, <2>4
  <1>14. /\ {g.owners[i] : i \in 1..Len(g.owners)} = Waiting(g)
         /\ \A i, j \in 1..Len(g.owners) : g.owners[i] = g.owners[j] => i = j
    <2>1. {Tail(rot)[i] : i \in 1..Len(Tail(rot))} = Waiting(q) \ {o}
      <3>1. ASSUME NEW i \in 1..Len(Tail(rot)) PROVE Tail(rot)[i] \in Waiting(q) \ {o}
        <4>1. i + 1 \in 1..Len(rot) /\ i + 1 # 1 /\ 1 \in 1..Len(rot) /\ Tail(rot)[i] = rot[i + 1]
          BY <1>5
        <4> QED
          BY <1>2, <4>1
      <3>2. ASSUME NEW w \in Waiting(q) \ {o} PROVE \E i \in 1..Len(Tail(rot)) : Tail(rot)[i] = w
        <4>1. PICK j \in 1..Len(rot) : rot[j] = w
          BY <1>2
        <4>2. j # 1
          BY <1>2, <4>1
        <4>3. j - 1 \in 1..(Len(rot) - 1) /\ (j - 1) + 1 = j
          BY <1>5, <4>2
        <4> QED
          BY <1>5, <4>1, <4>3
      <3> QED
        BY <3>1, <3>2
    <2>2. \A i, j \in 1..Len(Tail(rot)) : Tail(rot)[i] = Tail(rot)[j] => i = j
      <3> SUFFICES ASSUME NEW i \in 1..Len(Tail(rot)), NEW j \in 1..Len(Tail(rot)),
                          Tail(rot)[i] = Tail(rot)[j]
                   PROVE  i = j
        OBVIOUS
      <3>1. /\ i + 1 \in 1..Len(rot) /\ j + 1 \in 1..Len(rot)
            /\ rot[i + 1] = rot[j + 1]
        BY <1>5
      <3>2. i + 1 = j + 1
        BY <1>2, <3>1
      <3> QED
        BY <1>5, <3>2
    <2>3. CASE Tail(mine) = <<>>
      <3>1. Waiting(g) = Waiting(q) \ {o}
        BY <1>3, <1>10, <2>3 DEF Waiting
      <3> QED
        BY <1>6, <2>1, <2>2, <2>3, <3>1
    <2>4. CASE Tail(mine) # <<>>
      <3>1. Waiting(g) = Waiting(q)
        BY <1>2, <1>3, <1>10, <2>4 DEF Waiting
      <3>2. /\ Len(g.owners) = Len(Tail(rot)) + 1
            /\ \A i \in 1..Len(Tail(rot)) : g.owners[i] = Tail(rot)[i]
            /\ g.owners[Len(Tail(rot)) + 1] = o
            /\ Len(Tail(rot)) \in Nat
        <4>1. g.owners = Append(Tail(rot), o)
          BY <1>6, <2>4
        <4>2. Tail(rot) \in Seq(Owners) /\ Len(Tail(rot)) \in Nat
          BY <1>5
        <4> QED
          BY <1>3, <4>1, <4>2, AppendProperties
      <3>3. 1..Len(g.owners) = (1..Len(Tail(rot))) \cup {Len(Tail(rot)) + 1}
        BY <3>2
      <3>4. {g.owners[i] : i \in 1..Len(g.owners)} = Waiting(g)
        <4>1. {g.owners[i] : i \in 1..Len(Tail(rot))} = Waiting(q) \ {o}
          BY <2>1, <3>2
        <4>2. {g.owners[i] : i \in 1..Len(g.owners)}
                = {g.owners[i] : i \in 1..Len(Tail(rot))} \cup {g.owners[Len(Tail(rot)) + 1]}
          BY <3>3
        <4> QED
          BY <1>2, <3>1, <3>2, <4>1, <4>2
      <3>5. \A i \in 1..Len(Tail(rot)) : Tail(rot)[i] # o
        BY <2>1
      <3>6. ASSUME NEW i \in 1..Len(g.owners), NEW j \in 1..Len(g.owners),
                   g.owners[i] = g.owners[j]
            PROVE  i = j
        BY <2>2, <3>2, <3>3, <3>5, <3>6
      <3> QED
        BY <3>4, <3>6
    <2> QED
      BY <2>3, <2>4
  <1>15. IsFiniteSet(Places(g)) /\ g.count = Cardinality(Places(g))
    <2> DEFINE old == <<o, Len(mine)>>
    <2>1. Places(g) = Places(q) \ {old}
      <3>1. ASSUME NEW z, z \in Places(g) PROVE z \in Places(q) \ {old}
        <4>1. PICK w \in Owners : \E i \in 1..Len(g.by[w]) : z = <<w, i>>
          BY <3>1, PlaceMembers
        <4>2. PICK i \in 1..Len(g.by[w]) : z = <<w, i>>
          BY <4>1
        <4>3. i \in 1..Len(q.by[w]) /\ z # old
          <5>1. CASE w = o
            <6>1. i \in 1..(Len(mine) - 1)
              BY <1>4, <1>10, <5>1
            <6>2. i \in 1..Len(mine) /\ i # Len(mine)
              BY <1>4, <6>1, WithoutLast, Zenon
            <6> QED
              BY <1>10, <4>2, <5>1, <6>2
          <5>2. CASE w # o
            BY <1>10, <4>2, <5>2
          <5> QED
            BY <5>1, <5>2
        <4> QED
          BY <4>2, <4>3, PlaceMembers
      <3>2. ASSUME NEW z, z \in Places(q), z # old PROVE z \in Places(g)
        <4>1. PICK w \in Owners : \E i \in 1..Len(q.by[w]) : z = <<w, i>>
          BY <3>2, PlaceMembers
        <4>2. PICK i \in 1..Len(q.by[w]) : z = <<w, i>>
          BY <4>1
        <4>3. i \in 1..Len(g.by[w])
          <5>1. CASE w = o
            <6>1. i \in 1..Len(mine) /\ i # Len(mine)
              BY <1>10, <3>2, <4>2, <5>1
            <6>2. i \in 1..(Len(mine) - 1)
              BY <1>4, <6>1, WithoutLast, Zenon
            <6> QED
              BY <1>4, <1>10, <5>1, <6>2
          <5>2. CASE w # o
            BY <1>10, <4>2, <5>2
          <5> QED
            BY <5>1, <5>2
        <4> QED
          BY <4>2, <4>3, PlaceMembers
      <3> QED
        BY <3>1, <3>2
    <2>2. old \in Places(q)
      <3>1. Len(mine) \in 1..Len(q.by[o])
        BY <1>4, <1>10
      <3> QED
        BY <1>3, <3>1, PlaceMembers
    <2> HIDE DEF old
    <2> QED
      BY <1>6, <2>1, <2>2, FS_RemoveElement DEF Coherent
  <1> QED
    BY <1>3, <1>8, <1>9, <1>11, <1>14, <1>15, <1>12, <1>13 DEF Coherent, g, o, mine

-----------------------------------------------------------------------------
(* FairTaskQueue: the queue under any sequence of puts and gets *)

\* a stands before b in the sequence s.
Before(s, a, b) == \E i, j \in 1..Len(s) : i < j /\ s[i] = a /\ s[j] = b

(***************************************************************************)
(* Why nobody is passed twice: a user that was passed by p stands before p *)
(* in the rotation until it is served, and the user served last, the only  *)
(* one that may have to step back, was not passed since.                   *)
(***************************************************************************)
PassedStandsBefore ==
  /\ \A w \in Waiting(fairQueue), p \in Owners :
       /\ bypassed[w][p] \in {0, 1}
       /\ bypassed[w][p] = 1 /\ p \in Waiting(fairQueue) => Before(fairQueue.owners, w, p)
       /\ fairQueue.last = w => bypassed[w][p] = 0
  /\ \A w \in Owners \ Waiting(fairQueue), p \in Owners : bypassed[w][p] = 0

QueueInv == QueueTypeOK /\ Coherent(fairQueue) /\ PassedStandsBefore

-----------------------------------------------------------------------------
\* An item appended to a sequence stands behind the others, which keep their order.
LEMMA AppendBefore ==
  ASSUME NEW S, NEW s \in Seq(S), NEW x \in S
  PROVE  /\ \A a, b : Before(s, a, b) => Before(Append(s, x), a, b)
         /\ \A i \in 1..Len(s) : Before(Append(s, x), s[i], x)
PROOF
  <1> DEFINE r == Append(s, x)
  <1>1. /\ Len(s) \in Nat /\ Len(r) = Len(s) + 1
        /\ \A i \in 1..Len(s) : r[i] = s[i]
        /\ r[Len(s) + 1] = x
    BY AppendProperties, LenProperties
  <1> HIDE DEF r
  <1>2. ASSUME NEW a, NEW b, Before(s, a, b) PROVE Before(r, a, b)
    <2>1. PICK i, j \in 1..Len(s) : i < j /\ s[i] = a /\ s[j] = b
      BY <1>2 DEF Before
    <2>2. i \in 1..Len(r) /\ j \in 1..Len(r) /\ r[i] = a /\ r[j] = b
      BY <1>1, <2>1
    <2> QED
      BY <2>1, <2>2 DEF Before
  <1>3. ASSUME NEW i \in 1..Len(s) PROVE Before(r, s[i], x)
    <2>1. /\ i \in 1..Len(r) /\ Len(s) + 1 \in 1..Len(r) /\ i < Len(s) + 1
          /\ r[i] = s[i] /\ r[Len(s) + 1] = x
      BY <1>1
    <2> QED
      BY <2>1 DEF Before
  <1> QED
    BY <1>2, <1>3 DEF r

\* Without its first item the others keep their order.
LEMMA TailBefore ==
  ASSUME NEW S, NEW s \in Seq(S), s # <<>>, NEW a, NEW b, Before(s, a, b), a # s[1]
  PROVE  Before(Tail(s), a, b)
PROOF
  <1>1. /\ Len(s) \in Nat \ {0} /\ Len(Tail(s)) = Len(s) - 1
        /\ \A i \in 1..(Len(s) - 1) : Tail(s)[i] = s[i + 1]
    BY HeadAndTail
  <1>2. PICK i, j \in 1..Len(s) : i < j /\ s[i] = a /\ s[j] = b
    BY DEF Before
  <1>3. i # 1
    BY <1>2
  <1>4. /\ i - 1 \in 1..Len(Tail(s)) /\ j - 1 \in 1..Len(Tail(s)) /\ i - 1 < j - 1
        /\ (i - 1) + 1 = i /\ (j - 1) + 1 = j
    BY <1>1, <1>2, <1>3
  <1>5. Tail(s)[i - 1] = a /\ Tail(s)[j - 1] = b
    BY <1>1, <1>2, <1>4
  <1> QED
    BY <1>4, <1>5 DEF Before

\* Only the user served last loses its place in the rotation before a get.
LEMMA RotationBefore ==
  ASSUME NEW Items_, NEW q \in Queues(Items_), NEW a, NEW b,
         Before(q.owners, a, b), a # q.last
  PROVE  Before(Rotation(q), a, b)
PROOF
  <1>1. q.owners \in Seq(Owners)
    BY QueueFields
  <1>2. CASE Len(q.owners) > 1 /\ Head(q.owners) = q.last
    <2>1. q.owners # <<>>
      BY <1>2, EmptySeq
    <2>2. Head(q.owners) = q.owners[1] /\ q.owners[1] \in Owners /\ Tail(q.owners) \in Seq(Owners)
      BY <1>1, <2>1, HeadAndTail
    <2>3. Before(Tail(q.owners), a, b)
      BY <1>1, <1>2, <2>1, <2>2, TailBefore
    <2>4. Rotation(q) = Append(Tail(q.owners), Head(q.owners))
      BY <1>2 DEF Rotation
    <2> QED
      BY <2>2, <2>3, <2>4, AppendBefore
  <1>3. CASE ~(Len(q.owners) > 1 /\ Head(q.owners) = q.last)
    <2>1. Rotation(q) = q.owners
      BY <1>3 DEF Rotation
    <2> QED
      BY <2>1
  <1> QED
    BY <1>2, <1>3

\* After a get the users that were not served keep their order, and a user
\* that was served and waits again stands behind all of them.
LEMMA GetBefore ==
  ASSUME NEW Items_, NEW q \in Queues(Items_), Coherent(q), ~IsEmpty(q)
  PROVE  /\ \A a, b : Before(Rotation(q), a, b) /\ a # NextOwner(q) => Before(Get(q).owners, a, b)
         /\ \A w \in Waiting(q) :
              w # NextOwner(q) /\ NextOwner(q) \in Waiting(Get(q))
                => Before(Get(q).owners, w, NextOwner(q))
         /\ \A a : ~Before(Rotation(q), a, NextOwner(q))
         /\ \A w \in Owners \ {NextOwner(q)} : w \in Waiting(q) <=> w \in Waiting(Get(q))
PROOF
  <1> DEFINE o == NextOwner(q)
             rot == Rotation(q)
             g == Get(q)
  <1>1. /\ rot \in Seq(Owners) /\ rot # <<>>
        /\ {rot[i] : i \in 1..Len(rot)} = Waiting(q)
        /\ \A i, j \in 1..Len(rot) : rot[i] = rot[j] => i = j
        /\ o = rot[1] /\ o \in Waiting(q) /\ o \in Owners
    BY RotationOfWaiting DEF Waiting
  <1>2. /\ Len(rot) \in Nat \ {0}
        /\ Tail(rot) \in Seq(Owners) /\ Len(Tail(rot)) = Len(rot) - 1
        /\ \A i \in 1..(Len(rot) - 1) : Tail(rot)[i] = rot[i + 1]
    BY <1>1, HeadAndTail
  <1>3. /\ g.by = [q.by EXCEPT ![o] = Tail(q.by[o])]
        /\ g.owners = IF Tail(q.by[o]) = <<>> THEN Tail(rot) ELSE Append(Tail(rot), o)
    BY DEF Get
  <1>4. q.by \in [Owners -> Seq(Items_)]
    BY QueueFields
  <1> HIDE DEF o, rot, g
  <1>5. g.by[o] = Tail(q.by[o]) /\ \A w \in Owners \ {o} : g.by[w] = q.by[w]
    BY <1>1, <1>3, <1>4
  <1>6. /\ \A a, b : Before(Tail(rot), a, b) => Before(Append(Tail(rot), o), a, b)
        /\ \A i \in 1..Len(Tail(rot)) : Before(Append(Tail(rot), o), Tail(rot)[i], o)
    BY <1>1, <1>2, AppendBefore, Zenon
  <1>7. ASSUME NEW a, NEW b, Before(rot, a, b), a # o PROVE Before(g.owners, a, b)
    <2>1. Before(Tail(rot), a, b)
      BY <1>1, <1>7, TailBefore
    <2>2. g.owners = Tail(rot) \/ g.owners = Append(Tail(rot), o)
      BY <1>3
    <2> QED
      BY <1>6, <2>1, <2>2, Zenon
  <1>8. ASSUME NEW w \in Waiting(q), w # o, o \in Waiting(g) PROVE Before(g.owners, w, o)
    <2>1. g.owners = Append(Tail(rot), o)
      BY <1>3, <1>5, <1>8 DEF Waiting
    <2>2. PICK i \in 1..Len(rot) : rot[i] = w
      BY <1>1
    <2>3. i # 1
      BY <1>1, <1>8, <2>2
    <2>4. i - 1 \in 1..Len(Tail(rot)) /\ (i - 1) + 1 = i
      BY <1>2, <2>3
    <2>5. Tail(rot)[i - 1] = w
      BY <1>2, <2>2, <2>4
    <2> QED
      BY <1>6, <2>1, <2>4, <2>5, Zenon
  <1>9. ASSUME NEW a, Before(rot, a, o) PROVE FALSE
    <2>1. PICK i, j \in 1..Len(rot) : i < j /\ rot[j] = o
      BY <1>9 DEF Before
    <2>2. 1 \in 1..Len(rot) /\ j # 1
      BY <1>2, <2>1
    <2> QED
      BY <1>1, <2>1, <2>2
  <1>10. \A w \in Owners \ {o} : w \in Waiting(q) <=> w \in Waiting(g)
    BY <1>5 DEF Waiting
  <1> QED
    BY <1>7, <1>8, <1>9, <1>10 DEF o, rot, g
-----------------------------------------------------------------------------
LEMMA QueueInvInit ==
  QueueInit => QueueInv
PROOF
  <1> SUFFICES ASSUME QueueInit PROVE QueueInv
    OBVIOUS
  <1>1. fairQueue \in Queues(Items) /\ Coherent(fairQueue)
    BY EmptyQueueCoherent DEF QueueInit
  <1>2. \A w, p \in Owners : bypassed[w][p] = 0
    BY DEF QueueInit
  <1>3. QueueTypeOK
    BY <1>1 DEF QueueInit, QueueTypeOK
  <1> QED
    BY <1>1, <1>2, <1>3 DEF QueueInv, PassedStandsBefore, Waiting

\* A put joins a user that did not wait at the end, behind whoever it was passed by.
LEMMA PutInv ==
  ASSUME QueueInv, NEW o \in Owners, NEW item \in Items, put_nowait(o, item)
  PROVE  QueueInv'
PROOF
  <1>1. /\ fairQueue \in Queues(Items) /\ Coherent(fairQueue) /\ fairQueue' = Put(fairQueue, o, item)
        /\ bypassed \in [Owners -> [Owners -> Nat]] /\ bypassed' = bypassed /\ out' = out
    BY DEF QueueInv, QueueTypeOK, put_nowait
  <1>2. fairQueue' \in Queues(Items) /\ Coherent(fairQueue')
    BY <1>1, PutCoherent
  <1>3. QueueTypeOK'
    BY <1>1, <1>2 DEF QueueInv, QueueTypeOK
  <1>4. /\ fairQueue.by \in [Owners -> Seq(Items)] /\ fairQueue.owners \in Seq(Owners)
        /\ fairQueue'.by = [fairQueue.by EXCEPT ![o] = Append(@, item)]
        /\ fairQueue'.owners = IF fairQueue.by[o] = <<>> THEN Append(fairQueue.owners, o) ELSE fairQueue.owners
        /\ fairQueue'.last = fairQueue.last
    BY <1>1, QueueFields DEF Put
  <1>5. Waiting(fairQueue') = Waiting(fairQueue) \cup {o}
    <2>1. fairQueue'.by[o] = Append(fairQueue.by[o], item) /\ \A w \in Owners \ {o} : fairQueue'.by[w] = fairQueue.by[w]
      BY <1>4
    <2>2. Append(fairQueue.by[o], item) # <<>>
      BY <1>4, AppendProperties
    <2> QED
      BY <2>1, <2>2 DEF Waiting
  <1>6. \A a, b : Before(fairQueue.owners, a, b) => Before(fairQueue'.owners, a, b)
    <2>1. \A a, b : Before(fairQueue.owners, a, b) => Before(Append(fairQueue.owners, o), a, b)
      BY <1>4, AppendBefore, Zenon
    <2>2. fairQueue'.owners = Append(fairQueue.owners, o) \/ fairQueue'.owners = fairQueue.owners
      BY <1>4
    <2> QED
      BY <2>1, <2>2, Zenon
  <1>7. ASSUME NEW w \in Waiting(fairQueue), o \notin Waiting(fairQueue) PROVE Before(fairQueue'.owners, w, o)
    <2>1. fairQueue'.owners = Append(fairQueue.owners, o)
      BY <1>4, <1>7 DEF Waiting
    <2>2. PICK i \in 1..Len(fairQueue.owners) : fairQueue.owners[i] = w
      BY <1>1 DEF Coherent
    <2>3. \A k \in 1..Len(fairQueue.owners) : Before(Append(fairQueue.owners, o), fairQueue.owners[k], o)
      BY <1>4, AppendBefore, Zenon
    <2> QED
      BY <2>1, <2>2, <2>3, Zenon
  <1>8. PassedStandsBefore'
    <2>1. ASSUME NEW w \in Waiting(fairQueue'), NEW p \in Owners
          PROVE  /\ bypassed[w][p] \in {0, 1}
                 /\ bypassed[w][p] = 1 /\ p \in Waiting(fairQueue') => Before(fairQueue'.owners, w, p)
                 /\ fairQueue'.last = w => bypassed[w][p] = 0
      <3>1. CASE w \in Waiting(fairQueue)
        <4>1. CASE p \in Waiting(fairQueue)
          BY <1>4, <1>6, <3>1, <4>1 DEF QueueInv, PassedStandsBefore
        <4>2. CASE p \notin Waiting(fairQueue)
          BY <1>4, <1>5, <1>7, <3>1, <4>2 DEF QueueInv, PassedStandsBefore
        <4> QED
          BY <4>1, <4>2
      <3>2. CASE w \notin Waiting(fairQueue)
        BY <3>2 DEF QueueInv, PassedStandsBefore, Waiting
      <3> QED
        BY <3>1, <3>2
    <2>2. ASSUME NEW w \in Owners \ Waiting(fairQueue'), NEW p \in Owners PROVE bypassed[w][p] = 0
      BY <1>5 DEF QueueInv, PassedStandsBefore
    <2> QED
      BY <1>1, <2>1, <2>2 DEF PassedStandsBefore
  <1> QED
    BY <1>2, <1>3, <1>8 DEF QueueInv

\* A get serves a user nobody that it passed stands before.
LEMMA GetInv ==
  ASSUME QueueInv, get
  PROVE  QueueInv'
PROOF
  <1> DEFINE o == NextOwner(fairQueue)
  <1>1. /\ fairQueue \in Queues(Items) /\ Coherent(fairQueue) /\ ~IsEmpty(fairQueue) /\ fairQueue' = Get(fairQueue)
        /\ bypassed \in [Owners -> [Owners -> Nat]] /\ out' = NextItem(fairQueue)
        /\ bypassed' = [w \in Owners |->
             IF w \in Waiting(fairQueue) /\ w # o
             THEN [bypassed[w] EXCEPT ![o] = @ + 1]
             ELSE [p \in Owners |-> 0]]
    BY DEF QueueInv, QueueTypeOK, get
  <1>2. /\ fairQueue' \in Queues(Items) /\ Coherent(fairQueue')
        /\ o \in Owners /\ NextItem(fairQueue) \in Items
    BY <1>1, GetCoherent
  <1>3. fairQueue'.last = o
    BY <1>1 DEF Get
  <1>4. /\ \A a, b : Before(Rotation(fairQueue), a, b) /\ a # o => Before(fairQueue'.owners, a, b)
        /\ \A w \in Waiting(fairQueue) : w # o /\ o \in Waiting(fairQueue') => Before(fairQueue'.owners, w, o)
        /\ \A a : ~Before(Rotation(fairQueue), a, o)
        /\ \A w \in Owners \ {o} : w \in Waiting(fairQueue) <=> w \in Waiting(fairQueue')
    BY <1>1, GetBefore, Zenon
  <1>5. \A a, b : Before(fairQueue.owners, a, b) /\ a # fairQueue.last => Before(Rotation(fairQueue), a, b)
    BY <1>1, RotationBefore, Zenon
  <1>6. o \in Waiting(fairQueue)
    BY <1>1, RotationOfWaiting
  <1> HIDE DEF o
  <1>7. bypassed' \in [Owners -> [Owners -> Nat]]
    BY <1>1, <1>2
  <1>8. QueueTypeOK'
    BY <1>1, <1>2, <1>7 DEF QueueTypeOK
  <1>9. ASSUME NEW w \in Waiting(fairQueue), w # o PROVE bypassed[w][o] = 0
    <2>1. bypassed[w][o] \in {0, 1}
      BY <1>2 DEF QueueInv, PassedStandsBefore
    <2>2. bypassed[w][o] = 1 => Before(fairQueue.owners, w, o) /\ fairQueue.last # w
      BY <1>2, <1>6 DEF QueueInv, PassedStandsBefore
    <2> QED
      BY <1>4, <1>5, <2>1, <2>2
  <1>10. PassedStandsBefore'
    <2>1. ASSUME NEW w \in Waiting(fairQueue'), NEW p \in Owners
          PROVE  /\ bypassed'[w][p] \in {0, 1}
                 /\ bypassed'[w][p] = 1 /\ p \in Waiting(fairQueue') => Before(fairQueue'.owners, w, p)
                 /\ fairQueue'.last = w => bypassed'[w][p] = 0
      <3>1. w \in Owners
        BY DEF Waiting
      <3>2. CASE w = o
        <4>1. bypassed'[w][p] = 0
          BY <1>1, <3>1, <3>2
        <4> QED
          BY <4>1
      <3>3. CASE w # o
        <4>1. w \in Waiting(fairQueue)
          BY <1>4, <3>1, <3>3
        <4>2. bypassed'[w][p] = IF p = o THEN 1 ELSE bypassed[w][p]
          BY <1>1, <1>9, <3>1, <3>3, <4>1
        <4>3. CASE p = o
          BY <1>3, <1>4, <3>3, <4>1, <4>2, <4>3
        <4>4. CASE p # o
          <5>1. bypassed[w][p] \in {0, 1}
            BY <4>1 DEF QueueInv, PassedStandsBefore
          <5>2. ASSUME bypassed[w][p] = 1, p \in Waiting(fairQueue') PROVE Before(fairQueue'.owners, w, p)
            <6>1. p \in Waiting(fairQueue)
              BY <1>4, <4>4, <5>2
            <6>2. Before(fairQueue.owners, w, p) /\ w # fairQueue.last
              BY <4>1, <5>2, <6>1 DEF QueueInv, PassedStandsBefore
            <6> QED
              BY <1>4, <1>5, <3>3, <6>2
          <5> QED
            BY <1>3, <3>3, <4>2, <4>4, <5>1, <5>2
        <4> QED
          BY <4>3, <4>4
      <3> QED
        BY <3>2, <3>3
    <2>2. ASSUME NEW w \in Owners \ Waiting(fairQueue'), NEW p \in Owners PROVE bypassed'[w][p] = 0
      BY <1>1, <1>4
    <2> QED
      BY <2>1, <2>2 DEF PassedStandsBefore
  <1> QED
    BY <1>2, <1>8, <1>10 DEF QueueInv

LEMMA QueueInvStep ==
  QueueInv /\ [QueueNext]_queueVars => QueueInv'
PROOF
  <1> SUFFICES ASSUME QueueInv, [QueueNext]_queueVars PROVE QueueInv'
    OBVIOUS
  <1>1. CASE get
    BY <1>1, GetInv
  <1>2. ASSUME NEW o \in Owners, NEW item \in Items, put_nowait(o, item) PROVE QueueInv'
    BY <1>2, PutInv
  <1>3. CASE UNCHANGED queueVars
    BY <1>3 DEF queueVars, QueueInv, QueueTypeOK, Coherent, Places, PassedStandsBefore, Waiting
  <1> QED
    BY <1>1, <1>2, <1>3 DEF QueueNext

THEOREM QueueInvAlways ==
  QueueSpec => []QueueInv
PROOF
  BY QueueInvInit, QueueInvStep, PTL DEF QueueSpec

-----------------------------------------------------------------------------
\* The state of the queue has its types, for any users, tasks and bound.
THEOREM QueueTypeCorrect ==
  QueueSpec => []QueueTypeOK
PROOF
  <1>1. QueueInv => QueueTypeOK
    BY DEF QueueInv
  <1> QED
    BY <1>1, QueueInvAlways, PTL

\* The fields of the queue agree after any puts and gets: get never blocks while
\* a task waits and never pops an empty deque.
THEOREM QueueStaysCoherent ==
  QueueSpec => []QueueIsCoherent
PROOF
  <1>1. QueueInv => QueueIsCoherent
    BY DEF QueueInv, QueueIsCoherent
  <1> QED
    BY <1>1, QueueInvAlways, PTL

\* However many users there are, a waiting user is passed at most once by each other.
THEOREM BypassIsBounded ==
  QueueSpec => []BoundedBypass
PROOF
  <1>1. QueueInv => BoundedBypass
    <2> SUFFICES ASSUME QueueInv, NEW o \in Waiting(fairQueue), NEW p \in Owners
                 PROVE  bypassed[o][p] <= 1
      BY DEF BoundedBypass
    <2>1. bypassed[o][p] \in {0, 1}
      BY DEF QueueInv, PassedStandsBefore
    <2> QED
      BY <2>1
  <1> QED
    BY <1>1, QueueInvAlways, PTL

\* No user is served twice in a row while another waits, for any number of users.
THEOREM ServedInTurn ==
  QueueSpec => NeverTwiceInARow
PROOF
  <1>1. QueueInv /\ [QueueNext]_queueVars
          => [fairQueue'.count < fairQueue.count /\ fairQueue'.last = fairQueue.last
                => Waiting(fairQueue) = {fairQueue.last}]_queueVars
    <2> SUFFICES ASSUME QueueInv, QueueNext, fairQueue'.count < fairQueue.count, fairQueue'.last = fairQueue.last
                 PROVE  Waiting(fairQueue) = {fairQueue.last}
      OBVIOUS
    <2>1. fairQueue \in Queues(Items) /\ Coherent(fairQueue)
      BY DEF QueueInv, QueueTypeOK
    <2>2. CASE get
      <3>1. NextOwner(fairQueue) = fairQueue.last /\ ~IsEmpty(fairQueue)
        BY <2>2 DEF get, Get
      <3> QED
        BY <2>1, <3>1, ServedAgainAlone
    <2>3. ASSUME NEW o \in Owners, NEW item \in Items, put_nowait(o, item) PROVE FALSE
      <3>1. fairQueue'.count = fairQueue.count + 1 /\ fairQueue.count \in Nat
        BY <2>1, <2>3, QueueFields DEF put_nowait, Put
      <3> QED
        BY <3>1
    <2> QED
      BY <2>2, <2>3 DEF QueueNext
  <1> QED
    BY <1>1, QueueInvAlways, PTL DEF QueueSpec, NeverTwiceInARow

\* Per user the queue is first in, first out: each put is the Join of OwnerFifo
\* and each get the Serve of the user it chooses.
THEOREM QueueImplementsFifo ==
  QueueSpec => ImplementsOwnerFifo
PROOF
  <1>1. QueueInit => Fifo!Init
    BY DEF QueueInit, EmptyQueue, Fifo!Init
  <1>2. QueueInv /\ [QueueNext]_queueVars => [Fifo!Next]_Fifo!vars
    <2> SUFFICES ASSUME QueueInv, [QueueNext]_queueVars PROVE [Fifo!Next]_Fifo!vars
      OBVIOUS
    <2>1. fairQueue \in Queues(Items) /\ Coherent(fairQueue)
      BY DEF QueueInv, QueueTypeOK
    <2>2. CASE get
      <3>1. ~IsEmpty(fairQueue) /\ fairQueue' = Get(fairQueue) /\ out' = NextItem(fairQueue)
        BY <2>2 DEF get
      <3>2. NextOwner(fairQueue) \in Owners /\ fairQueue.by[NextOwner(fairQueue)] # <<>>
        BY <2>1, <3>1, GetCoherent
      <3>3. fairQueue'.by = [fairQueue.by EXCEPT ![NextOwner(fairQueue)] = Tail(@)]
        BY <3>1 DEF Get
      <3>4. Fifo!Serve(NextOwner(fairQueue))
        BY <3>1, <3>2, <3>3 DEF Fifo!Serve, NextItem
      <3> QED
        BY <3>2, <3>4 DEF Fifo!Next
    <2>3. ASSUME NEW o \in Owners, NEW item \in Items, put_nowait(o, item) PROVE Fifo!Next
      <3>1. Fifo!Join(o, item)
        BY <2>3 DEF put_nowait, Put, Fifo!Join
      <3> QED
        BY <3>1 DEF Fifo!Next
    <2>4. CASE UNCHANGED queueVars
      BY <2>4 DEF queueVars, Fifo!vars
    <2> QED
      BY <2>2, <2>3, <2>4 DEF QueueNext
  <1> QED
    BY <1>1, <1>2, QueueInvAlways, PTL DEF QueueSpec, ImplementsOwnerFifo, Fifo!Spec

-----------------------------------------------------------------------------
(* TaskLifecycle *)

\* The worker exists while the process serves, holds a task between taking it
\* and ending its run, and has chapters only inside a run.
WorkerConsistent ==
  /\ worker = "none" <=> phase # "up"
  /\ current = NoTask <=> worker \in {"none", "idle"}
  /\ worker # "run" => todo = {} /\ active = {}

\* The start-up loop has put back what stands before its cursor.
StartUpCovers ==
  phase = "requeueing" =>
    \A t \in Tasks :
      /\ row[t] \notin PendingStops
      /\ t < cursor => row[t] # "running" /\ (row[t] = "queued" => Queued(queue, t))

\* The queue and the worker hold only tasks that were stored once.
OnlySubmitted ==
  \A t \in Tasks :
    Queued(queue, t) \/ current = t => row[t] # "absent" \/ BookOf[t] \notin books

\* The row of a run: nobody but the run and a deletion takes it out of these.
RunHasRow == worker \in Running => row[current] \in PendingStops \cup {"running", "absent"}

\* The chapters of a run are each done, in progress or to come, and only once.
ChaptersOfRun ==
  current # NoTask =>
    /\ todo \cap active = {}
    /\ (todo \cup active) \cap ledger[current] = {}
    /\ worker \in {"run", "closing"} /\ row[current] = "running" =>
         Work[current] \subseteq ledger[current] \cup todo \cup active
    /\ Kind[current] = "translate" => \A c, d \in active : c = d

LifecycleInv ==
  /\ TypeOK
  /\ Coherent(queue)
  /\ WorkerConsistent
  /\ StartUpCovers
  /\ OnlySubmitted
  /\ RunHasRow
  /\ ChaptersOfRun
  /\ NoLostTask
  /\ InFlightHasRun
  /\ NoResurrection

-----------------------------------------------------------------------------
\* The chapter a run takes next is one of those left.
LEMMA LeastMember ==
  ASSUME NEW S \in SUBSET Chapters, S # {}
  PROVE  Least(S) \in S
PROOF
  <1>1. S \subseteq Nat
    BY TaskAssumption
  <1>2. \E c \in S : \A d \in S : <<d, c>> \notin OpToRel(<, Nat)
    BY <1>1, NatLessThanWellFounded, WFMin
  <1>3. \A d, c \in Nat : <<d, c>> \notin OpToRel(<, Nat) => ~(d < c)
    BY Zenon DEF OpToRel
  <1>4. \E c \in S : \A d \in S : ~(d < c)
    BY <1>1, <1>2, <1>3, Zenon
  <1>5. \A d, c \in Nat : ~(d < c) => c <= d
    OBVIOUS
  <1>6. \E c \in S : \A d \in S : c <= d
    BY <1>1, <1>4, <1>5, Zenon
  <1> QED
    BY <1>6 DEF Least

LEMMA TaskTypes ==
  /\ Tasks \subseteq Nat \ {0} /\ NoTask \notin Tasks
  /\ \A t \in Tasks : /\ BookOf[t] \in Books /\ OwnerOf[t] \in Owners
                      /\ Kind[t] \in {"download", "translate"}
                      /\ Selected[t] \subseteq Chapters /\ Work[t] \subseteq Chapters
PROOF
  BY TaskAssumption DEF Tasks, NoTask, Work

LEMMA LifecycleInit ==
  Init => LifecycleInv
PROOF
  <1> SUFFICES ASSUME Init PROVE LifecycleInv
    OBVIOUS
  <1>1. queue \in Queues(Tasks) /\ Coherent(queue)
    BY EmptyQueueCoherent DEF Init
  <1>2. \A t : ~Queued(queue, t)
    BY EmptySeq DEF Init, EmptyQueue, Queued
  <1>3. TypeOK
    BY <1>1, TaskAssumption DEF Init, TypeOK, db, Statuses, Phases, WorkerStates, Gates
  <1> QED
    BY <1>1, <1>2, <1>3, TaskTypes
    DEF Init, LifecycleInv, WorkerConsistent, StartUpCovers, OnlySubmitted, RunHasRow,
        ChaptersOfRun, NoLostTask, InFlightHasRun, NoResurrection, Running, PendingStops

\* What an action may assume, without the queue's structure.
LEMMA ServiceStep ==
  ASSUME LifecycleInv, ServiceStop \/ ServiceStart \/ ServiceRestart \/ ServiceRestarted
  PROVE  LifecycleInv'
PROOF
  BY DEF LifecycleInv, TypeOK, WorkerConsistent, StartUpCovers, OnlySubmitted, RunHasRow,
         ChaptersOfRun, NoLostTask, InFlightHasRun, NoResurrection, Running,
         ServiceStop, ServiceStart, ServiceRestart, ServiceRestarted, ServiceUp, Serving,
         db, run, process, WorkerStates

LEMMA GateStep ==
  ASSUME LifecycleInv, CloseGate \/ DrainTimeout \/ GateDrained \/ OpenGate
  PROVE  LifecycleInv'
PROOF
  <1>1. UNCHANGED <<db, queue, process, run, service>>
    BY DEF CloseGate, DrainTimeout, GateDrained, OpenGate
  <1>2. gate' \in Gates /\ closings' \in 0..MaxMaintenance
    BY TaskAssumption
       DEF LifecycleInv, TypeOK, CloseGate, DrainTimeout, GateDrained, OpenGate, Gates
  <1> QED
    BY <1>1, <1>2
       DEF LifecycleInv, TypeOK, WorkerConsistent, StartUpCovers, OnlySubmitted, RunHasRow,
           ChaptersOfRun, NoLostTask, InFlightHasRun, NoResurrection, db, run, process

\* A process that dies, starts, or gives up its workers for a snapshot.
LEMMA ProcessStep ==
  ASSUME LifecycleInv, Crash \/ Boot \/ Quiesce \/ Reload
  PROVE  LifecycleInv'
PROOF
  <1>1. EmptyQueue \in Queues(Tasks) /\ Coherent(EmptyQueue)
    BY EmptyQueueCoherent
  <1>2. \A t : ~Queued(EmptyQueue, t)
    BY EmptySeq DEF EmptyQueue, Queued
  <1>3. /\ UNCHANGED db /\ (queue' = queue \/ queue' = EmptyQueue)
        /\ worker' = "none" /\ current' = NoTask /\ todo' = {} /\ active' = {}
        /\ phase' \in {"down", "settling", "quiesced"}
    BY TaskTypes DEF Crash, Boot, Quiesce, Reload, Volatile, LifecycleInv, TypeOK, WorkerConsistent, run, db
  <1>4. /\ cursor' \in 1..(N + 1) /\ crashes' \in 0..MaxCrashes
        /\ service' \in {"running", "stopped", "restarting"}
        /\ gate' \in Gates /\ closings' \in 0..MaxMaintenance
    BY TaskAssumption DEF Crash, Boot, Quiesce, Reload, LifecycleInv, TypeOK, Gates, process
  <1>5. TypeOK' /\ Coherent(queue)' /\ OnlySubmitted'
    BY <1>1, <1>2, <1>3, <1>4, TaskTypes
       DEF LifecycleInv, TypeOK, OnlySubmitted, db, Phases, WorkerStates
  <1> QED
    BY <1>3, <1>5, TaskTypes
       DEF LifecycleInv, WorkerConsistent, StartUpCovers, RunHasRow,
           ChaptersOfRun, NoLostTask, InFlightHasRun, NoResurrection, Running, db

\* What an entry put for a task does to the queue.
LEMMA TaskPut ==
  ASSUME LifecycleInv, NEW t \in Tasks
  PROVE  LET q == Put(queue, OwnerOf[t], t)
         IN  /\ q \in Queues(Tasks) /\ Coherent(q)
             /\ \A y : Queued(q, y) <=> y = t \/ Queued(queue, y)
PROOF
  <1>1. queue \in Queues(Tasks) /\ Coherent(queue) /\ OwnerOf[t] \in Owners
    BY TaskTypes DEF LifecycleInv, TypeOK
  <1> QED
    BY <1>1, PutCoherent

\* A start settles the stops one by one.
LEMMA SettleStep ==
  ASSUME LifecycleInv, NEW t \in Tasks, SettleInterrupted(t)
  PROVE  LifecycleInv'
PROOF
  <1>1. row' \in [Tasks -> Statuses]
    BY DEF SettleInterrupted, SetRow, SettleStop, LifecycleInv, TypeOK, Statuses, Stops, PendingStops
  <1>2. TypeOK'
    BY <1>1 DEF SettleInterrupted, LifecycleInv, TypeOK, process, run
  <1>3. /\ row' = [row EXCEPT ![t] = row'[t]] /\ row[t] \in PendingStops
        /\ row'[t] \in {"paused", "cancelled"} /\ row \in [Tasks -> Statuses]
    BY DEF SettleInterrupted, SetRow, SettleStop, PendingStops, LifecycleInv, TypeOK
  <1> QED
    BY <1>2, <1>3, TaskTypes
       DEF SettleInterrupted, LifecycleInv, WorkerConsistent, StartUpCovers, OnlySubmitted, RunHasRow,
           ChaptersOfRun, NoLostTask, InFlightHasRun, NoResurrection, Running, process, run, PendingStops

\* Then the pending rows come back to the queue.
LEMMA StartUpStep ==
  ASSUME LifecycleInv, ListPending \/ RequeuePending \/ StartWorker
  PROVE  LifecycleInv'
PROOF
  <1>1. CASE ListPending
    <2>1. TypeOK'
      BY <1>1, TaskAssumption DEF ListPending, LifecycleInv, TypeOK, run, db, Phases
    <2> QED
      BY <1>1, <2>1, TaskTypes
         DEF ListPending, LifecycleInv, WorkerConsistent, StartUpCovers, OnlySubmitted, RunHasRow,
             ChaptersOfRun, NoLostTask, InFlightHasRun, NoResurrection, run, db
  <1>2. CASE RequeuePending
    <2>1. /\ cursor \in Tasks /\ phase = "requeueing" /\ worker = "none" /\ current = NoTask
          /\ row \in [Tasks -> Statuses] /\ cursor' = cursor + 1 /\ cursor' \in 1..(N + 1)
      BY <1>2, TaskAssumption DEF RequeuePending, LifecycleInv, TypeOK, WorkerConsistent, Tasks
    <2>2. \A u \in Tasks : u < cursor + 1 => u < cursor \/ u = cursor
      BY <2>1, TaskTypes
    <2>3. CASE row[cursor] \in {"queued", "running"}
      <3>1. row' = [row EXCEPT ![cursor] = "queued"] /\ queue' = Put(queue, OwnerOf[cursor], cursor)
        BY <1>2, <2>3 DEF RequeuePending, SetRow, SaveTask
      <3>2. /\ queue' \in Queues(Tasks) /\ Coherent(queue')
            /\ \A y : Queued(queue', y) <=> y = cursor \/ Queued(queue, y)
        BY <2>1, <3>1, TaskPut
      <3>3. TypeOK'
        BY <1>2, <2>1, <3>1, <3>2 DEF RequeuePending, LifecycleInv, TypeOK, run, Statuses
      <3>4. StartUpCovers'
        BY <1>2, <2>1, <2>2, <3>1, <3>2 DEF RequeuePending, LifecycleInv, StartUpCovers, PendingStops
      <3>5. OnlySubmitted' /\ NoResurrection'
        BY <1>2, <2>1, <2>3, <3>1, <3>2, TaskTypes
           DEF RequeuePending, LifecycleInv, OnlySubmitted, NoResurrection, run
      <3> QED
        BY <1>2, <2>1, <3>2, <3>3, <3>4, <3>5
           DEF RequeuePending, LifecycleInv, WorkerConsistent, RunHasRow,
               ChaptersOfRun, NoLostTask, InFlightHasRun, Running, run
    <2>4. CASE row[cursor] \notin {"queued", "running"}
      <3>1. UNCHANGED <<row, queue>>
        BY <1>2, <2>4 DEF RequeuePending
      <3>2. TypeOK'
        BY <1>2, <2>1, <3>1 DEF RequeuePending, LifecycleInv, TypeOK, run
      <3>3. StartUpCovers'
        BY <1>2, <2>1, <2>2, <2>4, <3>1 DEF RequeuePending, LifecycleInv, StartUpCovers
      <3> QED
        BY <1>2, <2>1, <3>1, <3>2, <3>3
           DEF RequeuePending, LifecycleInv, WorkerConsistent, OnlySubmitted, RunHasRow,
               ChaptersOfRun, NoLostTask, InFlightHasRun, NoResurrection, run
    <2> QED
      BY <2>3, <2>4
  <1>3. CASE StartWorker
    <2>1. TypeOK'
      BY <1>3 DEF StartWorker, LifecycleInv, TypeOK, db, Phases, WorkerStates
    <2>2. \A u \in Tasks : u < cursor
      BY <1>3, TaskAssumption DEF StartWorker, LifecycleInv, TypeOK, Tasks
    <2>3. NoLostTask' /\ InFlightHasRun'
      BY <1>3, <2>2 DEF StartWorker, LifecycleInv, StartUpCovers, NoLostTask, InFlightHasRun, db
    <2> QED
      BY <1>3, <2>1, <2>3, TaskTypes
         DEF StartWorker, LifecycleInv, WorkerConsistent, StartUpCovers, OnlySubmitted, RunHasRow,
             ChaptersOfRun, NoResurrection, Running, db
  <1> QED
    BY <1>1, <1>2, <1>3

-----------------------------------------------------------------------------
\* A row that becomes queued together with an entry of its task in the queue.
LEMMA QueueingStep ==
  ASSUME LifecycleInv, NEW t \in Tasks, Serving,
         row[t] \in {"absent", "paused", "failed"}, BookOf[t] \in books,
         SetRow(t, "queued"), Enqueue(t), UNCHANGED <<books, ledger>>
  PROVE  LifecycleInv'
PROOF
  <1>1. /\ queue' \in Queues(Tasks) /\ Coherent(queue')
        /\ \A y : Queued(queue', y) <=> y = t \/ Queued(queue, y)
    BY TaskPut DEF Enqueue
  <1>2. /\ row' = [row EXCEPT ![t] = "queued"] /\ row \in [Tasks -> Statuses]
        /\ UNCHANGED <<process, run, service, gate, closings>> /\ phase = "up"
    BY DEF LifecycleInv, TypeOK, SetRow, Enqueue, Serving
  <1>3. TypeOK'
    BY <1>1, <1>2 DEF LifecycleInv, TypeOK, process, run, Statuses
  <1>4. OnlySubmitted'
    BY <1>1, <1>2 DEF LifecycleInv, OnlySubmitted, run
  <1>5. RunHasRow'
    BY <1>2 DEF LifecycleInv, OnlySubmitted, RunHasRow, PendingStops, run
  <1>6. ChaptersOfRun'
    BY <1>2 DEF LifecycleInv, ChaptersOfRun, run
  <1> QED
    BY <1>1, <1>2, <1>3, <1>4, <1>5, <1>6
       DEF LifecycleInv, WorkerConsistent, StartUpCovers, NoLostTask, InFlightHasRun,
           NoResurrection, PendingStops, process, run

LEMMA EnqueueStep ==
  ASSUME LifecycleInv, NEW t \in Tasks, EnqueueTask(t) \/ RetryTask(t)
  PROVE  LifecycleInv'
PROOF
  BY QueueingStep DEF EnqueueTask, RetryTask, SaveTask

\* Pause, resume and cancel; only a resume touches the queue.
LEMMA ChangeStep ==
  ASSUME LifecycleInv, NEW t \in Tasks, NEW action, ChangeTask(t, action)
  PROVE  LifecycleInv'
PROOF
  <1>1. PICK to \in Statuses :
          /\ <<action, row[t], to>> \in Transitions
          /\ SetRow(t, to)
          /\ IF to = "queued" THEN Enqueue(t) ELSE Unqueued
    BY DEF ChangeTask
  <1>2. Serving /\ UNCHANGED <<books, ledger>>
    BY DEF ChangeTask
  <1>3. row[t] # "absent"
    BY <1>1 DEF Transitions
  <1>4. BookOf[t] \in books
    BY <1>3 DEF LifecycleInv, NoResurrection
  <1>5. CASE to = "queued"
    <2>1. row[t] = "paused"
      BY <1>1, <1>5 DEF Transitions
    <2> QED
      BY <1>1, <1>2, <1>4, <1>5, <2>1, QueueingStep
  <1>6. CASE to # "queued"
    <2>1. /\ row' = [row EXCEPT ![t] = to] /\ row \in [Tasks -> Statuses]
          /\ UNCHANGED <<queue, process, run, service, gate, closings>>
      BY <1>1, <1>6 DEF LifecycleInv, TypeOK, SetRow, Unqueued
    <2>2. \/ row[t] = "running" /\ to \in PendingStops
          \/ row[t] \in PendingStops /\ to \in PendingStops
          \/ row[t] \in {"queued", "paused", "failed"} /\ to \in {"paused", "cancelled"}
      BY <1>1, <1>6 DEF Transitions, PendingStops
    <2>3. TypeOK'
      BY <1>2, <2>1 DEF LifecycleInv, TypeOK, process, run
    <2>4. RunHasRow' /\ ChaptersOfRun' /\ OnlySubmitted'
      BY <1>2, <1>3, <2>1, <2>2
         DEF LifecycleInv, RunHasRow, ChaptersOfRun, OnlySubmitted, PendingStops, run
    <2> QED
      BY <1>2, <1>4, <2>1, <2>2, <2>3, <2>4
         DEF LifecycleInv, WorkerConsistent, StartUpCovers, NoLostTask, InFlightHasRun,
             NoResurrection, PendingStops, process, run, Serving
  <1> QED
    BY <1>5, <1>6

\* A deletion takes the rows and checkpoints of the book with it.
LEMMA DeleteStep ==
  ASSUME LifecycleInv, NEW b \in Books, DeleteBook(b)
  PROVE  LifecycleInv'
PROOF
  <1>1. /\ books' = books \ {b} /\ phase = "up"
        /\ row' = [t \in Tasks |-> IF BookOf[t] = b THEN "absent" ELSE row[t]]
        /\ ledger' = [t \in Tasks |-> IF BookOf[t] = b THEN {} ELSE ledger[t]]
        /\ UNCHANGED <<queue, process, run, service, gate, closings>>
    BY DEF DeleteBook, Unqueued, Serving
  <1>2. TypeOK'
    BY <1>1 DEF LifecycleInv, TypeOK, process, run, Statuses
  <1>3. RunHasRow' /\ ChaptersOfRun'
    BY <1>1, TaskTypes DEF LifecycleInv, TypeOK, RunHasRow, ChaptersOfRun, WorkerConsistent, run, Running
  <1>4. OnlySubmitted' /\ NoResurrection'
    BY <1>1, TaskTypes DEF LifecycleInv, TypeOK, OnlySubmitted, NoResurrection, run
  <1> QED
    BY <1>1, <1>2, <1>3, <1>4
       DEF LifecycleInv, WorkerConsistent, StartUpCovers, NoLostTask, InFlightHasRun,
           PendingStops, process, run

-----------------------------------------------------------------------------
\* The worker has task t in hand: out of the queue just now, or earlier.
InHand(t) ==
  /\ t \in Tasks /\ phase = "up" /\ current \in {NoTask, t}
  /\ Queued(queue, t) \/ current = t
  /\ queue' \in Queues(Tasks) /\ Coherent(queue')
  /\ \A y : Queued(queue', y) => Queued(queue, y)
  /\ \A y : Queued(queue, y) => y = t \/ Queued(queue', y)
  /\ UNCHANGED <<books, process, service, gate, closings>>

\* The rows of all other tasks and their books are out of a run's reach.
LEMMA OtherRows ==
  ASSUME LifecycleInv, NEW t, InHand(t)
  PROVE  /\ row \in [Tasks -> Statuses] /\ ledger \in [Tasks -> SUBSET Chapters]
         /\ \A u \in Tasks \ {t} :
              /\ row[u] \notin PendingStops \cup {"running"}
              /\ row[u] = "queued" => Queued(queue', u)
         /\ row[t] # "absent" <=> BookOf[t] \in books
PROOF
  <1>1. phase = "up" /\ current \in {NoTask, t} /\ t \in Tasks /\ NoTask \notin Tasks
    BY TaskTypes DEF InHand
  <1>2. ASSUME NEW u \in Tasks \ {t} PROVE current # u
    BY <1>1
  <1> QED
    BY <1>1, <1>2
       DEF InHand, LifecycleInv, TypeOK, InFlightHasRun, NoLostTask, NoResurrection, OnlySubmitted

\* A run is over: its row tells how it ended, and holds no stop that waits.
LEMMA RunEnds ==
  ASSUME LifecycleInv, NEW t, InHand(t), RunOver,
         row' = [row EXCEPT ![t] = row'[t]],
         row'[t] \in {"paused", "cancelled", "completed", "failed", "absent"},
         row'[t] = "absent" <=> row[t] = "absent",
         ledger' \in [Tasks -> SUBSET Chapters],
         \A u \in Tasks : BookOf[u] \in books \/ ledger'[u] = ledger[u]
  PROVE  LifecycleInv'
PROOF
  <1>1. /\ t \in Tasks /\ NoTask \notin Tasks /\ phase = "up" /\ UNCHANGED <<books, process, service, gate, closings>>
        /\ worker' = "idle" /\ current' = NoTask /\ todo' = {} /\ active' = {}
        /\ queue' \in Queues(Tasks) /\ Coherent(queue') /\ \A y : Queued(queue', y) => Queued(queue, y)
    BY TaskTypes DEF InHand, RunOver
  <1>2. /\ row \in [Tasks -> Statuses] /\ row' \in [Tasks -> Statuses]
        /\ \A u \in Tasks \ {t} :
              /\ row[u] \notin PendingStops \cup {"running"}
              /\ row[u] = "queued" => Queued(queue', u)
              /\ row'[u] = row[u]
    <2>1. /\ row \in [Tasks -> Statuses]
          /\ \A u \in Tasks \ {t} :
              /\ row[u] \notin PendingStops \cup {"running"}
              /\ row[u] = "queued" => Queued(queue', u)
      BY OtherRows
    <2>2. row'[t] \in Statuses
      BY DEF Statuses, Stops
    <2> QED
      BY <1>1, <2>1, <2>2
  <1>3. TypeOK'
    BY <1>1, <1>2 DEF LifecycleInv, TypeOK, WorkerStates, process
  <1>4. NoLostTask'
    BY <1>1, <1>2 DEF NoLostTask
  <1>5. InFlightHasRun'
    BY <1>1, <1>2 DEF InFlightHasRun, PendingStops
  <1>6. OnlySubmitted' /\ NoResurrection'
    BY <1>1, <1>2 DEF LifecycleInv, OnlySubmitted, NoResurrection
  <1> QED
    BY <1>1, <1>3, <1>4, <1>5, <1>6
       DEF LifecycleInv, WorkerConsistent, StartUpCovers, RunHasRow, ChaptersOfRun, Running, process

\* A run begins or goes on: its row says so, and its chapters are accounted for.
LEMMA RunGoesOn ==
  ASSUME LifecycleInv, NEW t, InHand(t),
         current' = t, worker' \in Running,
         worker' # "run" => todo' = {} /\ active' = {},
         row' = [row EXCEPT ![t] = row'[t]],
         row'[t] \in PendingStops \cup {"running", "absent"},
         row'[t] = "absent" <=> row[t] = "absent",
         ledger' \in [Tasks -> SUBSET Chapters],
         \A u \in Tasks : BookOf[u] \in books \/ ledger'[u] = ledger[u],
         todo' \subseteq Chapters, active' \subseteq Chapters,
         ChaptersOfRun'
  PROVE  LifecycleInv'
PROOF
  <1>1. /\ t \in Tasks /\ NoTask \notin Tasks /\ phase = "up" /\ UNCHANGED <<books, process, service, gate, closings>>
        /\ queue' \in Queues(Tasks) /\ Coherent(queue') /\ \A y : Queued(queue', y) => Queued(queue, y)
        /\ Queued(queue, t) \/ current = t
    BY TaskTypes DEF InHand
  <1>2. /\ row \in [Tasks -> Statuses] /\ row' \in [Tasks -> Statuses]
        /\ \A u \in Tasks \ {t} :
              /\ row[u] \notin PendingStops \cup {"running"}
              /\ row[u] = "queued" => Queued(queue', u)
              /\ row'[u] = row[u]
    <2>1. /\ row \in [Tasks -> Statuses]
          /\ \A u \in Tasks \ {t} :
              /\ row[u] \notin PendingStops \cup {"running"}
              /\ row[u] = "queued" => Queued(queue', u)
      BY OtherRows
    <2>2. row'[t] \in Statuses
      BY DEF Statuses, Stops
    <2> QED
      BY <1>1, <2>1, <2>2
  <1>3. TypeOK'
    BY <1>1, <1>2 DEF LifecycleInv, TypeOK, WorkerStates, Running, process
  <1>4. NoLostTask'
    BY <1>1, <1>2 DEF NoLostTask, PendingStops
  <1>5. InFlightHasRun'
    BY <1>1, <1>2 DEF InFlightHasRun, PendingStops
  <1>6. OnlySubmitted' /\ NoResurrection'
    BY <1>1, <1>2 DEF LifecycleInv, OnlySubmitted, NoResurrection
  <1> QED
    BY <1>1, <1>3, <1>4, <1>5, <1>6
       DEF LifecycleInv, WorkerConsistent, StartUpCovers, RunHasRow, Running, process

\* A task that waits in the worker's hands for the service or the gate.
LEMMA TaskHeld ==
  ASSUME LifecycleInv, NEW t, InHand(t),
         worker \in {"idle", "woken"}, worker' \in {"service", "gate"}, current' = t,
         UNCHANGED <<row, ledger, todo, active>>
  PROVE  LifecycleInv'
PROOF
  <1>1. /\ t \in Tasks /\ NoTask \notin Tasks /\ phase = "up" /\ UNCHANGED <<books, process, service, gate, closings>>
        /\ queue' \in Queues(Tasks) /\ Coherent(queue') /\ \A y : Queued(queue', y) => Queued(queue, y)
        /\ Queued(queue, t) \/ current = t
        /\ todo = {} /\ active = {}
    BY TaskTypes DEF InHand, LifecycleInv, WorkerConsistent
  <1>2. \A u \in Tasks \ {t} : row[u] = "queued" => Queued(queue', u)
    BY OtherRows
  <1>3. \A u \in Tasks : row[u] \notin PendingStops \cup {"running"}
    BY <1>1 DEF LifecycleInv, InFlightHasRun, Running
  <1>4. TypeOK'
    BY <1>1 DEF LifecycleInv, TypeOK, WorkerStates, process
  <1>5. NoLostTask' /\ InFlightHasRun'
    BY <1>1, <1>2, <1>3 DEF NoLostTask, InFlightHasRun
  <1>6. OnlySubmitted' /\ NoResurrection'
    BY <1>1 DEF LifecycleInv, OnlySubmitted, NoResurrection
  <1> QED
    BY <1>1, <1>4, <1>5, <1>6
       DEF LifecycleInv, WorkerConsistent, StartUpCovers, RunHasRow, ChaptersOfRun, Running, process

\* FinishRun on a task whose row is there and not stopped.
LEMMA FinishEnds ==
  ASSUME LifecycleInv, NEW t, InHand(t), row[t] \in {"queued", "running"}, FinishRun(t),
         ledger' \in [Tasks -> SUBSET Chapters],
         \A u \in Tasks : BookOf[u] \in books \/ ledger'[u] = ledger[u]
  PROVE  /\ LifecycleInv'
         /\ row' = [row EXCEPT ![t] = "completed"] \/ row' = [row EXCEPT ![t] = "failed"]
PROOF
  <1>1. t \in Tasks /\ row \in [Tasks -> Statuses]
    BY DEF InHand, LifecycleInv, TypeOK
  <1>2. ~Deleted(t)
    BY <1>1, OtherRows DEF Deleted
  <1>3. \A s : SaveTask(t, s) = s
    BY DEF SaveTask, Stops, PendingStops
  <1>4. RunOver /\ (row' = [row EXCEPT ![t] = "completed"] \/ row' = [row EXCEPT ![t] = "failed"])
    BY <1>2, <1>3 DEF FinishRun, SetRow
  <1>5. /\ row' = [row EXCEPT ![t] = row'[t]] /\ row'[t] \in {"completed", "failed"}
    BY <1>1, <1>4
  <1> QED
    BY <1>4, <1>5, RunEnds

\* Begin ends a run at once, or starts one on what the checkpoints leave.
LEMMA BeginStep ==
  ASSUME LifecycleInv, NEW t, InHand(t), worker \notin Running, UNCHANGED ledger, Begin(t)
  PROVE  LifecycleInv'
PROOF
  <1>1. /\ t \in Tasks /\ row \in [Tasks -> Statuses] /\ ledger \in [Tasks -> SUBSET Chapters]
        /\ (row[t] # "absent" <=> BookOf[t] \in books)
        /\ row[t] \notin PendingStops
    BY OtherRows DEF InHand, LifecycleInv, InFlightHasRun
  <1>2. CASE (row[t] \notin {"queued", "running"} \/ BookOf[t] \notin books) /\ RunOver /\ UNCHANGED row
    <2>1. row' = [row EXCEPT ![t] = row'[t]]
      BY <1>1, <1>2
    <2>2. row'[t] \in {"paused", "cancelled", "completed", "failed", "absent"}
      BY <1>1, <1>2 DEF Statuses, Stops, PendingStops
    <2> QED
      BY <1>1, <1>2, <2>1, <2>2, RunEnds
  <1>3. CASE /\ row[t] \in {"queued", "running"} /\ BookOf[t] \in books
             /\ Remaining(t) # {}
             /\ SetRow(t, "running") /\ worker' = "run" /\ current' = t
             /\ IF Kind[t] = "download"
                THEN todo' = Remaining(t) /\ active' = {}
                ELSE LET first == Least(Remaining(t))
                     IN  todo' = Remaining(t) \ {first} /\ active' = {first}
    <2> DEFINE left == Remaining(t)
    <2>1. /\ left \in SUBSET Chapters /\ left \cap ledger[t] = {}
          /\ Work[t] \subseteq ledger[t] \cup left
      BY <1>1, TaskTypes DEF Remaining, Work
    <2>2. Least(left) \in left
      BY <1>3, <2>1, LeastMember
    <2> HIDE DEF left
    <2>3. /\ todo' \subseteq Chapters /\ active' \subseteq Chapters
          /\ todo' \cap active' = {} /\ todo' \cup active' = left
          /\ \A c, d \in active' : c = d
      BY <1>3, <2>1, <2>2 DEF left
    <2>4. row' = [row EXCEPT ![t] = "running"] /\ row'[t] = "running"
      BY <1>1, <1>3 DEF SetRow
    <2>5. ChaptersOfRun'
      BY <1>1, <1>3, <2>1, <2>3, <2>4 DEF ChaptersOfRun
    <2> QED
      BY <1>1, <1>3, <2>3, <2>4, <2>5, RunGoesOn DEF Running, PendingStops
  <1>4. CASE row[t] \in {"queued", "running"} /\ FinishRun(t)
    BY <1>1, <1>4, FinishEnds
  <1>5. CASE row[t] \in {"queued", "running"} /\ RunOver /\ SetRow(t, "failed")
    <2>1. row' = [row EXCEPT ![t] = row'[t]] /\ row'[t] = "failed"
      BY <1>1, <1>5 DEF SetRow
    <2> QED
      BY <1>1, <1>5, <2>1, RunEnds
  <1> QED
    BY <1>2, <1>3, <1>4, <1>5 DEF Begin

LEMMA EnterStep ==
  ASSUME LifecycleInv, NEW t, InHand(t), worker \in {"idle", "woken"}, UNCHANGED ledger, Enter(t)
  PROVE  LifecycleInv'
PROOF
  <1>1. CASE gate = "open"
    BY <1>1, BeginStep DEF Enter, Running
  <1>2. CASE gate # "open"
    BY <1>2, TaskHeld DEF Enter
  <1> QED
    BY <1>1, <1>2

\* The task that get returns is in the worker's hands.
LEMMA GetInHand ==
  ASSUME LifecycleInv, GetTask
  PROVE  InHand(NextItem(queue))
PROOF
  <1> DEFINE t == NextItem(queue)
  <1>1. /\ queue \in Queues(Tasks) /\ Coherent(queue) /\ ~IsEmpty(queue) /\ queue' = Get(queue)
        /\ worker = "idle" /\ phase = "up" /\ current = NoTask
        /\ UNCHANGED <<books, ledger, process, service, gate, closings>>
    BY DEF GetTask, LifecycleInv, TypeOK, WorkerConsistent
  <1>2. /\ Get(queue) \in Queues(Tasks) /\ Coherent(Get(queue)) /\ t \in Tasks /\ Queued(queue, t)
        /\ \A y : Queued(Get(queue), y) => Queued(queue, y)
        /\ \A y : Queued(queue, y) => y = t \/ Queued(Get(queue), y)
    BY <1>1, GetCoherent, Zenon
  <1> QED
    BY <1>1, <1>2 DEF InHand

\* The worker takes a task from the queue, or goes on after a wait.
LEMMA TakeStep ==
  ASSUME LifecycleInv, GetTask \/ ServiceWake \/ GateWake
  PROVE  LifecycleInv'
PROOF
  <1>1. CASE GetTask
    <2> DEFINE t == NextItem(queue)
    <2>1. worker = "idle" /\ UNCHANGED <<books, ledger, process, service, gate, closings>>
      BY <1>1 DEF GetTask
    <2>2. InHand(t)
      BY <1>1, GetInHand
    <2>3. CASE service = "running"
      BY <1>1, <2>1, <2>2, <2>3, EnterStep DEF GetTask
    <2>4. CASE service # "running"
      BY <1>1, <2>1, <2>2, <2>4, TaskHeld DEF GetTask
    <2> QED
      BY <2>3, <2>4
  <1>2. CASE ServiceWake \/ GateWake
    <2>1. /\ UNCHANGED <<books, ledger, queue, process, service, gate, closings>>
          /\ worker \in {"woken", "gate"}
      BY <1>2 DEF ServiceWake, GateWake
    <2>2. InHand(current)
      BY <2>1, TaskTypes DEF LifecycleInv, TypeOK, WorkerConsistent, InHand
    <2>3. CASE ServiceWake
      BY <2>1, <2>2, <2>3, EnterStep DEF ServiceWake
    <2>4. CASE GateWake
      BY <2>1, <2>2, <2>4, BeginStep DEF GateWake, Running
    <2> QED
      BY <1>2, <2>3, <2>4
  <1> QED
    BY <1>1, <1>2

-----------------------------------------------------------------------------
\* What holds inside a run.
LEMMA InsideRun ==
  ASSUME LifecycleInv, worker \in Running, InRun
  PROVE  /\ InHand(current) /\ current \in Tasks
         /\ row \in [Tasks -> Statuses] /\ ledger \in [Tasks -> SUBSET Chapters]
         /\ todo \subseteq Chapters /\ active \subseteq Chapters
         /\ row[current] \in PendingStops \cup {"running", "absent"}
         /\ Deleted(current) <=> row[current] = "absent"
         /\ StopRequested(current) <=> row[current] # "running"
         /\ UNCHANGED <<books, queue>>
PROOF
  <1>1. /\ UNCHANGED <<books, queue, process, service, gate, closings>> /\ phase = "up"
        /\ current \in Tasks /\ current # NoTask
    BY TaskTypes DEF InRun, LifecycleInv, TypeOK, WorkerConsistent, Running
  <1>2. InHand(current)
    BY <1>1 DEF LifecycleInv, TypeOK, InHand
  <1>3. row[current] \in PendingStops \cup {"running", "absent"}
    BY DEF LifecycleInv, RunHasRow
  <1>4. row[current] # "absent" <=> BookOf[current] \in books
    BY <1>2, OtherRows
  <1> QED
    BY <1>1, <1>2, <1>3, <1>4 DEF LifecycleInv, TypeOK, Deleted, StopRequested, Stops, PendingStops

\* A checkpoint is written for a task of a book that is there.
LEMMA Kept ==
  ASSUME LifecycleInv, worker \in Running, InRun, NEW c \in Chapters,
         ~Deleted(current), KeepChapter(current, c)
  PROVE  /\ ledger' \in [Tasks -> SUBSET Chapters]
         /\ \A u \in Tasks : BookOf[u] \in books \/ ledger'[u] = ledger[u]
         /\ ledger'[current] = ledger[current] \cup {c}
PROOF
  BY InsideRun DEF KeepChapter, Deleted

\* Three ways out of a run.
LEMMA InterruptEnds ==
  ASSUME LifecycleInv, worker \in Running, InRun, StopRequested(current), InterruptRun(current),
         ledger' \in [Tasks -> SUBSET Chapters],
         \A u \in Tasks : BookOf[u] \in books \/ ledger'[u] = ledger[u]
  PROVE  LifecycleInv'
PROOF
  <1> DEFINE t == current
  <1>1. InHand(t) /\ t \in Tasks /\ row \in [Tasks -> Statuses] /\ row[t] \in PendingStops \cup {"absent"}
    BY InsideRun
  <1>2. RunOver /\ row' = [row EXCEPT ![t] = SettleStop(t)]
    BY DEF InterruptRun, SetRow
  <1>3. /\ row' = [row EXCEPT ![t] = row'[t]]
        /\ row'[t] \in {"paused", "cancelled", "absent"} /\ (row'[t] = "absent" <=> row[t] = "absent")
    BY <1>1, <1>2 DEF SettleStop, PendingStops
  <1> HIDE DEF t
  <1> QED
    BY <1>1, <1>2, <1>3, RunEnds

LEMMA FailEnds ==
  ASSUME LifecycleInv, worker \in Running, InRun, FailRun(current), UNCHANGED ledger
  PROVE  LifecycleInv'
PROOF
  <1> DEFINE t == current
  <1>1. /\ InHand(t) /\ t \in Tasks /\ row \in [Tasks -> Statuses] /\ ledger \in [Tasks -> SUBSET Chapters]
        /\ row[t] \in PendingStops \cup {"running", "absent"}
        /\ (Deleted(t) <=> row[t] = "absent") /\ (StopRequested(t) <=> row[t] # "running")
    BY InsideRun
  <1>2. RunOver
    BY DEF FailRun
  <1>3. /\ row' = [row EXCEPT ![t] = row'[t]]
        /\ row'[t] \in {"paused", "cancelled", "failed", "absent"} /\ (row'[t] = "absent" <=> row[t] = "absent")
    <2>1. CASE row[t] = "absent"
      <3>1. UNCHANGED row
        BY <1>1, <2>1 DEF FailRun
      <3> QED
        BY <1>1, <2>1, <3>1
    <2>2. CASE row[t] \in PendingStops
      <3>1. row' = [row EXCEPT ![t] = SettleStop(t)]
        BY <1>1, <2>2 DEF FailRun, SetRow, PendingStops
      <3> QED
        BY <1>1, <2>2, <3>1 DEF SettleStop, PendingStops
    <2>3. CASE row[t] = "running"
      <3>1. row' = [row EXCEPT ![t] = "failed"]
        BY <1>1, <2>3 DEF FailRun, SetRow, SaveTask, Stops, PendingStops
      <3> QED
        BY <1>1, <2>3, <3>1
    <2> QED
      BY <1>1, <2>1, <2>2, <2>3
  <1> HIDE DEF t
  <1> QED
    BY <1>1, <1>2, <1>3, RunEnds DEF t

\* A run that leaves its row as it is.
LEMMA StaysInRun ==
  ASSUME LifecycleInv, worker \in Running, InRun, UNCHANGED <<current, row>>,
         worker' \in Running, worker' # "run" => todo' = {} /\ active' = {},
         ledger' \in [Tasks -> SUBSET Chapters],
         \A u \in Tasks : BookOf[u] \in books \/ ledger'[u] = ledger[u],
         todo' \subseteq Chapters, active' \subseteq Chapters,
         ChaptersOfRun'
  PROVE  LifecycleInv'
PROOF
  <1> DEFINE t == current
  <1>1. /\ InHand(t) /\ t \in Tasks /\ row \in [Tasks -> Statuses]
        /\ row[t] \in PendingStops \cup {"running", "absent"}
    BY InsideRun
  <1>2. row' = [row EXCEPT ![t] = row'[t]] /\ row'[t] = row[t] /\ current' = t
    BY <1>1
  <1> HIDE DEF t
  <1> QED
    BY <1>1, <1>2, RunGoesOn

\* Progress saved inside a run changes nothing a client sees.
LEMMA ProgressSaved ==
  ASSUME LifecycleInv, worker \in Running, InRun, ~Deleted(current),
         SetRow(current, SaveTask(current, "running"))
  PROVE  row' = row
PROOF
  BY InsideRun DEF SetRow, SaveTask, Stops, PendingStops

LEMMA DrainStep ==
  ASSUME LifecycleInv, worker \in Running, InRun, Drain, UNCHANGED <<row, ledger>>
  PROVE  LifecycleInv'
PROOF
  <1>1. ChaptersOfRun'
    BY InsideRun DEF Drain, ChaptersOfRun
  <1> QED
    BY <1>1, InsideRun, StaysInRun DEF Drain, Running

-----------------------------------------------------------------------------
LEMMA StartChapterStep ==
  ASSUME LifecycleInv, StartChapter
  PROVE  LifecycleInv'
PROOF
  <1> DEFINE c == Least(todo)
  <1>1. /\ worker = "run" /\ Kind[current] = "download" /\ todo # {} /\ InRun
        /\ todo' = todo \ {c} /\ UNCHANGED <<current, ledger>>
        /\ active' = IF StopRequested(current) THEN active ELSE active \cup {c}
        /\ IF StopRequested(current) THEN UNCHANGED row ELSE SetRow(current, SaveTask(current, "running"))
        /\ worker' = IF todo' \cup active' = {} THEN "closing" ELSE "run"
    BY DEF StartChapter
  <1>2. worker \in Running
    BY <1>1 DEF Running
  <1>3. c \in todo
    BY <1>1, <1>2, InsideRun, LeastMember
  <1> HIDE DEF c
  <1>4. row' = row
    <2>1. CASE StopRequested(current)
      BY <1>1, <2>1
    <2>2. CASE ~StopRequested(current)
      <3>1. ~Deleted(current)
        BY <1>1, <1>2, <2>2, InsideRun
      <3> QED
        BY <1>1, <1>2, <2>2, <3>1, ProgressSaved
    <2> QED
      BY <2>1, <2>2
  <1>5. worker' \in Running /\ (worker' # "run" => todo' = {} /\ active' = {})
    BY <1>1 DEF Running
  <1>6. todo' \subseteq Chapters /\ active' \subseteq Chapters
    BY <1>1, <1>2, <1>3, InsideRun
  <1>7. ChaptersOfRun'
    <2>1. StopRequested(current) <=> row[current] # "running"
      BY <1>1, <1>2, InsideRun
    <2> QED
      BY <1>1, <1>3, <1>4, <2>1 DEF LifecycleInv, ChaptersOfRun
  <1> QED
    BY <1>1, <1>2, <1>4, <1>5, <1>6, <1>7, InsideRun, StaysInRun

LEMMA DownloadedStep ==
  ASSUME LifecycleInv, NEW c \in Chapters, ChapterDownloaded(c)
  PROVE  LifecycleInv'
PROOF
  <1>1. worker = "run" /\ worker \in Running /\ Kind[current] = "download" /\ c \in active /\ InRun
    BY DEF ChapterDownloaded, Running
  <1>2. CASE Deleted(current)
    BY <1>1, <1>2, DrainStep DEF ChapterDownloaded
  <1>3. CASE ~Deleted(current)
    <2>1. /\ KeepChapter(current, c) /\ SetRow(current, SaveTask(current, "running"))
          /\ active' = active \ {c}
          /\ worker' = IF todo \cup active' = {} THEN "closing" ELSE "run"
          /\ UNCHANGED <<todo, current>>
      BY <1>3 DEF ChapterDownloaded
    <2>2. row' = row
      BY <1>1, <1>3, <2>1, ProgressSaved
    <2>3. /\ ledger' \in [Tasks -> SUBSET Chapters]
          /\ \A u \in Tasks : BookOf[u] \in books \/ ledger'[u] = ledger[u]
          /\ ledger'[current] = ledger[current] \cup {c}
      BY <1>1, <1>3, <2>1, Kept
    <2>4. worker' \in Running /\ (worker' # "run" => todo' = {} /\ active' = {})
      BY <2>1 DEF Running
    <2>5. todo' \subseteq Chapters /\ active' \subseteq Chapters
      BY <1>1, <2>1, InsideRun
    <2>6. ChaptersOfRun'
      BY <1>1, <2>1, <2>2, <2>3 DEF LifecycleInv, ChaptersOfRun
    <2> QED
      BY <1>1, <2>1, <2>2, <2>3, <2>4, <2>5, <2>6, StaysInRun
  <1> QED
    BY <1>2, <1>3

LEMMA TranslatedStep ==
  ASSUME LifecycleInv, NEW c \in Chapters, ChapterTranslated(c)
  PROVE  LifecycleInv'
PROOF
  <1>1. worker = "run" /\ worker \in Running /\ Kind[current] = "translate" /\ c \in active /\ InRun
    BY DEF ChapterTranslated, Running
  <1>2. /\ InHand(current) /\ current \in Tasks /\ row \in [Tasks -> Statuses]
        /\ row[current] \in PendingStops \cup {"running", "absent"}
        /\ (Deleted(current) <=> row[current] = "absent")
        /\ (StopRequested(current) <=> row[current] # "running")
        /\ todo \subseteq Chapters
    BY <1>1, InsideRun
  <1>3. CASE Deleted(current)
    <2>1. RunOver /\ UNCHANGED <<row, ledger>>
      BY <1>3 DEF ChapterTranslated
    <2>2. row' = [row EXCEPT ![current] = row'[current]] /\ row'[current] = "absent"
      BY <1>2, <1>3, <2>1
    <2> QED
      BY <1>1, <1>2, <1>3, <2>1, <2>2, InsideRun, RunEnds
  <1>4. CASE ~Deleted(current)
    <2>1. KeepChapter(current, c)
      BY <1>4 DEF ChapterTranslated
    <2>2. /\ ledger' \in [Tasks -> SUBSET Chapters]
          /\ \A u \in Tasks : BookOf[u] \in books \/ ledger'[u] = ledger[u]
          /\ ledger'[current] = ledger[current] \cup {c}
      BY <1>1, <1>4, <2>1, Kept
    <2>3. CASE StopRequested(current)
      <3>1. InterruptRun(current)
        BY <1>4, <2>3 DEF ChapterTranslated
      <3> QED
        BY <1>1, <2>2, <2>3, <3>1, InterruptEnds
    <2>4. CASE ~StopRequested(current) /\ todo = {}
      <3>1. FinishRun(current) /\ row[current] = "running"
        BY <1>2, <1>4, <2>4 DEF ChapterTranslated
      <3> QED
        BY <1>2, <2>2, <3>1, FinishEnds
    <2>5. CASE ~StopRequested(current) /\ todo # {}
      <3> DEFINE next == Least(todo)
      <3>1. /\ todo' = todo \ {next} /\ active' = {next}
            /\ SetRow(current, SaveTask(current, "running")) /\ UNCHANGED <<worker, current>>
        BY <1>4, <2>5 DEF ChapterTranslated
      <3>2. next \in todo
        BY <1>2, <2>5, LeastMember
      <3> HIDE DEF next
      <3>3. row' = row
        BY <1>1, <1>4, <3>1, ProgressSaved
      <3>4. ChaptersOfRun'
        BY <1>1, <2>2, <3>1, <3>2, <3>3 DEF LifecycleInv, ChaptersOfRun
      <3>5. todo' \subseteq Chapters /\ active' \subseteq Chapters
        BY <1>2, <3>1, <3>2
      <3> QED
        BY <1>1, <2>2, <3>1, <3>3, <3>4, <3>5, StaysInRun
    <2> QED
      BY <2>3, <2>4, <2>5
  <1> QED
    BY <1>3, <1>4

LEMMA RunEndStep ==
  ASSUME LifecycleInv, PageCheckpoint \/ ChapterFailed \/ Drained \/ CloseClient
  PROVE  LifecycleInv'
PROOF
  <1>1. worker \in Running /\ InRun /\ UNCHANGED ledger
    BY DEF PageCheckpoint, ChapterFailed, Drained, CloseClient, Running
  <1>2. /\ InHand(current) /\ ledger' \in [Tasks -> SUBSET Chapters]
        /\ (StopRequested(current) <=> row[current] # "running")
    BY <1>1, InsideRun
  <1>3. CASE PageCheckpoint
    BY <1>1, <1>2, <1>3, InterruptEnds DEF PageCheckpoint
  <1>4. CASE ChapterFailed
    BY <1>1, <1>4, DrainStep DEF ChapterFailed
  <1>5. CASE Drained
    BY <1>1, <1>5, FailEnds DEF Drained
  <1>6. CASE CloseClient
    <2>1. CASE StopRequested(current)
      BY <1>1, <1>2, <1>6, <2>1, InterruptEnds DEF CloseClient
    <2>2. CASE ~StopRequested(current)
      BY <1>1, <1>2, <1>6, <2>2, FinishEnds DEF CloseClient
    <2> QED
      BY <2>1, <2>2
  <1> QED
    BY <1>3, <1>4, <1>5, <1>6

-----------------------------------------------------------------------------
LEMMA LifecycleStep ==
  LifecycleInv /\ [Next]_vars => LifecycleInv'
PROOF
  <1> SUFFICES ASSUME LifecycleInv, [Next]_vars PROVE LifecycleInv'
    OBVIOUS
  <1>1. CASE Handler
    BY <1>1, EnqueueStep, ChangeStep, DeleteStep, ServiceStep, GateStep DEF Handler
  <1>2. CASE WorkerStep
    BY <1>2, TakeStep, StartChapterStep, DownloadedStep, TranslatedStep, RunEndStep
       DEF WorkerStep, RunStep
  <1>3. CASE StartUp
    <2>1. CASE \E t \in Tasks : SettleInterrupted(t)
      BY <2>1, SettleStep
    <2>2. CASE ListPending \/ RequeuePending \/ StartWorker
      BY <2>2, StartUpStep
    <2>3. CASE Boot \/ Reload
      BY <2>3, ProcessStep
    <2> QED
      BY <1>3, <2>1, <2>2, <2>3 DEF StartUp
  <1>4. CASE Maintenance
    BY <1>4, GateStep, ProcessStep DEF Maintenance
  <1>5. CASE ServiceRestarted \/ Crash
    BY <1>5, ServiceStep, ProcessStep
  <1>6. CASE UNCHANGED vars
    BY <1>6 DEF vars, db, run, process, LifecycleInv, TypeOK, WorkerConsistent, StartUpCovers, OnlySubmitted, RunHasRow,
           ChaptersOfRun, NoLostTask, InFlightHasRun, NoResurrection
  <1> QED
    BY <1>1, <1>2, <1>3, <1>4, <1>5, <1>6 DEF Next

THEOREM LifecycleInvariant ==
  Spec => []LifecycleInv
PROOF
  BY LifecycleInit, LifecycleStep, PTL DEF Spec

-----------------------------------------------------------------------------
\* The state of the backend has its types, for any numbers of tasks and users.
THEOREM TypeCorrect ==
  Spec => []TypeOK
PROOF
  <1>1. LifecycleInv => TypeOK
    BY DEF LifecycleInv
  <1> QED
    BY <1>1, LifecycleInvariant, PTL

\* While the process serves, every queued row has an entry in the queue or is in
\* the worker's hands, whatever pauses, resumes, restarts and snapshots happened.
THEOREM TasksAreNotLost ==
  Spec => []NoLostTask
PROOF
  <1>1. LifecycleInv => NoLostTask
    BY DEF LifecycleInv
  <1> QED
    BY <1>1, LifecycleInvariant, PTL

\* No row says running, and no stop waits, without a run that will settle it.
THEOREM StopsHaveARun ==
  Spec => []InFlightHasRun
PROOF
  <1>1. LifecycleInv => InFlightHasRun
    BY DEF LifecycleInv
  <1> QED
    BY <1>1, LifecycleInvariant, PTL

\* No run, failure or stop brings a row of a deleted book back.
THEOREM DeletionIsFinal ==
  Spec => []NoResurrection
PROOF
  <1>1. LifecycleInv => NoResurrection
    BY DEF LifecycleInv
  <1> QED
    BY <1>1, LifecycleInvariant, PTL

-----------------------------------------------------------------------------
\* The chapters a run has in hand are new only where a run begins or goes on.
LEMMA BeginTakesNew ==
  ASSUME LifecycleInv, NEW t \in Tasks, Begin(t), NEW c \in active'
  PROVE  current' = t /\ c \notin ledger[t]
PROOF
  <1>1. active' # {}
    OBVIOUS
  <1>2. /\ current' = t /\ Remaining(t) # {}
        /\ IF Kind[t] = "download"
           THEN active' = {}
           ELSE active' = {Least(Remaining(t))}
    BY <1>1 DEF Begin, FinishRun, RunOver
  <1>3. /\ Remaining(t) \in SUBSET Chapters
        /\ \A d \in Remaining(t) : d \notin ledger[t]
    BY TaskTypes DEF Remaining
  <1>4. Least(Remaining(t)) \in Remaining(t)
    BY <1>2, <1>3, LeastMember
  <1> QED
    BY <1>1, <1>2, <1>3, <1>4

LEMMA TakeTakesNew ==
  ASSUME LifecycleInv, GetTask \/ ServiceWake \/ GateWake
  PROVE  \A c \in active' \ active : c \notin ledger[current']
PROOF
  <1>1. CASE GetTask
    <2>1. /\ queue \in Queues(Tasks) /\ Coherent(queue) /\ ~IsEmpty(queue)
      BY <1>1 DEF GetTask, LifecycleInv, TypeOK
    <2>2. NextItem(queue) \in Tasks
      BY <2>1, GetCoherent
    <2> QED
      BY <1>1, <2>2, BeginTakesNew DEF GetTask, Enter
  <1>2. CASE ServiceWake \/ GateWake
    <2>1. current \in Tasks
      BY <1>2 DEF ServiceWake, GateWake, LifecycleInv, TypeOK, WorkerConsistent
    <2> QED
      BY <1>2, <2>1, BeginTakesNew DEF ServiceWake, GateWake, Enter
  <1> QED
    BY <1>1, <1>2

LEMMA ChapterTakesNew ==
  ASSUME LifecycleInv, NEW d \in Chapters, StartChapter \/ ChapterTranslated(d)
  PROVE  \A c \in active' \ active : c \notin ledger[current']
PROOF
  <1>1. worker = "run" /\ worker \in Running /\ InRun
    BY DEF StartChapter, ChapterTranslated, Running
  <1>2. /\ todo \in SUBSET Chapters /\ current # NoTask
        /\ \A c \in todo : c \notin ledger[current]
    BY <1>1 DEF LifecycleInv, TypeOK, WorkerConsistent, ChaptersOfRun
  <1>3. CASE active' \subseteq active
    BY <1>3
  <1>4. CASE ~(active' \subseteq active)
    <2>1. todo # {} /\ current' = current /\ active' \subseteq active \cup {Least(todo)}
      BY <1>4 DEF StartChapter, ChapterTranslated, RunOver, InterruptRun, FinishRun
    <2>2. Least(todo) \in todo
      BY <1>2, <2>1, LeastMember
    <2> QED
      BY <1>2, <2>1, <2>2
  <1> QED
    BY <1>3, <1>4

\* Every chapter a run takes has no checkpoint, for any selections and restarts.
THEOREM ChaptersAreNotRedone ==
  Spec => NoChapterRedone
PROOF
  <1>1. LifecycleInv /\ [Next]_vars => [\A c \in active' \ active : c \notin ledger[current']]_vars
    <2> SUFFICES ASSUME LifecycleInv, Next
                 PROVE  \A c \in active' \ active : c \notin ledger[current']
      OBVIOUS
    <2>1. CASE GetTask \/ ServiceWake \/ GateWake
      BY <2>1, TakeTakesNew
    <2>2. CASE StartChapter \/ \E d \in Chapters : ChapterTranslated(d)
      <3>1. CASE \E d \in Chapters : ChapterTranslated(d)
        BY <3>1, ChapterTakesNew
      <3>2. CASE StartChapter
        <4>1. Least(todo) \in Chapters
          BY <3>2, LeastMember DEF StartChapter, LifecycleInv, TypeOK
        <4> QED
          BY <3>2, <4>1, ChapterTakesNew
      <3> QED
        BY <2>2, <3>1, <3>2
    <2>3. CASE PageCheckpoint \/ ChapterFailed \/ Drained \/ CloseClient
      BY <2>3 DEF PageCheckpoint, ChapterFailed, Drained, CloseClient, Drain, RunOver, InterruptRun,
                  FinishRun, FailRun
    <2>4. CASE \E d \in Chapters : ChapterDownloaded(d)
      BY <2>4 DEF ChapterDownloaded, Drain
    <2>5. CASE Handler
      BY <2>5 DEF Handler, EnqueueTask, RetryTask, ChangeTask, DeleteBook, ServiceStop, ServiceStart,
                  ServiceRestart, ServiceUp, CloseGate, Enqueue, Unqueued, run
    <2>6. CASE StartUp \/ Maintenance \/ ServiceRestarted \/ Crash
      BY <2>6 DEF StartUp, Boot, ListPending, RequeuePending, StartWorker, Reload, SettleInterrupted,
                  Maintenance, DrainTimeout, GateDrained, Quiesce, OpenGate, ServiceRestarted, ServiceUp,
                  Crash, Volatile, run
    <2> QED
      BY <2>1, <2>2, <2>3, <2>4, <2>5, <2>6 DEF Next, WorkerStep, RunStep
  <1> QED
    BY <1>1, LifecycleInvariant, PTL DEF Spec, NoChapterRedone

-----------------------------------------------------------------------------
(* The refinement: which step of TaskPromise each action takes. *)

\* The ways out of a run whose ledger stays: a stop settles, or the run fails,
\* or it completes with nothing left to do, or its book was deleted.
LEMMA EndKeepsPromise ==
  ASSUME LifecycleInv, worker \in Running, InRun, UNCHANGED ledger,
         \/ StopRequested(current) /\ InterruptRun(current)
         \/ FailRun(current)
         \/ ~StopRequested(current) /\ worker = "closing" /\ FinishRun(current)
  PROVE  [Promise!Next]_Promise!vars
PROOF
  <1> DEFINE t == current
  <1>1. /\ InHand(t) /\ t \in Tasks /\ row \in [Tasks -> Statuses]
        /\ row[t] \in PendingStops \cup {"running", "absent"}
        /\ (Deleted(t) <=> row[t] = "absent") /\ (StopRequested(t) <=> row[t] # "running")
    BY InsideRun
  <1>2. CASE row[t] = "absent"
    <2>1. row' = [row EXCEPT ![t] = "absent"] \/ row' = row
      BY <1>1, <1>2 DEF InterruptRun, FailRun, SetRow, SettleStop
    <2> QED
      BY <1>1, <1>2, <2>1 DEF Promise!vars
  <1>3. CASE row[t] \in PendingStops
    <2>1. row' = [row EXCEPT ![t] = SettleStop(t)]
      BY <1>1, <1>3 DEF InterruptRun, FailRun, SetRow, PendingStops
    <2>2. CASE row[t] = "pause_requested"
      <3>1. Promise!Pause(t)
        BY <1>1, <2>1, <2>2 DEF SettleStop, Promise!Pause, Promise!Move
      <3> QED
        BY <1>1, <3>1 DEF Promise!Next
    <2>3. CASE row[t] = "cancel_requested"
      <3>1. Promise!Cancel(t)
        BY <1>1, <2>1, <2>3 DEF SettleStop, Promise!Cancel, Promise!Move
      <3> QED
        BY <1>1, <3>1 DEF Promise!Next
    <2> QED
      BY <1>3, <2>2, <2>3 DEF PendingStops
  <1>4. CASE row[t] = "running"
    <2>1. \A s : SaveTask(t, s) = s
      BY <1>4 DEF SaveTask, Stops, PendingStops
    <2>2. CASE FailRun(t) \/ row' = [row EXCEPT ![t] = "failed"]
      <3>1. row' = [row EXCEPT ![t] = "failed"]
        BY <1>1, <1>4, <2>1, <2>2 DEF FailRun, SetRow
      <3>2. Promise!Fail(t)
        BY <1>1, <1>4, <3>1 DEF Promise!Fail, Promise!Move
      <3> QED
        BY <1>1, <3>2 DEF Promise!Next
    <2>3. CASE worker = "closing" /\ row' = [row EXCEPT ![t] = "completed"]
      <3>1. Work[t] \subseteq ledger[t]
        BY <1>1, <1>4, <2>3, TaskTypes DEF LifecycleInv, WorkerConsistent, ChaptersOfRun
      <3>2. Promise!Complete(t)
        BY <1>1, <1>4, <2>3, <3>1 DEF Promise!Complete, Promise!Move
      <3> QED
        BY <1>1, <3>2 DEF Promise!Next
    <2> QED
      BY <1>1, <1>4, <2>1, <2>2, <2>3 DEF FinishRun, SetRow
  <1> QED
    BY <1>1, <1>2, <1>3, <1>4

LEMMA BeginKeepsPromise ==
  ASSUME LifecycleInv, NEW t, InHand(t), worker \notin Running, UNCHANGED ledger, Begin(t)
  PROVE  [Promise!Next]_Promise!vars
PROOF
  <1>1. /\ t \in Tasks /\ row \in [Tasks -> Statuses]
        /\ (row[t] # "absent" <=> BookOf[t] \in books)
        /\ row[t] \notin PendingStops \cup {"running"}
    BY OtherRows DEF InHand, LifecycleInv, InFlightHasRun
  <1>2. CASE UNCHANGED row
    BY <1>2 DEF Promise!vars
  <1>3. CASE row[t] = "queued" /\ row' = [row EXCEPT ![t] = "running"]
    <2>1. Promise!Start(t)
      BY <1>3 DEF Promise!Start, Promise!Move
    <2> QED
      BY <1>1, <2>1 DEF Promise!Next
  <1>4. CASE row[t] = "queued" /\ row' = [row EXCEPT ![t] = "failed"]
    <2>1. Promise!Fail(t)
      BY <1>4 DEF Promise!Fail, Promise!Move
    <2> QED
      BY <1>1, <2>1 DEF Promise!Next
  <1>5. CASE row[t] = "queued" /\ Remaining(t) = {} /\ row' = [row EXCEPT ![t] = "completed"]
    <2>1. Work[t] \subseteq ledger[t]
      BY <1>1, <1>5 DEF Remaining, Work
    <2>2. Promise!Complete(t)
      BY <1>5, <2>1 DEF Promise!Complete, Promise!Move
    <2> QED
      BY <1>1, <2>2 DEF Promise!Next
  <1>6. row[t] = "queued" => \A s : SaveTask(t, s) = s
    BY DEF SaveTask, Stops, PendingStops
  <1> QED
    BY <1>1, <1>2, <1>3, <1>4, <1>5, <1>6 DEF Begin, FinishRun, SetRow

LEMMA TakeKeepsPromise ==
  ASSUME LifecycleInv, GetTask \/ ServiceWake \/ GateWake
  PROVE  [Promise!Next]_Promise!vars
PROOF
  <1>1. UNCHANGED ledger /\ worker \notin Running
    BY DEF GetTask, ServiceWake, GateWake, Running
  <1>2. CASE UNCHANGED row
    BY <1>1, <1>2 DEF Promise!vars
  <1>3. CASE GetTask /\ Begin(NextItem(queue))
    BY <1>1, <1>3, GetInHand, BeginKeepsPromise
  <1>4. CASE (ServiceWake \/ GateWake) /\ Begin(current)
    <2>1. InHand(current)
      BY <1>4, TaskTypes DEF ServiceWake, GateWake, LifecycleInv, TypeOK, WorkerConsistent, InHand
    <2> QED
      BY <1>1, <1>4, <2>1, BeginKeepsPromise
  <1> QED
    BY <1>2, <1>3, <1>4 DEF GetTask, ServiceWake, GateWake, Enter

\* A chapter is checkpointed alone, or with the end of the run behind it.
LEMMA ChapterKeepsPromise ==
  ASSUME LifecycleInv, NEW c \in Chapters, ChapterDownloaded(c) \/ ChapterTranslated(c)
  PROVE  [Promise!Next]_Promise!vars
PROOF
  <1> DEFINE t == current
  <1>1. worker = "run" /\ worker \in Running /\ c \in active /\ InRun
    BY DEF ChapterDownloaded, ChapterTranslated, Running
  <1>2. /\ InHand(t) /\ t \in Tasks /\ row \in [Tasks -> Statuses] /\ ledger \in [Tasks -> SUBSET Chapters]
        /\ row[t] \in PendingStops \cup {"running", "absent"}
        /\ (Deleted(t) <=> row[t] = "absent") /\ (StopRequested(t) <=> row[t] # "running")
    BY <1>1, InsideRun
  <1>3. CASE Deleted(t)
    BY <1>3 DEF ChapterDownloaded, ChapterTranslated, Promise!vars
  <1>4. CASE ~Deleted(t)
    <2>1. ledger' = [ledger EXCEPT ![t] = @ \cup {c}] /\ row[t] \in PendingStops \cup {"running"}
      BY <1>2, <1>4 DEF ChapterDownloaded, ChapterTranslated, KeepChapter
    <2>2. CASE UNCHANGED row
      <3>1. Promise!Checkpoint(t, c)
        BY <2>1, <2>2 DEF Promise!Checkpoint, Promise!InFlight, Promise!PendingStops, PendingStops
      <3> QED
        BY <1>2, <3>1 DEF Promise!Next
    <2>3. CASE SetRow(t, SaveTask(t, "running"))
      <3>1. UNCHANGED row
        BY <1>1, <1>4, <2>3, ProgressSaved
      <3> QED
        BY <2>2, <3>1
    <2>4. CASE StopRequested(t) /\ InterruptRun(t)
      <3>1. row' = [row EXCEPT ![t] = SettleStop(t)] /\ row[t] \in PendingStops
        BY <1>2, <2>1, <2>4 DEF InterruptRun, SetRow
      <3>2. Promise!CheckpointAndSettle(t, c)
        BY <2>1, <3>1 DEF SettleStop, PendingStops, Promise!CheckpointAndSettle
      <3> QED
        BY <1>2, <3>2 DEF Promise!Next
    <2>5. CASE ChapterTranslated(c) /\ ~StopRequested(t) /\ todo = {} /\ FinishRun(t)
      <3>1. row[t] = "running" /\ \A s : SaveTask(t, s) = s
        BY <1>2, <2>5 DEF SaveTask, Stops, PendingStops
      <3>2. row' = [row EXCEPT ![t] = "completed"] \/ row' = [row EXCEPT ![t] = "failed"]
        BY <1>4, <2>5, <3>1 DEF FinishRun, SetRow
      <3>3. active = {c} /\ Work[t] \subseteq ledger[t] \cup todo \cup active
        BY <1>1, <1>2, <2>5, <3>1, TaskTypes DEF ChapterTranslated, LifecycleInv, ChaptersOfRun
      <3>4. Work[t] \subseteq ledger'[t]
        BY <1>2, <2>1, <2>5, <3>3
      <3>5. Promise!CheckpointAndEnd(t, c)
        BY <2>1, <3>1, <3>2, <3>4 DEF Promise!CheckpointAndEnd
      <3> QED
        BY <1>2, <3>5 DEF Promise!Next
    <2> QED
      BY <1>4, <2>2, <2>3, <2>4, <2>5 DEF ChapterDownloaded, ChapterTranslated
  <1> QED
    BY <1>3, <1>4

LEMMA HandlerKeepsPromise ==
  ASSUME LifecycleInv, Handler
  PROVE  [Promise!Next]_Promise!vars
PROOF
  <1>1. ASSUME NEW t \in Tasks, EnqueueTask(t) PROVE Promise!Next
    <2>1. Promise!Submit(t)
      BY <1>1 DEF EnqueueTask, SetRow, Promise!Submit, Promise!Move
    <2> QED
      BY <2>1 DEF Promise!Next
  <1>2. ASSUME NEW t \in Tasks, RetryTask(t) PROVE Promise!Next
    <2>1. Promise!Resume(t)
      BY <1>2 DEF RetryTask, SetRow, SaveTask, Promise!Resume, Promise!Move
    <2> QED
      BY <2>1 DEF Promise!Next
  <1>3. ASSUME NEW t \in Tasks, NEW action, ChangeTask(t, action) PROVE Promise!Next
    <2>1. PICK to : <<action, row[t], to>> \in Transitions /\ row' = [row EXCEPT ![t] = to] /\ UNCHANGED ledger
      BY <1>3 DEF ChangeTask, SetRow
    <2>2. \/ Promise!RequestPause(t) \/ Promise!RequestCancel(t)
          \/ Promise!Pause(t) \/ Promise!Cancel(t) \/ Promise!Resume(t)
      BY <2>1 DEF Transitions, Promise!RequestPause, Promise!RequestCancel, Promise!Pause,
                  Promise!Cancel, Promise!Resume, Promise!Move
    <2> QED
      BY <2>2 DEF Promise!Next
  <1>4. ASSUME NEW b \in Books, DeleteBook(b) PROVE Promise!Next
    <2> DEFINE S == {t \in Tasks : BookOf[t] = b}
    <2>1. Promise!Remove(S)
      BY <1>4 DEF DeleteBook, Promise!Remove
    <2>2. S \in SUBSET Tasks
      OBVIOUS
    <2> QED
      BY <2>1, <2>2 DEF Promise!Next
  <1>5. CASE ServiceStop \/ ServiceStart \/ ServiceRestart \/ CloseGate
    BY <1>5 DEF ServiceStop, ServiceStart, ServiceRestart, ServiceUp, CloseGate, db, Promise!vars
  <1> QED
    BY <1>1, <1>2, <1>3, <1>4, <1>5 DEF Handler

LEMMA StartUpKeepsPromise ==
  ASSUME LifecycleInv, StartUp
  PROVE  [Promise!Next]_Promise!vars
PROOF
  <1>1. row \in [Tasks -> Statuses]
    BY DEF LifecycleInv, TypeOK
  <1>2. CASE RequeuePending
    <2>1. cursor \in Tasks /\ UNCHANGED ledger
      BY <1>2 DEF RequeuePending
    <2>2. CASE row[cursor] = "running"
      <3>1. Promise!Requeue(cursor)
        BY <1>2, <2>2 DEF RequeuePending, SetRow, SaveTask, Promise!Requeue, Promise!Move
      <3> QED
        BY <2>1, <3>1 DEF Promise!Next
    <2>3. CASE row[cursor] # "running"
      <3>1. UNCHANGED row
        BY <1>1, <1>2, <2>1, <2>3 DEF RequeuePending, SetRow, SaveTask
      <3> QED
        BY <2>1, <3>1 DEF Promise!vars
    <2> QED
      BY <2>2, <2>3
  <1>3. ASSUME NEW t \in Tasks, SettleInterrupted(t) PROVE Promise!Next
    <2>1. Promise!Pause(t) \/ Promise!Cancel(t)
      BY <1>3 DEF SettleInterrupted, SetRow, SettleStop, PendingStops,
                  Promise!Pause, Promise!Cancel, Promise!Move
    <2> QED
      BY <2>1 DEF Promise!Next
  <1>4. CASE Boot \/ ListPending \/ StartWorker \/ Reload
    BY <1>4 DEF Boot, ListPending, StartWorker, Reload, db, Promise!vars
  <1> QED
    BY <1>2, <1>3, <1>4 DEF StartUp

\* Whatever the worker, restarts, snapshots and the switch do, the statuses and
\* checkpoints of every task follow TaskPromise.
THEOREM TasksKeepPromise ==
  Spec => ImplementsTaskPromise
PROOF
  <1>1. Init => Promise!Init
    BY DEF Init, Promise!Init
  <1>2. LifecycleInv /\ [Next]_vars => [Promise!Next]_Promise!vars
    <2> SUFFICES ASSUME LifecycleInv, [Next]_vars PROVE [Promise!Next]_Promise!vars
      OBVIOUS
    <2>1. CASE Handler
      BY <2>1, HandlerKeepsPromise
    <2>2. CASE StartUp
      BY <2>2, StartUpKeepsPromise
    <2>3. CASE GetTask \/ ServiceWake \/ GateWake
      BY <2>3, TakeKeepsPromise
    <2>4. CASE \E c \in Chapters : ChapterDownloaded(c) \/ ChapterTranslated(c)
      BY <2>4, ChapterKeepsPromise
    <2>5. CASE PageCheckpoint \/ Drained \/ CloseClient
      BY <2>5, EndKeepsPromise DEF PageCheckpoint, Drained, CloseClient, Running
    <2>6. CASE StartChapter
      <3>1. worker \in Running /\ InRun /\ UNCHANGED ledger
        BY <2>6 DEF StartChapter, Running
      <3>2. UNCHANGED row \/ (~StopRequested(current) /\ SetRow(current, SaveTask(current, "running")))
        BY <2>6 DEF StartChapter
      <3>3. ~StopRequested(current) => ~Deleted(current)
        BY <3>1, InsideRun
      <3> QED
        BY <3>1, <3>2, <3>3, ProgressSaved DEF Promise!vars
    <2>7. CASE ChapterFailed \/ Maintenance \/ ServiceRestarted \/ Crash \/ UNCHANGED vars
      BY <2>7 DEF ChapterFailed, Maintenance, DrainTimeout, GateDrained, Quiesce, OpenGate,
                  ServiceRestarted, ServiceUp, Crash, db, vars, Promise!vars
    <2> QED
      BY <2>1, <2>2, <2>3, <2>4, <2>5, <2>6, <2>7 DEF Next, WorkerStep, RunStep
  <1> QED
    BY <1>1, <1>2, LifecycleInvariant, PTL DEF Spec, ImplementsTaskPromise, Promise!Spec
=============================================================================
