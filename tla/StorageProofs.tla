----------------------------- MODULE StorageProofs --------------------------
(***************************************************************************)
(* Proofs about where messages are kept.  First the message queue: for      *)
(* every capacity and every set of bodies and headers the buffer pool of    *)
(* crps::MessageQueue neither leaks nor aliases a buffer, and therefore     *)
(* implements the bounded FIFO its owners rely on.  Then the objects that   *)
(* own the queues: the storage of a node's publishers and subscribers.      *)
(***************************************************************************)
EXTENDS MessageQueue, NodeStorage, SequenceTheorems, TLAPS

\* A new buffer has a well-typed content.
LEMMA ZeroBufferType == ZeroBuffer \in [header : Header, body : Body]
  BY ZeroAssumption DEF ZeroBuffer

(***************************************************************************)
(* The variables of MessageQueue keep their types: buffers, free list and   *)
(* queue only ever hold buffers of the pool.                                *)
(***************************************************************************)
THEOREM TypeCorrect == QueueSpec => []TypeOK
<1>1. QueueInit => TypeOK
  <2> SUFFICES ASSUME QueueInit PROVE TypeOK
    OBVIOUS
  <2>1. m_free_buffers \in Seq(Buffer)
    BY CapacityAssumption DEF QueueInit, Buffer
  <2>2. m_buffers \in [Buffer -> [header : Header, body : Body]]
    BY ZeroBufferType DEF QueueInit
  <2> QED BY <2>1, <2>2 DEF QueueInit, TypeOK
<1>2. TypeOK /\ [QueueNext]_queue_vars => TypeOK'
  <2> SUFFICES ASSUME TypeOK, [QueueNext]_queue_vars PROVE TypeOK'
    OBVIOUS
  <2> USE DEF TypeOK
  <2>1. ASSUME NEW b \in Body, NEW h \in Header \cup {NoHeader}, push(h, b)
        PROVE  TypeOK'
    <3>1. Head(m_free_buffers) \in Buffer /\ Tail(m_free_buffers) \in Seq(Buffer)
      BY <2>1, HeadTailProperties DEF push, full
    <3>2. m_buffers' \in [Buffer -> [header : Header, body : Body]]
      BY <2>1, <3>1 DEF push
    <3>3. m_queue' \in Seq(Buffer)
      BY <2>1, <3>1, AppendProperties DEF push
    <3> QED BY <2>1, <3>1, <3>2, <3>3 DEF push
  <2>2. CASE push_full
    BY <2>2 DEF push_full
  <2>3. CASE pop
    <3>1. Head(m_queue) \in Buffer /\ Tail(m_queue) \in Seq(Buffer)
      BY <2>3, HeadTailProperties DEF pop, empty
    <3>2. <<Head(m_queue)>> \o m_free_buffers \in Seq(Buffer)
      BY <3>1, ConcatProperties
    <3> QED BY <2>3, <3>1, <3>2 DEF pop
  <2>4. CASE pop_empty
    BY <2>4 DEF pop_empty
  <2>5. ASSUME NEW h \in Header, FillHeader(h) PROVE TypeOK'
    BY <2>5 DEF FillHeader
  <2>6. ASSUME NEW b \in Body, WriteBody(b) PROVE TypeOK'
    BY <2>6 DEF WriteBody
  <2>7. CASE UNCHANGED queue_vars
    BY <2>7 DEF queue_vars
  <2> QED BY <2>1, <2>2, <2>3, <2>4, <2>5, <2>6, <2>7 DEF QueueNext
<1> QED BY <1>1, <1>2, PTL DEF QueueSpec

(***************************************************************************)
(* MessageQueue::push and pop move a buffer between the free list and the   *)
(* queue and never copy or drop one: no aliasing, no leak.                  *)
(***************************************************************************)
THEOREM QueueInvariant == QueueSpec => []QueueInv
<1> USE DEF QueueInv, NoAliasing, NoLeak
<1>1. QueueInit => QueueInv
  BY CapacityAssumption DEF QueueInit
<1>2. TypeOK /\ QueueInv /\ [QueueNext]_queue_vars => QueueInv'
  <2> SUFFICES ASSUME TypeOK, QueueInv, [QueueNext]_queue_vars PROVE QueueInv'
    OBVIOUS
  <2>0. Len(m_queue) \in Nat /\ Len(m_free_buffers) \in Nat
    BY DEF TypeOK
  <2>1. ASSUME NEW b \in Body, NEW h \in Header \cup {NoHeader}, push(h, b)
        PROVE  QueueInv'
    <3> DEFINE f == m_free_buffers
    <3>1. /\ f # <<>> /\ f \in Seq(Buffer) /\ Len(f) > 0
          /\ Head(f) = f[1] /\ Head(f) \in Buffer
          /\ Len(Tail(f)) = Len(f) - 1
          /\ \A i \in 1..Len(Tail(f)) : Tail(f)[i] = f[i + 1]
      BY <2>1, HeadTailProperties, EmptySeq DEF push, full, TypeOK
    <3>2. /\ Len(m_queue') = Len(m_queue) + 1
          /\ \A i \in 1..Len(m_queue) : m_queue'[i] = m_queue[i]
          /\ m_queue'[Len(m_queue) + 1] = f[1]
      BY <2>1, <3>1, AppendProperties DEF push, TypeOK
    <3>3. /\ Len(m_free_buffers') = Len(f) - 1
          /\ \A i \in 1..Len(f) - 1 : m_free_buffers'[i] = f[i + 1]
      BY <2>1, <3>1 DEF push
    <3>4. \A i, j \in 1..Len(m_queue') : m_queue'[i] = m_queue'[j] => i = j
      <4> SUFFICES ASSUME NEW i \in 1..Len(m_queue) + 1, NEW j \in 1..Len(m_queue) + 1,
                          m_queue'[i] = m_queue'[j]
                   PROVE  i = j
        BY <3>2
      <4>1. CASE i \in 1..Len(m_queue) /\ j \in 1..Len(m_queue)
        BY <3>2, <4>1
      <4>2. CASE i = Len(m_queue) + 1 \/ j = Len(m_queue) + 1
        BY <2>0, <3>1, <3>2, <4>2
      <4> QED BY <2>0, <4>1, <4>2
    <3>5. \A i, j \in 1..Len(m_free_buffers') :
             m_free_buffers'[i] = m_free_buffers'[j] => i = j
      BY <2>0, <3>1, <3>3
    <3>6. \A i \in 1..Len(m_queue'), j \in 1..Len(m_free_buffers') :
             m_queue'[i] # m_free_buffers'[j]
      <4> SUFFICES ASSUME NEW i \in 1..Len(m_queue) + 1, NEW j \in 1..Len(f) - 1
                   PROVE  m_queue'[i] # m_free_buffers'[j]
        BY <3>2, <3>3
      <4>1. j + 1 \in 1..Len(f) /\ m_free_buffers'[j] = f[j + 1]
        BY <2>0, <3>3
      <4>2. CASE i = Len(m_queue) + 1
        BY <2>0, <3>1, <3>2, <4>1, <4>2
      <4>3. CASE i \in 1..Len(m_queue)
        BY <3>2, <4>1, <4>3
      <4> QED BY <2>0, <4>2, <4>3
    <3>7. Len(m_queue') + Len(m_free_buffers') = Capacity
      BY <2>0, <3>2, <3>3
    <3> QED BY <3>4, <3>5, <3>6, <3>7
  <2>2. CASE push_full
    BY <2>2 DEF push_full
  <2>3. CASE pop
    <3> DEFINE q == m_queue
    <3>1. /\ q # <<>> /\ Len(q) > 0 /\ Head(q) = q[1] /\ Head(q) \in Buffer
          /\ Len(Tail(q)) = Len(q) - 1
          /\ \A i \in 1..Len(Tail(q)) : Tail(q)[i] = q[i + 1]
      BY <2>3, HeadTailProperties, EmptySeq DEF pop, empty, TypeOK
    <3>2. /\ Len(m_queue') = Len(q) - 1
          /\ \A i \in 1..Len(q) - 1 : m_queue'[i] = q[i + 1]
      BY <2>3, <3>1 DEF pop
    <3>3. /\ Len(m_free_buffers') = Len(m_free_buffers) + 1
          /\ m_free_buffers'[1] = q[1]
          /\ \A i \in 2..Len(m_free_buffers) + 1 :
                m_free_buffers'[i] = m_free_buffers[i - 1]
      <4>1. m_free_buffers' = <<q[1]>> \o m_free_buffers /\ <<q[1]>> \in Seq(Buffer)
        BY <2>3, <3>1 DEF pop
      <4>2. Len(<<q[1]>>) = 1 /\ <<q[1]>>[1] = q[1]
        OBVIOUS
      <4> QED BY <2>0, <4>1, <4>2, ConcatProperties DEF TypeOK
    <3>4. \A i, j \in 1..Len(m_queue') : m_queue'[i] = m_queue'[j] => i = j
      BY <2>0, <3>1, <3>2
    <3>5. \A i, j \in 1..Len(m_free_buffers') :
             m_free_buffers'[i] = m_free_buffers'[j] => i = j
      <4> SUFFICES ASSUME NEW i \in 1..Len(m_free_buffers) + 1,
                          NEW j \in 1..Len(m_free_buffers) + 1,
                          m_free_buffers'[i] = m_free_buffers'[j]
                   PROVE  i = j
        BY <3>3
      <4>1. CASE i = 1 /\ j = 1
        BY <4>1
      <4>2. CASE i # 1 /\ j # 1
        <5>1. i - 1 \in 1..Len(m_free_buffers) /\ j - 1 \in 1..Len(m_free_buffers)
          BY <2>0, <4>2
        <5> QED BY <2>0, <3>3, <4>2, <5>1
      <4>3. CASE i # 1 /\ j = 1
        <5>1. i - 1 \in 1..Len(m_free_buffers)
          BY <2>0, <4>3
        <5> QED BY <2>0, <3>1, <3>3, <4>3, <5>1
      <4>4. CASE i = 1 /\ j # 1
        <5>1. j - 1 \in 1..Len(m_free_buffers)
          BY <2>0, <4>4
        <5> QED BY <2>0, <3>1, <3>3, <4>4, <5>1
      <4> QED BY <4>1, <4>2, <4>3, <4>4
    <3>6. \A i \in 1..Len(m_queue'), j \in 1..Len(m_free_buffers') :
             m_queue'[i] # m_free_buffers'[j]
      <4> SUFFICES ASSUME NEW i \in 1..Len(q) - 1,
                          NEW j \in 1..Len(m_free_buffers) + 1
                   PROVE  m_queue'[i] # m_free_buffers'[j]
        BY <3>2, <3>3
      <4>1. i + 1 \in 1..Len(q) /\ m_queue'[i] = q[i + 1]
        BY <2>0, <3>2
      <4>2. CASE j = 1
        BY <2>0, <3>1, <3>3, <4>1, <4>2
      <4>3. CASE j # 1
        <5>1. j - 1 \in 1..Len(m_free_buffers)
          BY <2>0, <4>3
        <5> QED BY <2>0, <3>3, <4>1, <4>3, <5>1
      <4> QED BY <4>2, <4>3
    <3>7. Len(m_queue') + Len(m_free_buffers') = Capacity
      BY <2>0, <3>2, <3>3
    <3> QED BY <3>4, <3>5, <3>6, <3>7
  <2>4. CASE pop_empty
    BY <2>4 DEF pop_empty
  <2>5. ASSUME NEW h \in Header, FillHeader(h) PROVE QueueInv'
    BY <2>5 DEF FillHeader
  <2>6. ASSUME NEW b \in Body, WriteBody(b) PROVE QueueInv'
    BY <2>6 DEF WriteBody
  <2>7. CASE UNCHANGED queue_vars
    BY <2>7 DEF queue_vars
  <2> QED BY <2>1, <2>2, <2>3, <2>4, <2>5, <2>6, <2>7 DEF QueueNext
<1> QED BY <1>1, <1>2, TypeCorrect, PTL DEF QueueSpec

(***************************************************************************)
(* The bodies read off the queued buffers form a sequence of bodies.        *)
(***************************************************************************)
LEMMA ItemsType ==
  ASSUME TypeOK
  PROVE  /\ Items \in Seq(Body)
         /\ Len(Items) = Len(m_queue)
         /\ \A i \in 1..Len(m_queue) : Items[i] = m_buffers[m_queue[i]].body
<1>1. Len(m_queue) \in Nat /\ \A i \in 1..Len(m_queue) : m_queue[i] \in Buffer
  BY ElementOfSeq, LenProperties DEF TypeOK
<1>2. \A i \in 1..Len(m_queue) : m_buffers[m_queue[i]].body \in Body
  BY <1>1 DEF TypeOK
<1> QED BY <1>1, <1>2 DEF Items

(***************************************************************************)
(* MessageQueue implements BoundedFifo: recycling buffers through the free  *)
(* list is invisible to Publisher and Subscriber, and push() fails only     *)
(* when Capacity messages really are waiting.                               *)
(***************************************************************************)
THEOREM Refinement == QueueSpec => ImplementsFifo
<1>1. QueueInit => Fifo!Init
  <2> SUFFICES ASSUME QueueInit PROVE Fifo!Init
    OBVIOUS
  <2>1. Items = <<>>
    BY DEF QueueInit, Items
  <2> QED BY <2>1 DEF QueueInit, Fifo!Init
<1>2. TypeOK /\ TypeOK' /\ QueueInv /\ [QueueNext]_queue_vars => [Fifo!Next]_(Fifo!fifoVars)
  <2> SUFFICES ASSUME TypeOK, TypeOK', QueueInv, [QueueNext]_queue_vars
               PROVE  [Fifo!Next]_(Fifo!fifoVars)
    OBVIOUS
  <2>0. Len(m_queue) \in Nat /\ Len(m_free_buffers) \in Nat
    BY DEF TypeOK
  <2>t. /\ Items \in Seq(Body) /\ Len(Items) = Len(m_queue)
        /\ \A i \in 1..Len(m_queue) : Items[i] = m_buffers[m_queue[i]].body
    BY ItemsType
  <2>p. /\ Items' \in Seq(Body) /\ Len(Items') = Len(m_queue')
        /\ \A i \in 1..Len(m_queue') : Items'[i] = m_buffers'[m_queue'[i]].body
    BY <2>0, ItemsType DEF TypeOK, Items
  <2>1. ASSUME NEW b \in Body, NEW h \in Header \cup {NoHeader}, push(h, b)
        PROVE  Fifo!Push(b)
    <3> DEFINE buffer == m_free_buffers[1]
    <3>1. /\ Len(m_free_buffers) > 0 /\ Head(m_free_buffers) = buffer
          /\ 1 \in 1..Len(m_free_buffers) /\ buffer \in Buffer
      BY <2>1, HeadTailProperties, EmptySeq DEF push, full, TypeOK
    <3>2. /\ Len(m_queue') = Len(m_queue) + 1
          /\ \A i \in 1..Len(m_queue) : m_queue'[i] = m_queue[i]
          /\ m_queue'[Len(m_queue) + 1] = buffer
      BY <2>1, <3>1, AppendProperties DEF push, TypeOK
    <3>3. \A i \in 1..Len(m_queue) : m_queue[i] # buffer /\ m_queue[i] \in Buffer
      BY <3>1, ElementOfSeq DEF QueueInv, NoAliasing, TypeOK
    <3>4. /\ m_buffers'[buffer].body = b
          /\ \A x \in Buffer : x # buffer => m_buffers'[x] = m_buffers[x]
      BY <2>1, <3>1 DEF push, TypeOK
    <3>5. \A i \in 1..Len(m_queue) : Items'[i] = Items[i]
      BY <2>0, <2>t, <2>p, <3>2, <3>3, <3>4
    <3>6. Items'[Len(m_queue) + 1] = b
      BY <2>0, <2>p, <3>2, <3>4
    <3>7. Items' = Append(Items, b)
      <4>1. /\ Append(Items, b) \in Seq(Body)
            /\ Len(Append(Items, b)) = Len(m_queue) + 1
            /\ \A i \in 1..Len(m_queue) : Append(Items, b)[i] = Items[i]
            /\ Append(Items, b)[Len(m_queue) + 1] = b
        BY <2>t, AppendProperties
      <4>2. \A i \in 1..Len(m_queue) + 1 : Items'[i] = Append(Items, b)[i]
        BY <2>0, <3>5, <3>6, <4>1
      <4> QED BY <2>p, <3>2, <4>1, <4>2, SeqEqual
    <3>8. Len(Items) < Capacity
      BY <2>0, <2>t, <3>1 DEF QueueInv, NoLeak
    <3> QED BY <2>1, <3>7, <3>8 DEF push, Fifo!Push
  <2>2. ASSUME push_full PROVE Fifo!RefusePush
    <3>1. Len(Items) = Capacity
      BY <2>0, <2>2, <2>t, EmptySeq DEF push_full, full, QueueInv, NoLeak
    <3> QED BY <2>2, <3>1 DEF push_full, Fifo!RefusePush, Items
  <2>3. ASSUME pop PROVE Fifo!Pop
    <3>1. /\ Len(m_queue) > 0
          /\ Len(m_queue') = Len(m_queue) - 1
          /\ \A i \in 1..Len(m_queue) - 1 : m_queue'[i] = m_queue[i + 1]
      BY <2>3, HeadTailProperties, EmptySeq DEF pop, empty, TypeOK
    <3>2. Items # <<>>
      BY <2>0, <2>t, <3>1
    <3>3. /\ Tail(Items) \in Seq(Body)
          /\ Len(Tail(Items)) = Len(m_queue) - 1
          /\ \A i \in 1..Len(m_queue) - 1 : Tail(Items)[i] = Items[i + 1]
      BY <2>t, <3>2, HeadTailProperties
    <3>4. \A i \in 1..Len(m_queue) - 1 : Items'[i] = Tail(Items)[i]
      <4> SUFFICES ASSUME NEW i \in 1..Len(m_queue) - 1
                   PROVE  Items'[i] = Tail(Items)[i]
        OBVIOUS
      <4>1. i \in 1..Len(m_queue') /\ i + 1 \in 1..Len(m_queue)
        BY <2>0, <3>1
      <4>2. Items'[i] = m_buffers[m_queue[i + 1]].body
        BY <2>3, <2>p, <3>1, <4>1 DEF pop
      <4> QED BY <2>t, <3>3, <4>1, <4>2
    <3>5. Items' = Tail(Items)
      BY <2>p, <3>1, <3>3, <3>4, SeqEqual
    <3> QED BY <2>3, <3>2, <3>5 DEF pop, Fifo!Pop
  <2>4. ASSUME pop_empty PROVE Fifo!RefusePop
    <3>1. Items = <<>>
      BY <2>4 DEF pop_empty, empty, Items
    <3> QED BY <2>4, <3>1 DEF pop_empty, Fifo!RefusePop, Items
  <2>5. ASSUME NEW h \in Header, FillHeader(h) PROVE UNCHANGED Fifo!fifoVars
    <3>1. /\ m_queue' = m_queue /\ ret' = ret
          /\ \A x \in Buffer : m_buffers'[x].body = m_buffers[x].body
      BY <2>5 DEF FillHeader, get, TypeOK
    <3>2. \A i \in 1..Len(m_queue) : Items'[i] = Items[i]
      BY <2>t, <2>p, <3>1, ElementOfSeq DEF TypeOK
    <3>3. Items' = Items
      BY <2>t, <2>p, <3>1, <3>2, SeqEqual
    <3> QED BY <3>1, <3>3 DEF Fifo!fifoVars
  <2>6. ASSUME NEW b \in Body, WriteBody(b) PROVE Fifo!EditFront(b)
    <3>1. /\ m_queue' = m_queue /\ ret' = ret /\ m_queue # <<>>
          /\ Len(m_queue) > 0 /\ Head(m_queue) = m_queue[1]
          /\ \A i \in 1..Len(m_queue) : m_queue[i] \in Buffer
      BY <2>6, EmptySeq, ElementOfSeq DEF WriteBody, empty, TypeOK
    <3>2. /\ m_buffers'[m_queue[1]].body = b
          /\ \A x \in Buffer : x # m_queue[1] => m_buffers'[x] = m_buffers[x]
      BY <2>0, <2>6, <3>1 DEF WriteBody, get, TypeOK
    <3>3. \A i \in 1..Len(m_queue) : i # 1 => m_queue[i] # m_queue[1]
      BY <2>0, <3>1 DEF QueueInv, NoAliasing
    <3>4. \A i \in 1..Len(m_queue) : Items'[i] = IF i = 1 THEN b ELSE Items[i]
      BY <2>t, <2>p, <3>1, <3>2, <3>3
    <3>5. Items # <<>> /\ 1 \in 1..Len(Items)
      BY <2>0, <2>t, <3>1
    <3>6. Items' = [Items EXCEPT ![1] = b]
      BY <2>t, <2>p, <3>1, <3>4, <3>5, ExceptSeq, SeqEqual
    <3> QED BY <3>1, <3>5, <3>6 DEF Fifo!EditFront
  <2>7. CASE UNCHANGED queue_vars
    BY <2>7 DEF queue_vars, Fifo!fifoVars, Items
  <2> QED BY <2>1, <2>2, <2>3, <2>4, <2>5, <2>6, <2>7 DEF QueueNext, Fifo!Next
<1> QED BY <1>1, <1>2, TypeCorrect, QueueInvariant, PTL DEF QueueSpec, ImplementsFifo, Fifo!Spec
-----------------------------------------------------------------------------
Home == Kind \X Nat \X Nat
Memory == Home \X Nat
Pointer == Nat \X (Nat \ {0})
Objects == [home : Home, m_free_buffers : Seq(Memory), m_queue : Seq(Memory)]

Types ==
  /\ allocation \in [Kind -> Nat] /\ capacity \in [Kind -> Nat]
  /\ elements \in [Kind -> Seq(Objects)]
  /\ handed \in [Kind -> Seq(Pointer)] /\ registered \in [Kind -> Seq(Pointer)]
  /\ undefined \in BOOLEAN
  /\ \A k \in Kind : Len(handed[k]) = Len(elements[k])

LEMMA Constructed ==
  ASSUME NEW home \in Home
  PROVE  /\ Construct(home) \in Objects /\ Construct(home).home = home
         /\ Construct(home).m_free_buffers = [b \in 1..QueueCapacity |-> <<home, b>>]
         /\ Construct(home).m_queue = <<>>
  <1>1. [b \in 1..QueueCapacity |-> <<home, b>>] \in Seq(Memory)
    BY CapacityOfQueues DEF Memory
  <1>2. <<>> \in Seq(Memory)
    OBVIOUS
  <1> QED BY <1>1, <1>2 DEF Construct, Objects

LEMMA PushedPopped ==
  ASSUME NEW object \in Objects
  PROVE  /\ object.m_free_buffers # <<>> =>
              /\ Push(object) \in Objects /\ Push(object).home = object.home
              /\ Push(object).m_free_buffers = Tail(object.m_free_buffers)
              /\ Push(object).m_queue = Append(object.m_queue, Head(object.m_free_buffers))
         /\ object.m_queue # <<>> =>
              /\ Pop(object) \in Objects /\ Pop(object).home = object.home
              /\ Pop(object).m_free_buffers = <<Head(object.m_queue)>> \o object.m_free_buffers
              /\ Pop(object).m_queue = Tail(object.m_queue)
  <1>1. /\ object.home \in Home /\ object.m_free_buffers \in Seq(Memory)
        /\ object.m_queue \in Seq(Memory)
    BY DEF Objects
  <1>2. ASSUME object.m_free_buffers # <<>>
        PROVE  /\ Tail(object.m_free_buffers) \in Seq(Memory)
               /\ Append(object.m_queue, Head(object.m_free_buffers)) \in Seq(Memory)
    BY <1>1, <1>2, HeadTailProperties, AppendProperties
  <1>3. ASSUME object.m_queue # <<>>
        PROVE  /\ Tail(object.m_queue) \in Seq(Memory)
               /\ <<Head(object.m_queue)>> \o object.m_free_buffers \in Seq(Memory)
    <2>1. Tail(object.m_queue) \in Seq(Memory) /\ Head(object.m_queue) \in Memory
      BY <1>1, <1>3, HeadTailProperties
    <2>2. <<Head(object.m_queue)>> \in Seq(Memory)
      BY <2>1
    <2> QED BY <1>1, <2>1, <2>2, ConcatProperties
  <1> QED BY <1>1, <1>2, <1>3 DEF Push, Pop, Objects

\* A growing vector gives an element a new home.
LEMMA Kept ==
  ASSUME NEW object \in Objects, NEW home \in Home
  PROVE  Relocated(object, home) \in Objects
  BY DEF Relocated, Objects

\* create(k) by its effects: kept are the elements before the new one.
Creates(k, at, kept) ==
  LET grows == Len(elements[k]) = capacity[k]
      new == Len(elements[k]) + 1
  IN  /\ at = IF grows THEN allocation[k] + 1 ELSE allocation[k]
      /\ Len(kept) = Len(elements[k])
      /\ \A i \in 1..Len(kept) :
           kept[i] = IF grows THEN Relocated(elements[k][i], <<k, at, i>>) ELSE elements[k][i]
      /\ allocation' = [allocation EXCEPT ![k] = at]
      /\ capacity' = [capacity EXCEPT ![k] = IF ~grows THEN @ ELSE IF @ = 0 THEN 1 ELSE 2 * @]
      /\ elements' = [elements EXCEPT ![k] = Append(kept, Construct(<<k, at, new>>))]
      /\ handed' = [handed EXCEPT ![k] = Append(handed[k], <<at, new>>)]
      /\ UNCHANGED <<registered, undefined>>

LEMMA Created ==
  ASSUME Types, NEW k \in Kind, create(k)
  PROVE  \E at \in Nat, kept \in Seq(Objects) : Creates(k, at, kept)
  <1> DEFINE grows == Len(elements[k]) = capacity[k]
             at == IF grows THEN allocation[k] + 1 ELSE allocation[k]
             kept == [i \in DOMAIN elements[k] |->
                        IF grows THEN Relocated(elements[k][i], <<k, at, i>>) ELSE elements[k][i]]
  <1>1. at \in Nat /\ elements[k] \in Seq(Objects)
    BY DEF Types
  <1>2. DOMAIN elements[k] = 1..Len(elements[k]) /\ Len(elements[k]) \in Nat
    BY <1>1, LenProperties
  <1>3. ASSUME NEW i \in 1..Len(elements[k])
        PROVE  (IF grows THEN Relocated(elements[k][i], <<k, at, i>>) ELSE elements[k][i]) \in Objects
    <2>1. elements[k][i] \in Objects /\ <<k, at, i>> \in Home
      BY <1>1, <1>2, ElementOfSeq DEF Home
    <2> HIDE DEF at
    <2> QED BY <2>1, Kept
  <1>4. /\ kept \in Seq(Objects) /\ Len(kept) = Len(elements[k])
        /\ \A i \in 1..Len(kept) :
             kept[i] = IF grows THEN Relocated(elements[k][i], <<k, at, i>>) ELSE elements[k][i]
    <2> HIDE DEF at, grows
    <2> QED BY <1>2, <1>3
  <1>5. /\ allocation' = [allocation EXCEPT ![k] = at]
        /\ capacity' = [capacity EXCEPT ![k] = IF ~grows THEN @ ELSE IF @ = 0 THEN 1 ELSE 2 * @]
        /\ elements' = [elements EXCEPT ![k] = Append(kept, Construct(<<k, at, Len(elements[k]) + 1>>))]
        /\ handed' = [handed EXCEPT ![k] = Append(handed[k], <<at, Len(elements[k]) + 1>>)]
        /\ UNCHANGED <<registered, undefined>>
    BY DEF create
  <1>6. Creates(k, at, kept)
    BY <1>4, <1>5 DEF Creates
  <1> HIDE DEF at, kept
  <1> QED BY <1>1, <1>4, <1>6

(***************************************************************************)
(* push and pop: memory that is gone is used, or one object changes.        *)
(***************************************************************************)
Stray(object) ==
  \/ object.m_free_buffers # <<>> /\ Head(object.m_free_buffers) \notin Buffers(object.home)
  \/ object.m_queue # <<>> /\ Head(object.m_queue) \notin Buffers(object.home)

Changes(object, new) ==
  \/ object.m_free_buffers # <<>> /\ new = Push(object)
  \/ object.m_queue # <<>> /\ new = Pop(object)

Uses(k, pointer) ==
  /\ ~undefined
  /\ \/ /\ ~Live(k, pointer) \/ Stray(Object(k, pointer))
        /\ Undefined
     \/ /\ Live(k, pointer)
        /\ \E new : Changes(Object(k, pointer), new) /\ Update(k, pointer, new)

Known(k, pointer) ==
  \/ \E i \in DOMAIN handed[k] : pointer = handed[k][i]
  \/ \E i \in DOMAIN registered[k] : pointer = registered[k][i]

LEMMA UseCases ==
  ASSUME StorageNext, ~connect_endpoints, \A k \in Kind : ~create(k)
  PROVE  \E k \in Kind : \E pointer : Known(k, pointer) /\ Uses(k, pointer)
  <1>1. ASSUME NEW k, NEW pointer, push_message(k, pointer) PROVE Uses(k, pointer)
    <2>1. CASE ~Live(k, pointer) /\ Undefined
      BY <1>1, <2>1 DEF push_message, Uses
    <2>2. CASE Live(k, pointer)
      BY <1>1, <2>2, Zenon DEF push_message, Uses, Stray, Changes
    <2> QED BY <1>1, <2>1, <2>2 DEF push_message
  <1>2. ASSUME NEW k, NEW pointer, pop_message(k, pointer) PROVE Uses(k, pointer)
    <2>1. CASE ~Live(k, pointer) /\ Undefined
      BY <1>2, <2>1 DEF pop_message, Uses
    <2>2. CASE Live(k, pointer)
      BY <1>2, <2>2, Zenon DEF pop_message, Uses, Stray, Changes
    <2> QED BY <1>2, <2>1, <2>2 DEF pop_message
  <1>3. publish \/ queue_message \/ spin_once
    BY DEF StorageNext
  <1>4. "publisher" \in Kind /\ "subscriber" \in Kind
    BY DEF Kind
  <1>5. \E k \in Kind : \E pointer : Known(k, pointer) /\ (push_message(k, pointer) \/ pop_message(k, pointer))
    BY <1>3, <1>4, Zenon DEF publish, queue_message, spin_once, Known
  <1> QED BY <1>1, <1>2, <1>5

LEMMA KnownPointer ==
  ASSUME Types, NEW k \in Kind, NEW pointer, Known(k, pointer)
  PROVE  pointer \in Pointer
  BY LenProperties, ElementOfSeq DEF Types, Known

LEMMA ChangedObject ==
  ASSUME NEW object \in Objects, NEW new, Changes(object, new)
  PROVE  new \in Objects /\ new.home = object.home
  BY PushedPopped DEF Changes

\* What changing the object behind a live pointer does to its vector.
LEMMA UpdatedVector ==
  ASSUME Types, NEW k \in Kind, NEW pointer \in Pointer, Live(k, pointer),
         NEW new \in Objects, Update(k, pointer, new)
  PROVE  /\ Object(k, pointer) \in Objects /\ pointer[2] \in 1..Len(elements[k])
         /\ elements' \in [Kind -> Seq(Objects)]
         /\ \A j \in Kind : Len(elements'[j]) = Len(elements[j])
         /\ \A j \in Kind : \A i \in 1..Len(elements[j]) :
              elements'[j][i] = IF j = k /\ i = pointer[2] THEN new ELSE elements[j][i]
         /\ UNCHANGED <<allocation, capacity, handed, registered, undefined>>
  <1>1. elements \in [Kind -> Seq(Objects)] /\ elements[k] \in Seq(Objects) /\ Len(elements[k]) \in Nat
    BY LenProperties DEF Types
  <1>2. pointer[2] \in 1..Len(elements[k])
    BY <1>1 DEF Live, Pointer
  <1>3. elements' = [elements EXCEPT ![k] = [elements[k] EXCEPT ![pointer[2]] = new]]
    BY DEF Update
  <1> DEFINE s == [elements[k] EXCEPT ![pointer[2]] = new]
  <1>4. /\ s \in Seq(Objects) /\ Len(s) = Len(elements[k])
        /\ \A i \in 1..Len(elements[k]) : s[i] = IF i = pointer[2] THEN new ELSE elements[k][i]
    BY <1>1, <1>2, ExceptSeq
  <1> HIDE DEF s
  <1>5. elements' = [elements EXCEPT ![k] = s]
    BY <1>3 DEF s
  <1>6. elements[k][pointer[2]] \in Objects
    BY <1>1, <1>2, ElementOfSeq
  <1> QED BY <1>1, <1>2, <1>4, <1>5, <1>6 DEF Update, Object

LEMMA TypesInit ==
  ASSUME StorageInit
  PROVE  Types
  <1>1. <<>> \in Seq(Objects) /\ <<>> \in Seq(Pointer)
    OBVIOUS
  <1> QED BY <1>1 DEF StorageInit, Types

LEMMA TypesStep ==
  ASSUME Types, [StorageNext]_storage_vars
  PROVE  Types'
  <1>1. ASSUME NEW k \in Kind, create(k) PROVE Types'
    <2>1. PICK at \in Nat, kept \in Seq(Objects) : Creates(k, at, kept)
      BY <1>1, Created
    <2> DEFINE new == Len(elements[k]) + 1
    <2>2. new \in Nat \ {0} /\ Len(handed[k]) = Len(elements[k]) /\ Len(kept) = Len(elements[k])
      <3>1. elements[k] \in Seq(Objects) /\ Len(handed[k]) = Len(elements[k])
        BY DEF Types
      <3>2. Len(elements[k]) \in Nat
        BY <3>1, LenProperties
      <3> QED BY <2>1, <3>1, <3>2 DEF Creates
    <2>3. Construct(<<k, at, new>>) \in Objects
      <3>1. <<k, at, new>> \in Home
        BY <2>2 DEF Home
      <3> QED BY <3>1, Constructed
    <2>4. <<at, new>> \in Pointer
      BY <2>2 DEF Pointer
    <2>5. /\ Append(kept, Construct(<<k, at, new>>)) \in Seq(Objects)
          /\ Len(Append(kept, Construct(<<k, at, new>>))) = new
      BY <2>2, <2>3, AppendProperties
    <2>6. Append(handed[k], <<at, new>>) \in Seq(Pointer) /\ Len(Append(handed[k], <<at, new>>)) = new
      <3>1. handed[k] \in Seq(Pointer)
        BY DEF Types
      <3> HIDE DEF new
      <3>2. Append(handed[k], <<at, new>>) \in Seq(Pointer)
            /\ Len(Append(handed[k], <<at, new>>)) = Len(handed[k]) + 1
        BY <2>4, <3>1, AppendProperties
      <3> QED BY <2>2, <3>2 DEF new
    <2>7. elements' = [elements EXCEPT ![k] = Append(kept, Construct(<<k, at, new>>))]
      BY <2>1 DEF Creates
    <2>8. handed' = [handed EXCEPT ![k] = Append(handed[k], <<at, new>>)]
      BY <2>1 DEF Creates
    <2>9. capacity' \in [Kind -> Nat] /\ allocation' \in [Kind -> Nat] /\ UNCHANGED <<registered, undefined>>
      <3>1. \A c \in Nat : 2 * c \in Nat
        OBVIOUS
      <3> QED BY <2>1, <3>1 DEF Creates, Types
    <2> HIDE DEF new
    <2> QED BY <2>5, <2>6, <2>7, <2>8, <2>9 DEF Types
  <1>2. CASE connect_endpoints
    <2>1. ASSUME NEW k \in Kind
          PROVE  [i \in DOMAIN elements[k] |-> Registered(k, i)] \in Seq(Pointer)
      <3>1. DOMAIN elements[k] = 1..Len(elements[k]) /\ Len(elements[k]) \in Nat
        BY LenProperties DEF Types
      <3>2. \A i \in 1..Len(elements[k]) : Registered(k, i) \in Pointer
        BY DEF Registered, Place, Pointer, Types
      <3> QED BY <3>1, <3>2
    <2> QED BY <1>2, <2>1 DEF connect_endpoints, Types
  <1>3. ASSUME NEW k \in Kind, NEW pointer, Known(k, pointer), Uses(k, pointer) PROVE Types'
    <2>1. CASE Undefined
      BY <2>1 DEF Undefined, Types
    <2>2. ASSUME Live(k, pointer), NEW new, Changes(Object(k, pointer), new), Update(k, pointer, new)
          PROVE  Types'
      <3>1. pointer \in Pointer
        BY <1>3, KnownPointer
      <3>2. Object(k, pointer) \in Objects
        BY <2>2, <3>1, ElementOfSeq, LenProperties DEF Live, Pointer, Object, Types
      <3>3. new \in Objects
        BY <2>2, <3>2, ChangedObject
      <3> QED BY <2>2, <3>1, <3>3, UpdatedVector DEF Types
    <2> QED BY <1>3, <2>1, <2>2 DEF Uses
  <1>4. CASE UNCHANGED storage_vars
    BY <1>4 DEF storage_vars, Types
  <1> QED BY <1>1, <1>2, <1>3, <1>4, UseCases
-----------------------------------------------------------------------------
(***************************************************************************)
(* The pointers of a message queue: what Push and Pop do with them.         *)
(***************************************************************************)
Holds(s) == {s[i] : i \in 1..Len(s)}

LEMMA HoldsParts ==
  ASSUME NEW S, NEW s \in Seq(S)
  PROVE  /\ s # <<>> => /\ Holds(s) = {Head(s)} \cup Holds(Tail(s))
                        /\ Tail(s) \in Seq(S) /\ Head(s) \in S /\ Len(Tail(s)) = Len(s) - 1
         /\ \A x \in S : /\ Holds(Append(s, x)) = Holds(s) \cup {x}
                         /\ Len(Append(s, x)) = Len(s) + 1
         /\ \A x \in S : /\ Holds(<<x>> \o s) = {x} \cup Holds(s)
                         /\ Len(<<x>> \o s) = Len(s) + 1
  <1>0. Len(s) \in Nat
    BY LenProperties
  <1>1. ASSUME s # <<>>
        PROVE  /\ Holds(s) = {Head(s)} \cup Holds(Tail(s))
               /\ Tail(s) \in Seq(S) /\ Head(s) \in S /\ Len(Tail(s)) = Len(s) - 1
    <2>1. /\ Tail(s) \in Seq(S) /\ Head(s) \in S /\ Len(Tail(s)) = Len(s) - 1
          /\ Len(s) >= 1 /\ Head(s) = s[1] /\ \A i \in 1..(Len(s) - 1) : Tail(s)[i] = s[i + 1]
      BY <1>0, <1>1, HeadTailProperties, EmptySeq
    <2>2. ASSUME NEW i \in 1..Len(s) PROVE s[i] \in {Head(s)} \cup Holds(Tail(s))
      <3>1. CASE i = 1
        BY <2>1, <3>1
      <3>2. CASE i # 1
        <4>1. i - 1 \in 1..(Len(s) - 1) /\ (i - 1) + 1 = i
          BY <1>0, <3>2
        <4>2. Tail(s)[i - 1] = s[i] /\ i - 1 \in 1..Len(Tail(s))
          BY <2>1, <4>1
        <4> QED BY <4>2 DEF Holds
      <3> QED BY <3>1, <3>2
    <2>3. ASSUME NEW i \in 1..Len(Tail(s)) PROVE Tail(s)[i] \in Holds(s)
      <3>1. i + 1 \in 1..Len(s) /\ Tail(s)[i] = s[i + 1]
        BY <1>0, <2>1
      <3> QED BY <3>1 DEF Holds
    <2>4. Head(s) \in Holds(s)
      <3>1. 1 \in 1..Len(s)
        BY <1>0, <2>1
      <3> QED BY <2>1, <3>1 DEF Holds
    <2> QED BY <2>1, <2>2, <2>3, <2>4 DEF Holds
  <1>2. ASSUME NEW x \in S
        PROVE  Holds(Append(s, x)) = Holds(s) \cup {x} /\ Len(Append(s, x)) = Len(s) + 1
    <2>1. /\ Len(Append(s, x)) = Len(s) + 1 /\ Append(s, x)[Len(s) + 1] = x
          /\ \A i \in 1..Len(s) : Append(s, x)[i] = s[i]
      BY AppendProperties
    <2>2. 1..(Len(s) + 1) = (1..Len(s)) \cup {Len(s) + 1}
      BY <1>0
    <2> QED BY <2>1, <2>2 DEF Holds
  <1>3. ASSUME NEW x \in S
        PROVE  Holds(<<x>> \o s) = {x} \cup Holds(s) /\ Len(<<x>> \o s) = Len(s) + 1
    <2>1. <<x>> \in Seq(S) /\ Len(<<x>>) = 1 /\ <<x>>[1] = x
      OBVIOUS
    <2>2. /\ Len(<<x>> \o s) = Len(s) + 1
          /\ \A i \in 1..(Len(s) + 1) : (<<x>> \o s)[i] = IF i <= 1 THEN <<x>>[i] ELSE s[i - 1]
      BY <1>0, <2>1, ConcatProperties
    <2>3. (<<x>> \o s)[1] = x
      BY <1>0, <2>1, <2>2
    <2>4. \A i \in 1..Len(s) : i + 1 \in 1..(Len(s) + 1) /\ (<<x>> \o s)[i + 1] = s[i]
      BY <1>0, <2>2
    <2>5. ASSUME NEW i \in 1..(Len(s) + 1), i # 1 PROVE i - 1 \in 1..Len(s) /\ (<<x>> \o s)[i] = s[i - 1]
      BY <1>0, <2>2, <2>5
    <2>6. 1 \in 1..(Len(s) + 1)
      BY <1>0
    <2> DEFINE t == <<x>> \o s
    <2>7. Holds(t) \subseteq {x} \cup Holds(s)
      BY <2>2, <2>3, <2>5 DEF Holds
    <2>8. x \in Holds(t) /\ Holds(s) \subseteq Holds(t)
      <3>1. x \in Holds(t)
        BY <2>2, <2>3, <2>6 DEF Holds
      <3>2. ASSUME NEW i \in 1..Len(s) PROVE s[i] \in Holds(t)
        <4>1. i + 1 \in 1..Len(t) /\ t[i + 1] = s[i]
          BY <2>2, <2>4
        <4> HIDE DEF t
        <4> QED BY <4>1 DEF Holds
      <3> QED BY <3>1, <3>2 DEF Holds
    <2> QED BY <2>2, <2>7, <2>8
  <1> QED BY <1>1, <1>2, <1>3

\* What the free list and the queue hold together.
AllOf(object) == Holds(object.m_free_buffers) \cup Holds(object.m_queue)

LEMMA SharedOut ==
  ASSUME NEW object \in Objects, NEW new, Changes(object, new)
  PROVE  AllOf(new) = AllOf(object)
  <1>0. PICK free, queue : free = object.m_free_buffers /\ queue = object.m_queue
    OBVIOUS
  <1>1. free \in Seq(Memory) /\ queue \in Seq(Memory) /\ Len(free) \in Nat /\ Len(queue) \in Nat
    BY <1>0, LenProperties DEF Objects
  <1>2. CASE free # <<>> /\ new = Push(object)
    <2>1. new.m_free_buffers = Tail(free) /\ new.m_queue = Append(queue, Head(free))
      BY <1>0, <1>2, PushedPopped
    <2>2. /\ Holds(free) = {Head(free)} \cup Holds(Tail(free)) /\ Head(free) \in Memory
      BY <1>1, <1>2, HoldsParts
    <2>3. Holds(Append(queue, Head(free))) = Holds(queue) \cup {Head(free)}
      BY <1>1, <2>2, HoldsParts
    <2>4. AllOf(object) = Holds(free) \cup Holds(queue)
      BY <1>0 DEF AllOf
    <2>5. AllOf(new) = Holds(new.m_free_buffers) \cup Holds(new.m_queue)
      BY DEF AllOf
    <2> QED BY <2>1, <2>2, <2>3, <2>4, <2>5
  <1>3. CASE queue # <<>> /\ new = Pop(object)
    <2>1. new.m_free_buffers = <<Head(queue)>> \o free /\ new.m_queue = Tail(queue)
      BY <1>0, <1>3, PushedPopped
    <2>2. /\ Holds(queue) = {Head(queue)} \cup Holds(Tail(queue)) /\ Head(queue) \in Memory
      BY <1>1, <1>3, HoldsParts
    <2>3. Holds(<<Head(queue)>> \o free) = {Head(queue)} \cup Holds(free)
      BY <1>1, <2>2, HoldsParts
    <2>4. AllOf(object) = Holds(free) \cup Holds(queue)
      BY <1>0 DEF AllOf
    <2>5. AllOf(new) = Holds(new.m_free_buffers) \cup Holds(new.m_queue)
      BY DEF AllOf
    <2> QED BY <2>1, <2>2, <2>3, <2>4, <2>5
  <1> QED BY <1>0, <1>2, <1>3 DEF Changes

LEMMA NewObject ==
  ASSUME NEW home \in Home
  PROVE  AllOf(Construct(home)) = Buffers(home)
  <1>1. /\ Construct(home).m_free_buffers = [b \in 1..QueueCapacity |-> <<home, b>>]
        /\ Construct(home).m_queue = <<>>
    BY Constructed
  <1>2. Len([b \in 1..QueueCapacity |-> <<home, b>>]) = QueueCapacity /\ Len(<<>>) = 0
    BY CapacityOfQueues
  <1>3. Holds([b \in 1..QueueCapacity |-> <<home, b>>]) = {<<home, b>> : b \in 1..QueueCapacity}
    BY <1>2 DEF Holds
  <1>4. Holds(<<>>) = {}
    BY <1>2 DEF Holds
  <1>5. {<<home, b>> : b \in 1..QueueCapacity} = Buffers(home)
    BY DEF Buffers
  <1> QED BY <1>1, <1>2, <1>3, <1>4, <1>5 DEF AllOf

\* An object whose pointers are its own is never caught using another's buffer.
LEMMA OwnIsNotStray ==
  ASSUME NEW object \in Objects, AllOf(object) \subseteq Buffers(object.home)
  PROVE  ~Stray(object)
  BY HoldsParts DEF Objects, AllOf, Stray
-----------------------------------------------------------------------------
(***************************************************************************)
(* While a vector has at most one element it is in its first allocation,    *)
(* every pointer to it is to its first element, and that one still has the  *)
(* buffers it was constructed with.                                         *)
(***************************************************************************)
AtMostOne(k) ==
  /\ Len(elements[k]) <= 1
  /\ capacity[k] = Len(elements[k]) /\ allocation[k] = Len(elements[k])
  /\ \A i \in DOMAIN handed[k] : handed[k][i] = <<1, 1>> /\ Len(elements[k]) = 1
  /\ \A i \in DOMAIN registered[k] : registered[k][i] = <<1, 1>> /\ Len(elements[k]) = 1
  /\ \A i \in 1..Len(elements[k]) : AllOf(elements[k][i]) = Buffers(elements[k][i].home)

SafeInv == (\E k \in Kind : Len(handed[k]) > 1) \/ (~undefined /\ \A k \in Kind : AtMostOne(k))

LEMMA CreateFirst ==
  ASSUME Types, NEW k \in Kind, create(k), AtMostOne(k),
         ~(Len(handed'[k]) > 1)
  PROVE  AtMostOne(k)'
  <1>1. PICK at \in Nat, kept \in Seq(Objects) : Creates(k, at, kept)
    BY Created
  <1>2. /\ Len(elements[k]) \in Nat /\ Len(handed[k]) = Len(elements[k])
        /\ handed[k] \in Seq(Pointer) /\ elements[k] \in Seq(Objects)
    BY LenProperties DEF Types
  <1>3. DOMAIN handed = Kind /\ DOMAIN elements = Kind /\ DOMAIN allocation = Kind /\ DOMAIN capacity = Kind
    BY DEF Types
  <1>4. handed'[k] = Append(handed[k], <<at, Len(elements[k]) + 1>>) /\ at \in Nat
    BY <1>1, <1>3 DEF Creates
  <1>5. Len(elements[k]) = 0
    <2>1. <<at, Len(elements[k]) + 1>> \in Pointer
      BY <1>2 DEF Pointer
    <2>2. Len(handed'[k]) = Len(handed[k]) + 1
      BY <1>2, <1>4, <2>1, AppendProperties
    <2> QED BY <1>2, <2>2
  <1>6. capacity[k] = 0 /\ allocation[k] = 0 /\ handed[k] = <<>>
    BY <1>2, <1>5, EmptySeq DEF AtMostOne
  <1>7. at = 1 /\ capacity'[k] = 1 /\ allocation'[k] = 1 /\ Len(kept) = 0
    BY <1>1, <1>3, <1>5, <1>6 DEF Creates
  <1>8. kept = <<>>
    BY <1>7, EmptySeq
  <1>9. elements'[k] = <<Construct(<<k, 1, 1>>)>> /\ handed'[k] = <<<<1, 1>>>>
    BY <1>1, <1>3, <1>5, <1>6, <1>7, <1>8 DEF Creates
  <1>10. /\ AllOf(Construct(<<k, 1, 1>>)) = Buffers(<<k, 1, 1>>)
         /\ Construct(<<k, 1, 1>>).home = <<k, 1, 1>>
    <2>1. <<k, 1, 1>> \in Home
      BY DEF Home
    <2> QED BY <2>1, NewObject, Constructed
  <1>11. /\ Len(elements'[k]) = 1 /\ elements'[k][1] = Construct(<<k, 1, 1>>)
         /\ DOMAIN handed'[k] = {1} /\ handed'[k][1] = <<1, 1>>
    BY <1>9
  <1>12. DOMAIN registered'[k] = {}
    BY <1>1, <1>5 DEF AtMostOne, Creates
  <1>13. ASSUME NEW i \in 1..Len(elements'[k])
         PROVE  AllOf(elements'[k][i]) = Buffers(elements'[k][i].home)
    <2>1. i = 1
      BY <1>11
    <2> QED BY <1>10, <1>11, <2>1
  <1> QED BY <1>7, <1>11, <1>12, <1>13 DEF AtMostOne, AllOf

LEMMA UseFirst ==
  ASSUME Types, NEW k \in Kind, AtMostOne(k),
         NEW pointer, Known(k, pointer), Uses(k, pointer)
  PROVE  ~undefined' /\ AtMostOne(k)' /\ handed' = handed
         /\ \A j \in Kind \ {k} : AtMostOne(j) => AtMostOne(j)'
  <1>1. pointer = <<1, 1>> /\ Len(elements[k]) = 1 /\ pointer \in Pointer
    BY KnownPointer DEF Known, AtMostOne
  <1>2. Live(k, pointer) /\ Object(k, pointer) = elements[k][1]
    BY <1>1 DEF AtMostOne, Live, Object
  <1>3. elements[k][1] \in Objects /\ AllOf(elements[k][1]) = Buffers(elements[k][1].home)
    <2>1. elements[k] \in Seq(Objects) /\ 1 \in 1..Len(elements[k])
      BY <1>1 DEF Types
    <2> QED BY <2>1, ElementOfSeq DEF AtMostOne
  <1>4. ~Stray(Object(k, pointer))
    BY <1>2, <1>3, OwnIsNotStray
  <1>5. PICK new : Changes(elements[k][1], new) /\ Update(k, pointer, new)
    BY <1>2, <1>4 DEF Uses
  <1>6. /\ new \in Objects /\ new.home = elements[k][1].home
        /\ AllOf(new) = Buffers(new.home)
    BY <1>3, <1>5, ChangedObject, SharedOut
  <1>7. /\ \A j \in Kind : Len(elements'[j]) = Len(elements[j])
        /\ \A j \in Kind : \A i \in 1..Len(elements[j]) :
             elements'[j][i] = IF j = k /\ i = pointer[2] THEN new ELSE elements[j][i]
        /\ UNCHANGED <<allocation, capacity, handed, registered, undefined>>
    BY <1>1, <1>2, <1>5, <1>6, UpdatedVector
  <1>8. AtMostOne(k)'
    <2>1. ASSUME NEW i \in 1..Len(elements'[k])
          PROVE  AllOf(elements'[k][i]) = Buffers(elements'[k][i].home)
      <3>1. i = 1 /\ pointer[2] = 1
        BY <1>1, <1>7
      <3> QED BY <1>6, <1>7, <3>1
    <2> QED BY <1>7, <2>1 DEF AtMostOne, AllOf
  <1>9. ASSUME NEW j \in Kind \ {k}, AtMostOne(j) PROVE AtMostOne(j)'
    <2>1. ASSUME NEW i \in 1..Len(elements'[j])
          PROVE  AllOf(elements'[j][i]) = Buffers(elements'[j][i].home)
      BY <1>7, <1>9, <2>1 DEF AtMostOne
    <2> QED BY <1>7, <1>9, <2>1 DEF AtMostOne, AllOf
  <1> QED BY <1>7, <1>8, <1>9 DEF Uses

LEMMA SafeStep ==
  ASSUME Types, SafeInv, [StorageNext]_storage_vars
  PROVE  SafeInv'
  <1>1. CASE UNCHANGED storage_vars
    BY <1>1 DEF storage_vars, SafeInv, AtMostOne
  <1>2. ASSUME NEW k \in Kind, create(k) PROVE SafeInv'
    <2>1. PICK at \in Nat, kept \in Seq(Objects) : Creates(k, at, kept)
      BY <1>2, Created
    <2>2. /\ \A j \in Kind \ {k} : /\ elements'[j] = elements[j] /\ handed'[j] = handed[j]
                                   /\ capacity'[j] = capacity[j] /\ allocation'[j] = allocation[j]
          /\ registered' = registered /\ undefined' = undefined
      BY <2>1 DEF Creates, Types
    <2>3. Len(handed[k]) \in Nat /\ Len(handed'[k]) = Len(handed[k]) + 1
      <3>1. <<at, Len(elements[k]) + 1>> \in Pointer /\ handed[k] \in Seq(Pointer)
        BY LenProperties DEF Types, Pointer
      <3>2. handed'[k] = Append(handed[k], <<at, Len(elements[k]) + 1>>)
        BY <2>1 DEF Creates, Types
      <3> QED BY <3>1, <3>2, AppendProperties, LenProperties
    <2>4. CASE \E j \in Kind : Len(handed[j]) > 1
      <3>1. PICK j \in Kind : Len(handed[j]) > 1
        BY <2>4
      <3>2. Len(handed'[j]) > 1
        BY <2>2, <2>3, <3>1
      <3> QED BY <3>2 DEF SafeInv
    <2>5. CASE Len(handed'[k]) > 1
      BY <2>5 DEF SafeInv
    <2>6. CASE ~undefined /\ (\A j \in Kind : AtMostOne(j)) /\ ~(Len(handed'[k]) > 1)
      <3>1. AtMostOne(k)'
        BY <1>2, <2>6, CreateFirst
      <3>2. ASSUME NEW j \in Kind \ {k} PROVE AtMostOne(j)'
        BY <2>2, <2>6 DEF AtMostOne
      <3> QED BY <2>2, <2>6, <3>1, <3>2 DEF SafeInv
    <2> QED BY <2>4, <2>5, <2>6 DEF SafeInv
  <1>3. CASE connect_endpoints
    <2>0. \A c \in Nat : \A j \in 1..c : c <= 1 => j = 1 /\ c = 1
      OBVIOUS
    <2>1. /\ UNCHANGED <<allocation, capacity, elements, handed, undefined>>
          /\ \A k \in Kind : registered'[k] = [i \in DOMAIN elements[k] |-> Registered(k, i)]
      BY <1>3 DEF connect_endpoints
    <2>2. ASSUME NEW k \in Kind, AtMostOne(k) PROVE AtMostOne(k)'
      <3>1. DOMAIN elements[k] = 1..Len(elements[k]) /\ Len(elements[k]) \in Nat
        BY LenProperties DEF Types
      <3>2. ASSUME NEW i \in DOMAIN registered'[k]
            PROVE  registered'[k][i] = <<1, 1>> /\ Len(elements[k]) = 1
        <4>1. i \in 1..Len(elements[k]) /\ registered'[k][i] = <<allocation[k], i>>
          BY <2>1, <3>1 DEF Registered, Place
        <4>2. Len(elements[k]) <= 1 /\ allocation[k] = Len(elements[k])
          BY <2>2 DEF AtMostOne
        <4>3. i = 1 /\ Len(elements[k]) = 1
          BY <2>0, <3>1, <4>1, <4>2, Zenon
        <4> QED BY <4>1, <4>2, <4>3
      <3> QED BY <2>1, <2>2, <3>2 DEF AtMostOne, AllOf
    <2> QED BY <2>1, <2>2 DEF SafeInv
  <1>4. ASSUME NEW k \in Kind, NEW pointer, Known(k, pointer), Uses(k, pointer) PROVE SafeInv'
    <2>1. handed' = handed
      BY <1>4 DEF Uses, Undefined, Update
    <2>2. CASE \E j \in Kind : Len(handed[j]) > 1
      BY <2>1, <2>2 DEF SafeInv
    <2>3. CASE ~undefined /\ \A j \in Kind : AtMostOne(j)
      <3>1. ~undefined' /\ AtMostOne(k)' /\ \A j \in Kind \ {k} : AtMostOne(j) => AtMostOne(j)'
        BY <1>4, <2>3, UseFirst
      <3> QED BY <2>3, <3>1 DEF SafeInv
    <2> QED BY <2>2, <2>3 DEF SafeInv
  <1> QED BY <1>1, <1>2, <1>3, <1>4, UseCases

\* The vectors are well typed, and safe while they have at most one element each.
LEMMA SafeInvariant ==
  StorageSpec => [](Types /\ SafeInv)
<1>1. StorageInit => Types /\ SafeInv
  <2> SUFFICES ASSUME StorageInit PROVE Types /\ SafeInv
    OBVIOUS
  <2>1. Len(<<>>) = 0 /\ DOMAIN <<>> = {} /\ 1..0 = {}
    OBVIOUS
  <2>2. ~undefined
    BY DEF StorageInit
  <2>3. ASSUME NEW k \in Kind PROVE AtMostOne(k)
    <3>1. /\ elements[k] = <<>> /\ handed[k] = <<>> /\ registered[k] = <<>>
          /\ capacity[k] = 0 /\ allocation[k] = 0
      BY DEF StorageInit
    <3> QED BY <2>1, <3>1 DEF AtMostOne
  <2> QED BY <2>2, <2>3, TypesInit DEF SafeInv
<1>2. Types /\ SafeInv /\ [StorageNext]_storage_vars => Types' /\ SafeInv'
  BY TypesStep, SafeStep
<1> QED
  BY <1>1, <1>2, PTL DEF StorageSpec

(***************************************************************************)
(* An application that creates at most one publisher and one subscriber     *)
(* never uses memory that is gone, for every queue capacity: in whatever    *)
(* order it creates, connects, publishes and spins, none of these calls     *)
(* meets a stale pointer.                                                   *)
(***************************************************************************)
THEOREM OneOfEachStaysSafe == StorageSpec => []OneOfEachIsSafe
<1>1. SafeInv => OneOfEachIsSafe
  BY DEF SafeInv, OneOfEachIsSafe
<1> QED
  BY <1>1, SafeInvariant, PTL
=============================================================================
