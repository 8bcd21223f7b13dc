---------------------------- MODULE NodeStorage ----------------------------
(***************************************************************************)
(* Where the Publisher and Subscriber objects of a Node live, and who holds *)
(* pointers to them and to the buffers of their message queues.             *)
(*                                                                         *)
(* m_publishers and m_subscribers are vectors: a create_ call that finds    *)
(* its vector full brings every element to a new allocation.  MessageQueue  *)
(* holds a std::queue, whose move constructor may throw in libstdc++, the   *)
(* library of the Linux build, so the elements are copied and the old ones  *)
(* destroyed: a copied queue has new buffers in m_buffers, but the pointers *)
(* in m_free_buffers and m_queue are copied as they are.                    *)
(*                                                                         *)
(* Using memory that is gone is undefined behaviour; the model stops there. *)
(***************************************************************************)
EXTENDS Naturals, Sequences

CONSTANTS
  QueueCapacity,  \* message_queue_capacity
  MaxCreate       \* bound on the create_ calls per vector

ASSUME CapacityOfQueues == QueueCapacity \in Nat

Kind == {"publisher", "subscriber"}

VARIABLES
  allocation,  \* per vector, which allocation it is in
  capacity,    \* per vector, its capacity()
  elements,    \* per vector, the objects: their buffers and queue pointers
  handed,      \* per vector, the pointers create_ returned
  registered,  \* per vector, the pointers in m_topics and m_topics_by_prio
  undefined    \* memory that is gone was used

storage_vars == <<allocation, capacity, elements, handed, registered, undefined>>

\* A buffer is named by the object that allocated it and its number there.
Buffers(home) == {home} \X (1..QueueCapacity)

\* The constructors of Publisher, Subscriber and MessageQueue.
Construct(home) ==
  [home |-> home,
   m_free_buffers |-> [b \in 1..QueueCapacity |-> <<home, b>>],
   m_queue |-> <<>>]

\* The copy of an object: buffers of its own, the pointers of the original.
Relocated(object, home) == [object EXCEPT !.home = home]

StorageInit ==
  /\ allocation = [k \in Kind |-> 0]
  /\ capacity = [k \in Kind |-> 0]
  /\ elements = [k \in Kind |-> <<>>]
  /\ handed = [k \in Kind |-> <<>>]
  /\ registered = [k \in Kind |-> <<>>]
  /\ undefined = FALSE

\* A pointer to an element is its place; it is good as long as the allocation is.
Place(k, i) == <<allocation[k], i>>
Live(k, pointer) == pointer[1] = allocation[k] /\ pointer[2] <= Len(elements[k])
Object(k, pointer) == elements[k][pointer[2]]

\* create_publisher and create_subscriber: emplace_back, then &back().
create(k) ==
  LET full == Len(elements[k]) = capacity[k]
      at == IF full THEN allocation[k] + 1 ELSE allocation[k]
      kept == [i \in DOMAIN elements[k] |->
                 IF full THEN Relocated(elements[k][i], <<k, at, i>>) ELSE elements[k][i]]
      new == Len(elements[k]) + 1
  IN
  /\ ~undefined
  /\ Len(handed[k]) < MaxCreate
  /\ allocation' = [allocation EXCEPT ![k] = at]
  /\ capacity' = [capacity EXCEPT ![k] = IF ~full THEN @ ELSE IF @ = 0 THEN 1 ELSE 2 * @]
  /\ elements' = [elements EXCEPT ![k] = Append(kept, Construct(<<k, at, new>>))]
  /\ handed' = [handed EXCEPT ![k] = Append(@, <<at, new>>)]
  /\ UNCHANGED <<registered, undefined>>

\* Mutant: the loops of connect() run over copies of the elements.
PlaceOfCopy(k, i) == <<allocation[k] + 1, i>>
Registered(k, i) == Place(k, i)

\* connect() registers the address of every element.
connect_endpoints ==
  /\ ~undefined
  /\ registered = [k \in Kind |-> <<>>]
  /\ registered' = [k \in Kind |-> [i \in DOMAIN elements[k] |-> Registered(k, i)]]
  /\ UNCHANGED <<allocation, capacity, elements, handed, undefined>>

\* push writes the buffer it takes; it must be one of the object's own.
Push(object) ==
  [object EXCEPT !.m_queue = Append(@, Head(object.m_free_buffers)),
                 !.m_free_buffers = Tail(@)]
Pop(object) ==
  [object EXCEPT !.m_free_buffers = <<Head(object.m_queue)>> \o @,
                 !.m_queue = Tail(@)]

Update(k, pointer, object) ==
  /\ elements' = [elements EXCEPT ![k][pointer[2]] = object]
  /\ UNCHANGED <<allocation, capacity, handed, registered, undefined>>
Undefined == undefined' = TRUE /\ UNCHANGED <<allocation, capacity, elements, handed, registered>>

\* queue_message through a registered pointer, publish through a handed-out one.
push_message(k, pointer) ==
  /\ ~undefined
  /\ \/ ~Live(k, pointer) /\ Undefined
     \/ /\ Live(k, pointer)
        /\ LET object == Object(k, pointer)
           IN  /\ object.m_free_buffers # <<>>
               /\ IF Head(object.m_free_buffers) \in Buffers(object.home)
                  THEN Update(k, pointer, Push(object)) ELSE Undefined

\* spin_once() reads the front of a queue in send_data or in a callback and pops it.
pop_message(k, pointer) ==
  /\ ~undefined
  /\ \/ ~Live(k, pointer) /\ Undefined
     \/ /\ Live(k, pointer)
        /\ LET object == Object(k, pointer)
           IN  /\ object.m_queue # <<>>
               /\ IF Head(object.m_queue) \in Buffers(object.home)
                  THEN Update(k, pointer, Pop(object)) ELSE Undefined

publish == \E i \in DOMAIN handed["publisher"] : push_message("publisher", handed["publisher"][i])
queue_message ==
  \E i \in DOMAIN registered["subscriber"] : push_message("subscriber", registered["subscriber"][i])
spin_once == \E k \in Kind : \E i \in DOMAIN registered[k] : pop_message(k, registered[k][i])

StorageNext == (\E k \in Kind : create(k)) \/ connect_endpoints \/ publish \/ queue_message \/ spin_once

StorageSpec == StorageInit /\ [][StorageNext]_storage_vars
-----------------------------------------------------------------------------
(***************************************************************************)
(* The pointers that create_publisher returned, those that connect() stored *)
(* and those inside the message queues are never used after what they point *)
(* to is gone, in whatever order an application creates, connects,          *)
(* publishes and spins.                                                     *)
(***************************************************************************)
UsesLiveMemory == ~undefined

(***************************************************************************)
(* An application that creates at most one publisher and one subscriber, as *)
(* all the programs of the repository do, is safe: only growing a vector    *)
(* that is in use makes a pointer to it, handed out or registered, stale.   *)
(***************************************************************************)
OneOfEachIsSafe == undefined => \E k \in Kind : Len(handed[k]) > 1
=============================================================================
