---------------------------- MODULE MessageQueue ----------------------------
(***************************************************************************)
(* crps::MessageQueue: a pool of Capacity buffers allocated once by the     *)
(* constructor.  push() takes the front of the free list, copies the        *)
(* message into it and queues the pointer; pop() gives the front buffer of  *)
(* the queue back to the front of the free list.  No buffer is ever         *)
(* allocated or freed afterwards, so full() is read off the free list and   *)
(* size() off the queue: the two agree only while no buffer is leaked or    *)
(* aliased.                                                                 *)
(*                                                                         *)
(* A buffer holds a packet header part and a message body.  Publisher       *)
(* pushes with p_header_data = nullptr, which leaves the header bytes of    *)
(* the recycled buffer as they were; Node::send_data fills them in place    *)
(* through the pointer get() returned.  A Subscriber callback may likewise  *)
(* write the body it is shown (benchmark ping_callback does).               *)
(***************************************************************************)
EXTENDS Naturals, Sequences

CONSTANTS Body,       \* message bodies
          Header,     \* packet headers
          NoHeader,   \* p_header_data = nullptr
          Capacity    \* message_queue_capacity

ASSUME CapacityAssumption == Capacity \in Nat
ASSUME HeaderAssumption == NoHeader \notin Header
ASSUME ZeroAssumption == Body # {} /\ Header # {}

VARIABLES m_buffers,       \* content of each buffer
          m_free_buffers,  \* free list, front first
          m_queue,         \* queued buffers, front first
          ret              \* what the last push() or pop() returned

queue_vars == <<m_buffers, m_free_buffers, m_queue, ret>>

Buffer == 1..Capacity

\* The zero bytes a new buffer is filled with.
ZeroBuffer == [header |-> CHOOSE h \in Header : TRUE,
               body   |-> CHOOSE b \in Body : TRUE]

QueueInit ==
  /\ m_buffers = [b \in Buffer |-> ZeroBuffer]
  /\ m_free_buffers = [i \in 1..Capacity |-> i]
  /\ m_queue = <<>>
  /\ ret = TRUE

empty == m_queue = <<>>
full == m_free_buffers = <<>>
get == Head(m_queue)

\* Mutant: the header is copied without the nullptr test.
push_unchecked_header(h, body) ==
  /\ ~full
  /\ m_buffers' = [m_buffers EXCEPT ![Head(m_free_buffers)] =
                     [header |-> h, body |-> body]]
  /\ m_queue' = Append(m_queue, Head(m_free_buffers))
  /\ m_free_buffers' = Tail(m_free_buffers)
  /\ ret' = TRUE

\* Mutant: the buffer stays at the front of the free list.
push_no_take(h, body) ==
  /\ ~full
  /\ LET buffer == Head(m_free_buffers)
     IN  /\ m_buffers' = [m_buffers EXCEPT ![buffer] =
                            [header |-> IF h = NoHeader THEN @.header ELSE h,
                             body   |-> body]]
         /\ m_queue' = Append(m_queue, buffer)
  /\ UNCHANGED m_free_buffers
  /\ ret' = TRUE

push(h, body) ==
  /\ ~full
  /\ LET buffer == Head(m_free_buffers)
     IN  /\ m_buffers' = [m_buffers EXCEPT ![buffer] =
                            [header |-> IF h = NoHeader THEN @.header ELSE h,
                             body   |-> body]]
         /\ m_queue' = Append(m_queue, buffer)
  /\ m_free_buffers' = Tail(m_free_buffers)
  /\ ret' = TRUE

push_full == full /\ ret' = FALSE /\ UNCHANGED <<m_buffers, m_free_buffers, m_queue>>

\* Mutant: the popped buffer is not given back.
pop_leaks ==
  /\ ~empty
  /\ m_queue' = Tail(m_queue)
  /\ ret' = TRUE
  /\ UNCHANGED <<m_buffers, m_free_buffers>>

pop ==
  /\ ~empty
  /\ m_free_buffers' = <<Head(m_queue)>> \o m_free_buffers
  /\ m_queue' = Tail(m_queue)
  /\ ret' = TRUE
  /\ UNCHANGED m_buffers

pop_empty == empty /\ ret' = FALSE /\ UNCHANGED <<m_buffers, m_free_buffers, m_queue>>

\* bp_fill_data_header on the pointer get() returned.
FillHeader(h) ==
  /\ ~empty
  /\ m_buffers' = [m_buffers EXCEPT ![get].header = h]
  /\ UNCHANGED <<m_free_buffers, m_queue, ret>>

\* A callback writes into the message it is shown.
WriteBody(body) ==
  /\ ~empty
  /\ m_buffers' = [m_buffers EXCEPT ![get].body = body]
  /\ UNCHANGED <<m_free_buffers, m_queue, ret>>

QueueNext ==
  \/ \E b \in Body, h \in Header \cup {NoHeader} : push(h, b)
  \/ push_full \/ pop \/ pop_empty
  \/ \E h \in Header : FillHeader(h)
  \/ \E b \in Body : WriteBody(b)

QueueSpec == QueueInit /\ [][QueueNext]_queue_vars
-----------------------------------------------------------------------------
\* Types.  A recycled buffer always holds a real header, also after a push that
\* got no p_header_data.
TypeOK ==
  /\ m_buffers \in [Buffer -> [header : Header, body : Body]]
  /\ m_free_buffers \in Seq(Buffer)
  /\ m_queue \in Seq(Buffer)
  /\ ret \in BOOLEAN

(***************************************************************************)
(* No buffer is queued twice, free twice, or both queued and free.  A push  *)
(* therefore never overwrites a message that is still waiting.              *)
(***************************************************************************)
NoAliasing ==
  /\ \A i, j \in 1..Len(m_queue) : m_queue[i] = m_queue[j] => i = j
  /\ \A i, j \in 1..Len(m_free_buffers) :
        m_free_buffers[i] = m_free_buffers[j] => i = j
  /\ \A i \in 1..Len(m_queue), j \in 1..Len(m_free_buffers) :
        m_queue[i] # m_free_buffers[j]

(***************************************************************************)
(* No buffer is lost: full() (free list empty) means that exactly Capacity  *)
(* messages are queued.                                                     *)
(***************************************************************************)
NoLeak == Len(m_queue) + Len(m_free_buffers) = Capacity

QueueInv == NoAliasing /\ NoLeak

\* The refinement mapping: the bodies of the queued buffers, in order.
Items == [i \in 1..Len(m_queue) |-> m_buffers[m_queue[i]].body]

Fifo == INSTANCE BoundedFifo WITH items <- Items

(***************************************************************************)
(* The pool of recycled buffers behaves as a bounded FIFO of bodies.        *)
(***************************************************************************)
ImplementsFifo == Fifo!Spec
=============================================================================
