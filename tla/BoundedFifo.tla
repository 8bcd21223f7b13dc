---------------------------- MODULE BoundedFifo ----------------------------
(***************************************************************************)
(* What a crps::MessageQueue promises its owner (a Publisher or a           *)
(* Subscriber): a first-in-first-out queue of message bodies that refuses a *)
(* push exactly when Capacity messages are queued, and a pop exactly when   *)
(* none is.  The front message may be edited in place, because get() hands  *)
(* out a mutable pointer to it.  Buffers do not appear here.                *)
(***************************************************************************)
EXTENDS Naturals, Sequences

CONSTANTS Body,      \* message bodies
          Capacity   \* message_queue_capacity

VARIABLES items,     \* the queued bodies, oldest first
          ret        \* what the last push() or pop() returned

fifoVars == <<items, ret>>

Init == items = <<>> /\ ret = TRUE

Push(b) == /\ Len(items) < Capacity
           /\ items' = Append(items, b)
           /\ ret' = TRUE

RefusePush == Len(items) = Capacity /\ ret' = FALSE /\ UNCHANGED items

Pop == items # <<>> /\ items' = Tail(items) /\ ret' = TRUE

RefusePop == items = <<>> /\ ret' = FALSE /\ UNCHANGED items

EditFront(b) == /\ items # <<>>
                /\ items' = [items EXCEPT ![1] = b]
                /\ UNCHANGED ret

Next == \/ \E b \in Body : Push(b) \/ EditFront(b)
        \/ RefusePush \/ Pop \/ RefusePop

Spec == Init /\ [][Next]_fifoVars
=============================================================================
