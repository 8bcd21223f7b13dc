------------------------------ MODULE Programs ------------------------------
(***************************************************************************)
(* The programs that come with the library, as processes of PubSub:         *)
(*                                                                         *)
(*  demo_pub   publish(), spin_while_work(), sleep, again                   *)
(*  demo_sub   spin()                                                       *)
(*  generator  of the benchmark: publish a ping, then spin_once() until the *)
(*             period is over; its callback files the latency of every pong *)
(*  reflector  of the benchmark: spin(); its callback publishes the pong    *)
(*             while spin_once() is under way                               *)
(*                                                                         *)
(* Every one of them creates its publisher, if any, before its subscriber;  *)
(* the benchmark gives both the same priority.                              *)
(* A latency is filed as the ping it was measured with.  Calls into the     *)
(* network may fail here; the datagrams themselves arrive, in order.        *)
(***************************************************************************)
EXTENDS PubSub

CONSTANTS
  Program,        \* Program[n], which program process n runs
  Launch,         \* the sets of processes that may be started together
  StartAfter,     \* StartAfter[n], the processes n is started after
  PublishCount,   \* publish_count; 0 is for ever
  HistogramSize   \* histogram_size

ASSUME ProgramAssumption ==
  \A n \in Node :
    /\ Program[n] \in {"demo_pub", "demo_sub", "generator", "reflector"}
    /\ Len(Endpoint[n]) = IF Program[n] \in {"generator", "reflector"} THEN 2 ELSE 1
    /\ Program[n] = "demo_sub" \/ IsPub(n, 1)
    /\ Program[n] = "demo_pub" \/ IsSub(n, Len(Endpoint[n]))
    /\ \A e, f \in End(n) : Endpoint[n][e].priority = Endpoint[n][f].priority

VARIABLES
  launched,      \* the processes that are started, one of Launch
  app,           \* what the program does next: "publish", "spin" for a
                 \* spin_once(), "clock" for a look at the time, "exit"
  work_done,     \* the local variable of spin_once()
  m_counter,     \* publish() calls so far
  m_histograms   \* per generator, per reflector id, the latencies

program_vars == <<launched, app, work_done, m_counter, m_histograms>>
all_vars == <<vars, program_vars>>

Runs(program) == {n \in Node : Program[n] = program}
Spins(n) == Program[n] \in {"demo_sub", "reflector"}

ProgramsInit ==
  /\ Init
  /\ launched \in Launch
  /\ app = [n \in Node |-> IF Spins(n) THEN "spin" ELSE "publish"]
  /\ work_done = [n \in Node |-> FALSE]
  /\ m_counter = [n \in Node |-> 0]
  /\ m_histograms = [n \in Node |-> <<>>]

At(n, step) == pc[n] = "idle" /\ app[n] = step
Then(n, step) == app' = [app EXCEPT ![n] = step]
-----------------------------------------------------------------------------
\* A program that cannot connect ends.
Start(n) ==
  /\ pc[n] = "new" =>
       n \in launched /\ \A m \in StartAfter[n] \cap launched : Connected(m)
  /\ connect(n) \/ send_control(n) \/ receive_response(n)
  /\ UNCHANGED program_vars

\* The result of publish() is ignored.
Publish(n) ==
  /\ At(n, "publish")
  /\ m_counter[n] < MaxPublish
  /\ publish(n, 1) \/ (full(n, 1) /\ UNCHANGED node_vars)
  /\ m_counter' = [m_counter EXCEPT ![n] = @ + 1]
  /\ Then(n, "spin")
  /\ UNCHANGED <<launched, work_done, m_histograms>>

\* Only a message for a subscriber is work; an error is logged and ignored.
Queued(n) ==
  /\ to_node'[n] # to_node[n]
  /\ Head(to_node[n]).type = "Data"
  /\ Subscribers(n, Head(to_node[n]).topic_id) # {}

SpinOnce(n) ==
  /\ At(n, "spin")
  /\ SpinReceive(n)
  /\ work_done' = [work_done EXCEPT ![n] = Queued(n)]
  /\ UNCHANGED <<launched, app, m_counter, m_histograms>>

\* The generator's inner loop is left, by an error too.
NextPeriod(n) ==
  IF PublishCount # 0 /\ m_counter[n] >= PublishCount THEN "exit" ELSE "publish"

\* Mutant: spin_while_work() goes on until an error.
AfterSpinOnce_no_return(n, result) == IF result = "Error" THEN "exit" ELSE "spin"

\* What spin(), spin_while_work() and the generator do with a SpinOnceResult.
AfterSpinOnce(n, result) ==
  CASE Spins(n) -> IF result = "Error" THEN "exit" ELSE "spin"
    [] Program[n] = "demo_pub" ->
         (CASE result = "Success" -> "spin"
            [] result = "NoWork" -> "publish"
            [] result = "Error" -> "exit")
    [] Program[n] = "generator" -> IF result = "Error" THEN NextPeriod(n) ELSE "clock"

Send(n) ==
  /\ send_data(n, 1)
  /\ \/ /\ pc'[n] = "spin"
        /\ work_done' = [work_done EXCEPT ![n] = TRUE]
        /\ UNCHANGED app
     \/ /\ pc'[n] = "idle"
        /\ Then(n, AfterSpinOnce(n, "Error"))
        /\ UNCHANGED work_done
  /\ UNCHANGED <<launched, m_counter, m_histograms>>

\* A callback that has run is not work.
Return(n) ==
  /\ SpinReturn(n)
  /\ Then(n, AfterSpinOnce(n, IF work_done[n] THEN "Success" ELSE "NoWork"))
  /\ UNCHANGED <<launched, work_done, m_counter, m_histograms>>

\* The generator compares next_iteration_time with the clock.
SpinAgain(n) ==
  /\ At(n, "clock") /\ Then(n, "spin")
  /\ UNCHANGED <<vars, launched, work_done, m_counter, m_histograms>>
PeriodOver(n) ==
  /\ At(n, "clock") /\ Then(n, NextPeriod(n))
  /\ UNCHANGED <<vars, launched, work_done, m_counter, m_histograms>>
-----------------------------------------------------------------------------
test_callback(n) ==
  /\ Program[n] = "demo_sub"
  /\ run_callback(n, 1)
  /\ UNCHANGED program_vars

\* The reflector writes its id into the message it was shown; the rest of the header
\* stays, also when that message is a pong itself.
Header(message) == IF "ping" \in DOMAIN message THEN message.ping ELSE message

Pong(n, message) ==
  [node |-> n, end |-> 1, seq |-> published[n][1] + 1,
   ping |-> Header(message), reflector_id |-> m_node_id[n]]

\* Mutant: the callback publishes what it was shown the time before.
LastPing(n) == delivered[n][2][Len(delivered[n][2])]
ReflectedLate(n) == IF delivered[n][2] = <<>> THEN Head(queue[n][2]) ELSE LastPing(n)
Reflected(n) == Head(queue[n][2])

ping_callback(n) ==
  /\ Program[n] = "reflector"
  /\ ShowFront(n, 2)
  /\ queue' = [queue EXCEPT
       ![n][1] = IF full(n, 1) THEN @ ELSE Append(@, Pong(n, Reflected(n))),
       ![n][2] = Tail(@)]
  /\ published' = [published EXCEPT ![n][1] = IF full(n, 1) THEN @ ELSE @ + 1]
  /\ UNCHANGED program_vars

\* Histogram::add refuses a value when m_values is used up.
add(values, value) == IF Len(values) < HistogramSize THEN Append(values, value) ELSE values

add_latency(histograms, reflector_id, value) ==
  [r \in DOMAIN histograms \cup {reflector_id} |->
     LET values == IF r \in DOMAIN histograms THEN histograms[r] ELSE <<>>
     IN  IF r = reflector_id THEN add(values, value) ELSE values]

\* generator_id is never looked at.
pong_callback(n) ==
  LET pong == Head(queue[n][2])
  IN  /\ Program[n] = "generator"
      /\ run_callback(n, 2)
      /\ m_histograms' = [m_histograms EXCEPT ![n] = add_latency(@, pong.reflector_id, pong.ping)]
      /\ UNCHANGED <<launched, app, work_done, m_counter>>

ProgramStep(n) ==
  /\ \/ Start(n) \/ Publish(n) \/ SpinOnce(n) \/ Send(n) \/ Return(n)
     \/ SpinAgain(n) \/ PeriodOver(n)
     \/ test_callback(n) \/ ping_callback(n) \/ pong_callback(n)
  /\ UNCHANGED broker_vars

ProgramsNext ==
  \/ \E n \in Node : ProgramStep(n)
  \/ BrokerSpin /\ UNCHANGED program_vars

ProgramsSpec == ProgramsInit /\ [][ProgramsNext]_all_vars

(***************************************************************************)
(* Every process runs, and the clock of a generator advances: it cannot     *)
(* find its period unfinished for ever.                                     *)
(***************************************************************************)
ProgramsFairSpec ==
  /\ ProgramsSpec
  /\ WF_all_vars(BrokerSpin /\ UNCHANGED program_vars)
  /\ \A n \in Node : WF_all_vars(ProgramStep(n))
  /\ \A n \in Runs("generator") : SF_all_vars(PeriodOver(n))
-----------------------------------------------------------------------------
(***************************************************************************)
(* Between two spin_once() calls of a program, when it may publish next or  *)
(* has nothing to do, its publisher has no more messages queued than sends  *)
(* have failed.  That is why the programs may ignore what publish()         *)
(* returns, and why a pong leaves in the pass that made it: spin_once()     *)
(* serves the subscribers of a priority before its publishers.              *)
(***************************************************************************)
BacklogIsFailedSends ==
  \A n \in Node :
    /\ Program[n] # "demo_sub"
    /\ At(n, "publish") \/ At(n, "clock") \/ (Spins(n) /\ At(n, "spin"))
    => Len(queue[n][1]) <= faults

(***************************************************************************)
(* The pongs that a generator is shown of one reflector answer pings of     *)
(* this generator that this reflector was shown, each once, in the order of *)
(* the pings and without a gap; and the histogram of that reflector holds   *)
(* the latencies of the first of them, up to histogram_size.                *)
(***************************************************************************)
PongsOf(n, r) == SelectSeq(delivered[n][2], LAMBDA pong : pong.reflector_id = r)

HistogramFaithful ==
  \A n \in Runs("generator") : \A r \in DOMAIN m_histograms[n] :
    LET pongs == PongsOf(n, r)
        values == m_histograms[n][r]
    IN  /\ Len(values) = Min({HistogramSize, Len(pongs)})
        /\ \A i \in DOMAIN values : values[i] = pongs[i].ping
        /\ \A i \in DOMAIN pongs :
             /\ pongs[i].ping.node = n
             /\ pongs[i].ping.seq = pongs[1].ping.seq + i - 1
             /\ \E m \in Runs("reflector") : m_node_id[m] = r
                                 /\ pongs[i].ping \in Range(delivered[m][2])

(***************************************************************************)
(* spin_while_work() of the demo publisher returns, so that it publishes    *)
(* again, and a benchmark generator comes to its end.                       *)
(***************************************************************************)
LoopsReturn ==
  /\ \A n \in Runs("demo_pub") : At(n, "spin") ~> At(n, "publish") \/ At(n, "exit")
  /\ PublishCount # 0 => \A n \in Runs("generator") : At(n, "publish") ~> At(n, "exit")
=============================================================================
