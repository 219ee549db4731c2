--------------------------- MODULE HashPool_proofs ---------------------------
(***************************************************************************)
(* Proofs about HashPool, for every number of resources, every rank, every *)
(* set of resources that cannot be hashed and every GOMAXPROCS.            *)
(***************************************************************************)
EXTENDS HashPool, SequenceLemmas, FiniteSetTheorems

-----------------------------------------------------------------------------
(* The pool. *)

\* Between one and four workers.
LEMMA PoolSizeBounds == PoolSize \in 1..4
BY ProcsAssumption DEF PoolSize

\* A pool with busy workers is a finite set of them.
LEMMA BusyFinite ==
  /\ IsFiniteSet(Busy)
  /\ Cardinality(Busy) \in Nat
  /\ Busy = {} <=> Cardinality(Busy) = 0
<1>1. IsFiniteSet(Workers)
  BY PoolSizeBounds, FS_Interval DEF Workers
<1>2. Busy \in SUBSET Workers
  BY DEF Busy
<1>3. IsFiniteSet(Busy)
  BY <1>1, <1>2, FS_Subset
<1>4. QED
  BY <1>3, FS_CardinalityType, FS_EmptySet

-----------------------------------------------------------------------------
(* The inductive invariant. *)

\* How the position of the caller, the two closed flags, the workers' exits,
\* the loop index and the returned values hang together.
PhaseInv ==
  /\ jobsClosed <=> pc \notin {"loop", "send"}
  /\ resultsClosed <=> pc \in {"collect", "returned"}
  /\ pc = "send" => next <= N
  /\ exited # {} => jobsClosed
  /\ \A w \in exited : item[w] = 0
  /\ resultsClosed => exited = Workers
  /\ jobsClosed /\ next <= N => ctxDone
  /\ pc # "returned" => plans = <<>> /\ diags = {}
  /\ pc = "returned" =>
       /\ results = <<>>
       /\ plans = PlansOf(1..(next - 1))
       /\ \E c \in BOOLEAN : /\ next <= N => c
                             /\ c => ctxDone
                             /\ diags = DiagsOf(1..(next - 1), c)

IInv == TypeOK /\ PhaseInv /\ EachJobOnce


LEMMA InitIInv == Init => IInv
<1> SUFFICES ASSUME Init PROVE IInv
  OBVIOUS
<1>1. TypeOK
  <2>1. N \in Nat /\ <<>> \in Seq(Resources)
    BY ResourcesAssumption
  <2>2. next \in 1..(N + 1) /\ item \in [Workers -> 0..N]
    BY <2>1 DEF Init
  <2>3. QED
    BY <2>1, <2>2 DEF Init, TypeOK
<1>2. PhaseInv
  BY DEF Init, PhaseInv
<1>3. EachJobOnce
  <2>1. Busy = {}
    BY DEF Init, Busy
  <2>2. Cardinality(Busy) = 0
    BY <2>1, FS_EmptySet
  <2>3. {item[w] : w \in Busy} = {} /\ 1..(next - 1) = {}
    BY <2>1 DEF Init
  <2>4. QED
    <3>1. Range(results) = {} /\ Range(ordered) = {}
      BY RangeEmpty DEF Init
    <3>2. Len(results) = 0 /\ Len(ordered) = 0 /\ next = 1
      BY DEF Init
    <3>3. {item[w] : w \in Busy} \cup Range(results) \cup Range(ordered)
            = 1..(next - 1)
      BY <2>3, <3>1
    <3>4. Cardinality(Busy) + Len(results) + Len(ordered) = next - 1
      BY <2>2, <3>2
    <3>5. QED
      BY <3>3, <3>4 DEF EachJobOnce
<1>4. QED
  BY <1>1, <1>2, <1>3 DEF IInv

\* A worker that takes job n becomes busy with it.
LEMMA BusyReceive ==
  ASSUME TypeOK, NEW w \in Workers, item[w] = 0, next # 0,
         item' = [item EXCEPT ![w] = next]
  PROVE  /\ Cardinality(Busy') = Cardinality(Busy) + 1
         /\ {item'[v] : v \in Busy'} = {item[v] : v \in Busy} \cup {next}
<1>1. Busy' = Busy \cup {w} /\ w \notin Busy
  BY DEF Busy, TypeOK
<1>2. Cardinality(Busy') = Cardinality(Busy) + 1
  BY <1>1, FS_AddElement, BusyFinite
<1>3. item'[w] = next /\ \A v \in Busy : item'[v] = item[v]
  BY <1>1 DEF Busy, TypeOK
<1>4. QED
  BY <1>1, <1>2, <1>3

\* A worker that has sent its result is busy no more.
LEMMA BusyPublish ==
  ASSUME TypeOK, NEW w \in Workers, item[w] # 0,
         item' = [item EXCEPT ![w] = 0]
  PROVE  /\ Cardinality(Busy') = Cardinality(Busy) - 1
         /\ {item[v] : v \in Busy} = {item'[v] : v \in Busy'} \cup {item[w]}
<1>1. Busy' = Busy \ {w} /\ w \in Busy
  BY DEF Busy, TypeOK
<1>2. Cardinality(Busy') = Cardinality(Busy) - 1
  BY <1>1, FS_RemoveElement, BusyFinite
<1>3. \A v \in Busy' : item'[v] = item[v]
  BY <1>1 DEF Busy, TypeOK
<1>4. QED
  BY <1>1, <1>2, <1>3

\* In every reachable state a busy worker leaves room in the results channel.
LEMMA RoomForResults == IInv => ResultsNeverBlock
<1> SUFFICES ASSUME IInv, Busy # {} PROVE Len(results) < Capacity
  BY DEF ResultsNeverBlock
<1>1. Cardinality(Busy) \in Nat \ {0}
  BY BusyFinite
<1>2. Len(results) \in Nat /\ Len(ordered) \in Nat
  BY LenProperties DEF IInv, TypeOK
<1>3. next - 1 <= N /\ next \in Int /\ N \in Int
  BY ResourcesAssumption DEF IInv, TypeOK
<1>4. Cardinality(Busy) + Len(results) + Len(ordered) = next - 1
  BY DEF IInv, EachJobOnce
<1>5. QED
  BY <1>1, <1>2, <1>3, <1>4 DEF Capacity

\* Once the results channel is closed and empty, the slice holds exactly the
\* resources that were handed out.
LEMMA AllCollected ==
  ASSUME IInv, resultsClosed, results = <<>>
  PROVE  Range(ordered) = 1..(next - 1)
<1>1. Busy = {}
  BY DEF IInv, PhaseInv, Busy
<1>2. {item[w] : w \in Busy} = {} /\ Range(results) = {}
  BY <1>1, RangeEmpty
<1>3. QED
  BY <1>2 DEF IInv, EachJobOnce

LEMMA NextIInv == IInv /\ [Next]_vars => IInv'
<1> SUFFICES ASSUME IInv, [Next]_vars PROVE IInv'
  OBVIOUS
<1> USE DEF IInv
<1>n. N \in Nat /\ next \in 1..(N + 1)
  BY ResourcesAssumption DEF TypeOK
<1>1. CASE Cancel
  <2>1. TypeOK'
    BY <1>1 DEF Cancel, TypeOK
  <2>2. PhaseInv'
    BY <1>1 DEF Cancel, PhaseInv, DiagsOf
  <2>3. EachJobOnce'
    BY <1>1 DEF Cancel, EachJobOnce, Busy
  <2>4. QED
    BY <2>1, <2>2, <2>3
<1>2. CASE Offer
  <2>1. TypeOK'
    BY <1>2 DEF Offer, TypeOK
  <2>2. PhaseInv'
    BY <1>2 DEF Offer, PhaseInv
  <2>3. EachJobOnce'
    BY <1>2 DEF Offer, EachJobOnce, Busy
  <2>4. QED
    BY <2>1, <2>2, <2>3
<1>3. CASE CloseJobs
  <2>1. TypeOK'
    BY <1>3 DEF CloseJobs, TypeOK
  <2>2. PhaseInv'
    BY <1>3, <1>n DEF CloseJobs, PhaseInv
  <2>3. EachJobOnce'
    BY <1>3 DEF CloseJobs, EachJobOnce, Busy
  <2>4. QED
    BY <2>1, <2>2, <2>3
<1>4. CASE CloseResults
  <2>1. TypeOK'
    BY <1>4 DEF CloseResults, TypeOK
  <2>2. PhaseInv'
    BY <1>4 DEF CloseResults, PhaseInv
  <2>3. EachJobOnce'
    BY <1>4 DEF CloseResults, EachJobOnce, Busy
  <2>4. QED
    BY <2>1, <2>2, <2>3
<1>5. CASE Drain
  <2>1. /\ Range(ordered') = Range(ordered) \cup {Head(results)}
        /\ Range(results) = {Head(results)} \cup Range(results')
        /\ Len(results') = Len(results) - 1
        /\ Len(ordered') = Len(ordered) + 1
        /\ Len(results) \in Nat /\ Len(ordered) \in Nat
        /\ results' \in Seq(Resources) /\ ordered' \in Seq(Resources)
    BY <1>5, RangeAppend, RangeHeadTail, HeadTailProperties, LenProperties
    DEF Drain, TypeOK
  <2>2. TypeOK'
    BY <1>5, <2>1 DEF Drain, TypeOK
  <2>3. PhaseInv'
    BY <1>5 DEF Drain, PhaseInv
  <2>4. Busy' = Busy /\ item' = item /\ next' = next
    BY <1>5 DEF Drain, Busy
  <2>5. Cardinality(Busy) \in Nat
    BY BusyFinite
  <2>6. EachJobOnce'
    <3>1. {item'[w] : w \in Busy'} \cup Range(results') \cup Range(ordered')
            = 1..(next' - 1)
      BY <2>1, <2>4 DEF EachJobOnce
    <3>2. Cardinality(Busy') + Len(results') + Len(ordered') = next' - 1
      BY <2>1, <2>4, <2>5, <1>n DEF EachJobOnce
    <3>3. QED
      BY <3>1, <3>2 DEF EachJobOnce
  <2>7. QED
    BY <2>2, <2>3, <2>6
<1>6. CASE Assemble
  <2>1. TypeOK'
    BY <1>6 DEF Assemble, TypeOK
  <2>2. Range(ordered) = 1..(next - 1)
    BY <1>6, AllCollected DEF Assemble
  <2>3. PhaseInv'
    <3>1. jobsClosed /\ (next <= N => ctxDone)
      BY <1>6 DEF Assemble, PhaseInv
    <3>2. ctxDone \in BOOLEAN
      BY DEF TypeOK
    <3>3. /\ plans' = PlansOf(1..(next - 1))
          /\ diags' = DiagsOf(1..(next - 1), ctxDone)
      BY <1>6, <2>2 DEF Assemble
    <3>4. \E c \in BOOLEAN : /\ next' <= N => c
                             /\ c => ctxDone'
                             /\ diags' = DiagsOf(1..(next' - 1), c)
      BY <1>6, <3>1, <3>2, <3>3 DEF Assemble
    <3>5. QED
      BY <1>6, <3>3, <3>4 DEF Assemble, PhaseInv
  <2>4. EachJobOnce'
    BY <1>6 DEF Assemble, EachJobOnce, Busy
  <2>5. QED
    BY <2>1, <2>3, <2>4
<1>7. ASSUME NEW w \in Workers, Receive(w)
      PROVE  IInv'
  <2>1. TypeOK'
    BY <1>7, <1>n DEF Receive, TypeOK, PhaseInv
  <2>2. PhaseInv'
    BY <1>7 DEF Receive, PhaseInv, TypeOK
  <2>3. EachJobOnce'
    <3>1. /\ Cardinality(Busy') = Cardinality(Busy) + 1
          /\ {item'[v] : v \in Busy'} = {item[v] : v \in Busy} \cup {next}
      <4>1. next # 0
        BY <1>n
      <4>2. QED
        BY <1>7, <4>1, BusyReceive DEF Receive
    <3>2. next' = next + 1 /\ results' = results /\ ordered' = ordered
      BY <1>7 DEF Receive
    <3>3. 1..(next' - 1) = (1..(next - 1)) \cup {next}
      BY <3>2, <1>n
    <3>4. /\ Cardinality(Busy) \in Nat
          /\ Len(results) \in Nat /\ Len(ordered) \in Nat
      BY BusyFinite, LenProperties DEF TypeOK
    <3>5. {item'[v] : v \in Busy'} \cup Range(results') \cup Range(ordered')
            = 1..(next' - 1)
      BY <3>1, <3>2, <3>3 DEF EachJobOnce
    <3>6. Cardinality(Busy') + Len(results') + Len(ordered') = next' - 1
      BY <3>1, <3>2, <3>4, <1>n DEF EachJobOnce
    <3>7. QED
      BY <3>5, <3>6 DEF EachJobOnce
  <2>4. QED
    BY <2>1, <2>2, <2>3
<1>8. ASSUME NEW w \in Workers, Publish(w)
      PROVE  IInv'
  <2>1. item[w] \in Resources
    BY <1>8, <1>n DEF Publish, TypeOK, Resources
  <2>2. /\ Range(results') = Range(results) \cup {item[w]}
        /\ results' \in Seq(Resources)
        /\ Len(results') = Len(results) + 1
        /\ Len(results) \in Nat /\ Len(ordered) \in Nat
    BY <1>8, <2>1, RangeAppend, LenProperties DEF Publish, TypeOK
  <2>3. TypeOK'
    BY <1>8, <2>2, <1>n DEF Publish, TypeOK
  <2>4. PhaseInv'
    BY <1>8 DEF Publish, PhaseInv, TypeOK
  <2>5. EachJobOnce'
    <3>1. /\ Cardinality(Busy') = Cardinality(Busy) - 1
          /\ {item[v] : v \in Busy}
               = {item'[v] : v \in Busy'} \cup {item[w]}
      BY <1>8, BusyPublish DEF Publish
    <3>2. next' = next /\ ordered' = ordered
      BY <1>8 DEF Publish
    <3>3. Cardinality(Busy) \in Nat
      BY BusyFinite
    <3>4. {item'[v] : v \in Busy'} \cup Range(results') \cup Range(ordered')
            = 1..(next' - 1)
      BY <2>2, <3>1, <3>2 DEF EachJobOnce
    <3>5. Cardinality(Busy') + Len(results') + Len(ordered') = next' - 1
      BY <2>2, <3>1, <3>2, <3>3, <1>n DEF EachJobOnce
    <3>6. QED
      BY <3>4, <3>5 DEF EachJobOnce
  <2>6. QED
    BY <2>3, <2>4, <2>5
<1>9. ASSUME NEW w \in Workers, Exit(w)
      PROVE  IInv'
  <2>1. TypeOK'
    BY <1>9 DEF Exit, TypeOK
  <2>2. PhaseInv'
    BY <1>9 DEF Exit, PhaseInv, TypeOK
  <2>3. EachJobOnce'
    BY <1>9 DEF Exit, EachJobOnce, Busy
  <2>4. QED
    BY <2>1, <2>2, <2>3
<1>10. CASE UNCHANGED vars
  BY <1>10 DEF vars, TypeOK, PhaseInv, EachJobOnce, Busy
<1>11. QED
  BY <1>1, <1>2, <1>3, <1>4, <1>5, <1>6, <1>7, <1>8, <1>9, <1>10
  DEF Next, Caller, Worker, Returned

LEMMA Invariance == SafeSpec => []IInv
<1>1. Init => IInv
  BY InitIInv
<1>2. IInv /\ [Next]_vars => IInv'
  BY NextIInv
<1>3. QED
  BY <1>1, <1>2, PTL DEF SafeSpec

-----------------------------------------------------------------------------
(* The theorems. *)

\* hashResources keeps its variables in their types.
THEOREM TypeCorrect == SafeSpec => []TypeOK
<1>1. IInv => TypeOK
  BY DEF IInv
<1>2. QED
  BY <1>1, Invariance, PTL

\* No job is lost or handed to two workers between the range loop, the pool
\* and the slice the results end up in.
THEOREM JobsConserved == SafeSpec => []EachJobOnce
<1>1. IInv => EachJobOnce
  BY DEF IInv
<1>2. QED
  BY <1>1, Invariance, PTL

\* The results channel never holds a worker up, so that waiting for the
\* workers before receiving the first result cannot deadlock.
THEOREM NoWorkerBlocked == SafeSpec => []ResultsNeverBlock
<1>1. IInv => ResultsNeverBlock
  BY RoomForResults
<1>2. QED
  BY <1>1, Invariance, PTL

\* close(results) never meets a worker that still has to send.
THEOREM ClosedAfterLastSend == SafeSpec => []NoSendOnClosed
<1>1. IInv => NoSendOnClosed
  BY DEF IInv, PhaseInv, NoSendOnClosed, Busy
<1>2. QED
  BY <1>1, Invariance, PTL

\* The returned plans are truncated only when DCOMP001 says so; otherwise
\* they are those of a sequential loop over every resource.
THEOREM NoSilentTruncation == SafeSpec => []CompleteUnlessCancelled
<1>1. IInv => CompleteUnlessCancelled
  <2> SUFFICES ASSUME IInv, pc = "returned", CancelDiag \notin diags
               PROVE  /\ plans = PlansOf(Resources)
                      /\ diags = DiagsOf(Resources, FALSE)
    BY DEF CompleteUnlessCancelled
  <2>1. PICK c \in BOOLEAN : /\ next <= N => c
                            /\ diags = DiagsOf(1..(next - 1), c)
    BY DEF IInv, PhaseInv
  <2>2. c = FALSE
    BY <2>1 DEF DiagsOf
  <2>3. next = N + 1
    BY <2>1, <2>2, ResourcesAssumption DEF IInv, TypeOK
  <2>4. 1..(next - 1) = Resources
    BY <2>3, ResourcesAssumption DEF Resources
  <2>5. QED
    BY <2>1, <2>2, <2>4 DEF IInv, PhaseInv
<1>2. QED
  BY <1>1, Invariance, PTL

\* A cancelled context stops the producer: only the send it is already
\* blocked in may still hand a resource out.
THEOREM CancellationBound == SafeSpec => CancelStopsProducer
<1>1. [Next]_vars =>
       [ctxDone /\ pc # "send" => next' = next /\ pc' # "send"]_vars
  BY DEF Next, Caller, Worker, Returned, Cancel, Offer, CloseJobs,
         CloseResults, Drain, Assemble, Receive, Publish, Exit, vars
<1>2. QED
  BY <1>1, PTL DEF SafeSpec, CancelStopsProducer

\* The goroutines and channels implement the one-step contract: the answer
\* appears at once and is that of a sequential loop (safety part; liveness
\* is left to the model checker).
THEOREM PoolImplementsContract == SafeSpec => Contract!SafeSpec
<1>1. Init => Contract!Init
  BY DEF Init, Contract!Init, Contract!NoAnswer
<1>2. IInv /\ IInv' /\ [Next]_vars => [Contract!Next]_(Contract!cvars)
  <2> SUFFICES ASSUME IInv, IInv', [Next]_vars
               PROVE  [Contract!Next]_(Contract!cvars)
    OBVIOUS
  <2>1. CASE Cancel
    BY <2>1 DEF Cancel, Contract!Next, Contract!Cancel
  <2>2. CASE Offer \/ CloseJobs \/ CloseResults \/ Drain
    <3>1. /\ pc # "returned" /\ pc' # "returned"
          /\ UNCHANGED <<ctxDone, plans, diags>>
      BY <2>2 DEF Offer, CloseJobs, CloseResults, Drain
    <3>2. QED
      BY <3>1 DEF Contract!cvars
  <2>3. CASE Assemble
    <3>1. Range(ordered) = 1..(next - 1)
      BY <2>3, AllCollected DEF Assemble
    <3>2. N \in Nat /\ next - 1 \in 0..N
      BY ResourcesAssumption DEF IInv, TypeOK
    <3>3. next - 1 < N => ctxDone
      BY <2>3, <3>2, ResourcesAssumption DEF Assemble, IInv, PhaseInv, TypeOK
    <3>4. Contract!Return(next - 1)
      <4>1. /\ pc # "returned" /\ pc' = "returned" /\ ctxDone' = ctxDone
            /\ plans' = PlansOf(1..(next - 1))
            /\ diags' = DiagsOf(1..(next - 1), ctxDone)
        BY <2>3, <3>1 DEF Assemble
      <4>2. QED
        BY <4>1, <3>3 DEF Contract!Return
    <3>5. QED
      BY <3>2, <3>4 DEF Contract!Next
  <2>4. CASE (\E w \in Workers : Worker(w)) \/ Returned \/ UNCHANGED vars
    <3>1. /\ pc = "returned" <=> pc' = "returned"
          /\ UNCHANGED <<ctxDone, plans, diags>>
      BY <2>4 DEF Worker, Receive, Publish, Exit, Returned, vars
    <3>2. QED
      BY <3>1 DEF Contract!cvars
  <2>5. QED
    BY <2>1, <2>2, <2>3, <2>4 DEF Next, Caller
<1>3. QED
  BY <1>1, <1>2, Invariance, PTL DEF SafeSpec, Contract!SafeSpec
=============================================================================
