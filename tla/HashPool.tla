------------------------------ MODULE HashPool ------------------------------
(***************************************************************************)
(* internal/compiler/compiler.go hashResources: a producer hands resources *)
(* to a pool of goroutines over an unbuffered channel, the goroutines put  *)
(* their results in a channel with room for all of them, and the producer  *)
(* closes the first channel, waits for the goroutines, closes the second   *)
(* and assembles what it finds there.  The context may be cancelled at any *)
(* moment by whoever owns it.                                              *)
(***************************************************************************)
EXTENDS ResourceHashing

CONSTANT
  Procs     (* runtime.GOMAXPROCS(0)                                      *)

ASSUME ProcsAssumption == Procs \in Int

\* The number of goroutines: GOMAXPROCS, at least 1 and at most 4.
PoolSize == IF Procs < 1 THEN 1 ELSE IF Procs > 4 THEN 4 ELSE Procs

Workers == 1..PoolSize

\* make(chan result, len(resources)): the places of the results channel.
Capacity_PoolSize == PoolSize
Capacity == N

VARIABLES
  ctxDone,        (* ctx.Err() # nil                                      *)
  pc,             (* where the calling goroutine is                       *)
  next,           (* the index the range loop is at                       *)
  item,           (* item[w]: the job worker w holds, 0 when it waits on  *)
                  (* the jobs channel                                     *)
  exited,         (* the workers that called wg.Done                      *)
  jobsClosed,     (* close(jobs) happened                                 *)
  results,        (* the results channel: indices of finished jobs, FIFO  *)
  resultsClosed,  (* close(results) happened                              *)
  ordered,        (* the slice the results are drained into               *)
  plans, diags    (* the two values returned                              *)

vars == <<ctxDone, pc, next, item, exited, jobsClosed, results,
          resultsClosed, ordered, plans, diags>>

Busy == {w \in Workers : item[w] # 0}

Init ==
  /\ ctxDone = FALSE
  /\ pc = "loop"
  /\ next = 1
  /\ item = [w \in Workers |-> 0]
  /\ exited = {}
  /\ jobsClosed = FALSE
  /\ results = <<>>
  /\ resultsClosed = FALSE
  /\ ordered = <<>>
  /\ plans = <<>>
  /\ diags = {}

-----------------------------------------------------------------------------
(* The owner of the context. *)

Cancel ==
  /\ ~ctxDone
  /\ ctxDone' = TRUE
  /\ UNCHANGED <<pc, next, item, exited, jobsClosed, results, resultsClosed,
                 ordered, plans, diags>>

-----------------------------------------------------------------------------
(* The calling goroutine. *)

Offer_PastTheEnd ==
  /\ pc = "loop" /\ next <= N + 1 /\ ~ctxDone
  /\ pc' = "send"
  /\ UNCHANGED <<ctxDone, next, item, exited, jobsClosed, results,
                 resultsClosed, ordered, plans, diags>>

Offer_IgnoresContext ==
  /\ pc = "loop" /\ next <= N
  /\ pc' = "send"
  /\ UNCHANGED <<ctxDone, next, item, exited, jobsClosed, results,
                 resultsClosed, ordered, plans, diags>>

\* Next iteration of the range loop: the context is live, so the resource is
\* offered on the jobs channel. The send does not look at the context again.
Offer ==
  /\ pc = "loop" /\ next <= N /\ ~ctxDone
  /\ pc' = "send"
  /\ UNCHANGED <<ctxDone, next, item, exited, jobsClosed, results,
                 resultsClosed, ordered, plans, diags>>

\* The loop is over, or its break on a cancelled context is taken.
CloseJobs ==
  /\ pc = "loop"
  /\ next > N \/ ctxDone
  /\ pc' = "wait"
  /\ jobsClosed' = TRUE
  /\ UNCHANGED <<ctxDone, next, item, exited, results, resultsClosed,
                 ordered, plans, diags>>

CloseResults_WithoutWait ==
  /\ pc = "wait"
  /\ pc' = "collect"
  /\ resultsClosed' = TRUE
  /\ UNCHANGED <<ctxDone, next, item, exited, jobsClosed, results, ordered,
                 plans, diags>>

\* wg.Wait() returns once every worker is done; then close(results).
CloseResults ==
  /\ pc = "wait" /\ exited = Workers
  /\ pc' = "collect"
  /\ resultsClosed' = TRUE
  /\ UNCHANGED <<ctxDone, next, item, exited, jobsClosed, results, ordered,
                 plans, diags>>

Drain ==
  /\ pc = "collect" /\ results # <<>>
  /\ ordered' = Append(ordered, Head(results))
  /\ results' = Tail(results)
  /\ UNCHANGED <<ctxDone, pc, next, item, exited, jobsClosed, resultsClosed,
                 plans, diags>>

Assemble_NoLastCheck ==
  /\ pc = "collect" /\ results = <<>> /\ resultsClosed
  /\ plans' = PlansOf(Range(ordered))
  /\ diags' = DiagsOf(Range(ordered), FALSE)
  /\ pc' = "returned"
  /\ UNCHANGED <<ctxDone, next, item, exited, jobsClosed, results,
                 resultsClosed, ordered>>

Assemble_ArrivalOrder ==
  /\ pc = "collect" /\ results = <<>> /\ resultsClosed
  /\ plans' = [k \in DOMAIN ordered |-> ResourcePlan(ordered[k])]
  /\ diags' = DiagsOf(Range(ordered), ctxDone)
  /\ pc' = "returned"
  /\ UNCHANGED <<ctxDone, next, item, exited, jobsClosed, results,
                 resultsClosed, ordered>>

\* The closed channel is empty: sort by index, split plans from diagnostics,
\* look at the context a last time, sort the plans, return. Indices are
\* distinct (EachJobOnce), so sorting the slice is sorting its elements.
Assemble ==
  /\ pc = "collect" /\ results = <<>> /\ resultsClosed
  /\ plans' = PlansOf(Range(ordered))
  /\ diags' = DiagsOf(Range(ordered), ctxDone)
  /\ pc' = "returned"
  /\ UNCHANGED <<ctxDone, next, item, exited, jobsClosed, results,
                 resultsClosed, ordered>>

-----------------------------------------------------------------------------
(* A worker goroutine. *)

\* Rendezvous on the unbuffered jobs channel.
Receive(w) ==
  /\ pc = "send" /\ item[w] = 0 /\ w \notin exited
  /\ item' = [item EXCEPT ![w] = next]
  /\ next' = next + 1
  /\ pc' = "loop"
  /\ UNCHANGED <<ctxDone, exited, jobsClosed, results, resultsClosed,
                 ordered, plans, diags>>

Publish_DropsWhenCancelled(w) ==
  /\ item[w] # 0
  /\ Len(results) < Capacity
  /\ results' = IF ctxDone THEN results ELSE Append(results, item[w])
  /\ item' = [item EXCEPT ![w] = 0]
  /\ UNCHANGED <<ctxDone, pc, next, exited, jobsClosed, resultsClosed,
                 ordered, plans, diags>>

\* resourcePlan, and the send of its result: possible while the buffer of
\* capacity len(resources) has room.
Publish(w) ==
  /\ item[w] # 0
  /\ Len(results) < Capacity
  /\ results' = Append(results, item[w])
  /\ item' = [item EXCEPT ![w] = 0]
  /\ UNCHANGED <<ctxDone, pc, next, exited, jobsClosed, resultsClosed,
                 ordered, plans, diags>>

\* The range over the closed jobs channel ends: the deferred wg.Done().
Exit(w) ==
  /\ jobsClosed /\ item[w] = 0 /\ w \notin exited
  /\ exited' = exited \cup {w}
  /\ UNCHANGED <<ctxDone, pc, next, item, jobsClosed, results, resultsClosed,
                 ordered, plans, diags>>

-----------------------------------------------------------------------------
\* The call has returned: the only state with nothing left to do.
Returned == pc = "returned" /\ UNCHANGED vars

Caller == Offer \/ CloseJobs \/ CloseResults \/ Drain \/ Assemble

Worker(w) == Receive(w) \/ Publish(w) \/ Exit(w)

Next == Cancel \/ Caller \/ (\E w \in Workers : Worker(w)) \/ Returned

SafeSpec == Init /\ [][Next]_vars

\* The Go scheduler runs every goroutine that can run; nothing obliges the
\* owner of the context to cancel it.
Fairness == WF_vars(Caller) /\ \A w \in Workers : WF_vars(Worker(w))

Spec == SafeSpec /\ Fairness

-----------------------------------------------------------------------------
TypeOK ==
  /\ ctxDone \in BOOLEAN
  /\ pc \in {"loop", "send", "wait", "collect", "returned"}
  /\ next \in 1..(N + 1)
  /\ item \in [Workers -> 0..N]
  /\ exited \subseteq Workers
  /\ jobsClosed \in BOOLEAN
  /\ results \in Seq(Resources)
  /\ resultsClosed \in BOOLEAN
  /\ ordered \in Seq(Resources)

\* Every index handed out so far is in exactly one place: with one worker,
\* at one position of the results channel, or at one position of the slice
\* (producer loop 267-272, workers 258-266, drain 278-280).
EachJobOnce ==
  /\ {item[w] : w \in Busy} \cup Range(results) \cup Range(ordered)
       = 1..(next - 1)
  /\ Cardinality(Busy) + Len(results) + Len(ordered) = next - 1

\* No worker ever waits to send a result: the buffer of len(resources) places
\* cannot be full while a job is unfinished, which is what lets wg.Wait()
\* come before the first receive from results.
ResultsNeverBlock == Busy # {} => Len(results) < Capacity

\* The results channel is not closed under a worker that still has to send
\* on it (a panic in Go), and no worker exits holding a job.
NoSendOnClosed ==
  /\ resultsClosed => Busy = {}
  /\ \A w \in exited : item[w] = 0

\* An answer without DCOMP001 is the answer of a sequential loop over ALL the
\* resources, whatever the interleaving, the pool size and the moment of a
\* cancellation: a truncated plan is never returned as a complete one.
CompleteUnlessCancelled ==
  (pc = "returned" /\ CancelDiag \notin diags) =>
     /\ plans = PlansOf(Resources)
     /\ diags = DiagsOf(Resources, FALSE)

\* After a cancellation at most the job being offered at that moment is still
\* handed out: off the send, the producer neither hands out nor offers another
\* (the loop looks at the context before each send, 267-270).
CancelStopsProducer ==
  [][ctxDone /\ pc # "send" => next' = next /\ pc' # "send"]_vars

\* The pool implements the one-step contract, its liveness included.
Contract == INSTANCE HashContract
              WITH answer <- [returned |-> pc = "returned",
                              plans |-> plans, diags |-> diags]

ImplementsContract == Contract!Spec
=============================================================================
