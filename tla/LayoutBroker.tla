---------------------------- MODULE LayoutBroker ----------------------------
(***************************************************************************)
(* The layout preview broker: one thread accepts a connection, checks the  *)
(* request and waits for its job; a pool of one worker computes the plan.  *)
(* A job that misses its deadline is answered as timed out and computes on.*)
(*                                                                         *)
(* Framing, authentication and the plan itself are left out: requests that *)
(* fail those checks change nothing but counters.                          *)
(***************************************************************************)
EXTENDS Naturals, Sequences, SequencesExt

CONSTANTS
  RequestIds,   \* request ids clients use, and use again
  MaxSeen,      \* ids the broker remembers
  RateLimit,    \* requests per window
  MaxArrivals   \* bound: requests that arrive

ASSUME BrokerAssumption ==
  MaxSeen \in Nat \ {0} /\ RateLimit \in Nat \ {0} /\ MaxArrivals \in Nat

VARIABLES
  serving,      \* the request the accept thread handles, and how far it is
  seen,         \* ids remembered, oldest first
  window,       \* requests in the rate window
  jobs,         \* the executor: the job it computes first, then those that wait
  claims,       \* history: ids let through by the replay check
  arrivalsLeft

brokerVars == <<serving, seen, window, jobs, claims, arrivalsLeft>>

NotServing == [step |-> "accepting", id |-> "none"]

\* No request waits behind the job of one that was already answered.
BrokerTypeOK ==
  /\ serving \in [step : {"accepting", "received", "claimed", "admitted", "accepted", "waiting"},
                  id : RequestIds \cup {"none"}]
  /\ seen \in Seq(RequestIds) /\ Len(seen) <= MaxSeen /\ IsInjective(seen)
  /\ window \in 0..RateLimit
  /\ jobs \in Seq(RequestIds) /\ Len(jobs) <= 1
  /\ claims \in Seq(RequestIds)
  /\ arrivalsLeft \in 0..MaxArrivals

-----------------------------------------------------------------------------
Serves(step) == serving' = [serving EXCEPT !.step = step]
StopServing == serving' = NotServing

ReceiveRequest(id) ==
  /\ serving.step = "accepting" /\ arrivalsLeft > 0
  /\ serving' = [step |-> "received", id |-> id]
  /\ arrivalsLeft' = arrivalsLeft - 1
  /\ UNCHANGED <<seen, window, jobs, claims>>

\* The mistake of forgetting the id that came last.
Remembered_Oldest(ids) == IF Len(ids) > MaxSeen THEN Front(ids) ELSE ids

\* The id that came first is forgotten.
Remembered(ids) == IF Len(ids) > MaxSeen THEN Tail(ids) ELSE ids

\* An id is used up here, also when the request is then refused as retryable.
ClaimRequest ==
  /\ serving.step = "received"
  /\ IF Contains(seen, serving.id)
     THEN StopServing /\ UNCHANGED <<seen, claims>>
     ELSE /\ Serves("claimed")
          /\ seen' = Remembered(Append(seen, serving.id))
          /\ claims' = Append(claims, serving.id)
  /\ UNCHANGED <<window, jobs, arrivalsLeft>>

\* A request over the limit does not count for the window.
AdmitRate ==
  /\ serving.step = "claimed"
  /\ IF window < RateLimit
     THEN window' = window + 1 /\ Serves("admitted")
     ELSE StopServing /\ UNCHANGED window
  /\ UNCHANGED <<seen, jobs, claims, arrivalsLeft>>

WindowMoves ==
  /\ window > 0 /\ window' = window - 1
  /\ UNCHANGED <<serving, seen, jobs, claims, arrivalsLeft>>

\* The mistake of taking the slot for free once its request has been answered.
SlotFree_Answered == serving.step # "waiting"

SlotFree == jobs = <<>>

TakeSlot ==
  /\ serving.step = "admitted"
  /\ IF SlotFree THEN Serves("accepted") ELSE StopServing
  /\ UNCHANGED <<seen, window, jobs, claims, arrivalsLeft>>

\* The time already spent may be all there is.
SubmitJob ==
  /\ serving.step = "accepted"
  /\ \/ Serves("waiting") /\ jobs' = Append(jobs, serving.id)
     \/ StopServing /\ UNCHANGED jobs
  /\ UNCHANGED <<seen, window, claims, arrivalsLeft>>

\* The deadline ends the waiting and not the job.
TimeOutJob ==
  /\ serving.step = "waiting" /\ jobs # <<>>
  /\ StopServing
  /\ UNCHANGED <<seen, window, jobs, claims, arrivalsLeft>>

\* With a plan or an exception; the slot is cleared by the job's own callback.
EndJob ==
  /\ jobs # <<>> /\ jobs' = Tail(jobs)
  /\ UNCHANGED <<serving, seen, window, claims, arrivalsLeft>>

\* The plan is checked and sent, or nobody reads it any more.
ReplyPlan ==
  /\ serving.step = "waiting" /\ ~Contains(jobs, serving.id)
  /\ StopServing
  /\ UNCHANGED <<seen, window, jobs, claims, arrivalsLeft>>

\* Another broker takes over: nothing is remembered.
RestartBroker ==
  /\ claims # <<>>
  /\ StopServing /\ seen' = <<>> /\ window' = 0 /\ jobs' = <<>> /\ claims' = <<>>
  /\ UNCHANGED arrivalsLeft

-----------------------------------------------------------------------------
BrokerInit ==
  /\ serving = NotServing
  /\ seen = <<>> /\ window = 0 /\ jobs = <<>> /\ claims = <<>>
  /\ arrivalsLeft = MaxArrivals

BrokerNext ==
  \/ \E id \in RequestIds : ReceiveRequest(id)
  \/ ClaimRequest \/ AdmitRate \/ WindowMoves \/ TakeSlot \/ SubmitJob
  \/ TimeOutJob \/ EndJob \/ ReplyPlan \/ RestartBroker

BrokerSpec == BrokerInit /\ [][BrokerNext]_brokerVars

-----------------------------------------------------------------------------
\* An id is let through twice only if MaxSeen others came in between, whatever was
\* refused, timed out or lost meanwhile.
ReplaysAreFarApart ==
  \A i, j \in DOMAIN claims : i < j /\ claims[i] = claims[j] => j - i > MaxSeen
=============================================================================
