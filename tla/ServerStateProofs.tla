-------------------------- MODULE ServerStateProofs --------------------------
(***************************************************************************)
(* Proofs about what server processes remember, for any numbers of them:   *)
(* the request ids of the layout broker, the generations of the index and  *)
(* the sessions that froze them, and the records of Project Memory.  At    *)
(* the end, what is proved of each component of ServerMC holds of all of   *)
(* them side by side.                                                      *)
(***************************************************************************)
EXTENDS ServerMC, BatchScanProofs, CommitProofs, GraphContractProofs,
        FiniteSetTheorems, WellFoundedInduction, TLAPS

(***************************************************************************)
(* The life of a change set: its closing report is final.                  *)
(***************************************************************************)

\* A history is a sequence of operation statuses.
LEMMA HistoryIsSequence ==
  ASSUME NEW h \in Histories
  PROVE  /\ h \in Seq(OperationStatuses)
         /\ Len(h) \in Nat
         /\ DOMAIN h = 1..Len(h)
  <1>1. PICK n \in 0..MaxOps : h \in [1..n -> OperationStatuses]
    BY DEF Histories
  <1>2. n \in Nat
    BY <1>1, MaxOpsAssumption
  <1> QED
    BY <1>1, <1>2

\* derive_change_set_status gives a final report only when no operation of the
\* change set is open or saved any more, and such a report closes it.
LEMMA FinalReportsAreTerminal ==
  ASSUME NEW S \in SUBSET OperationStatuses, DeriveStatus(S) \in FinalReports
  PROVE  S \subseteq TerminalStatuses /\ IsClosed(S)
  <1>1. "unknown" \notin S /\ DeriveKnownStatus(S) \in FinalReports
    BY DEF DeriveStatus, FinalReports
  <1>2. S # {} /\ "failed" \notin S
    BY <1>1 DEF DeriveKnownStatus, FinalReports
  <1>3. CASE S \subseteq {"verified", "no-op", "superseded"}
    BY <1>3 DEF TerminalStatuses, IsClosed, ClosedStatuses, FinalReports
  <1>4. CASE ~(S \subseteq {"verified", "no-op", "superseded"})
    <2>1. ~(S \subseteq {"saved", "verified", "superseded"})
      BY <1>1, <1>2, <1>4 DEF DeriveKnownStatus, FinalReports
    <2>2. S \in {{"undone"}, {"discarded"}, {"applied"}}
      BY <1>1, <1>2, <1>4, <2>1 DEF DeriveKnownStatus, FinalReports
    <2>3. S # {"applied"}
      BY <1>1, <1>2, <2>1 DEF DeriveKnownStatus, FinalReports
    <2> QED
      BY <2>2, <2>3 DEF TerminalStatuses, IsClosed, ClosedStatuses, FinalReports
  <1> QED
    BY <1>3, <1>4

\* Nothing moves a terminal operation.
LEMMA TerminalStatusesAreFinal ==
  ASSUME NEW s \in TerminalStatuses
  PROVE  Moves(s) = {}
  BY DEF TerminalStatuses, Moves

\* If all operations of a history are terminal, its statuses stay as they are.
LEMMA TerminalHistoriesStay ==
  ASSUME NEW old \in Histories, NEW new \in Histories,
         StatusesIn(old) \subseteq TerminalStatuses,
         MovesOn(old, new, Len(old))
  PROVE  {new[i] : i \in 1..Len(old)} = StatusesIn(old)
  <1>1. DOMAIN old = 1..Len(old)
    BY HistoryIsSequence
  <1>2. \A i \in 1..Len(old) : old[i] \in TerminalStatuses
    BY <1>1 DEF StatusesIn
  <1>3. \A i \in 1..Len(old) : new[i] = old[i]
    BY <1>2, TerminalStatusesAreFinal DEF MovesOn
  <1> QED
    BY <1>1, <1>3 DEF StatusesIn


\* Type correctness of the life cycle.
LEMMA LifecycleTyped == LifecycleSpec => []LifecycleTypeOK
  <1>1. LifecycleInit => LifecycleTypeOK
    <2>1. <<>> \in [1..0 -> OperationStatuses]
      OBVIOUS
    <2>2. 0 \in 0..MaxOps
      BY MaxOpsAssumption
    <2> QED
      BY <2>1, <2>2 DEF LifecycleInit, LifecycleTypeOK, Histories
  <1>2. LifecycleTypeOK /\ [LifecycleNext]_history => LifecycleTypeOK'
    <2> SUFFICES ASSUME LifecycleTypeOK, [LifecycleNext]_history PROVE LifecycleTypeOK'
      OBVIOUS
    <2>1. CASE Evolve
      BY <2>1 DEF Evolve, LifecycleTypeOK
    <2>2. CASE \E c \in ChangeSetIds : Forget(c)
      <3>1. <<>> \in [1..0 -> OperationStatuses]
        OBVIOUS
      <3>2. <<>> \in Histories
        BY <3>1, MaxOpsAssumption DEF Histories
      <3> QED
        BY <2>2, <3>2 DEF Forget, LifecycleTypeOK
    <2>3. CASE UNCHANGED history
      BY <2>3 DEF LifecycleTypeOK
    <2> QED
      BY <2>1, <2>2, <2>3 DEF LifecycleNext
  <1> QED
    BY <1>1, <1>2, PTL DEF LifecycleSpec

\* One step of the life cycle keeps a final report.
LEMMA StepKeepsFinalReport ==
  ASSUME LifecycleTypeOK, LifecycleTypeOK', LifecycleNext,
         NEW c \in ChangeSetIds,
         DeriveStatus(StatusesIn(history[c])) \in FinalReports
  PROVE  \/ DeriveStatus(StatusesIn(history'[c])) = DeriveStatus(StatusesIn(history[c]))
         \/ history'[c] = <<>>
  <1> DEFINE old == history[c]
             new == history'[c]
             S == StatusesIn(old)
  <1>1. old \in Histories /\ new \in Histories
    BY DEF LifecycleTypeOK
  <1>2. /\ old \in Seq(OperationStatuses) /\ DOMAIN old = 1..Len(old) /\ Len(old) \in Nat
        /\ new \in Seq(OperationStatuses) /\ DOMAIN new = 1..Len(new) /\ Len(new) \in Nat
    BY <1>1, HistoryIsSequence
  <1>3. S \in SUBSET OperationStatuses
    BY <1>2 DEF StatusesIn
  <1>4. S \subseteq TerminalStatuses /\ IsClosed(S)
    BY <1>3, FinalReportsAreTerminal
  <1>5. CASE Evolve
    <2>1. Kept(old, new) \/ Grown(old, new)
      BY <1>5 DEF Evolve
    <2>2. MovesOn(old, new, Len(old))
      BY <2>1 DEF Kept, Grown
    <2>3. {new[i] : i \in 1..Len(old)} = S
      BY <1>1, <1>4, <2>2, TerminalHistoriesStay
    <2>4. ~Grown(old, new)
      BY <1>4, <2>3 DEF Grown
    <2>5. Len(new) = Len(old)
      BY <2>1, <2>4 DEF Kept
    <2>6. StatusesIn(new) = S
      BY <1>2, <2>3, <2>5 DEF StatusesIn
    <2> QED
      BY <2>6
  <1>6. CASE \E d \in ChangeSetIds : Forget(d)
    BY <1>6 DEF Forget, LifecycleTypeOK
  <1> QED
    BY <1>5, <1>6 DEF LifecycleNext

\* A change set reported undone, discarded, verified or no-op is reported so
\* until it is forgotten, for any number of change sets and operations.
THEOREM FinalReportsAreFinal == LifecycleSpec => FinalReportsStay
  <1>1. LifecycleTypeOK /\ LifecycleTypeOK' /\ [LifecycleNext]_history =>
          [\A c \in ChangeSetIds :
             LET before == DeriveStatus(StatusesIn(history[c]))
                 after  == DeriveStatus(StatusesIn(history'[c]))
             IN before \in FinalReports => after = before \/ history'[c] = <<>>]_history
    BY StepKeepsFinalReport
  <1> QED
    BY <1>1, LifecycleTyped, PTL DEF LifecycleSpec, FinalReportsStay

(***************************************************************************)
(* The layout broker.                                                      *)
(***************************************************************************)

\* What is remembered are the ids let through last, as many as fit.
RemembersLastClaims ==
  /\ Len(seen) <= Len(claims)
  /\ Len(seen) = MaxSeen \/ Len(seen) = Len(claims)
  /\ \A i \in 1..Len(seen) : seen[i] = claims[Len(claims) - Len(seen) + i]

BrokerInv ==
  /\ BrokerTypeOK
  /\ serving.step # "accepting" => serving.id \in RequestIds
  /\ serving.step = "accepted" => jobs = <<>>
  /\ RemembersLastClaims
  /\ ReplaysAreFarApart

\* The broker starts with nothing to do.
LEMMA BrokerStarts == BrokerInit => BrokerInv
  <1> SUFFICES ASSUME BrokerInit PROVE BrokerInv
    OBVIOUS
  <1>1. BrokerTypeOK
    BY BrokerAssumption DEF BrokerInit, BrokerTypeOK, NotServing, IsInjective
  <1> QED
    BY <1>1 DEF BrokerInit, BrokerInv, RemembersLastClaims, ReplaysAreFarApart, NotServing

\* An id that is not remembered was let through before the MaxSeen last ones.
LEMMA ClaimKeepsInv == ASSUME BrokerInv, ClaimRequest PROVE BrokerInv'
  <1>1. /\ serving.step = "received" /\ serving.id \in RequestIds
        /\ UNCHANGED <<window, jobs, arrivalsLeft>>
    BY DEF ClaimRequest, BrokerInv
  <1>2. /\ seen \in Seq(RequestIds) /\ claims \in Seq(RequestIds) /\ Len(seen) <= MaxSeen
        /\ \A a, b \in 1..Len(seen) : seen[a] = seen[b] => a = b
        /\ MaxSeen \in Nat \ {0}
    BY BrokerAssumption DEF BrokerInv, BrokerTypeOK, IsInjective
  <1>3. CASE Contains(seen, serving.id)
    <2>1. serving' = NotServing /\ seen' = seen /\ claims' = claims
      BY <1>1, <1>3 DEF ClaimRequest, StopServing
    <2> QED
      BY <1>1, <2>1 DEF BrokerInv, BrokerTypeOK, NotServing, RemembersLastClaims, ReplaysAreFarApart, IsInjective
  <1>4. CASE ~Contains(seen, serving.id)
    <2>1. PICK id \in RequestIds, n \in Nat, m \in Nat : id = serving.id /\ n = Len(seen) /\ m = Len(claims)
      BY <1>1, <1>2
    <2>2. /\ serving' = [serving EXCEPT !.step = "claimed"]
          /\ seen' = Remembered(Append(seen, id)) /\ claims' = Append(claims, id)
      BY <1>1, <1>4, <2>1 DEF ClaimRequest, Serves
    <2>3. \A i \in 1..n : seen[i] # id
      BY <1>4, <2>1 DEF Contains
    <2>4. /\ n <= m /\ n <= MaxSeen /\ (n = MaxSeen \/ n = m)
          /\ \A i \in 1..n : seen[i] = claims[m - n + i]
      BY <1>2, <2>1 DEF BrokerInv, RemembersLastClaims
    <2>5. /\ claims' \in Seq(RequestIds) /\ Len(claims') = m + 1
          /\ claims'[m + 1] = id /\ \A i \in 1..m : claims'[i] = claims[i]
      BY <1>2, <2>1, <2>2
    <2>6. \A i \in 1..m : claims[i] = id => (m + 1) - i > MaxSeen
      <3> SUFFICES ASSUME NEW i \in 1..m, claims[i] = id
                   PROVE  (m + 1) - i > MaxSeen
        OBVIOUS
      <3>1. ~(i > m - n)
        <4> SUFFICES ASSUME i > m - n PROVE FALSE
          OBVIOUS
        <4>1. i - (m - n) \in 1..n /\ m - n + (i - (m - n)) = i
          BY <2>4
        <4> QED
          BY <2>3, <2>4, <4>1
      <3> QED
        BY <1>2, <2>4, <3>1
    <2>7. ReplaysAreFarApart'
      <3> SUFFICES ASSUME NEW i \in 1..(m + 1), NEW j \in 1..(m + 1), i < j, claims'[i] = claims'[j]
                   PROVE  j - i > MaxSeen
        BY <2>5 DEF ReplaysAreFarApart
      <3>1. CASE j = m + 1
        <4>1. i \in 1..m /\ claims[i] = id /\ j = m + 1
          BY <2>5, <3>1
        <4> QED
          BY <2>6, <4>1
      <3>2. CASE j # m + 1
        <4>1. i \in 1..m /\ j \in 1..m
          BY <3>2
        <4>2. \A a, b \in 1..m : a < b /\ claims[a] = claims[b] => b - a > MaxSeen
          BY <1>2, <2>1 DEF BrokerInv, ReplaysAreFarApart
        <4> QED
          BY <2>5, <4>1, <4>2
      <3> QED
        BY <3>1, <3>2
    <2>8. PICK long \in Seq(RequestIds) : long = Append(seen, id)
      <3>1. Append(seen, id) \in Seq(RequestIds)
        BY <1>2
      <3> QED
        BY <3>1
    <2>9. /\ Len(long) = n + 1 /\ long[n + 1] = id /\ \A i \in 1..n : long[i] = seen[i]
      BY <1>2, <2>1, <2>8
    <2>10. \A a, b \in 1..(n + 1) : long[a] = long[b] => a = b
      <3>1. \A a \in 1..(n + 1) : a = n + 1 \/ a \in 1..n
        OBVIOUS
      <3> QED
        BY <1>2, <2>1, <2>3, <2>9, <3>1
    <2>11. \A i \in 1..(n + 1) : long[i] = claims'[(m + 1) - (n + 1) + i]
      <3> SUFFICES ASSUME NEW i \in 1..(n + 1) PROVE long[i] = claims'[(m + 1) - (n + 1) + i]
        OBVIOUS
      <3>1. CASE i = n + 1
        BY <2>5, <2>9, <3>1
      <3>2. CASE i # n + 1
        <4>1. i \in 1..n /\ m - n + i \in 1..m /\ (m + 1) - (n + 1) + i = m - n + i
          BY <2>4, <3>2
        <4> QED
          BY <2>4, <2>5, <2>9, <4>1
      <3> QED
        BY <3>1, <3>2
    <2>12. /\ seen' \in Seq(RequestIds) /\ Len(seen') <= MaxSeen /\ IsInjective(seen') /\ RemembersLastClaims'
      <3>1. CASE n + 1 > MaxSeen
        <4>1. n = MaxSeen /\ seen' = Tail(long) /\ Len(long) > 0
          BY <1>2, <2>2, <2>4, <2>8, <2>9, <3>1 DEF Remembered
        <4>2. /\ seen' \in Seq(RequestIds) /\ Len(seen') = n /\ \A i \in 1..n : seen'[i] = long[i + 1]
          BY <2>8, <2>9, <4>1
        <4>3. IsInjective(seen')
          BY <2>10, <4>2 DEF IsInjective
        <4>4. \A i \in 1..n : seen'[i] = claims'[(m + 1) - n + i]
          <5> SUFFICES ASSUME NEW i \in 1..n PROVE seen'[i] = claims'[(m + 1) - n + i]
            OBVIOUS
          <5>1. i + 1 \in 1..(n + 1) /\ (m + 1) - (n + 1) + (i + 1) = (m + 1) - n + i
            OBVIOUS
          <5> QED
            BY <2>11, <4>2, <5>1
        <4>5. Len(seen') = n /\ Len(claims') = m + 1 /\ n <= m + 1 /\ n = MaxSeen
          BY <2>4, <2>5, <4>1, <4>2
        <4>6. RemembersLastClaims'
          BY <4>4, <4>5 DEF RemembersLastClaims
        <4> QED
          BY <4>2, <4>3, <4>5, <4>6, <2>4
      <3>2. CASE ~(n + 1 > MaxSeen)
        <4>1. n = m /\ n + 1 <= MaxSeen /\ seen' = long
          BY <1>2, <2>2, <2>4, <2>8, <2>9, <3>2 DEF Remembered
        <4> QED
          BY <2>5, <2>8, <2>9, <2>10, <2>11, <4>1 DEF RemembersLastClaims, IsInjective
      <3> QED
        BY <3>1, <3>2
    <2>13. serving'.step = "claimed" /\ serving'.id = id
           /\ serving' \in [step : {"accepting", "received", "claimed", "admitted", "accepted", "waiting"},
                            id : RequestIds \cup {"none"}]
      BY <2>1, <2>2 DEF BrokerInv, BrokerTypeOK
    <2>14. BrokerTypeOK'
      BY <1>1, <2>5, <2>12, <2>13 DEF BrokerInv, BrokerTypeOK
    <2> QED
      BY <2>7, <2>12, <2>13, <2>14 DEF BrokerInv
  <1> QED
    BY <1>3, <1>4

\* The other steps of the broker let nothing through.
LEMMA BrokerStep == BrokerInv /\ [BrokerNext]_brokerVars => BrokerInv'
  <1> SUFFICES ASSUME BrokerInv, [BrokerNext]_brokerVars PROVE BrokerInv'
    OBVIOUS
  <1>1. CASE RestartBroker
    <2>1. BrokerTypeOK'
      BY <1>1, BrokerAssumption
         DEF RestartBroker, BrokerInv, BrokerTypeOK, StopServing, NotServing, IsInjective
    <2> QED
      BY <1>1, <2>1 DEF RestartBroker, BrokerInv, RemembersLastClaims, ReplaysAreFarApart, StopServing, NotServing
  <1>2. ASSUME UNCHANGED <<seen, claims>>,
               serving' \in [step : {"accepting", "received", "claimed", "admitted", "accepted", "waiting"},
                             id : RequestIds \cup {"none"}],
               serving'.step # "accepting" => serving'.id \in RequestIds,
               serving'.step = "accepted" => jobs' = <<>>,
               window' \in 0..RateLimit, arrivalsLeft' \in 0..MaxArrivals,
               jobs' \in Seq(RequestIds), Len(jobs') <= 1
        PROVE  BrokerInv'
    BY <1>2 DEF BrokerInv, BrokerTypeOK, RemembersLastClaims, ReplaysAreFarApart, IsInjective
  <1> USE DEF BrokerInv, BrokerTypeOK, NotServing, Serves, StopServing
  <1>3. ASSUME NEW id \in RequestIds, ReceiveRequest(id)
        PROVE  BrokerInv'
    BY <1>2, <1>3, BrokerAssumption DEF ReceiveRequest
  <1>4. CASE AdmitRate \/ WindowMoves
    BY <1>2, <1>4, BrokerAssumption DEF AdmitRate, WindowMoves
  <1>5. CASE TakeSlot
    BY <1>2, <1>5 DEF TakeSlot, SlotFree
  <1>6. CASE SubmitJob
    <2>1. serving.step = "accepted" /\ jobs = <<>> /\ serving.id \in RequestIds
      BY <1>6 DEF SubmitJob
    <2>2. Append(jobs, serving.id) \in Seq(RequestIds) /\ Len(Append(jobs, serving.id)) = 1
      <3>1. jobs \in Seq(RequestIds) /\ Len(jobs) = 0
        BY <2>1
      <3> QED
        BY <2>1, <3>1
    <2>3. jobs' \in Seq(RequestIds) /\ Len(jobs') <= 1
      <3>1. jobs' = jobs \/ jobs' = Append(jobs, serving.id)
        BY <1>6 DEF SubmitJob
      <3> QED
        BY <2>2, <3>1
    <2>4. UNCHANGED <<seen, window, claims, arrivalsLeft>>
      BY <1>6 DEF SubmitJob
    <2>5. CASE Serves("waiting")
      BY <1>2, <2>1, <2>3, <2>4, <2>5
    <2>6. CASE StopServing
      BY <1>2, <2>3, <2>4, <2>6
    <2> QED
      BY <1>6, <2>5, <2>6 DEF SubmitJob
  <1>7. CASE TimeOutJob \/ ReplyPlan
    BY <1>2, <1>7 DEF TimeOutJob, ReplyPlan
  <1>8. CASE EndJob
    BY <1>2, <1>8 DEF EndJob
  <1>9. CASE UNCHANGED brokerVars
    BY <1>2, <1>9 DEF brokerVars
  <1> QED
    BY <1>1, <1>3, <1>4, <1>5, <1>6, <1>7, <1>8, <1>9, ClaimKeepsInv DEF BrokerNext

\* The inductive invariant of the broker.
THEOREM BrokerInvariant == BrokerSpec => []BrokerInv
  BY BrokerStarts, BrokerStep, PTL DEF BrokerSpec

\* Whatever is refused, times out or is lost: between two requests let through under one
\* id, the broker has let MaxSeen others through or been replaced.
THEOREM ReplaysStayFarApart == BrokerSpec => []ReplaysAreFarApart
  <1>1. BrokerInv => ReplaysAreFarApart
    BY DEF BrokerInv
  <1> QED
    BY <1>1, BrokerInvariant, PTL

(***************************************************************************)
(* Index generations.                                                      *)
(***************************************************************************)

UsedIds == MaxGenerations - snapshotLeft.ids

\* Saves are what moves revisions on.
RevisionsFit == \A a \in IndexedAssets : package[a] + snapshotLeft.saves <= MaxSaves + 1

\* A build belongs to a session that has not refreshed yet, and has a directory of its
\* own once that has its name: nobody starts from it before the pointer names it.
BuildsOwnDirectories ==
  \A s \in Servers :
    /\ build[s].step # "idle" => session[s].state = "on" /\ ~session[s].applied
    /\ build[s].step = "point" <=> build[s].generation # Legacy
    /\ build[s].step = "point" =>
         /\ build[s].generation # pointer
         /\ \A t \in Servers : session[t].base # build[s].generation
         /\ \A t \in Servers : build[t].generation = build[s].generation => t = s
    /\ build[s].generation <= UsedIds /\ session[s].base <= UsedIds

\* What a build has made so far, from what its session is pinned to.
BuildsAreConsistent ==
  \A s \in Servers :
    LET b == build[s]
    IN  /\ b.step \in {"index", "publish", "point"} => \A a \in DOMAIN b.target : b.pair.export[a] = b.target[a]
        /\ b.step \in {"publish", "point"} /\ session[s].base # Legacy =>
             \A a \in IndexedAssets \ DOMAIN b.target : b.pair.db[a] = Generation(session[s].base).db[a]
        /\ b.step = "point" =>
             /\ \A a \in DOMAIN b.target : b.pair.db[a] = b.target[a]
             /\ generations[b.generation] = [whole |-> TRUE, pair |-> b.pair, refreshed |-> b.target]

\* Unless another server moved it since, the pointer names what a session started from.
SessionsStartAtPointer ==
  \A s \in Servers :
    /\ session[s].state # "off" /\ ~session[s].overtaken /\ ~session[s].applied => session[s].base = pointer
    /\ session[s].state = "freezing" => ~session[s].applied

SnapshotInv ==
  /\ SnapshotTypeOK
  /\ RevisionsFit
  /\ pointer <= UsedIds
  /\ BuildsOwnDirectories
  /\ BuildsAreConsistent
  /\ SessionsStartAtPointer
  /\ ActivePairIsWhole

\* The parts of a build and of a session that start something have their types.
LEMMA SnapshotParts ==
  /\ NoPair \in Pair /\ NoBuild \in BuildStates /\ NoSession \in SessionStates
  /\ NoDirectory \in [whole : BOOLEAN, pair : Pair, refreshed : Targets]
  /\ \A T \in SUBSET IndexedAssets : \A f \in [T -> Revisions] : f \in Targets
  /\ \A f \in Targets : DOMAIN f \subseteq IndexedAssets /\ \A a \in DOMAIN f : f[a] \in Revisions
  /\ \A index \in Index, f \in Targets : Refreshed(index, f) \in Index
  /\ \A state \in {"off", "freezing", "on"}, base \in 0..MaxGenerations, pair \in Pair, overtaken \in BOOLEAN :
       Session(state, base, pair, overtaken) \in SessionStates
  /\ \A db \in Index, export \in Index : [db |-> db, export |-> export] \in Pair
  <1>1. NoPair \in Pair
    BY DEF NoPair, Pair, Index
  <1>2. \A T \in SUBSET IndexedAssets : \A f \in [T -> Revisions] : f \in Targets
    BY DEF Targets
  <1>3. [a \in {} |-> Unindexed] \in Targets
    <2>1. [a \in {} |-> Unindexed] \in [{} -> Revisions]
      OBVIOUS
    <2> QED
      BY <1>2, <2>1
  <1>4. \A f \in Targets : DOMAIN f \subseteq IndexedAssets /\ \A a \in DOMAIN f : f[a] \in Revisions
    BY DEF Targets
  <1>5. \A index \in Index, f \in Targets : Refreshed(index, f) \in Index
    BY <1>4 DEF Refreshed, Index
  <1>6. 0 \in 0..MaxGenerations
    BY SnapshotAssumption
  <1>7. NoBuild \in BuildStates
    BY <1>1, <1>3, <1>6 DEF NoBuild, BuildStates, Legacy
  <1>8. \A state \in {"off", "freezing", "on"}, base \in 0..MaxGenerations, pair \in Pair, overtaken \in BOOLEAN :
          Session(state, base, pair, overtaken) \in SessionStates
    <2>1. [a \in IndexedAssets |-> Unindexed] \in Index
      BY DEF Index
    <2> QED
      BY <2>1 DEF Session, SessionStates
  <1>9. NoSession \in SessionStates
    BY <1>1, <1>6, <1>8 DEF NoSession, Legacy
  <1>10. NoDirectory \in [whole : BOOLEAN, pair : Pair, refreshed : Targets]
    BY <1>1, <1>3 DEF NoDirectory
  <1>11. \A db \in Index, export \in Index : [db |-> db, export |-> export] \in Pair
    BY DEF Pair
  <1> QED
    BY <1>1, <1>2, <1>4, <1>5, <1>7, <1>8, <1>9, <1>10, <1>11

\* Initially every index agrees with the packages, and there are no generations.
LEMMA SnapshotsStart == SnapshotInit => SnapshotInv
  <1> SUFFICES ASSUME SnapshotInit PROVE SnapshotInv
    OBVIOUS
  <1>1. package \in [IndexedAssets -> Revisions] /\ \A a \in IndexedAssets : package[a] = 1
    BY SnapshotAssumption DEF SnapshotInit, Revisions
  <1>2. configured \in Pair
    BY <1>1 DEF SnapshotInit, Pair, Index
  <1>3. /\ generations \in [GenerationIds -> [whole : BOOLEAN, pair : Pair, refreshed : Targets]]
        /\ session \in [Servers -> SessionStates] /\ build \in [Servers -> BuildStates]
    BY SnapshotParts DEF SnapshotInit
  <1>4. /\ pointer = 0 /\ snapshotLeft.ids = MaxGenerations /\ snapshotLeft.saves = MaxSaves
        /\ snapshotLeft \in [ids : 0..MaxGenerations, saves : 0..MaxSaves, events : 0..MaxEvents,
                             candidates : 0..MaxCandidates]
    BY SnapshotAssumption DEF SnapshotInit, Legacy
  <1>5. \A s \in Servers :
          /\ build[s].step = "idle" /\ build[s].generation = 0
          /\ session[s].state = "off" /\ session[s].base = 0
    BY DEF SnapshotInit, NoBuild, NoSession, Session, Legacy
  <1>6. SnapshotTypeOK
    BY <1>1, <1>2, <1>3, <1>4, SnapshotAssumption DEF SnapshotTypeOK
  <1>7. RevisionsFit
    BY <1>1, <1>4, SnapshotAssumption DEF RevisionsFit
  <1>8. BuildsOwnDirectories /\ BuildsAreConsistent /\ SessionsStartAtPointer
    BY <1>4, <1>5, SnapshotAssumption
       DEF BuildsOwnDirectories, BuildsAreConsistent, SessionsStartAtPointer, UsedIds, Legacy
  <1>9. ActivePairIsWhole /\ pointer <= UsedIds
    BY <1>4, SnapshotAssumption DEF ActivePairIsWhole, Legacy, UsedIds
  <1> QED
    BY <1>6, <1>7, <1>8, <1>9 DEF SnapshotInv

\* A step that moves neither builds, generations, pointer nor what sessions are pinned to.
LEMMA PinsStay ==
  ASSUME SnapshotInv, SnapshotTypeOK', RevisionsFit',
         UNCHANGED <<generations, pointer, build>>, snapshotLeft'.ids = snapshotLeft.ids,
         \A s \in Servers :
           /\ session'[s].state = session[s].state /\ session'[s].base = session[s].base
           /\ session'[s].applied = session[s].applied /\ session'[s].overtaken = session[s].overtaken
  PROVE  SnapshotInv'
  <1>1. UsedIds' = UsedIds
    BY DEF UsedIds
  <1>2. BuildsOwnDirectories'
    BY <1>1 DEF SnapshotInv, BuildsOwnDirectories
  <1>3. BuildsAreConsistent'
    BY DEF SnapshotInv, BuildsAreConsistent, Generation
  <1>4. SessionsStartAtPointer'
    BY DEF SnapshotInv, SessionsStartAtPointer
  <1>5. ActivePairIsWhole' /\ pointer' <= UsedIds'
    BY <1>1 DEF SnapshotInv, ActivePairIsWhole
  <1> QED
    BY <1>2, <1>3, <1>4, <1>5 DEF SnapshotInv

\* The user, and the candidates a server keeps.
LEMMA UserStepsKeepPins ==
  ASSUME SnapshotInv,
         \/ \E a \in IndexedAssets : SavePackage(a)
         \/ ExportProject \/ IndexExport
         \/ \E s \in Servers, a \in IndexedAssets : PrepareCandidate(s, a) \/ DiscardCandidate(s, a)
  PROVE  SnapshotInv'
  <1> USE DEF SnapshotInv, SnapshotTypeOK
  <1>1. ASSUME NEW a \in IndexedAssets, SavePackage(a)
        PROVE  SnapshotInv'
    <2>1. PICK spent : spent = [snapshotLeft EXCEPT !.saves = @ - 1]
      OBVIOUS
    <2>2. spent \in [ids : 0..MaxGenerations, saves : 0..MaxSaves, events : 0..MaxEvents, candidates : 0..MaxCandidates]
          /\ spent.saves = snapshotLeft.saves - 1 /\ spent.ids = snapshotLeft.ids /\ spent.events = snapshotLeft.events
      BY <1>1, <2>1, SnapshotAssumption DEF SavePackage
    <2>3. snapshotLeft' = [spent EXCEPT !.events = spent.events - 1]
      BY <1>1, <2>1, <2>2 DEF SavePackage
    <2>4. /\ snapshotLeft' \in [ids : 0..MaxGenerations, saves : 0..MaxSaves, events : 0..MaxEvents, candidates : 0..MaxCandidates]
          /\ snapshotLeft'.saves = snapshotLeft.saves - 1 /\ snapshotLeft'.ids = snapshotLeft.ids
      BY <1>1, <2>2, <2>3, SnapshotAssumption DEF SavePackage
    <2>5. package' = [package EXCEPT ![a] = package[a] + 1] /\ snapshotLeft.saves \in 1..MaxSaves
      BY <1>1, SnapshotAssumption DEF SavePackage
    <2>6. /\ RevisionsFit' /\ package' \in [IndexedAssets -> Revisions]
      <3>1. \A b \in IndexedAssets : package[b] \in 1..(MaxSaves + 1) /\ package[b] + snapshotLeft.saves <= MaxSaves + 1
        BY DEF RevisionsFit, Revisions
      <3>2. \A b \in IndexedAssets : package'[b] = IF b = a THEN package[a] + 1 ELSE package[b]
        BY <2>5
      <3>3. \A b \in IndexedAssets : package'[b] \in 1..(MaxSaves + 1) /\ package'[b] + snapshotLeft'.saves <= MaxSaves + 1
        BY <2>4, <2>5, <3>1, <3>2, SnapshotAssumption
      <3> QED
        BY <2>5, <3>3 DEF RevisionsFit, Revisions
    <2>7. UNCHANGED <<configured, generations, pointer, session, build>>
      BY <1>1 DEF SavePackage
    <2>8. SnapshotTypeOK'
      BY <2>4, <2>6, <2>7
    <2> QED
      BY <2>4, <2>6, <2>7, <2>8, PinsStay
  <1>2. CASE ExportProject \/ IndexExport
    <2>1. configured' \in Pair
      BY <1>2 DEF ExportProject, IndexExport, Pair, Index
    <2>2. /\ UNCHANGED <<package, generations, pointer, session, build>>
          /\ snapshotLeft'.ids = snapshotLeft.ids /\ snapshotLeft'.saves = snapshotLeft.saves
          /\ snapshotLeft' \in [ids : 0..MaxGenerations, saves : 0..MaxSaves, events : 0..MaxEvents, candidates : 0..MaxCandidates]
      BY <1>2, SnapshotAssumption DEF ExportProject, IndexExport
    <2>3. SnapshotTypeOK' /\ RevisionsFit'
      BY <2>1, <2>2 DEF RevisionsFit
    <2> QED
      BY <2>2, <2>3, PinsStay
  <1>3. ASSUME NEW s \in Servers, NEW a \in IndexedAssets, PrepareCandidate(s, a) \/ DiscardCandidate(s, a)
        PROVE  SnapshotInv'
    <2>1. PICK r \in Revisions \cup {Unindexed} : session' = [session EXCEPT ![s].candidates[a] = r]
      BY <1>3 DEF PrepareCandidate, DiscardCandidate
    <2>2. /\ session' \in [Servers -> SessionStates]
          /\ \A t \in Servers :
               /\ session'[t].state = session[t].state /\ session'[t].base = session[t].base
               /\ session'[t].applied = session[t].applied /\ session'[t].overtaken = session[t].overtaken
      <3>1. PICK c : c = [session[s].candidates EXCEPT ![a] = r]
        OBVIOUS
      <3>2. c \in Index
        BY <3>1 DEF SessionStates, Index
      <3>3. session' = [session EXCEPT ![s].candidates = c]
        BY <2>1, <3>1
      <3> QED
        BY <3>2, <3>3 DEF SessionStates
    <2>3. /\ UNCHANGED <<package, configured, generations, pointer, build>>
          /\ snapshotLeft'.ids = snapshotLeft.ids /\ snapshotLeft'.saves = snapshotLeft.saves
          /\ snapshotLeft' \in [ids : 0..MaxGenerations, saves : 0..MaxSaves, events : 0..MaxEvents, candidates : 0..MaxCandidates]
      BY <1>3, SnapshotAssumption DEF PrepareCandidate, DiscardCandidate
    <2>4. SnapshotTypeOK' /\ RevisionsFit'
      BY <2>2, <2>3 DEF RevisionsFit
    <2> QED
      BY <2>2, <2>3, <2>4, PinsStay
  <1> QED
    BY <1>1, <1>2, <1>3

\* A build that goes on towards its directory, or ends without one.
LEMMA BuildGoesOn ==
  ASSUME SnapshotInv, NEW s \in Servers, NEW b \in BuildStates, build' = [build EXCEPT ![s] = b],
         UNCHANGED <<package, configured, generations, pointer, session, snapshotLeft>>,
         b.step # "point", b.generation = Legacy,
         session[s].state = "on" /\ ~session[s].applied,
         b.step \in {"index", "publish"} => \A a \in DOMAIN b.target : b.pair.export[a] = b.target[a],
         b.step = "publish" /\ session[s].base # Legacy =>
           \A a \in IndexedAssets \ DOMAIN b.target : b.pair.db[a] = Generation(session[s].base).db[a]
  PROVE  SnapshotInv'
  <1>1. /\ build' \in [Servers -> BuildStates] /\ build'[s] = b
        /\ \A t \in Servers : t # s => build'[t] = build[t]
    BY DEF SnapshotInv, SnapshotTypeOK
  <1>2. SnapshotTypeOK' /\ RevisionsFit' /\ ActivePairIsWhole' /\ SessionsStartAtPointer' /\ pointer' <= UsedIds'
    BY <1>1 DEF SnapshotInv, SnapshotTypeOK, RevisionsFit, ActivePairIsWhole, SessionsStartAtPointer, UsedIds
  <1>3. UsedIds \in Nat /\ UsedIds' = UsedIds
    BY SnapshotAssumption DEF SnapshotInv, SnapshotTypeOK, UsedIds
  <1>4. BuildsOwnDirectories'
    BY <1>1, <1>3 DEF SnapshotInv, BuildsOwnDirectories, Legacy
  <1>5. BuildsAreConsistent'
    BY <1>1 DEF SnapshotInv, BuildsAreConsistent, Generation
  <1> QED
    BY <1>2, <1>4, <1>5 DEF SnapshotInv

\* The steps of a refresh up to the complete pair.
LEMMA RefreshKeepsInv ==
  ASSUME SnapshotInv, NEW s \in Servers,
         \/ \E a \in IndexedAssets : RefreshAsset(s, a)
         \/ \E T \in SUBSET IndexedAssets : ApplyCandidates(s, T)
         \/ CloneExport(s) \/ BuildIndex(s)
  PROVE  SnapshotInv'
  <1>1. 0 \in 0..MaxGenerations
    BY SnapshotAssumption
  <1>2. ASSUME NEW target \in Targets, Idle(s), SessionCurrent(s), StartBuild(s, target),
               UNCHANGED <<package, configured, generations, pointer, session, snapshotLeft>>
        PROVE  SnapshotInv'
    <2>1. PICK c : c = [step |-> "clone", target |-> target, pair |-> NoPair, generation |-> Legacy]
      OBVIOUS
    <2>2. c \in BuildStates /\ c.step = "clone" /\ c.generation = Legacy
      BY <1>1, <2>1, SnapshotParts DEF BuildStates, Legacy
    <2>3. build' = [build EXCEPT ![s] = c]
      BY <1>2, <2>1 DEF StartBuild, Builds
    <2> QED
      BY <1>2, <2>2, <2>3, BuildGoesOn DEF Idle, SessionCurrent
  <1>3. ASSUME NEW a \in IndexedAssets, RefreshAsset(s, a)
        PROVE  SnapshotInv'
    <2>1. [x \in {a} |-> package[x]] \in [{a} -> Revisions] /\ {a} \in SUBSET IndexedAssets
      BY DEF SnapshotInv, SnapshotTypeOK
    <2>2. [x \in {a} |-> package[x]] \in Targets
      BY <2>1, SnapshotParts
    <2> QED
      BY <1>2, <1>3, <2>2 DEF RefreshAsset
  <1>4. ASSUME NEW T \in SUBSET IndexedAssets, ApplyCandidates(s, T)
        PROVE  SnapshotInv'
    <2>1. [x \in T |-> session[s].candidates[x]] \in [T -> Revisions]
      BY <1>4 DEF ApplyCandidates, SnapshotInv, SnapshotTypeOK
    <2>2. [x \in T |-> session[s].candidates[x]] \in Targets
      BY <2>1, SnapshotParts
    <2> QED
      BY <1>2, <1>4, <2>2 DEF ApplyCandidates
  <1>5. ASSUME CloneExport(s) \/ BuildIndex(s)
        PROVE  /\ session[s].state = "on" /\ ~session[s].applied
               /\ build[s] \in BuildStates /\ BasePair(s) \in Pair
               /\ UNCHANGED <<package, configured, generations, pointer, session, snapshotLeft>>
    <2>1. build[s].step \in {"clone", "index"} /\ build[s] \in BuildStates
          /\ UNCHANGED <<package, configured, generations, pointer, session, snapshotLeft>>
      BY <1>5 DEF CloneExport, BuildIndex, SnapshotInv, SnapshotTypeOK
    <2>2. BasePair(s) \in Pair
      <3>1. session[s].base \in 0..MaxGenerations
        BY DEF SnapshotInv, SnapshotTypeOK, SessionStates
      <3> QED
        BY <3>1, SnapshotAssumption DEF BasePair, Generation, SnapshotInv, SnapshotTypeOK, Legacy, GenerationIds
    <2> QED
      BY <2>1, <2>2 DEF SnapshotInv, BuildsOwnDirectories
  <1>6. CASE CloneExport(s)
    <2>1. PICK exports : exports = Refreshed(BasePair(s).export, build[s].target)
      OBVIOUS
    <2>2. build[s].pair \in Pair /\ build[s].target \in Targets /\ BasePair(s).export \in Index
      BY <1>5, <1>6 DEF BuildStates, Pair
    <2>3. exports \in Index /\ \A a \in DOMAIN build[s].target : exports[a] = build[s].target[a]
      BY <2>1, <2>2, SnapshotParts DEF Refreshed
    <2>4. PICK c : c = [step |-> "index", target |-> build[s].target,
                        pair |-> [db |-> build[s].pair.db, export |-> exports], generation |-> Legacy]
      OBVIOUS
    <2>5. /\ c \in BuildStates /\ c.step = "index" /\ c.generation = Legacy /\ c.target = build[s].target
          /\ c.pair.export = exports
      BY <1>1, <2>2, <2>3, <2>4, SnapshotParts DEF BuildStates, Pair, Legacy
    <2>6. build' = [build EXCEPT ![s] = c]
      BY <1>6, <2>1, <2>4 DEF CloneExport, WithClonedExport, Builds
    <2> QED
      BY <1>5, <1>6, <2>3, <2>5, <2>6, BuildGoesOn
  <1>7. CASE BuildIndex(s)
    <2>1. PICK db : db = Refreshed(BasePair(s).db, build[s].target)
      OBVIOUS
    <2>2. build[s].pair \in Pair /\ build[s].target \in Targets /\ BasePair(s).db \in Index /\ build[s].step = "index"
      BY <1>5, <1>7 DEF BuildStates, Pair, BuildIndex
    <2>3. db \in Index
      BY <2>1, <2>2, SnapshotParts
    <2>4. \A a \in IndexedAssets \ DOMAIN build[s].target : db[a] = BasePair(s).db[a]
      BY <2>1 DEF Refreshed
    <2>5. PICK c : c = [step |-> "publish", target |-> build[s].target,
                        pair |-> [db |-> db, export |-> build[s].pair.export], generation |-> Legacy]
      OBVIOUS
    <2>6. /\ c \in BuildStates /\ c.step = "publish" /\ c.generation = Legacy /\ c.target = build[s].target
          /\ c.pair.export = build[s].pair.export /\ c.pair.db = db
      BY <1>1, <2>2, <2>3, <2>5, SnapshotParts DEF BuildStates, Pair, Legacy
    <2>7. build' = [build EXCEPT ![s] = c]
      BY <1>7, <2>1, <2>5 DEF BuildIndex, Builds
    <2>8. \A a \in DOMAIN c.target : c.pair.export[a] = c.target[a]
      BY <2>2, <2>6 DEF SnapshotInv, BuildsAreConsistent
    <2>9. session[s].base # Legacy =>
            \A a \in IndexedAssets \ DOMAIN c.target : c.pair.db[a] = Generation(session[s].base).db[a]
      BY <2>4, <2>6 DEF BasePair
    <2> QED
      BY <1>5, <1>7, <2>6, <2>7, <2>8, <2>9, BuildGoesOn
  <1> QED
    BY <1>3, <1>4, <1>6, <1>7

\* A server starts from what the pointer names, or stops; no build is at work before or
\* after.
LEMMA SessionKeepsInv ==
  ASSUME SnapshotInv, NEW s \in Servers, Resolve(s) \/ FreezeExport(s) \/ StopServer(s)
  PROVE  SnapshotInv'
  <1> USE DEF Legacy
  <1>1. PICK new \in SessionStates :
          /\ session' = [session EXCEPT ![s] = new]
          /\ new.base \in {Legacy, pointer, session[s].base} /\ new.state \in {"off", "freezing", "on"}
          /\ new.state # "off" /\ ~new.overtaken /\ ~new.applied => new.base = pointer
          /\ ~new.applied
    <2>1. CASE Resolve(s)
      <3>1. PICK new : new = Session(IF pointer = Legacy THEN "freezing" ELSE "on", pointer,
                                     [db |-> configured.db, export |-> NoPair.export], FALSE)
        OBVIOUS
      <3>2. [db |-> configured.db, export |-> NoPair.export] \in Pair /\ pointer \in 0..MaxGenerations
        BY SnapshotParts DEF SnapshotInv, SnapshotTypeOK, Pair
      <3>3. new \in SessionStates
        BY <3>1, <3>2, SnapshotParts
      <3> QED
        BY <2>1, <3>1, <3>3 DEF Resolve, Session
    <2>2. CASE FreezeExport(s)
      <3>1. PICK new : new = Session("on", session[s].base, [db |-> session[s].pair.db, export |-> configured.export],
                                     session[s].overtaken)
        OBVIOUS
      <3>2. /\ [db |-> session[s].pair.db, export |-> configured.export] \in Pair
            /\ session[s].base \in 0..MaxGenerations /\ session[s].overtaken \in BOOLEAN
        BY DEF SnapshotInv, SnapshotTypeOK, SessionStates, Pair
      <3>3. new \in SessionStates
        BY <3>1, <3>2, SnapshotParts
      <3>4. session[s].state = "freezing" /\ session' = [session EXCEPT ![s] = new]
        BY <2>2, <3>1 DEF FreezeExport
      <3> QED
        BY <3>1, <3>3, <3>4 DEF Session, SnapshotInv, SessionsStartAtPointer
    <2>3. CASE StopServer(s)
      BY <2>3, SnapshotParts DEF StopServer, NoSession, Session
    <2> QED
      BY <2>1, <2>2, <2>3
  <1>2. /\ session' \in [Servers -> SessionStates] /\ session'[s] = new
        /\ \A t \in Servers : t # s => session'[t] = session[t]
    BY <1>1 DEF SnapshotInv, SnapshotTypeOK
  <1>3. /\ UNCHANGED <<package, configured, generations, pointer>>
        /\ snapshotLeft'.ids = snapshotLeft.ids /\ snapshotLeft'.saves = snapshotLeft.saves
        /\ snapshotLeft' \in [ids : 0..MaxGenerations, saves : 0..MaxSaves, events : 0..MaxEvents, candidates : 0..MaxCandidates]
    <2>1. CASE Resolve(s)
      BY <2>1, SnapshotAssumption DEF Resolve, SnapshotInv, SnapshotTypeOK
    <2>2. CASE FreezeExport(s) \/ StopServer(s)
      BY <2>2 DEF FreezeExport, StopServer, SnapshotInv, SnapshotTypeOK
    <2> QED
      BY <2>1, <2>2
  <1>4. /\ build' \in [Servers -> BuildStates]
        /\ build'[s].step = "idle" /\ build'[s].generation = Legacy
        /\ \A t \in Servers : t # s => build'[t] = build[t]
    <2>1. CASE Resolve(s) \/ FreezeExport(s)
      <3>1. build' = build /\ session[s].state # "on"
        BY <2>1 DEF Resolve, FreezeExport
      <3> QED
        BY <3>1 DEF SnapshotInv, SnapshotTypeOK, BuildsOwnDirectories
    <2>2. CASE StopServer(s)
      BY <2>2, SnapshotParts DEF StopServer, SnapshotInv, SnapshotTypeOK, NoBuild
    <2> QED
      BY <2>1, <2>2
  <1>5. SnapshotTypeOK' /\ RevisionsFit'
    BY <1>2, <1>3, <1>4 DEF SnapshotInv, SnapshotTypeOK, RevisionsFit
  <1>6. UsedIds' = UsedIds /\ UsedIds \in Nat /\ pointer' <= UsedIds'
    BY <1>3, SnapshotAssumption DEF UsedIds, SnapshotInv, SnapshotTypeOK
  <1>7. BuildsOwnDirectories'
    <2>1. new.base <= UsedIds
      BY <1>1, <1>6 DEF SnapshotInv, BuildsOwnDirectories
    <2>2. \A t \in Servers : build[t].step = "point" => build[t].generation # new.base
      BY <1>1 DEF SnapshotInv, BuildsOwnDirectories
    <2> QED
      BY <1>2, <1>3, <1>4, <1>6, <2>1, <2>2 DEF SnapshotInv, BuildsOwnDirectories
  <1>8. BuildsAreConsistent'
    BY <1>2, <1>3, <1>4 DEF SnapshotInv, BuildsAreConsistent, Generation
  <1>9. SessionsStartAtPointer'
    BY <1>1, <1>2, <1>3 DEF SnapshotInv, SessionsStartAtPointer
  <1>10. ActivePairIsWhole'
    BY <1>3 DEF SnapshotInv, ActivePairIsWhole
  <1> QED
    BY <1>5, <1>6, <1>7, <1>8, <1>9, <1>10 DEF SnapshotInv

\* A complete pair gets a directory that nobody has used yet.
LEMMA PublishKeepsInv ==
  ASSUME SnapshotInv, NEW s \in Servers, PublishDirectory(s)
  PROVE  SnapshotInv'
  <1> USE DEF Legacy
  <1>1. PICK g : g = NextGeneration
    OBVIOUS
  <1>2. /\ build[s].step = "publish" /\ snapshotLeft.ids \in 1..MaxGenerations
        /\ build[s] \in BuildStates /\ generations \in [GenerationIds -> [whole : BOOLEAN, pair : Pair, refreshed : Targets]]
        /\ MaxGenerations \in Nat
    BY SnapshotAssumption DEF PublishDirectory, WithPublished, SnapshotInv, SnapshotTypeOK
  <1>3. /\ g \in GenerationIds /\ g = UsedIds + 1 /\ UsedIds \in Nat
    BY <1>1, <1>2 DEF NextGeneration, GenerationIds, UsedIds
  <1>4. PICK b : b = [step |-> "point", target |-> build[s].target, pair |-> build[s].pair, generation |-> g]
    OBVIOUS
  <1>5. PICK d : d = [whole |-> TRUE, pair |-> build[s].pair, refreshed |-> build[s].target]
    OBVIOUS
  <1>6. /\ b \in BuildStates /\ b.step = "point" /\ b.generation = g /\ b.target = build[s].target /\ b.pair = build[s].pair
    BY <1>2, <1>3, <1>4 DEF BuildStates, GenerationIds
  <1>7. d \in [whole : BOOLEAN, pair : Pair, refreshed : Targets]
    BY <1>2, <1>5 DEF BuildStates
  <1>8. /\ build' = [build EXCEPT ![s] = b] /\ generations' = [generations EXCEPT ![g] = d]
        /\ snapshotLeft' = [snapshotLeft EXCEPT !.ids = @ - 1]
        /\ UNCHANGED <<package, configured, pointer, session>>
    BY <1>1, <1>4, <1>5 DEF PublishDirectory, WithPublished, Builds
  <1>9. /\ build' \in [Servers -> BuildStates] /\ build'[s] = b
        /\ \A t \in Servers : t # s => build'[t] = build[t]
    BY <1>6, <1>8 DEF SnapshotInv, SnapshotTypeOK
  <1>10. /\ generations' \in [GenerationIds -> [whole : BOOLEAN, pair : Pair, refreshed : Targets]]
         /\ generations'[g] = d /\ \A h : h # g => generations'[h] = generations[h]
    BY <1>2, <1>3, <1>7, <1>8
  <1>11. /\ snapshotLeft' \in [ids : 0..MaxGenerations, saves : 0..MaxSaves, events : 0..MaxEvents, candidates : 0..MaxCandidates]
         /\ UsedIds' = g /\ snapshotLeft'.saves = snapshotLeft.saves
    BY <1>2, <1>3, <1>8 DEF SnapshotInv, SnapshotTypeOK, UsedIds
  <1>12. SnapshotTypeOK' /\ RevisionsFit'
    BY <1>8, <1>9, <1>10, <1>11 DEF SnapshotInv, SnapshotTypeOK, RevisionsFit
  <1>13. pointer # g /\ \A t \in Servers : session[t].base # g /\ build[t].generation # g
    BY <1>2, <1>3 DEF SnapshotInv, SnapshotTypeOK, BuildsOwnDirectories, SessionStates, BuildStates
  <1>14. \A n \in 0..MaxGenerations : n <= UsedIds => n <= g
    BY <1>3
  <1>15. BuildsOwnDirectories'
    <2>1. ASSUME NEW t \in Servers, t # s
          PROVE  /\ build'[t].step # "idle" => session'[t].state = "on" /\ ~session'[t].applied
                 /\ build'[t].step = "point" <=> build'[t].generation # Legacy
                 /\ build'[t].step = "point" =>
                      /\ build'[t].generation # pointer'
                      /\ \A r \in Servers : session'[r].base # build'[t].generation
                      /\ \A r \in Servers : build'[r].generation = build'[t].generation => r = t
      BY <1>6, <1>8, <1>9, <1>13, <2>1 DEF SnapshotInv, BuildsOwnDirectories
    <2>2. /\ build'[s].step # "idle" => session'[s].state = "on" /\ ~session'[s].applied
          /\ build'[s].step = "point" <=> build'[s].generation # Legacy
          /\ build'[s].step = "point" =>
               /\ build'[s].generation # pointer'
               /\ \A r \in Servers : session'[r].base # build'[s].generation
               /\ \A r \in Servers : build'[r].generation = build'[s].generation => r = s
      BY <1>2, <1>3, <1>6, <1>8, <1>9, <1>13 DEF SnapshotInv, BuildsOwnDirectories
    <2>3. ASSUME NEW t \in Servers
          PROVE  build'[t].generation <= UsedIds' /\ session'[t].base <= UsedIds'
      BY <1>3, <1>6, <1>8, <1>9, <1>11, <1>14
         DEF SnapshotInv, SnapshotTypeOK, BuildsOwnDirectories, SessionStates, BuildStates
    <2> QED
      BY <2>1, <2>2, <2>3 DEF BuildsOwnDirectories
  <1>16. BuildsAreConsistent'
    <2>1. \A a \in DOMAIN build[s].target : build[s].pair.db[a] = build[s].target[a]
      BY DEF PublishDirectory, WithPublished, Validated
    <2>2. generations'[g] = [whole |-> TRUE, pair |-> b.pair, refreshed |-> b.target]
      BY <1>5, <1>6, <1>10
    <2>3. \A t \in Servers : t # s => build'[t] = build[t] /\ generations'[build[t].generation] = generations[build[t].generation]
      BY <1>9, <1>10, <1>13
    <2>4. \A t \in Servers : Generation(session[t].base)' = Generation(session[t].base)
      BY <1>8, <1>10, <1>13 DEF Generation
    <2>5. build[s].step = "publish" => \A a \in DOMAIN b.target : b.pair.export[a] = b.target[a]
      BY <1>6 DEF SnapshotInv, BuildsAreConsistent
    <2>6. session[s].base # Legacy =>
            \A a \in IndexedAssets \ DOMAIN b.target : b.pair.db[a] = Generation(session[s].base)'.db[a]
      BY <1>2, <1>6, <2>4 DEF SnapshotInv, BuildsAreConsistent
    <2>7. session' = session
      BY <1>8
    <2>8. /\ b.step \in {"index", "publish", "point"} => \A a \in DOMAIN b.target : b.pair.export[a] = b.target[a]
          /\ b.step \in {"publish", "point"} /\ session'[s].base # Legacy =>
               \A a \in IndexedAssets \ DOMAIN b.target : b.pair.db[a] = Generation(session[s].base)'.db[a]
          /\ b.step = "point" =>
               /\ \A a \in DOMAIN b.target : b.pair.db[a] = b.target[a]
               /\ generations'[b.generation] = [whole |-> TRUE, pair |-> b.pair, refreshed |-> b.target]
      BY <1>2, <1>6, <2>1, <2>2, <2>5, <2>6, <2>7
    <2>9. ASSUME NEW t \in Servers, t # s
          PROVE  LET c == build[t]
                 IN  /\ c.step \in {"index", "publish", "point"} => \A a \in DOMAIN c.target : c.pair.export[a] = c.target[a]
                     /\ c.step \in {"publish", "point"} /\ session'[t].base # Legacy =>
                          \A a \in IndexedAssets \ DOMAIN c.target : c.pair.db[a] = Generation(session[t].base)'.db[a]
                     /\ c.step = "point" =>
                          /\ \A a \in DOMAIN c.target : c.pair.db[a] = c.target[a]
                          /\ generations'[c.generation] = [whole |-> TRUE, pair |-> c.pair, refreshed |-> c.target]
      BY <2>3, <2>4, <2>7, <2>9 DEF SnapshotInv, BuildsAreConsistent
    <2>10. ASSUME NEW t \in Servers
           PROVE  LET c == build'[t]
                  IN  /\ c.step \in {"index", "publish", "point"} => \A a \in DOMAIN c.target : c.pair.export[a] = c.target[a]
                      /\ c.step \in {"publish", "point"} /\ session'[t].base # Legacy =>
                           \A a \in IndexedAssets \ DOMAIN c.target : c.pair.db[a] = Generation(session[t].base)'.db[a]
                      /\ c.step = "point" =>
                           /\ \A a \in DOMAIN c.target : c.pair.db[a] = c.target[a]
                           /\ generations'[c.generation] = [whole |-> TRUE, pair |-> c.pair, refreshed |-> c.target]
      <3>1. CASE t = s
        BY <3>1, <1>9, <2>8
      <3>2. CASE t # s
        <4>1. build'[t] = build[t]
          BY <3>2, <1>9
        <4> QED
          BY <3>2, <4>1, <2>9
      <3> QED
        BY <3>1, <3>2
    <2> QED
      BY <2>10 DEF BuildsAreConsistent
  <1>17. SessionsStartAtPointer' /\ ActivePairIsWhole' /\ pointer' <= UsedIds'
    BY <1>8, <1>10, <1>11, <1>13, <1>14 DEF SnapshotInv, SnapshotTypeOK, SessionsStartAtPointer, ActivePairIsWhole
  <1> QED
    BY <1>12, <1>15, <1>16, <1>17 DEF SnapshotInv

\* The pointer moves to the pair a refresh completed; every other session is overtaken.
LEMMA MovePointerKeepsInv ==
  ASSUME SnapshotInv, NEW s \in Servers, MovePointer(s)
  PROVE  SnapshotInv'
  <1> USE DEF Legacy
  <1>1. PICK m : m = [session[s] EXCEPT !.applied = TRUE]
    OBVIOUS
  <1>2. PICK c : c = [a \in IndexedAssets |-> IF a \in DOMAIN build[s].target THEN Unindexed ELSE session[s].candidates[a]]
    OBVIOUS
  <1>3. session[s] \in SessionStates /\ build[s] \in BuildStates /\ build[s].step = "point" /\ session[s].state = "on"
    BY DEF MovePointer, SnapshotInv, SnapshotTypeOK, BuildsOwnDirectories
  <1>4. m \in SessionStates /\ m.applied /\ m.base = session[s].base /\ m.state = "on" /\ m.candidates = session[s].candidates
    BY <1>1, <1>3 DEF SessionStates
  <1>5. c \in Index
    BY <1>2, <1>3 DEF SessionStates, Index
  <1>6. PICK n : n = [m EXCEPT !.candidates = c]
    OBVIOUS
  <1>7. n \in SessionStates /\ n.applied /\ n.base = session[s].base /\ n.state = "on"
    BY <1>4, <1>5, <1>6 DEF SessionStates
  <1>8. session'[s] = n
    BY <1>1, <1>2, <1>3, <1>4, <1>6 DEF MovePointer, SessionStates
  <1>9. ASSUME NEW t \in Servers, t # s
        PROVE  /\ session'[t] \in SessionStates /\ session'[t].state = session[t].state
               /\ session'[t].base = session[t].base /\ session'[t].applied = session[t].applied
               /\ session'[t].overtaken = (session[t].state # "off")
    <2>1. session'[t] = [session[t] EXCEPT !.overtaken = (session[t].state # "off")]
      BY <1>9 DEF MovePointer
    <2>2. session[t] \in SessionStates
      BY DEF SnapshotInv, SnapshotTypeOK
    <2>3. PICK o \in BOOLEAN : o = (session[t].state # "off")
      OBVIOUS
    <2>4. session'[t] = [session[t] EXCEPT !.overtaken = o]
      BY <2>1, <2>3
    <2> QED
      BY <2>2, <2>3, <2>4 DEF SessionStates
  <1>10. session' \in [Servers -> SessionStates]
    <2>1. \A t \in Servers : session'[t] \in SessionStates
      BY <1>7, <1>8, <1>9
    <2>2. session' = [t \in Servers |-> session'[t]]
      BY DEF MovePointer
    <2> QED
      BY <2>1, <2>2
  <1>11. /\ build' \in [Servers -> BuildStates] /\ build'[s].step = "idle" /\ build'[s].generation = Legacy
         /\ \A t \in Servers : t # s => build'[t] = build[t]
    BY SnapshotParts DEF MovePointer, SnapshotInv, SnapshotTypeOK, NoBuild
  <1>12. /\ pointer' = build[s].generation /\ pointer' \in 0..MaxGenerations
         /\ UNCHANGED <<package, configured, generations, snapshotLeft>>
    BY <1>3 DEF MovePointer, BuildStates
  <1>13. SnapshotTypeOK' /\ RevisionsFit'
    BY <1>10, <1>11, <1>12 DEF SnapshotInv, SnapshotTypeOK, RevisionsFit
  <1>14. UsedIds' = UsedIds /\ UsedIds \in Nat
    BY <1>12, SnapshotAssumption DEF UsedIds, SnapshotInv, SnapshotTypeOK
  <1>15. \A t \in Servers : session'[t].base = session[t].base /\ session'[t].state = session[t].state
    BY <1>3, <1>7, <1>8, <1>9
  <1>16. BuildsOwnDirectories'
    BY <1>9, <1>11, <1>12, <1>14, <1>15 DEF SnapshotInv, BuildsOwnDirectories
  <1>17. BuildsAreConsistent'
    BY <1>11, <1>12, <1>15 DEF SnapshotInv, BuildsAreConsistent, Generation
  <1>18. SessionsStartAtPointer'
    BY <1>7, <1>8, <1>9 DEF SnapshotInv, SessionsStartAtPointer
  <1>19. ActivePairIsWhole'
    <2>1. PICK b : b = build[s]
      OBVIOUS
    <2>2. PICK active : active = generations'[pointer']
      OBVIOUS
    <2>3. /\ \A a \in DOMAIN b.target : b.pair.export[a] = b.target[a] /\ b.pair.db[a] = b.target[a]
          /\ active = [whole |-> TRUE, pair |-> b.pair, refreshed |-> b.target]
      BY <1>3, <1>12, <2>1, <2>2 DEF SnapshotInv, BuildsAreConsistent
    <2>4. active.whole /\ active.pair = b.pair /\ active.refreshed = b.target
      BY <2>3
    <2> QED
      BY <2>2, <2>3, <2>4 DEF ActivePairIsWhole
  <1>20. pointer' <= UsedIds'
    BY <1>12, <1>14 DEF SnapshotInv, BuildsOwnDirectories
  <1> QED
    BY <1>13, <1>16, <1>17, <1>18, <1>19, <1>20 DEF SnapshotInv

\* A refresh that fails takes only the directory that it alone knows.
LEMMA FailBuildKeepsInv ==
  ASSUME SnapshotInv, NEW s \in Servers, FailBuild(s)
  PROVE  SnapshotInv'
  <1> USE DEF Legacy
  <1>1. /\ build' \in [Servers -> BuildStates] /\ build'[s].step = "idle" /\ build'[s].generation = Legacy
        /\ \A t \in Servers : t # s => build'[t] = build[t]
    BY SnapshotParts DEF FailBuild, SnapshotInv, SnapshotTypeOK, NoBuild
  <1>2. generations' \in [GenerationIds -> [whole : BOOLEAN, pair : Pair, refreshed : Targets]]
    BY SnapshotParts DEF FailBuild, SnapshotInv, SnapshotTypeOK
  <1>3. UNCHANGED <<package, configured, pointer, session, snapshotLeft>>
    BY DEF FailBuild
  <1>4. \A g \in GenerationIds : g # build[s].generation => generations'[g] = generations[g]
    BY DEF FailBuild
  <1>5. 0 \notin GenerationIds /\ \A n \in 0..MaxGenerations : n # 0 => n \in GenerationIds
    BY SnapshotAssumption DEF GenerationIds
  <1>6. ASSUME pointer # Legacy PROVE generations'[pointer] = generations[pointer]
    BY <1>4, <1>5, <1>6 DEF SnapshotInv, SnapshotTypeOK, BuildsOwnDirectories
  <1>7. ASSUME NEW t \in Servers, session[t].base # Legacy
        PROVE  generations'[session[t].base] = generations[session[t].base]
    BY <1>4, <1>5, <1>7 DEF SnapshotInv, SnapshotTypeOK, SessionStates, BuildsOwnDirectories
  <1>8. ASSUME NEW t \in Servers, t # s, build[t].step = "point"
        PROVE  generations'[build[t].generation] = generations[build[t].generation]
    BY <1>4, <1>5, <1>8 DEF SnapshotInv, SnapshotTypeOK, BuildStates, BuildsOwnDirectories
  <1>9. SnapshotTypeOK' /\ RevisionsFit' /\ SessionsStartAtPointer'
    BY <1>1, <1>2, <1>3 DEF SnapshotInv, SnapshotTypeOK, RevisionsFit, SessionsStartAtPointer
  <1>10. UsedIds' = UsedIds /\ UsedIds \in Nat
    BY <1>3, SnapshotAssumption DEF UsedIds, SnapshotInv, SnapshotTypeOK
  <1>11. BuildsOwnDirectories'
    BY <1>1, <1>3, <1>10 DEF SnapshotInv, BuildsOwnDirectories
  <1>12. BuildsAreConsistent'
    BY <1>1, <1>3, <1>7, <1>8 DEF SnapshotInv, BuildsAreConsistent, Generation
  <1>13. ActivePairIsWhole' /\ pointer' <= UsedIds'
    BY <1>3, <1>6, <1>10 DEF SnapshotInv, ActivePairIsWhole
  <1> QED
    BY <1>9, <1>11, <1>12, <1>13 DEF SnapshotInv

\* Every step keeps the invariant.
LEMMA SnapshotStep == SnapshotInv /\ [SnapshotNext]_snapshotVars => SnapshotInv'
  <1> SUFFICES ASSUME SnapshotInv, [SnapshotNext]_snapshotVars PROVE SnapshotInv'
    OBVIOUS
  <1>1. ASSUME NEW s \in Servers, ServerSteps(s)
        PROVE  SnapshotInv'
    BY <1>1, SessionKeepsInv, RefreshKeepsInv, UserStepsKeepPins, PublishKeepsInv, MovePointerKeepsInv,
       FailBuildKeepsInv DEF ServerSteps
  <1>2. CASE (\E a \in IndexedAssets : SavePackage(a)) \/ ExportProject \/ IndexExport
    BY <1>2, UserStepsKeepPins
  <1>3. CASE UNCHANGED snapshotVars
    BY <1>3 DEF snapshotVars, SnapshotInv, SnapshotTypeOK, RevisionsFit, UsedIds, BuildsOwnDirectories,
       BuildsAreConsistent, SessionsStartAtPointer, ActivePairIsWhole, Generation
  <1> QED
    BY <1>1, <1>2, <1>3 DEF SnapshotNext

\* Every reachable state of the index generations satisfies the invariant.
THEOREM SnapshotInvariant == SnapshotSpec => []SnapshotInv
  BY SnapshotsStart, SnapshotStep, PTL DEF SnapshotSpec

\* A server can always start again: whatever failed or died, the pointer names a whole
\* generation whose index and export agree on what its refresh was for.
THEOREM ActivePairIsAlwaysWhole == SnapshotSpec => []ActivePairIsWhole
  <1>1. SnapshotInv => ActivePairIsWhole
    BY DEF SnapshotInv
  <1> QED
    BY <1>1, SnapshotInvariant, PTL

\* The pairs of the generations that sessions and the pointer name are never written.
LEMMA NamedGenerationsStay ==
  ASSUME SnapshotInv, [SnapshotNext]_snapshotVars
  PROVE  /\ pointer # Legacy => generations'[pointer] = generations[pointer]
         /\ \A t \in Servers : session[t].base # Legacy =>
              generations'[session[t].base] = generations[session[t].base]
         /\ \A t \in Servers : build[t].step = "point" /\ build'[t] # NoBuild =>
              generations'[build[t].generation] = generations[build[t].generation]
  <1> SUFFICES ASSUME generations' # generations
               PROVE  /\ pointer # Legacy => generations'[pointer] = generations[pointer]
                      /\ \A t \in Servers : session[t].base # Legacy =>
                           generations'[session[t].base] = generations[session[t].base]
                      /\ \A t \in Servers : build[t].step = "point" /\ build'[t] # NoBuild =>
                           generations'[build[t].generation] = generations[build[t].generation]
    OBVIOUS
  <1> USE DEF Legacy
  <1>1. PICK s \in Servers : PublishDirectory(s) \/ FailBuild(s)
    BY DEF SnapshotNext, snapshotVars, ServerSteps, Resolve, FreezeExport, StopServer, RefreshAsset, PrepareCandidate,
       DiscardCandidate, ApplyCandidates, CloneExport, BuildIndex, MovePointer, SavePackage, ExportProject, IndexExport
  <1>2. 0 \notin GenerationIds /\ \A n \in 0..MaxGenerations : n # 0 => n \in GenerationIds
    BY SnapshotAssumption DEF GenerationIds
  <1>3. /\ pointer \in 0..MaxGenerations /\ \A t \in Servers : session[t].base \in 0..MaxGenerations
        /\ \A t \in Servers : build[t].generation \in 0..MaxGenerations
        /\ build \in [Servers -> BuildStates]
        /\ generations \in [GenerationIds -> [whole : BOOLEAN, pair : Pair, refreshed : Targets]]
    BY DEF SnapshotInv, SnapshotTypeOK, SessionStates, BuildStates
  <1>4. CASE PublishDirectory(s)
    <2>1. PICK g : g = NextGeneration
      OBVIOUS
    <2>2. g = UsedIds + 1 /\ UsedIds \in Nat
      BY <2>1, SnapshotAssumption DEF NextGeneration, UsedIds, SnapshotInv, SnapshotTypeOK
    <2>3. pointer # g /\ \A t \in Servers : session[t].base # g /\ build[t].generation # g
      BY <1>3, <2>2 DEF SnapshotInv, BuildsOwnDirectories
    <2>4. \A h : h # g => generations'[h] = generations[h]
      BY <1>3, <1>4, <2>1 DEF PublishDirectory
    <2> QED
      BY <2>3, <2>4
  <1>5. CASE FailBuild(s)
    <2>1. /\ \A g \in GenerationIds : g # build[s].generation => generations'[g] = generations[g]
          /\ build'[s] = NoBuild
      BY <1>3, <1>5 DEF FailBuild
    <2>2. pointer # Legacy => pointer # build[s].generation
      BY DEF SnapshotInv, BuildsOwnDirectories
    <2>3. \A t \in Servers : session[t].base # Legacy => session[t].base # build[s].generation
      BY DEF SnapshotInv, BuildsOwnDirectories
    <2>4. \A t \in Servers : build[t].step = "point" /\ t # s =>
            build[t].generation # Legacy /\ build[t].generation # build[s].generation
      BY DEF SnapshotInv, BuildsOwnDirectories
    <2> QED
      BY <1>2, <1>3, <2>1, <2>2, <2>3, <2>4
  <1> QED
    BY <1>1, <1>4, <1>5

\* A server that runs before and after a step still starts from the same pair.
LEMMA RunningSessionsKeepTheirPair ==
  ASSUME SnapshotInv, [SnapshotNext]_snapshotVars, NEW t \in Servers,
         session[t].state = "on", session'[t].state = "on"
  PROVE  session'[t].base = session[t].base /\ session'[t].pair = session[t].pair
  <1> SUFFICES ASSUME session' # session
               PROVE  session'[t].base = session[t].base /\ session'[t].pair = session[t].pair
    OBVIOUS
  <1>1. session \in [Servers -> SessionStates]
    BY DEF SnapshotInv, SnapshotTypeOK
  <1>2. PICK s \in Servers :
          \/ Resolve(s) \/ FreezeExport(s) \/ StopServer(s) \/ MovePointer(s)
          \/ \E a \in IndexedAssets : PrepareCandidate(s, a) \/ DiscardCandidate(s, a)
    BY DEF SnapshotNext, snapshotVars, ServerSteps, RefreshAsset, ApplyCandidates, CloneExport, BuildIndex,
       PublishDirectory, FailBuild, SavePackage, ExportProject, IndexExport
  <1>3. CASE Resolve(s) \/ FreezeExport(s)
    <2>1. t # s
      BY <1>3 DEF Resolve, FreezeExport
    <2> QED
      BY <1>1, <1>3, <2>1 DEF Resolve, FreezeExport
  <1>4. CASE StopServer(s)
    <2>1. t # s
      BY <1>1, <1>4 DEF StopServer, NoSession, Session
    <2> QED
      BY <1>1, <1>4, <2>1 DEF StopServer
  <1>5. CASE MovePointer(s)
    <2>1. PICK m : m = [session[s] EXCEPT !.applied = TRUE]
      OBVIOUS
    <2>2. m \in SessionStates /\ m.base = session[s].base /\ m.pair = session[s].pair
      BY <1>1, <2>1 DEF SessionStates
    <2>3. PICK c : c = [a \in IndexedAssets |-> IF a \in DOMAIN build[s].target THEN Unindexed ELSE session[s].candidates[a]]
      OBVIOUS
    <2>4. m.candidates = session[s].candidates
      BY <1>1, <2>1 DEF SessionStates
    <2>5. session'[s] = [m EXCEPT !.candidates = c]
      BY <1>5, <2>1, <2>3, <2>4 DEF MovePointer
    <2>6. session'[s].base = session[s].base /\ session'[s].pair = session[s].pair
      BY <2>2, <2>5 DEF SessionStates
    <2>7. t # s => session'[t] = [session[t] EXCEPT !.overtaken = (session[t].state # "off")]
      BY <1>5 DEF MovePointer
    <2> QED
      BY <1>1, <2>6, <2>7 DEF SessionStates
  <1>6. CASE \E a \in IndexedAssets : PrepareCandidate(s, a) \/ DiscardCandidate(s, a)
    <2>1. PICK c : session' = [session EXCEPT ![s].candidates = c]
      BY <1>6 DEF PrepareCandidate, DiscardCandidate
    <2> QED
      BY <1>1, <2>1 DEF SessionStates
  <1> QED
    BY <1>2, <1>3, <1>4, <1>5, <1>6

\* What a running server answers from never changes: not when the user rebuilds the
\* configured pair, and not when it or another server refreshes assets.
THEOREM FrozenPairsStay == SnapshotSpec => FrozenPairsNeverChange
  <1>1. ASSUME SnapshotInv, [SnapshotNext]_snapshotVars
        PROVE  [\A s \in Servers : session[s].state = "on" /\ session'[s].state = "on"
                  => FrozenPair(s)' = FrozenPair(s)]_snapshotVars
    <2>1. ASSUME NEW s \in Servers, session[s].state = "on", session'[s].state = "on"
          PROVE  FrozenPair(s)' = FrozenPair(s)
      <3>1. session'[s].base = session[s].base /\ session'[s].pair = session[s].pair
        BY <1>1, <2>1, RunningSessionsKeepTheirPair
      <3>2. session[s].base # Legacy => generations'[session[s].base] = generations[session[s].base]
        BY <1>1, NamedGenerationsStay
      <3> QED
        BY <3>1, <3>2 DEF FrozenPair, Generation, Legacy
    <2> QED
      BY <2>1
  <1> QED
    BY <1>1, SnapshotInvariant, PTL DEF SnapshotSpec, FrozenPairsNeverChange

\* A refresh keeps what earlier refreshes brought into the index, unless another server
\* moved the pointer since this one started.
THEOREM EarlierRefreshesAreKept == SnapshotSpec => RefreshKeepsEarlierOnes
  <1>1. ASSUME SnapshotInv, [SnapshotNext]_snapshotVars
        PROVE  [\A s \in Servers :
                  build[s].step = "point" /\ pointer # Legacy /\ pointer' = build[s].generation
                    /\ ~session[s].overtaken
                  => \A a \in IndexedAssets \ DOMAIN build[s].target :
                       Generation(pointer').db[a] = Generation(pointer).db[a]]_snapshotVars
    <2>1. ASSUME NEW s \in Servers, build[s].step = "point", pointer # Legacy, pointer' = build[s].generation,
                 ~session[s].overtaken, NEW a \in IndexedAssets \ DOMAIN build[s].target
          PROVE  Generation(pointer').db[a] = Generation(pointer).db[a]
      <3>1. session[s].state = "on" /\ ~session[s].applied /\ session[s].base = pointer
        BY <1>1, <2>1 DEF SnapshotInv, BuildsOwnDirectories, SessionsStartAtPointer
      <3>2. /\ build[s].pair.db[a] = Generation(pointer).db[a]
            /\ generations[build[s].generation] = [whole |-> TRUE, pair |-> build[s].pair, refreshed |-> build[s].target]
        BY <1>1, <2>1, <3>1 DEF SnapshotInv, BuildsAreConsistent
      <3> QED
        BY <2>1, <3>2 DEF Generation
    <2> QED
      BY <2>1
  <1> QED
    BY <1>1, SnapshotInvariant, PTL DEF SnapshotSpec, RefreshKeepsEarlierOnes

(***************************************************************************)
(* Project memory.                                                         *)
(***************************************************************************)

\* What was checked before a supersession is written stays true of the two records.
SupersessionsAreChecked ==
  \A p \in MemoryProcesses :
    worker[p].step = "superseding" =>
      worker[p].id \in Stored /\ worker[p].by \in Stored /\ worker[p].id # worker[p].by

\* What a rule made of the event at work is a record of that event; only a change set has none.
Fits(w) ==
  /\ w.step = "selected" => w.output = NoOutput
  /\ w.step = "hashed" => \A i \in w.todo : (\A j \in w.todo : i <= j) => events[i] # ChangeSetEvent
  /\ w.step \in {"output", "missing", "mark"} =>
       \A i \in w.todo : (\A j \in w.todo : i <= j) =>
         \/ events[i] = ChangeSetEvent /\ w.output = NoOutput /\ w.step = "mark"
         \/ w.output \in Outputs /\ w.output.id = RecordId(events[i])

\* A call that is about to mark its event has found its record, or written it.
Written(w, rs) ==
  w.step = "mark" /\ w.output # NoOutput =>
    rs[w.output.id].status # "none" /\ rs[w.output.id].content = w.output.content

RulesFitTheirEvents == \A p \in MemoryProcesses : Fits(worker[p]) /\ Written(worker[p], records)

MemoryInv ==
  /\ MemoryTypeOK
  /\ SupersessionsAreChecked
  /\ RulesFitTheirEvents
  /\ DistilledEventsLeaveRecords
  /\ ContradictionsAreMarked

\* Identifiers and what rules make of events have their types.
LEMMA MemoryIds ==
  /\ RecordIds \subseteq RecordContents /\ NoId \in RecordContents /\ NoId \notin RecordIds
  /\ \A n \in 1..MaxNotes : NoteId(n) \in RecordIds
  /\ \A e \in MemoryEvents \ {ChangeSetEvent} : RecordId(e) \in RecordIds
  <1>1. /\ \A n \in 1..MaxNotes : NoteId(n) \in RecordIds
        /\ \A e \in MemoryEvents \ {ChangeSetEvent} : RecordId(e) \in RecordIds
    BY DEF RecordIds
  <1>2. ASSUME NEW id \in RecordIds
        PROVE  id \in RecordContents /\ id # NoId
    <2>1. Versions \subseteq Nat /\ 1..MaxNotes \subseteq Nat
      BY MemoryAssumption DEF Versions
    <2>2. CASE \E e \in MemoryEvents \ {ChangeSetEvent} : id = RecordId(e)
      <3>1. PICK e \in MemoryEvents \ {ChangeSetEvent} : id = RecordId(e)
        BY <2>2
      <3>2. CASE e = RejectionEvent
        BY <3>1, <3>2 DEF RejectionEvent, RecordId, RecordContents, NoId
      <3>3. CASE \E v \in Versions : e = WriteEvent(v)
        BY <2>1, <3>1, <3>3 DEF WriteEvent, RecordId, RecordContents, NoId
      <3> QED
        BY <3>1, <3>2, <3>3 DEF MemoryEvents
    <2>3. CASE \E n \in 1..MaxNotes : id = NoteId(n)
      BY <2>1, <2>3 DEF NoteId, RecordContents, NoId
    <2> QED
      BY <1>2, <2>2, <2>3 DEF RecordIds
  <1>3. NoId \in RecordContents
    BY DEF NoId, RecordContents
  <1> QED
    BY <1>1, <1>2, <1>3

\* What no rule made is told from what one made.
LEMMA NoOutputIsNone == NoOutput \notin Outputs
  BY MemoryIds DEF NoOutput, Output, Outputs

\* What starts a worker has its type.
LEMMA WorkerParts ==
  /\ NoWork \in WorkerStates
  /\ \A step \in {"idle", "selected", "hashed", "output", "missing", "mark"},
        todo \in SUBSET DOMAIN events, output \in Outputs \cup {NoOutput} :
       Distilling(step, todo, output) \in WorkerStates
  /\ \A step \in {"superseding", "check", "stale"}, id \in RecordIds \cup {NoId}, by \in RecordIds \cup {NoId},
        targets \in SUBSET RecordIds, mode \in {"none", "index", "sources"} :
       Reviewing(step, id, by, targets, mode) \in WorkerStates
  <1>1. \A step \in {"idle", "selected", "hashed", "output", "missing", "mark"},
           todo \in SUBSET DOMAIN events, output \in Outputs \cup {NoOutput} :
          Distilling(step, todo, output) \in WorkerStates
    BY DEF Distilling, WorkerStates
  <1>2. \A step \in {"superseding", "check", "stale"}, id \in RecordIds \cup {NoId}, by \in RecordIds \cup {NoId},
           targets \in SUBSET RecordIds, mode \in {"none", "index", "sources"} :
          Reviewing(step, id, by, targets, mode) \in WorkerStates
    BY DEF Reviewing, WorkerStates
  <1>3. NoWork \in WorkerStates
    BY <1>1 DEF NoWork
  <1> QED
    BY <1>1, <1>2, <1>3

\* What every change of records keeps: types, successors and marked contradictions; no
\* record is deleted or says something else.
RecordsKept ==
  /\ records' \in [RecordIds -> MemoryRecords]
  /\ \A id \in RecordIds : records'[id].by # NoId => records'[id].by \in Stored' \ {id}
  /\ \A id \in Stored : id \in Stored' /\ records'[id].content = records[id].content
  /\ ContradictionsAreMarked'

\* A new record and those it contradicts are marked in the transaction that creates it.
LEMMA CreationKeepsRecords ==
  ASSUME MemoryInv, NEW id \in RecordIds, id \notin Stored, NEW content \in RecordContents,
         NEW revision \in {0} \cup Versions, records' = Created(id, content, revision)
  PROVE  RecordsKept /\ id \in Stored' /\ records'[id].content = content
  <1>1. PICK others : others = Contradicted(id, content)
    OBVIOUS
  <1>2. PICK status \in ActiveStatuses : status = IF others = {} THEN "current" ELSE "conflicted"
    BY DEF ActiveStatuses
  <1>3. PICK r : r = Record(status, content, revision, NoId)
    OBVIOUS
  <1>4. r \in MemoryRecords /\ r.status = status /\ r.content = content /\ r.by = NoId
    BY <1>2, <1>3 DEF Record, MemoryRecords
  <1>5. records \in [RecordIds -> MemoryRecords] /\ others \subseteq Stored /\ id \notin others
    BY <1>1 DEF MemoryInv, MemoryTypeOK, Contradicted
  <1>6. records' = [x \in RecordIds |->
          CASE x = id -> r
            [] x \in others -> [records[x] EXCEPT !.status = "conflicted"]
            [] OTHER -> records[x]]
    BY <1>1, <1>2, <1>3 DEF Created
  <1>7. records'[id] = r
    BY <1>5, <1>6
  <1>8. ASSUME NEW x \in RecordIds, x # id
        PROVE  /\ records'[x] \in MemoryRecords /\ records'[x].content = records[x].content
               /\ records'[x].by = records[x].by
               /\ x \in others => records'[x].status = "conflicted"
               /\ x \notin others => records'[x] = records[x]
    <2>1. CASE x \in others
      <3>1. records'[x] = [records[x] EXCEPT !.status = "conflicted"] /\ records[x] \in MemoryRecords
        BY <1>5, <1>6, <1>8, <2>1
      <3> QED
        BY <2>1, <3>1 DEF MemoryRecords, ActiveStatuses
    <2>2. CASE x \notin others
      BY <1>5, <1>6, <1>8, <2>2
    <2> QED
      BY <2>1, <2>2
  <1>9. records' \in [RecordIds -> MemoryRecords]
    <2>1. \A x \in RecordIds : records'[x] \in MemoryRecords
      BY <1>4, <1>7, <1>8
    <2> QED
      BY <1>6, <2>1
  <1>10. Stored' = Stored \cup {id}
    <2>1. \A x \in others : x \in Stored /\ x # id
      BY <1>5
    <2>2. records'[id].status # "none"
      BY <1>2, <1>4, <1>7 DEF ActiveStatuses
    <2> QED
      BY <1>8, <2>1, <2>2 DEF Stored
  <1>11. \A x \in RecordIds : records'[x].by # NoId => records'[x].by \in Stored' \ {x}
    BY <1>4, <1>7, <1>8, <1>10 DEF MemoryInv, MemoryTypeOK
  <1>12. ContradictionsAreMarked'
    <2>1. SUFFICES ASSUME NEW x \in Stored', NEW y \in Stored', Active(x)', Active(y)', Contradict(x, y, records[x].content)'
                   PROVE  records'[x].status = "conflicted" /\ records'[y].status = "conflicted"
      BY DEF ContradictionsAreMarked
    <2>2. x \in RecordIds /\ y \in RecordIds /\ x # y /\ Subject(x) = Subject(y) /\ records'[x].content # records'[y].content
      BY <2>1 DEF Contradict, Stored
    <2>3. ASSUME NEW z \in Stored, z # id, Subject(z) = Subject(id), records'[z].content # content, Active(z)'
          PROVE  z \in others
      <3>1. Active(z)
        BY <1>1, <1>8, <2>3 DEF Stored, Active, Contradicted
      <3> QED
        BY <1>1, <1>8, <2>3, <3>1 DEF Contradicted, Contradict, Stored
    <2>4. CASE x = id
      <3>1. y \in others
        BY <1>4, <1>7, <1>10, <2>1, <2>2, <2>3, <2>4
      <3> QED
        BY <1>2, <1>4, <1>5, <1>7, <1>8, <2>2, <2>4, <3>1
    <2>5. CASE y = id
      <3>1. x \in others
        BY <1>4, <1>7, <1>10, <2>1, <2>2, <2>3, <2>5
      <3> QED
        BY <1>2, <1>4, <1>5, <1>7, <1>8, <2>2, <2>5, <3>1
    <2>6. CASE x # id /\ y # id
      <3>1. x \in Stored /\ y \in Stored /\ Contradict(x, y, records[x].content)
        BY <1>8, <1>10, <2>1, <2>2, <2>6 DEF Contradict
      <3>2. Active(x) /\ Active(y)
        BY <1>1, <1>8, <2>1, <2>2, <2>6 DEF Active, Contradicted
      <3>3. records[x].status = "conflicted" /\ records[y].status = "conflicted"
        BY <3>1, <3>2 DEF MemoryInv, ContradictionsAreMarked
      <3> QED
        BY <1>8, <2>2, <2>6, <3>3
    <2> QED
      BY <2>4, <2>5, <2>6
  <1>13. \A x \in Stored : x \in Stored' /\ records'[x].content = records[x].content
    BY <1>8, <1>10 DEF Stored
  <1> QED
    BY <1>4, <1>7, <1>9, <1>10, <1>11, <1>12, <1>13 DEF RecordsKept

\* Records that only retire keep what they say.
LEMMA RetirementKeepsRecords ==
  ASSUME MemoryInv, records' \in [RecordIds -> MemoryRecords],
         \A id \in RecordIds :
           \/ records'[id] = records[id]
           \/ /\ records'[id].status \in {"stale", "superseded"} /\ records'[id].content = records[id].content
              /\ records'[id].by \in {records[id].by} \cup (Stored \ {id})
  PROVE  RecordsKept
  <1>1. \A id \in Stored : id \in Stored' /\ records'[id].content = records[id].content
    BY DEF Stored
  <1>2. \A id \in RecordIds : records'[id].by # NoId => records'[id].by \in Stored' \ {id}
    BY <1>1 DEF MemoryInv, MemoryTypeOK
  <1>3. ContradictionsAreMarked'
    <2>1. SUFFICES ASSUME NEW x \in Stored', NEW y \in Stored', Active(x)', Active(y)', Contradict(x, y, records[x].content)'
                   PROVE  records'[x].status = "conflicted" /\ records'[y].status = "conflicted"
      BY DEF ContradictionsAreMarked
    <2>2. \A z \in Stored' : Active(z)' => records'[z] = records[z] /\ z \in Stored /\ Active(z)
      BY DEF Active, ActiveStatuses, Stored
    <2>3. Contradict(x, y, records[x].content)
      BY <2>1, <2>2 DEF Contradict
    <2> QED
      BY <2>1, <2>2, <2>3 DEF MemoryInv, ContradictionsAreMarked
  <1> QED
    BY <1>1, <1>2, <1>3 DEF RecordsKept

\* What a call has written stays there.
LEMMA WrittenStays ==
  ASSUME MemoryInv, RecordsKept, NEW q \in MemoryProcesses
  PROVE  Fits(worker[q]) /\ Written(worker[q], records')
  <1>1. Fits(worker[q]) /\ Written(worker[q], records) /\ worker[q] \in WorkerStates
    BY DEF MemoryInv, MemoryTypeOK, RulesFitTheirEvents
  <1>2. ASSUME worker[q].step = "mark", worker[q].output # NoOutput
        PROVE  records'[worker[q].output.id].status # "none"
               /\ records'[worker[q].output.id].content = worker[q].output.content
    <2>1. PICK id \in RecordIds : id = worker[q].output.id
      BY <1>1, <1>2 DEF WorkerStates, Outputs
    <2>2. id \in Stored /\ records[id].content = worker[q].output.content
      BY <1>1, <1>2, <2>1 DEF Written, Stored
    <2> QED
      BY <2>1, <2>2 DEF RecordsKept, Stored
  <1> QED
    BY <1>1, <1>2 DEF Written

\* A step that leaves the records, or only adds to them, keeps distilled events complete.
LEMMA DistilledStayComplete ==
  ASSUME MemoryInv, RecordsKept, UNCHANGED distilled
  PROVE  \A e \in distilled' \ {ChangeSetEvent} : RecordId(e) \in Stored'
  BY DEF MemoryInv, DistilledEventsLeaveRecords, RecordsKept

\* A call that goes on, after a step that lets other calls be.
LEMMA WorkerGoesOn ==
  ASSUME MemoryInv, RecordsKept, NEW p \in MemoryProcesses, NEW w \in WorkerStates, Works(p, w),
         UNCHANGED <<report, policy, events>>, callsMade' \in 0..MaxMemoryCalls,
         distilled' \subseteq {events[i] : i \in DOMAIN events},
         \A e \in distilled' \ {ChangeSetEvent} : RecordId(e) \in Stored',
         w.step = "superseding" => w.id \in Stored' /\ w.by \in Stored' /\ w.id # w.by,
         Fits(w), Written(w, records')
  PROVE  MemoryInv'
  <1>1. /\ worker' \in [MemoryProcesses -> WorkerStates] /\ worker'[p] = w
        /\ \A q \in MemoryProcesses : q # p => worker'[q] = worker[q]
    BY DEF MemoryInv, MemoryTypeOK, Works
  <1>2. WorkerStates' = WorkerStates
    BY DEF WorkerStates
  <1>3. MemoryTypeOK'
    BY <1>1, <1>2 DEF MemoryInv, MemoryTypeOK, RecordsKept
  <1>4. SupersessionsAreChecked'
    BY <1>1 DEF MemoryInv, SupersessionsAreChecked, RecordsKept
  <1>5. \A q \in MemoryProcesses : Fits(worker'[q]) /\ Written(worker'[q], records')
    BY <1>1, WrittenStays
  <1>6. RulesFitTheirEvents'
    BY <1>5 DEF RulesFitTheirEvents, Fits, Written
  <1>7. DistilledEventsLeaveRecords'
    BY <1>5 DEF DistilledEventsLeaveRecords, Written, InStep
  <1> QED
    BY <1>3, <1>4, <1>6, <1>7 DEF MemoryInv, RecordsKept

\* A call that goes on and changes neither records nor what counts as distilled.
LEMMA WorkerOnly ==
  ASSUME MemoryInv, NEW p \in MemoryProcesses, NEW w \in WorkerStates, Works(p, w),
         UNCHANGED <<report, policy, events, distilled, records>>, callsMade' \in 0..MaxMemoryCalls,
         w.step = "superseding" => w.id \in Stored /\ w.by \in Stored /\ w.id # w.by,
         Fits(w), Written(w, records)
  PROVE  MemoryInv'
  <1>1. Stored' = Stored
    BY DEF Stored
  <1>2. RecordsKept
    BY <1>1 DEF MemoryInv, MemoryTypeOK, RecordsKept, ContradictionsAreMarked, Active, Contradict
  <1>3. Written(w, records')
    BY DEF Written
  <1>4. distilled' \subseteq {events[i] : i \in DOMAIN events}
    BY DEF MemoryInv, MemoryTypeOK
  <1> QED
    BY <1>1, <1>2, <1>3, <1>4, DistilledStayComplete, WorkerGoesOn

\* A call to which no rule has been applied has nothing to fit.
LEMMA WorkersAtRest ==
  /\ NoWork.step = "idle"
  /\ \A w, rs : w.step \notin {"hashed", "output", "missing", "mark"} /\ (w.step = "selected" => w.output = NoOutput)
                => Fits(w) /\ Written(w, rs)
  BY DEF Fits, Written, Distilling, NoWork

\* The captures, and what happens outside; no call goes on.
LEMMA CapturesKeepInv ==
  ASSUME MemoryInv,
         \/ RewriteReport \/ EditPolicy
         \/ \E e \in MemoryEvents : CaptureEvent(e)
  PROVE  MemoryInv'
  <1>1. Stored' = Stored /\ records' = records /\ worker' = worker /\ distilled' = distilled
    BY DEF RewriteReport, EditPolicy, CaptureEvent, Stored
  <1>2. ContradictionsAreMarked' /\ SupersessionsAreChecked' /\ DistilledEventsLeaveRecords'
    BY <1>1 DEF MemoryInv, ContradictionsAreMarked, Active, Contradict, SupersessionsAreChecked,
       DistilledEventsLeaveRecords, InStep
  <1>3. CASE RewriteReport \/ EditPolicy
    <2>1. events' = events /\ callsMade' = callsMade /\ report' \in Versions /\ policy' \in Policies
      BY <1>3, MemoryAssumption DEF RewriteReport, EditPolicy, MemoryInv, MemoryTypeOK, Versions
    <2>2. WorkerStates' = WorkerStates
      BY <2>1 DEF WorkerStates
    <2>3. MemoryTypeOK'
      BY <1>1, <2>1, <2>2 DEF MemoryInv, MemoryTypeOK
    <2>4. RulesFitTheirEvents'
      BY <1>1, <2>1 DEF MemoryInv, RulesFitTheirEvents, Fits, Written
    <2> QED
      BY <1>2, <2>3, <2>4 DEF MemoryInv
  <1>4. ASSUME NEW e \in MemoryEvents, CaptureEvent(e)
        PROVE  MemoryInv'
    <2>1. /\ events' = Append(events, e) /\ events \in Seq(MemoryEvents)
          /\ UNCHANGED <<report, policy>> /\ callsMade' \in 0..MaxMemoryCalls
      BY <1>4, MemoryAssumption DEF CaptureEvent, CountCall, MemoryInv, MemoryTypeOK
    <2>2. /\ events' \in Seq(MemoryEvents)
          /\ DOMAIN events' = DOMAIN events \cup {Len(events) + 1}
          /\ \A i \in DOMAIN events : events'[i] = events[i]
      BY <2>1
    <2>3. WorkerStates \subseteq WorkerStates'
      BY <2>2 DEF WorkerStates
    <2>4. distilled' \subseteq {events'[i] : i \in DOMAIN events'}
      BY <1>1, <2>2 DEF MemoryInv, MemoryTypeOK
    <2>5. MemoryTypeOK'
      BY <1>1, <2>1, <2>2, <2>3, <2>4 DEF MemoryInv, MemoryTypeOK
    <2>6. RulesFitTheirEvents'
      <3>1. \A p \in MemoryProcesses : worker[p].todo \subseteq DOMAIN events
        BY DEF MemoryInv, MemoryTypeOK, WorkerStates
      <3> QED
        BY <1>1, <2>2, <3>1 DEF MemoryInv, RulesFitTheirEvents, Fits, Written
    <2> QED
      BY <1>2, <2>5, <2>6 DEF MemoryInv
  <1> QED
    BY <1>3, <1>4

\* A record written by hand.
LEMMA NotesKeepInv ==
  ASSUME MemoryInv, NEW n \in 1..MaxNotes, NEW revision \in {0, report}, AddNote(n, revision)
  PROVE  MemoryInv'
  <1>1. NoteId(n) \in RecordIds /\ NoteId(n) \in RecordContents /\ revision \in {0} \cup Versions
    BY MemoryIds DEF MemoryInv, MemoryTypeOK
  <1>2. RecordsKept
    BY <1>1, CreationKeepsRecords DEF AddNote
  <1>3. UNCHANGED <<report, policy, events, distilled, worker>> /\ callsMade' \in 0..MaxMemoryCalls
    BY MemoryAssumption DEF AddNote, CountCall, MemoryInv, MemoryTypeOK
  <1>4. WorkerStates' = WorkerStates
    BY <1>3 DEF WorkerStates
  <1>5. MemoryTypeOK'
    BY <1>2, <1>3, <1>4 DEF MemoryInv, MemoryTypeOK, RecordsKept
  <1>6. SupersessionsAreChecked'
    BY <1>2, <1>3 DEF MemoryInv, SupersessionsAreChecked, RecordsKept
  <1>7. \A q \in MemoryProcesses : Fits(worker[q]) /\ Written(worker[q], records')
    BY <1>2, WrittenStays
  <1>8. RulesFitTheirEvents'
    BY <1>3, <1>7 DEF RulesFitTheirEvents, Fits, Written
  <1>9. DistilledEventsLeaveRecords'
    BY <1>2, <1>3, <1>7, DistilledStayComplete DEF DistilledEventsLeaveRecords, Written, InStep
  <1> QED
    BY <1>2, <1>5, <1>6, <1>8, <1>9 DEF MemoryInv, RecordsKept

\* Calls that begin, that read, and processes that die.
LEMMA ReadersKeepInv ==
  ASSUME MemoryInv, NEW p \in MemoryProcesses,
         \/ \E old, new \in RecordIds : CheckSuperseded(p, old, new)
         \/ SelectEvents(p) \/ HashArtifact(p)
         \/ \E mode \in {"index", "sources"}, seenBy \in 1..report : ReadBindings(p, mode, seenBy)
         \/ \E id \in RecordIds : CheckStatus(p, id)
         \/ ProcessDies(p)
  PROVE  MemoryInv'
  <1> USE MemoryAssumption
  <1>1. callsMade \in 0..MaxMemoryCalls /\ worker[p] \in WorkerStates
    BY DEF MemoryInv, MemoryTypeOK
  <1>2. UNCHANGED <<report, policy, events, distilled, records>> /\ callsMade' \in 0..MaxMemoryCalls
    <2>1. CASE HashArtifact(p) \/ ProcessDies(p) \/ \E id \in RecordIds : CheckStatus(p, id)
      BY <1>1, <2>1 DEF HashArtifact, CheckStatus, ProcessDies
    <2>2. CASE SelectEvents(p)
      BY <1>1, <2>2 DEF SelectEvents, MemoryCall, CountCall
    <2>3. CASE \E old, new \in RecordIds : CheckSuperseded(p, old, new)
      BY <1>1, <2>3 DEF CheckSuperseded, MemoryCall, CountCall
    <2>4. CASE \E mode \in {"index", "sources"}, seenBy \in 1..report : ReadBindings(p, mode, seenBy)
      BY <1>1, <2>4 DEF ReadBindings, MemoryCall, CountCall
    <2> QED
      BY <2>1, <2>2, <2>3, <2>4
  <1>3. CASE \E old, new \in RecordIds : CheckSuperseded(p, old, new)
    <2>1. PICK old \in RecordIds, new \in RecordIds : CheckSuperseded(p, old, new)
      BY <1>3
    <2>2. PICK w : w = Reviewing("superseding", old, new, {}, "none")
      OBVIOUS
    <2>3. /\ w.step = "superseding" /\ w.id = old /\ w.by = new
          /\ w \in WorkerStates /\ Fits(w) /\ Written(w, records)
      <3>1. w.step = "superseding" /\ w.id = old /\ w.by = new
        BY <2>2 DEF Reviewing
      <3> QED
        BY <2>2, <3>1, WorkerParts, WorkersAtRest
    <2>4. Works(p, w) /\ old \in Stored /\ new \in Stored /\ old # new
      BY <2>1, <2>2 DEF CheckSuperseded, MemoryCall
    <2> QED
      BY <1>2, <2>3, <2>4, WorkerOnly
  <1>4. CASE SelectEvents(p)
    <2>1. PICK w : w = Distilling("selected", {i \in PendingEvents : Cardinality({j \in PendingEvents : j < i}) < MaxSelected}, NoOutput)
      OBVIOUS
    <2>2. w \in WorkerStates /\ Fits(w) /\ Written(w, records) /\ w.step = "selected"
      <3>1. w.step = "selected" /\ w.output = NoOutput
        BY <2>1 DEF Distilling
      <3>2. {i \in PendingEvents : Cardinality({j \in PendingEvents : j < i}) < MaxSelected} \in SUBSET DOMAIN events
        BY DEF PendingEvents
      <3>3. w \in WorkerStates
        BY <2>1, <3>2, WorkerParts
      <3> QED
        BY <3>1, <3>3, WorkersAtRest
    <2> QED
      BY <1>2, <1>4, <2>1, <2>2, WorkerOnly DEF SelectEvents, MemoryCall
  <1>5. CASE HashArtifact(p)
    <2>1. PICK i \in DOMAIN events :
            /\ AtEvent(p, i) /\ worker[p].step = "selected"
            /\ \/ events[i] # ChangeSetEvent /\ GoesOn(p, "hashed")
               \/ SkipEvent(p, i)
               \/ events[i] = ChangeSetEvent /\ GoesOn(p, "mark")
      <3>1. ChangeSetEvent # RejectionEvent /\ ChangeSetEvent # WriteEvent(report)
        BY DEF WriteEvent, RejectionEvent, ChangeSetEvent
      <3> QED
        BY <1>5, <3>1 DEF HashArtifact, InStep
    <2>2. \A k \in worker[p].todo : (\A l \in worker[p].todo : k <= l) => k = i
      BY <1>1, <2>1 DEF AtEvent, WorkerStates, MemoryInv, MemoryTypeOK
    <2>3. CASE events[i] # ChangeSetEvent /\ GoesOn(p, "hashed")
      <3>1. PICK w : w = [worker[p] EXCEPT !.step = "hashed"]
        OBVIOUS
      <3>2. w \in WorkerStates /\ w.step = "hashed" /\ w.todo = worker[p].todo
        BY <1>1, <3>1 DEF WorkerStates
      <3>3. Works(p, w)
        BY <1>1, <2>3, <3>1, <3>2 DEF GoesOn, Works
      <3>4. Fits(w) /\ Written(w, records)
        BY <2>2, <2>3, <3>2 DEF Fits, Written
      <3> QED
        BY <1>2, <3>2, <3>3, <3>4, WorkerOnly
    <2>4. CASE events[i] = ChangeSetEvent /\ GoesOn(p, "mark")
      <3>1. PICK w : w = [worker[p] EXCEPT !.step = "mark"]
        OBVIOUS
      <3>2. w \in WorkerStates /\ w.step = "mark" /\ w.todo = worker[p].todo /\ w.output = NoOutput
        <4>1. worker[p].output = NoOutput
          BY <2>1 DEF MemoryInv, RulesFitTheirEvents, Fits
        <4> QED
          BY <1>1, <3>1, <4>1 DEF WorkerStates
      <3>3. Works(p, w)
        BY <1>1, <2>4, <3>1, <3>2 DEF GoesOn, Works
      <3>4. Fits(w) /\ Written(w, records)
        BY <2>2, <2>4, <3>2 DEF Fits, Written
      <3> QED
        BY <1>2, <3>2, <3>3, <3>4, WorkerOnly
    <2>5. CASE SkipEvent(p, i)
      <3>1. PICK w : w = IF worker[p].todo = {i} THEN NoWork ELSE Distilling("selected", worker[p].todo \ {i}, NoOutput)
        OBVIOUS
      <3>2. w \in WorkerStates /\ Fits(w) /\ Written(w, records) /\ w.step \in {"idle", "selected"}
        <4>1. w.step \in {"idle", "selected"} /\ (w.step = "selected" => w.output = NoOutput)
          BY <3>1, WorkersAtRest DEF Distilling
        <4>2. worker[p].todo \ {i} \in SUBSET DOMAIN events
          BY <1>1 DEF WorkerStates
        <4>3. w \in WorkerStates
          BY <3>1, <4>2, WorkerParts
        <4> QED
          BY <4>1, <4>3, WorkersAtRest
      <3> QED
        BY <1>2, <2>5, <3>1, <3>2, WorkerOnly DEF SkipEvent
    <2> QED
      BY <2>1, <2>3, <2>4, <2>5
  <1>6. CASE \E mode \in {"index", "sources"}, seenBy \in 1..report : ReadBindings(p, mode, seenBy)
    <2>1. PICK mode \in {"index", "sources"}, seenBy \in 1..report : ReadBindings(p, mode, seenBy)
      BY <1>6
    <2>2. PICK w : w = Reviewing("check", NoId, NoId, Outdated(mode, seenBy), mode)
      OBVIOUS
    <2>3. Outdated(mode, seenBy) \in SUBSET RecordIds
      BY DEF Outdated, Stored
    <2>4. w \in WorkerStates /\ Fits(w) /\ Written(w, records) /\ w.step = "check"
      <3>1. w.step = "check"
        BY <2>2 DEF Reviewing
      <3> QED
        BY <2>1, <2>2, <2>3, <3>1, WorkerParts, WorkersAtRest
    <2> QED
      BY <1>2, <2>1, <2>2, <2>4, WorkerOnly DEF ReadBindings, MemoryCall
  <1>7. CASE \E id \in RecordIds : CheckStatus(p, id)
    <2>1. PICK id \in RecordIds : CheckStatus(p, id)
      BY <1>7
    <2>2. worker[p].targets \in SUBSET RecordIds /\ worker[p].mode \in {"none", "index", "sources"}
      BY <1>1 DEF WorkerStates
    <2>3. PICK w : /\ Works(p, w)
                   /\ \/ w = Reviewing("stale", id, NoId, worker[p].targets, worker[p].mode)
                      \/ w = NoWork
                      \/ w = Reviewing("check", NoId, NoId, worker[p].targets \ {id}, worker[p].mode)
      BY <2>1 DEF CheckStatus, Stops
    <2>4. w \in WorkerStates /\ Fits(w) /\ Written(w, records) /\ w.step \in {"idle", "check", "stale"}
      <3>1. w.step \in {"idle", "check", "stale"}
        BY <2>3, WorkersAtRest DEF Reviewing
      <3>2. w \in WorkerStates
        BY <2>2, <2>3, WorkerParts
      <3> QED
        BY <3>1, <3>2, WorkersAtRest
    <2> QED
      BY <1>2, <2>3, <2>4, WorkerOnly
  <1>8. CASE ProcessDies(p)
    BY <1>2, <1>8, WorkerParts, WorkersAtRest, WorkerOnly DEF ProcessDies, Stops
  <1> QED
    BY <1>3, <1>4, <1>5, <1>6, <1>7, <1>8

\* A supersession and a validation retire records.
LEMMA RetirementsKeepInv ==
  ASSUME MemoryInv, NEW p \in MemoryProcesses, WriteSuperseded(p) \/ WriteStale(p)
  PROVE  MemoryInv'
  <1>1. records \in [RecordIds -> MemoryRecords]
    BY DEF MemoryInv, MemoryTypeOK
  <1>2. RecordsKept
    <2>1. CASE WriteSuperseded(p)
      <3>1. PICK id \in Stored, by \in Stored : id = worker[p].id /\ by = worker[p].by /\ id # by
        BY <2>1 DEF WriteSuperseded, InStep, MemoryInv, SupersessionsAreChecked
      <3>2. PICK r : r = Record("superseded", records[id].content, records[id].revision, by)
        OBVIOUS
      <3>3. id \in RecordIds /\ by \in RecordIds /\ records[id] \in MemoryRecords
        BY <1>1, <3>1 DEF Stored
      <3>4. r \in MemoryRecords /\ r.status = "superseded" /\ r.by = by /\ r.content = records[id].content
        BY <3>2, <3>3 DEF Record, MemoryRecords
      <3>5. records' = [records EXCEPT ![id] = r]
        BY <2>1, <3>1, <3>2 DEF WriteSuperseded
      <3>6. records' \in [RecordIds -> MemoryRecords] /\ records'[id] = r
            /\ \A x \in RecordIds : x # id => records'[x] = records[x]
        BY <1>1, <3>3, <3>4, <3>5
      <3> QED
        BY <3>1, <3>4, <3>6, RetirementKeepsRecords
    <2>2. CASE WriteStale(p)
      <3>1. \A id \in RecordIds : records'[id] \in {records[id], [records[id] EXCEPT !.status = "stale"]}
        BY <2>2 DEF WriteStale
      <3>2. \A id \in RecordIds :
              \/ records'[id] = records[id]
              \/ records'[id] \in MemoryRecords /\ records'[id].status = "stale" /\ records'[id].by = records[id].by
                 /\ records'[id].content = records[id].content
        BY <1>1, <3>1 DEF MemoryRecords
      <3>3. records' = [id \in RecordIds |-> records'[id]]
        BY <1>1, <2>2 DEF WriteStale
      <3>4. records' \in [RecordIds -> MemoryRecords]
        BY <1>1, <3>2, <3>3
      <3> QED
        BY <3>2, <3>4, RetirementKeepsRecords
    <2> QED
      BY <2>1, <2>2
  <1>3. UNCHANGED <<report, policy, events, distilled, callsMade>> /\ Works(p, NoWork)
    BY DEF WriteSuperseded, WriteStale, Stops
  <1>4. callsMade' \in 0..MaxMemoryCalls
    BY <1>3 DEF MemoryInv, MemoryTypeOK
  <1>5. NoWork \in WorkerStates /\ NoWork.step = "idle" /\ Fits(NoWork) /\ Written(NoWork, records')
    BY WorkerParts, WorkersAtRest
  <1>6. distilled' \subseteq {events[i] : i \in DOMAIN events}
    BY <1>3 DEF MemoryInv, MemoryTypeOK
  <1> QED
    BY <1>2, <1>3, <1>4, <1>5, <1>6, DistilledStayComplete, WorkerGoesOn

\* What a rule makes of an event is a record of it.
LEMMA OutputsHaveTheirType ==
  ASSUME MemoryInv, NEW e \in MemoryEvents, e # ChangeSetEvent
  PROVE  OutputOf(e) \in Outputs /\ OutputOf(e).id = RecordId(e)
  <1>1. RecordId(e) \in RecordIds /\ report \in Versions /\ Versions \subseteq Nat
    BY MemoryIds, MemoryAssumption DEF MemoryInv, MemoryTypeOK, Versions
  <1>2. CASE e = RejectionEvent
    <2>1. PICK content \in {PolicyRule, KnownIssue} : content = IF policy = "named" THEN PolicyRule ELSE KnownIssue
      OBVIOUS
    <2>2. content \in RecordContents
      BY <2>1 DEF PolicyRule, KnownIssue, RecordContents
    <2>3. OutputOf(e) = Output(RecordId(e), content, 0)
      BY <1>2, <2>1 DEF OutputOf
    <2> QED
      BY <1>1, <2>2, <2>3 DEF Output, Outputs
  <1>3. CASE e # RejectionEvent
    <2>1. PICK v \in Versions : e = WriteEvent(v)
      BY <1>3 DEF MemoryEvents
    <2>2. <<"write", e[2], report>> \in RecordContents
      BY <1>1, <2>1 DEF WriteEvent, RecordContents
    <2>3. OutputOf(e) = Output(RecordId(e), <<"write", e[2], report>>, report)
      BY <1>3 DEF OutputOf
    <2> QED
      BY <1>1, <2>2, <2>3 DEF Output, Outputs
  <1> QED
    BY <1>2, <1>3

\* A file was found unchanged only for an event that a rule applies to.
LEMMA RulesKeepInv ==
  ASSUME MemoryInv, NEW p \in MemoryProcesses, ApplyRule(p) \/ MarkDistilled(p)
  PROVE  MemoryInv'
  <1>1. PICK i \in DOMAIN events :
          /\ AtEvent(p, i)
          /\ \/ ApplyRule(p) /\ Works(p, Distilling("output", worker[p].todo, OutputOf(events[i])))
             \/ MarkDistilled(p) /\ distilled' = distilled \cup {events[i]} /\ SkipEvent(p, i)
    BY DEF ApplyRule, MarkDistilled
  <1>2. /\ worker[p] \in WorkerStates /\ callsMade \in 0..MaxMemoryCalls /\ worker[p].todo \in SUBSET DOMAIN events
        /\ events[i] \in MemoryEvents
    BY DEF MemoryInv, MemoryTypeOK, WorkerStates
  <1>3. \A k \in worker[p].todo : (\A j \in worker[p].todo : k <= j) => k = i
    BY <1>1, <1>2 DEF AtEvent, MemoryInv, MemoryTypeOK
  <1>4. Fits(worker[p]) /\ Written(worker[p], records)
    BY DEF MemoryInv, RulesFitTheirEvents
  <1>5. CASE ApplyRule(p) /\ Works(p, Distilling("output", worker[p].todo, OutputOf(events[i])))
    <2>1. events[i] # ChangeSetEvent
      BY <1>1, <1>4, <1>5 DEF ApplyRule, InStep, AtEvent, Fits
    <2>2. PICK output \in Outputs : output = OutputOf(events[i]) /\ output.id = RecordId(events[i])
      BY <1>2, <2>1, OutputsHaveTheirType
    <2>3. PICK w : w = Distilling("output", worker[p].todo, output)
      OBVIOUS
    <2>4. w \in WorkerStates /\ w.step = "output" /\ w.todo = worker[p].todo /\ w.output = output
      BY <1>2, <2>3, WorkerParts DEF Distilling
    <2>5. Fits(w) /\ Written(w, records)
      BY <1>3, <2>2, <2>4 DEF Fits, Written
    <2>6. Works(p, w)
      BY <1>5, <2>2, <2>3
    <2> QED
      BY <1>2, <1>5, <2>4, <2>5, <2>6, WorkerOnly DEF ApplyRule
  <1>6. CASE MarkDistilled(p) /\ distilled' = distilled \cup {events[i]} /\ SkipEvent(p, i)
    <2>1. PICK w : w = IF worker[p].todo = {i} THEN NoWork ELSE Distilling("selected", worker[p].todo \ {i}, NoOutput)
      OBVIOUS
    <2>2. w \in WorkerStates
      BY <1>2, <2>1, WorkerParts
    <2>3. w.step \in {"idle", "selected"} /\ (w.step = "selected" => w.output = NoOutput)
      BY <2>1, WorkersAtRest DEF Distilling
    <2>4. UNCHANGED <<report, policy, events, records, callsMade>> /\ Stored' = Stored
      BY <1>6 DEF MarkDistilled, Stored
    <2>5. RecordsKept
      BY <2>4 DEF MemoryInv, MemoryTypeOK, RecordsKept, ContradictionsAreMarked, Active, Contradict
    <2>6. events[i] # ChangeSetEvent => RecordId(events[i]) \in Stored
      <3>1. SUFFICES ASSUME events[i] # ChangeSetEvent PROVE RecordId(events[i]) \in Stored
        OBVIOUS
      <3>2. worker[p].step = "mark" /\ worker[p].output \in Outputs /\ worker[p].output.id = RecordId(events[i])
        BY <1>1, <1>4, <1>6, <3>1 DEF MarkDistilled, InStep, AtEvent, Fits
      <3>3. records[worker[p].output.id].status # "none"
        BY <1>4, <3>2, NoOutputIsNone DEF Written
      <3> QED
        BY <1>2, <3>1, <3>2, <3>3, MemoryIds DEF Stored
    <2>7. \A e \in distilled' \ {ChangeSetEvent} : RecordId(e) \in Stored'
      BY <1>6, <2>4, <2>6 DEF MemoryInv, DistilledEventsLeaveRecords
    <2>8. distilled' \subseteq {events[j] : j \in DOMAIN events}
      BY <1>6 DEF MemoryInv, MemoryTypeOK
    <2>9. Works(p, w)
      BY <1>6, <2>1 DEF SkipEvent
    <2> QED
      BY <1>2, <2>2, <2>3, <2>4, <2>5, <2>7, <2>8, <2>9, WorkersAtRest, WorkerGoesOn
  <1> QED
    BY <1>1, <1>5, <1>6

\* A call writes, or finds, the record of its event.
LEMMA WritersKeepInv ==
  ASSUME MemoryInv, NEW p \in MemoryProcesses, FindRecord(p) \/ CreateRecord(p)
  PROVE  MemoryInv'
  <1>1. PICK i \in DOMAIN events :
          /\ AtEvent(p, i) /\ worker[p].step \in {"output", "missing"}
          /\ \/ UNCHANGED records /\ SkipEvent(p, i)
             \/ UNCHANGED records /\ GoesOn(p, "missing")
             \/ /\ UNCHANGED records /\ GoesOn(p, "mark")
                /\ records[worker[p].output.id].status # "none"
                /\ records[worker[p].output.id].content = worker[p].output.content
             \/ /\ records[worker[p].output.id].status = "none" /\ GoesOn(p, "mark")
                /\ records' = Created(worker[p].output.id, worker[p].output.content, worker[p].output.revision)
    <2>1. CASE FindRecord(p)
      BY <2>1 DEF FindRecord, InStep, FailEvent
    <2>2. CASE CreateRecord(p)
      BY <2>2 DEF CreateRecord, InStep, FailEvent
    <2> QED
      BY <2>1, <2>2
  <1>2. UNCHANGED <<report, policy, events, distilled, callsMade>>
    BY DEF FindRecord, CreateRecord
  <1>3. /\ worker[p] \in WorkerStates /\ callsMade' \in 0..MaxMemoryCalls
        /\ worker[p].todo \in SUBSET DOMAIN events
        /\ distilled' \subseteq {events[j] : j \in DOMAIN events}
    BY <1>2 DEF MemoryInv, MemoryTypeOK, WorkerStates
  <1>4. \A k \in worker[p].todo : (\A j \in worker[p].todo : k <= j) => k = i
    BY <1>1, <1>3 DEF AtEvent, MemoryInv, MemoryTypeOK
  <1>5. PICK o \in Outputs : o = worker[p].output /\ o.id = RecordId(events[i])
    BY <1>1 DEF MemoryInv, RulesFitTheirEvents, Fits, AtEvent
  <1>6. o.id \in RecordIds /\ o.content \in RecordContents /\ o.revision \in {0} \cup Versions
    BY DEF Outputs
  <1>7. ASSUME NEW step \in {"missing", "mark"}, GoesOn(p, step)
        PROVE  \E w \in WorkerStates : w.step = step /\ w.output = o /\ Fits(w) /\ Works(p, w)
    <2>1. PICK w : w = [worker[p] EXCEPT !.step = step]
      OBVIOUS
    <2>2. w \in WorkerStates /\ w.step = step /\ w.todo = worker[p].todo /\ w.output = o
      BY <1>3, <1>5, <2>1 DEF WorkerStates
    <2>3. Works(p, w)
      BY <1>7, <2>1 DEF GoesOn, Works, MemoryInv, MemoryTypeOK
    <2>4. Fits(w)
      BY <1>4, <1>5, <2>2 DEF Fits
    <2> QED
      BY <2>2, <2>3, <2>4
  <1>8. CASE UNCHANGED records /\ SkipEvent(p, i)
    <2>1. PICK w : w = IF worker[p].todo = {i} THEN NoWork ELSE Distilling("selected", worker[p].todo \ {i}, NoOutput)
      OBVIOUS
    <2>2. w.step \in {"idle", "selected"} /\ (w.step = "selected" => w.output = NoOutput)
      BY <2>1, WorkersAtRest DEF Distilling
    <2>3. w \in WorkerStates
      BY <1>3, <2>1, WorkerParts
    <2> QED
      BY <1>2, <1>3, <1>8, <2>1, <2>2, <2>3, WorkersAtRest, WorkerOnly DEF SkipEvent
  <1>9. CASE UNCHANGED records /\ GoesOn(p, "missing")
    <2>1. PICK w \in WorkerStates : w.step = "missing" /\ Fits(w) /\ Works(p, w)
      BY <1>7, <1>9
    <2>2. Written(w, records)
      BY <2>1 DEF Written
    <2> QED
      BY <1>2, <1>3, <1>9, <2>1, <2>2, WorkerOnly
  <1>10. CASE /\ UNCHANGED records /\ GoesOn(p, "mark")
              /\ records[o.id].status # "none" /\ records[o.id].content = o.content
    <2>1. PICK w \in WorkerStates : w.step = "mark" /\ w.output = o /\ Fits(w) /\ Works(p, w)
      BY <1>7, <1>10
    <2>2. Written(w, records)
      BY <1>10, <2>1 DEF Written
    <2> QED
      BY <1>2, <1>3, <1>10, <2>1, <2>2, WorkerOnly
  <1>11. CASE /\ records[o.id].status = "none" /\ GoesOn(p, "mark")
              /\ records' = Created(o.id, o.content, o.revision)
    <2>1. PICK w \in WorkerStates : w.step = "mark" /\ w.output = o /\ Fits(w) /\ Works(p, w)
      BY <1>7, <1>11
    <2>2. o.id \notin Stored
      BY <1>11 DEF Stored
    <2>3. RecordsKept /\ o.id \in Stored' /\ records'[o.id].content = o.content
      BY <1>6, <1>11, <2>2, CreationKeepsRecords
    <2>4. Written(w, records')
      BY <2>1, <2>3 DEF Written, Stored
    <2> QED
      BY <1>2, <1>3, <2>1, <2>3, <2>4, DistilledStayComplete, WorkerGoesOn
  <1> QED
    BY <1>1, <1>5, <1>8, <1>9, <1>10, <1>11

\* Nothing is captured, recorded or at work initially.
LEMMA MemoryStarts == MemoryInit => MemoryInv
  <1> SUFFICES ASSUME MemoryInit PROVE MemoryInv
    OBVIOUS
  <1>1. NoRecord \in MemoryRecords /\ NoRecord.status = "none" /\ NoRecord.by = NoId
    BY MemoryIds DEF NoRecord, Record, MemoryRecords
  <1>2. Stored = {}
    BY <1>1 DEF MemoryInit, Stored
  <1>3. events = <<>> /\ DOMAIN events = {} /\ events \in Seq(MemoryEvents)
    BY DEF MemoryInit
  <1>4. report \in Versions /\ callsMade \in 0..MaxMemoryCalls /\ policy \in Policies /\ distilled = {}
    BY MemoryAssumption DEF MemoryInit, Versions, Policies
  <1>5. worker \in [MemoryProcesses -> WorkerStates] /\ \A p \in MemoryProcesses : worker[p].step = "idle"
    BY WorkerParts, WorkersAtRest DEF MemoryInit
  <1>6. records \in [RecordIds -> MemoryRecords] /\ \A id \in RecordIds : records[id].by = NoId
    BY <1>1 DEF MemoryInit
  <1>7. MemoryTypeOK
    BY <1>3, <1>4, <1>5, <1>6 DEF MemoryTypeOK
  <1>8. SupersessionsAreChecked /\ RulesFitTheirEvents
    BY <1>5, WorkersAtRest DEF SupersessionsAreChecked, RulesFitTheirEvents
  <1>9. DistilledEventsLeaveRecords /\ ContradictionsAreMarked
    BY <1>2, <1>4, <1>5 DEF DistilledEventsLeaveRecords, ContradictionsAreMarked, InStep
  <1> QED
    BY <1>7, <1>8, <1>9 DEF MemoryInv

\* Every step keeps the invariant.
LEMMA MemoryStep == MemoryInv /\ [MemoryNext]_memoryVars => MemoryInv'
  <1> SUFFICES ASSUME MemoryInv, [MemoryNext]_memoryVars PROVE MemoryInv'
    OBVIOUS
  <1>1. CASE MemoryNext
    BY <1>1, CapturesKeepInv, NotesKeepInv, ReadersKeepInv, RetirementsKeepInv, RulesKeepInv, WritersKeepInv
       DEF MemoryNext
  <1>2. CASE UNCHANGED memoryVars
    <2>1. UNCHANGED <<report, policy, events, distilled, records, worker, callsMade>>
      BY <1>2 DEF memoryVars
    <2>2. Stored' = Stored /\ WorkerStates' = WorkerStates
      BY <2>1 DEF Stored, WorkerStates
    <2> QED
      BY <2>1, <2>2 DEF MemoryInv, MemoryTypeOK, SupersessionsAreChecked, RulesFitTheirEvents, Fits, Written,
         DistilledEventsLeaveRecords, InStep, ContradictionsAreMarked, Active, Contradict
  <1> QED
    BY <1>1, <1>2

\* Every reachable state of the records of a subject satisfies the invariant.
THEOREM MemoryInvariant == MemorySpec => []MemoryInv
  BY MemoryStarts, MemoryStep, PTL DEF MemorySpec

\* An event counts as distilled only when its record is committed and says what the process
\* that marks it derived, whoever else distils it from what and whoever dies.
THEOREM DistilledEventsAreComplete == MemorySpec => []DistilledEventsLeaveRecords
  <1>1. MemoryInv => DistilledEventsLeaveRecords
    BY DEF MemoryInv
  <1> QED
    BY <1>1, MemoryInvariant, PTL

\* Two active records of one subject that do not say the same are both conflicted.
THEOREM ContradictionsStayMarked == MemorySpec => []ContradictionsAreMarked
  <1>1. MemoryInv => ContradictionsAreMarked
    BY DEF MemoryInv
  <1> QED
    BY <1>1, MemoryInvariant, PTL

(***************************************************************************)
(* The components side by side.                                            *)
(***************************************************************************)

\* Components that run side by side share no state: each moves by its own steps or stutters, so
\* that what is proved of each of them is true of all together.
THEOREM ServerRunsItsComponents ==
  ServerSpec => /\ LifecycleSpec
                /\ ScanInit /\ [][ScanNext]_vars
                /\ ScSpec /\ SnapshotSpec /\ PatchSpec
                /\ GraphSpec /\ IdempotencySpec /\ BrokerSpec /\ MemorySpec
  <1> DEFINE allVars == <<part, history, vars, scvars, snapshotVars, patchVars, graphSide>>
  <1>1. ServerInit => /\ LifecycleInit /\ ScanInit /\ ScInit /\ SnapshotInit /\ PatchInit
                      /\ GraphInit /\ IdempotencyInit /\ BrokerInit /\ MemoryInit
    BY DEF ServerInit
  <1>2. [ServerNext]_allVars => /\ [LifecycleNext]_history /\ [ScanNext]_vars /\ [ScNext]_scvars
                                /\ [SnapshotNext]_snapshotVars /\ [PatchNext]_patchVars
    BY DEF ServerNext
  <1>3. [ServerNext]_allVars => /\ [GraphNext]_graphVars /\ [IdempotencyNext]_idempotencyVars
                                /\ [BrokerNext]_brokerVars /\ [MemoryNext]_memoryVars
    BY DEF ServerNext, graphSide
  <1> QED
    BY <1>1, <1>2, <1>3, PTL
    DEF ServerSpec, LifecycleSpec, ScSpec, SnapshotSpec, PatchSpec, GraphSpec, IdempotencySpec, BrokerSpec, MemorySpec

\* The variables of whichever component is at work stay in their types.
THEOREM ServerTypeCorrect == ServerSpec => []ServerTypeOK
  <1>1. ScanInit /\ [][ScanNext]_vars => []ScanInv
    BY InitInv, StepInv, PTL
  <1>2. LifecycleTypeOK /\ ScanInv /\ ScInv /\ SnapshotInv /\ PatchInv
        /\ GraphTypeOK /\ IdempotencyInv /\ BrokerInv /\ MemoryInv => ServerTypeOK
    BY DEF ServerTypeOK, ScanInv, ScInv, SnapshotInv, PatchInv, IdempotencyInv, BrokerInv, MemoryInv
  <1> QED
    BY <1>1, <1>2, ServerRunsItsComponents, LifecycleTyped, ScInvariant, SnapshotInvariant, PatchInvariant,
       GraphTypeCorrect, IdempotencyInvariant, BrokerInvariant, MemoryInvariant, PTL

=============================================================================
