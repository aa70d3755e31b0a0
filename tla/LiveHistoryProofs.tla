------------------------- MODULE LiveHistoryProofs --------------------------
(***************************************************************************)
(* Theorems about the histories of the change sets of LiveWorkflow: each   *)
(* call, taken by itself, follows OperationLifecycle; server and Editor    *)
(* agree as long as only the agent writes; and a replaced write stays      *)
(* replaced, whatever a crash leaves in the journals.                      *)
(***************************************************************************)
EXTENDS LiveWorkflowProofs

-----------------------------------------------------------------------------
(* The histories of the change sets                                        *)

\* Receipts of operations, live records and checkpoints have been given out.
ReceiptsUpTo(m, n) ==
  /\ \A c \in ChangeSetIds : \A i \in DOMAIN m.ops[c] : m.ops[c][i].receipt <= n
  /\ \A l \in m.live : l.receipt <= n
  /\ \A cp \in m.cps : \A w \in cp.effective : w.receipt <= n

\* An operation has its receipt for itself, and a receipt stands for one write.
OwnReceipts(m) ==
  \A c \in ChangeSetIds : \A i, j \in DOMAIN m.ops[c] :
    m.ops[c][i].receipt = m.ops[c][j].receipt /\ m.ops[c][i].receipt # NoReceipt => i = j
OneWrite(m) ==
  \A k, l \in m.live : k.receipt = l.receipt => k.asset = l.asset /\ k.target = l.target /\ k.saved = l.saved

\* What has a live record is not closed, and pending as long as the record is unsaved.
OpenStatus(l) == IF l.saved THEN {"applied", "unknown", "saved"} ELSE {"applied", "unknown"}
LiveIsOpen(m) ==
  \A c \in ChangeSetIds : \A i \in DOMAIN m.ops[c] : \A l \in m.live :
    l.receipt = m.ops[c][i].receipt => m.ops[c][i].status \in OpenStatus(l)

\* The writes of a saved checkpoint count as saved.
CountsAsSaved(m, c, w) ==
  /\ \A i \in DOMAIN m.ops[c] : m.ops[c][i].receipt = w.receipt => m.ops[c][i].status \in {"saved", "verified"}
  /\ \A l \in m.live : l.receipt = w.receipt => l.saved
SavedStay(m) ==
  \A cp \in m.cps : cp.state = "saved" => \A w \in cp.effective : CountsAsSaved(m, cp.cs, w)

Listed(m, n) == ReceiptsUpTo(m, n) /\ OwnReceipts(m) /\ OneWrite(m) /\ LiveIsOpen(m) /\ SavedStay(m)

\* Operations stay in place, and each keeps its status or moves on.
MovedOn(m, n) ==
  /\ SameOperations(m, n)
  /\ \A c \in ChangeSetIds : \A i \in DOMAIN m.ops[c] :
       n.ops[c][i].status = m.ops[c][i].status \/ n.ops[c][i].status \in Lifecycle!Moves(m.ops[c][i].status)

\* Live records are kept, marked as saved or dropped.
LiveFrom(m, n) ==
  \A y \in n.live : \E l \in m.live :
    y.receipt = l.receipt /\ y.asset = l.asset /\ y.target = l.target /\ (l.saved => y.saved)

\* Checkpoints are of known writes, and none is newly saved.
CheckpointsFrom(m, n) ==
  \A y \in n.cps :
    /\ y.state = "saved" => \E cp \in m.cps : cp.state = "saved" /\ cp.effective = y.effective /\ cp.cs = y.cs
    /\ \A w \in y.effective :
         (\E cp \in m.cps : w \in cp.effective) \/ (\E l \in m.live : l.receipt = w.receipt)

\* What a saved checkpoint covers goes on counting as saved.
SavedKept(m, n) ==
  \A cp \in m.cps : cp.state = "saved" => \A w \in cp.effective : \A i \in DOMAIN m.ops[cp.cs] :
    m.ops[cp.cs][i].receipt = w.receipt => n.ops[cp.cs][i].status \in {"saved", "verified"}

\* A call that neither begins a write nor saves a checkpoint.
Orderly(m, n) ==
  /\ n \in Servers /\ MovedOn(m, n) /\ LiveFrom(m, n) /\ CheckpointsFrom(m, n) /\ SavedKept(m, n)
  /\ OneWrite(n) /\ LiveIsOpen(n)
  /\ \A c \in ChangeSetIds : n.phase[c] = "open" => m.phase[c] = "open"

\* Receipts are numbers.
LEMMA ReceiptNumbers ==
  ASSUME NEW m \in Servers
  PROVE  /\ \A c \in ChangeSetIds : \A i \in DOMAIN m.ops[c] : /\ m.ops[c][i].receipt \in Nat
                                                              /\ m.ops[c][i].status \in OperationStatuses
                                                              /\ m.ops[c][i] \in Operations
         /\ \A l \in m.live : l.receipt \in Nat /\ l.receipt # NoReceipt /\ l.receipt \in Receipts
                              /\ l.saved \in BOOLEAN
         /\ \A cp \in m.cps : cp \in Checkpoints /\ cp.cs \in ChangeSetIds
                              /\ \A w \in cp.effective : w.receipt \in Nat /\ w.receipt # NoReceipt
  <1>1. ASSUME NEW c \in ChangeSetIds, NEW i \in DOMAIN m.ops[c]
        PROVE  m.ops[c][i] \in Operations
    <2>1. m.ops[c] \in Seq(Operations)
      BY ServerParts
    <2> QED
      BY <2>1
  <1>2. \A l \in m.live : l \in LiveApplies /\ l.saved \in BOOLEAN
    BY ServerParts DEF LiveApplies
  <1>3. \A cp \in m.cps : cp \in Checkpoints /\ cp.cs \in ChangeSetIds /\ \A w \in cp.effective : w.receipt \in Receipts
    BY ServerParts, CheckpointParts
  <1>4. /\ \A r \in Receipts : r \in Nat /\ r # NoReceipt
        /\ \A op \in Operations : op.receipt \in Nat /\ op.status \in OperationStatuses
        /\ \A l \in LiveApplies : l.receipt \in Receipts
    BY OperationParts
  <1> QED
    BY <1>1, <1>2, <1>3, <1>4

\* Such a call keeps the lists in order.
LEMMA OrderlyKeepsListed ==
  ASSUME NEW m \in Servers, NEW n, NEW k, Listed(m, k), Orderly(m, n)
  PROVE  Listed(n, k)
  <1>1. n \in Servers /\ SameOperations(m, n)
    BY DEF Orderly, MovedOn
  <1>2. ReceiptsUpTo(n, k)
    BY <1>1 DEF Listed, ReceiptsUpTo, Orderly, SameOperations, LiveFrom, CheckpointsFrom
  <1>3. OwnReceipts(n)
    BY <1>1 DEF Listed, OwnReceipts, SameOperations
  <1>4. SavedStay(n)
    <2> SUFFICES ASSUME NEW y \in n.cps, y.state = "saved", NEW w \in y.effective
                 PROVE  CountsAsSaved(n, y.cs, w)
      BY DEF SavedStay
    <2>1. PICK cp \in m.cps : cp.state = "saved" /\ cp.effective = y.effective /\ cp.cs = y.cs
      BY DEF Orderly, CheckpointsFrom
    <2>2. CountsAsSaved(m, y.cs, w) /\ y.cs \in ChangeSetIds
      BY <2>1, ReceiptNumbers DEF Listed, SavedStay
    <2>3. \A i \in DOMAIN n.ops[y.cs] : n.ops[y.cs][i].receipt = w.receipt
            => n.ops[y.cs][i].status \in {"saved", "verified"}
      BY <1>1, <2>1, <2>2 DEF SameOperations, Orderly, SavedKept
    <2>4. \A l \in n.live : l.receipt = w.receipt => l.saved
      BY <2>2 DEF CountsAsSaved, Orderly, LiveFrom
    <2> QED
      BY <2>3, <2>4 DEF CountsAsSaved
  <1> QED
    BY <1>2, <1>3, <1>4 DEF Listed, Orderly

\* A later receipt bounds the same lists.
LEMMA ListedLater ==
  ASSUME NEW m \in Servers, NEW k \in Nat, NEW n \in Nat, k <= n, Listed(m, k)
  PROVE  Listed(m, n)
  <1>1. ReceiptsUpTo(m, n)
    BY ReceiptNumbers DEF Listed, ReceiptsUpTo
  <1> QED
    BY <1>1 DEF Listed

\* What is brought up to date moves on, and fits the live records.
LEMMA ReconciledMovesOn ==
  ASSUME NEW m \in Servers, OneWrite(m), NEW op \in Operations,
         \A l \in m.live : l.receipt = op.receipt => op.status \in OpenStatus(l)
  PROVE  /\ ReconciledStatus(m, op) = op.status \/ ReconciledStatus(m, op) \in Lifecycle!Moves(op.status)
         /\ \A l \in m.live : l.receipt = op.receipt => ReconciledStatus(m, op) \in OpenStatus(l)
         /\ op.status \in {"saved", "verified"} /\ (\A l \in m.live : l.receipt = op.receipt => l.saved)
              => ReconciledStatus(m, op) \in {"saved", "verified"}
  <1>1. CASE op.apply = "none" /\ op.status = "superseded"
    BY <1>1 DEF ReconciledStatus
  <1>2. CASE op.apply = "none" /\ op.status # "superseded" /\ ~IsLive(m, op.receipt)
    <2>1. ReconciledStatus(m, op) = IF op.status = "applied" THEN "unknown" ELSE op.status
      BY <1>2 DEF ReconciledStatus, ReconciledStatus_SupersededToo
    <2>2. "unknown" \in Lifecycle!Moves("applied")
      BY DEF Lifecycle!Moves
    <2> QED
      BY <1>2, <2>1, <2>2 DEF IsLive
  <1>3. CASE op.apply = "none" /\ op.status # "superseded" /\ IsLive(m, op.receipt)
    <2>1. PICK k : k = LiveApply(m, op.receipt)
      OBVIOUS
    <2>2. k \in m.live /\ k.receipt = op.receipt
      BY <1>3, <2>1 DEF IsLive, LiveApply
    <2>3. \A l \in m.live : l.receipt = op.receipt => l.saved = k.saved
      BY <2>2 DEF OneWrite
    <2>4. /\ op.status \in OpenStatus(k)
          /\ \/ k.saved /\ ReconciledStatus(m, op) = "saved"
             \/ ~k.saved /\ ReconciledStatus(m, op) \in {"applied", "unknown"}
      <3>1. op.status \in OpenStatus(k)
        BY <2>2
      <3>2. ReconciledStatus(m, op) = IF k.saved THEN "saved"
               ELSE IF EditorAvailable /\ k.sess = session THEN "applied"
               ELSE IF op.status \in {"applied", "unknown"} THEN "unknown" ELSE op.status
        BY <1>3, <2>1 DEF ReconciledStatus, ReconciledStatus_SupersededToo
      <3>3. k.saved \in BOOLEAN
        BY <2>2, ReceiptNumbers
      <3> QED
        BY <3>1, <3>2, <3>3 DEF OpenStatus
    <2>5. /\ \A s \in {"applied", "unknown"} : {"applied", "unknown", "saved"} \subseteq Lifecycle!Moves(s) \cup {s}
      BY DEF Lifecycle!Moves
    <2>6. ReconciledStatus(m, op) = op.status \/ ReconciledStatus(m, op) \in Lifecycle!Moves(op.status)
      BY <2>4, <2>5 DEF OpenStatus
    <2> QED
      BY <2>2, <2>3, <2>4, <2>6 DEF OpenStatus
  <1>4. CASE op.apply # "none"
    <2>1. op.receipt = NoReceipt /\ PatchStatus(op.apply, op.status) /\ \A l \in m.live : l.receipt # NoReceipt
      BY <1>4, OperationParts, ReceiptNumbers
    <2>2. ReconciledStatus(m, op) = IF op.apply = "verified" THEN "verified" ELSE "saved"
      BY <1>4 DEF ReconciledStatus, ReconciledStatus_SupersededToo
    <2>3. op.apply = "verified" \/ op.status = "saved"
      BY <1>4, <2>1, OperationParts DEF PatchStatus, Applied
    <2>4. "verified" \in Lifecycle!Moves("saved")
      BY DEF Lifecycle!Moves
    <2> QED
      BY <2>1, <2>2, <2>3, <2>4 DEF PatchStatus
  <1> QED
    BY <1>1, <1>2, <1>3, <1>4

\* A look at a change set, or at none, is orderly.
LEMMA ReconciledIsOrderly ==
  ASSUME NEW m \in Servers, NEW k, Listed(m, k), NEW c \in ChangeSetIds, NEW n, n = Reconciled(m, c)
  PROVE  Orderly(m, n)
  <1>1. /\ n \in Servers /\ n.phase = m.phase /\ n.live = m.live /\ n.cps = m.cps
        /\ SameOperations(m, n)
        /\ \A d \in ChangeSetIds : \A i \in DOMAIN m.ops[d] :
              n.ops[d][i].status = IF d = c THEN ReconciledStatus(m, m.ops[d][i]) ELSE m.ops[d][i].status
    BY ReconciledFacts
  <1>2. \A d \in ChangeSetIds : \A i \in DOMAIN m.ops[d] :
          LET op == m.ops[d][i]
          IN /\ ReconciledStatus(m, op) = op.status \/ ReconciledStatus(m, op) \in Lifecycle!Moves(op.status)
             /\ \A l \in m.live : l.receipt = op.receipt => ReconciledStatus(m, op) \in OpenStatus(l)
             /\ op.status \in {"saved", "verified"} /\ (\A l \in m.live : l.receipt = op.receipt => l.saved)
                  => ReconciledStatus(m, op) \in {"saved", "verified"}
    BY ReceiptNumbers, ReconciledMovesOn DEF Listed, LiveIsOpen
  <1>3. MovedOn(m, n)
    BY <1>1, <1>2 DEF MovedOn
  <1>4. LiveIsOpen(n) /\ OneWrite(n)
    BY <1>1, <1>2 DEF Listed, LiveIsOpen, OneWrite, SameOperations
  <1>5. SavedKept(m, n)
    <2> SUFFICES ASSUME NEW cp \in m.cps, cp.state = "saved", NEW w \in cp.effective, NEW i \in DOMAIN m.ops[cp.cs],
                        m.ops[cp.cs][i].receipt = w.receipt
                 PROVE  n.ops[cp.cs][i].status \in {"saved", "verified"}
      BY DEF SavedKept
    <2>1. cp.cs \in ChangeSetIds /\ CountsAsSaved(m, cp.cs, w)
      BY ReceiptNumbers DEF Listed, SavedStay
    <2> QED
      BY <1>1, <1>2, <2>1 DEF CountsAsSaved
  <1>6. LiveFrom(m, n) /\ CheckpointsFrom(m, n)
    BY <1>1 DEF LiveFrom, CheckpointsFrom
  <1> QED
    BY <1>1, <1>3, <1>4, <1>5, <1>6 DEF Orderly

\* How an open operation may move.
LEMMA OpenMoves ==
  /\ \A x \in {"applied", "unknown", "saved"} : {"undone", "discarded", "verified"} \subseteq Lifecycle!Moves(x)
  /\ \A x \in {"applied", "unknown"} : "saved" \in Lifecycle!Moves(x)
  /\ "superseded" \in Lifecycle!Moves("applied") /\ "unknown" \in Lifecycle!Moves("applied")
  BY DEF Lifecycle!Moves

\* What stays as it is, or is loaded again, is in order.
LEMMA LoadedIsOrderly ==
  ASSUME NEW m \in Servers, NEW k, Listed(m, k), NEW n \in {m, Loaded(m)}
  PROVE  Orderly(m, n)
  <1>1. Survives(m, n)
    BY SurvivesFacts
  <1>2. /\ n \in Servers /\ n.phase = m.phase /\ n.live = m.live /\ n.cps = m.cps /\ SameOperations(m, n)
        /\ \A d \in ChangeSetIds : \A i \in DOMAIN m.ops[d] :
             n.ops[d][i].status = m.ops[d][i].status
               \/ (m.ops[d][i].status = "applied" /\ n.ops[d][i].status = "unknown")
    BY <1>1 DEF Survives
  <1>3. MovedOn(m, n) /\ LiveFrom(m, n) /\ CheckpointsFrom(m, n) /\ OneWrite(n)
    BY <1>2, OpenMoves DEF MovedOn, LiveFrom, CheckpointsFrom, Listed, OneWrite
  <1>4. LiveIsOpen(n)
    BY <1>2 DEF Listed, LiveIsOpen, OpenStatus, SameOperations
  <1>5. SavedKept(m, n)
    <2> SUFFICES ASSUME NEW cp \in m.cps, cp.state = "saved", NEW w \in cp.effective, NEW i \in DOMAIN m.ops[cp.cs],
                        m.ops[cp.cs][i].receipt = w.receipt
                 PROVE  n.ops[cp.cs][i].status \in {"saved", "verified"}
      BY DEF SavedKept
    <2>1. cp.cs \in ChangeSetIds /\ CountsAsSaved(m, cp.cs, w)
      BY ReceiptNumbers DEF Listed, SavedStay
    <2>2. m.ops[cp.cs][i].status \in {"saved", "verified"}
      BY <2>1 DEF CountsAsSaved
    <2> QED
      BY <1>2, <2>1, <2>2
  <1> QED
    BY <1>2, <1>3, <1>4, <1>5 DEF Orderly

\* n has status s where m has an operation of change set c with a receipt in R.
StatusWritten(m, n, c, R, s) ==
  \A d \in ChangeSetIds : \A i \in DOMAIN m.ops[d] :
    n.ops[d][i].status = IF d = c /\ c # NoChangeSet /\ m.ops[d][i].receipt \in R THEN s
                         ELSE m.ops[d][i].status

\* These operations may take that status, and the live records and checkpoints agree.
StatusFits(m, n, c, R, s) ==
  /\ c # NoChangeSet => \A i \in DOMAIN m.ops[c] :
       m.ops[c][i].receipt \in R => s \in Lifecycle!Moves(m.ops[c][i].status)
  /\ \A y \in n.live : y.receipt \in R => s \in OpenStatus(y)
  /\ s \in {"saved", "verified"} \/
       (\A cp \in m.cps : cp.state = "saved" => \A w \in cp.effective : w.receipt \notin R)

\* A status is written to some operations of a change set, as their live records allow.
LEMMA WrittenIsOrderly ==
  ASSUME NEW m \in Servers, NEW k, Listed(m, k), NEW n \in Servers, n.phase = m.phase, n.cps = m.cps,
         SameOperations(m, n), LiveFrom(m, n), OneWrite(n),
         NEW c, NEW R, NEW s, StatusWritten(m, n, c, R, s), StatusFits(m, n, c, R, s)
  PROVE  Orderly(m, n)
  <1>1. MovedOn(m, n)
    BY DEF MovedOn, StatusWritten, StatusFits
  <1>2. CheckpointsFrom(m, n)
    BY DEF CheckpointsFrom
  <1>3. LiveIsOpen(n)
    <2> SUFFICES ASSUME NEW d \in ChangeSetIds, NEW i \in DOMAIN n.ops[d], NEW y \in n.live,
                        y.receipt = n.ops[d][i].receipt
                 PROVE  n.ops[d][i].status \in OpenStatus(y)
      BY DEF LiveIsOpen
    <2>1. i \in DOMAIN m.ops[d] /\ m.ops[d][i].receipt = y.receipt
      BY DEF SameOperations
    <2>2. PICK l \in m.live : l.receipt = y.receipt /\ (l.saved => y.saved)
      BY DEF LiveFrom
    <2>3. m.ops[d][i].status \in OpenStatus(l) /\ OpenStatus(l) \subseteq OpenStatus(y)
      BY <2>1, <2>2 DEF Listed, LiveIsOpen, OpenStatus
    <2> QED
      BY <2>1, <2>3 DEF StatusWritten, StatusFits
  <1>4. SavedKept(m, n)
    <2> SUFFICES ASSUME NEW cp \in m.cps, cp.state = "saved", NEW w \in cp.effective, NEW i \in DOMAIN m.ops[cp.cs],
                        m.ops[cp.cs][i].receipt = w.receipt
                 PROVE  n.ops[cp.cs][i].status \in {"saved", "verified"}
      BY DEF SavedKept
    <2>1. cp.cs \in ChangeSetIds /\ CountsAsSaved(m, cp.cs, w)
      BY ReceiptNumbers DEF Listed, SavedStay
    <2>2. m.ops[cp.cs][i].status \in {"saved", "verified"}
      BY <2>1 DEF CountsAsSaved
    <2>3. w.receipt \notin R \/ s \in {"saved", "verified"}
      BY DEF StatusFits
    <2> QED
      BY <2>1, <2>2, <2>3 DEF StatusWritten
  <1> QED
    BY <1>1, <1>2, <1>3, <1>4 DEF Orderly

\* Fewer live records are still one per write.
LEMMA FewerIsOrderly ==
  ASSUME NEW m, NEW n, n.live \subseteq m.live, OneWrite(m)
  PROVE  LiveFrom(m, n) /\ OneWrite(n)
  BY DEF LiveFrom, OneWrite

\* So they are when some are marked as saved.
LEMMA MarkedIsOrderly ==
  ASSUME NEW m \in Servers, NEW n \in Servers, NEW R, MarkedLive(m, n, R), OneWrite(m)
  PROVE  LiveFrom(m, n) /\ OneWrite(n) /\ \A y \in n.live : y.receipt \in R => y.saved
  <1>1. \A y \in n.live : \E l \in m.live :
          /\ y.receipt = l.receipt /\ y.asset = l.asset /\ y.target = l.target /\ y.saved = (l.saved \/ l.receipt \in R)
    BY DEF MarkedLive
  <1>2. LiveFrom(m, n) /\ \A y \in n.live : y.receipt \in R => y.saved
    BY <1>1 DEF LiveFrom
  <1>3. ASSUME NEW x \in n.live, NEW y \in n.live, x.receipt = y.receipt
        PROVE  x.asset = y.asset /\ x.target = y.target /\ x.saved = y.saved
    <2>1. PICK k \in m.live : x.receipt = k.receipt /\ x.asset = k.asset /\ x.target = k.target
                              /\ x.saved = (k.saved \/ k.receipt \in R)
      BY <1>1
    <2>2. PICK l \in m.live : y.receipt = l.receipt /\ y.asset = l.asset /\ y.target = l.target
                              /\ y.saved = (l.saved \/ l.receipt \in R)
      BY <1>1
    <2>3. k.asset = l.asset /\ k.target = l.target /\ k.saved = l.saved
      BY <1>3, <2>1, <2>2 DEF OneWrite
    <2> QED
      BY <1>3, <2>1, <2>2, <2>3
  <1> QED
    BY <1>2, <1>3 DEF OneWrite
-----------------------------------------------------------------------------
(* Every call but a write and a checkpoint save is orderly                 *)

\* The user and the bridge see a receipt only in its own asset.
RecordsAreOfLive ==
  \A l \in server.live : \A a \in Assets : \A r \in records[a] : r.id = l.receipt => l.asset = a

\* What a saved checkpoint covers is on disk.
SavedIsOnDisk ==
  \A cp \in server.cps : cp.state = "saved" => \A w \in cp.effective :
    \A a \in Assets : \A r \in records[a] : r.id = w.receipt => r.id <= savedTx[a]

\* No list and no set of lists is too long.
ListsAreFew ==
  /\ IsFiniteSet(OpenChangeSets) /\ Cardinality(OpenChangeSets) <= MaxSlots
  /\ \A c \in ChangeSetIds : Len(server.ops[c]) <= MaxOps

LifecycleInv ==
  /\ TypedInv /\ RecentInv /\ Listed(server, lastTx) /\ RecordsAreOfLive /\ SavedIsOnDisk /\ ListsAreFew

\* A look at a change set.
LEMMA GetIsOrderly ==
  ASSUME LifecycleInv, "crash" \notin Tools, NEW c \in ChangeSetIds, GetChangeSet(c)
  PROVE  Orderly(server, server')
  <1>1. server \in Servers /\ Listed(server, lastTx)
    BY DEF LifecycleInv, TypedInv, Typed, WorkflowTypeOK
  <1>2. PICK n : n = Reconciled(server, c) /\ Finish(n, {})
    BY DEF GetChangeSet
  <1>3. server' = n
    BY <1>2 DEF Finish
  <1> QED
    BY <1>1, <1>2, <1>3, ReconciledIsOrderly

\* An empty change set is discarded.
LEMMA DiscardIsOrderly ==
  ASSUME LifecycleInv, "crash" \notin Tools, NEW c \in ChangeSetIds, DiscardEmpty(c)
  PROVE  Orderly(server, server')
  <1>1. server \in Servers /\ Listed(server, lastTx)
    BY DEF LifecycleInv, TypedInv, Typed, WorkflowTypeOK
  <1>2. PICK n : n = Forget(server, {c}) /\ Finish(n, {}) /\ server.ops[c] = <<>>
    BY DEF DiscardEmpty
  <1>3. server' = n
    BY <1>2 DEF Finish
  <1>4. /\ n \in Servers /\ n.live = server.live /\ n.cps = server.cps
        /\ \A d \in ChangeSetIds : n.phase[d] = (IF d \in {c} THEN "gone" ELSE server.phase[d])
                                   /\ n.ops[d] = IF d \in {c} THEN <<>> ELSE server.ops[d]
    BY <1>1, <1>2, ForgetFacts
  <1>5. \A d \in ChangeSetIds : n.ops[d] = server.ops[d] /\ (n.phase[d] = "open" => server.phase[d] = "open")
    BY <1>2, <1>4
  <1>6. Orderly(server, server)
    BY <1>1, LoadedIsOrderly
  <1>7. MovedOn(server, n) /\ SavedKept(server, n)
    BY <1>1, <1>5, <1>6, ReceiptNumbers DEF Orderly, MovedOn, SameOperations, SavedKept
  <1>8. LiveFrom(server, n) /\ CheckpointsFrom(server, n) /\ OneWrite(n) /\ LiveIsOpen(n)
    BY <1>4, <1>5, <1>6 DEF Orderly, LiveFrom, CheckpointsFrom, OneWrite, LiveIsOpen
  <1> QED
    BY <1>3, <1>4, <1>5, <1>7, <1>8 DEF Orderly

\* An undo or a discard: what a saved checkpoint covers is out of the bridge's reach.
LEMMA RevertIsOrderly ==
  ASSUME LifecycleInv, "crash" \notin Tools, NEW c \in MaybeChangeSet, NEW a \in Assets, NEW r \in Receipts,
         NEW s \in RevertStatuses, Revert(c, a, r, s)
  PROVE  Orderly(server, server')
  <1>1. server \in Servers /\ Listed(server, lastTx)
    BY DEF LifecycleInv, TypedInv, Typed, WorkflowTypeOK
  <1>2. PICK updated, m :
          /\ updated = SetStatus(server, c, {r}, s) /\ m = WithoutLive(updated, r)
          /\ Finish(m, {server, updated}) \/ UNCHANGED server
    BY DEF Revert
  <1>3. s \in OperationStatuses /\ s \in {"undone", "discarded"} /\ AreWrites({r})
    BY WrittenReceipts DEF RevertStatuses, OperationStatuses
  <1>4. /\ updated \in Servers /\ updated.phase = server.phase /\ updated.live = server.live
        /\ updated.cps = server.cps /\ SameOperations(server, updated)
        /\ \A d \in ChangeSetIds : \A i \in DOMAIN server.ops[d] :
              updated.ops[d][i].status = IF d = c /\ c # NoChangeSet /\ server.ops[d][i].receipt \in {r} THEN s
                                         ELSE server.ops[d][i].status
    <2>1. PICK R : R = {r}
      OBVIOUS
    <2>2. updated = SetStatus(server, c, R, s) /\ AreWrites(R)
      BY <1>2, <1>3, <2>1
    <2>3. /\ updated \in Servers /\ updated.phase = server.phase /\ updated.live = server.live
          /\ updated.cps = server.cps /\ SameOperations(server, updated)
          /\ \A d \in ChangeSetIds : \A i \in DOMAIN server.ops[d] :
                updated.ops[d][i].status = IF d = c /\ c # NoChangeSet /\ server.ops[d][i].receipt \in R THEN s
                                           ELSE server.ops[d][i].status
      BY <1>1, <1>3, <2>2, SetStatusFacts
    <2> QED
      BY <2>1, <2>3
  <1>5. /\ m \in Servers /\ m.phase = updated.phase /\ m.ops = updated.ops /\ m.cps = updated.cps
        /\ m.live \subseteq updated.live /\ \A y \in m.live : y.receipt # r
    <2>1. m = WithoutLive(updated, r) /\ updated \in Servers
      BY <1>2, <1>4
    <2> QED
      BY <2>1, WithoutLiveFacts
  <1>6. \A cp \in server.cps : cp.state = "saved" => \A w \in cp.effective : w.receipt \notin {r}
    <2>1. RevertWrite(a, r, session, s = "undone")
      BY DEF Revert
    <2>2. r > savedTx[a]
      BY <2>1, RevertIsRecent DEF LifecycleInv
    <2>3. PICK q \in records[a] : q.id = r
      BY <2>1 DEF RevertWrite, RevertAllowed
    <2>4. r \in Nat /\ savedTx[a] \in Nat
      BY OperationParts, DoneFacts DEF LifecycleInv, RecentInv
    <2> QED
      BY <2>2, <2>3, <2>4 DEF LifecycleInv, SavedIsOnDisk
  <1>7. c # NoChangeSet => \A i \in DOMAIN server.ops[c] :
          server.ops[c][i].receipt \in {r} => s \in Lifecycle!Moves(server.ops[c][i].status)
    <2> SUFFICES ASSUME c # NoChangeSet, NEW i \in DOMAIN server.ops[c], server.ops[c][i].receipt = r
                 PROVE  s \in Lifecycle!Moves(server.ops[c][i].status)
      OBVIOUS
    <2>1. c \in ChangeSetIds /\ IsLive(server, r)
      BY DEF Revert, MaybeChangeSet
    <2>2. PICK l \in server.live : l.receipt = r
      BY <2>1 DEF IsLive
    <2>3. server.ops[c][i].status \in {"applied", "unknown", "saved"}
      BY <1>1, <2>1, <2>2 DEF Listed, LiveIsOpen, OpenStatus
    <2> QED
      BY <1>3, <2>3, OpenMoves
  <1>8. Orderly(server, m)
    <2>1. PICK R : R = {r}
      OBVIOUS
    <2>2. SameOperations(server, m) /\ m.phase = server.phase /\ m.cps = server.cps
      BY <1>4, <1>5 DEF SameOperations
    <2>3. LiveFrom(server, m) /\ OneWrite(m)
      BY <1>1, <1>4, <1>5, FewerIsOrderly DEF Listed
    <2>4. StatusWritten(server, m, c, R, s)
      BY <1>4, <1>5, <2>1 DEF StatusWritten
    <2>5. StatusFits(server, m, c, R, s)
      BY <1>5, <1>6, <1>7, <2>1 DEF StatusFits
    <2> QED
      BY <1>1, <1>5, <2>2, <2>3, <2>4, <2>5, WrittenIsOrderly
  <1>9. server' = m \/ server' = server
    BY <1>2 DEF Finish
  <1> QED
    BY <1>1, <1>8, <1>9, LoadedIsOrderly

\* Operations, live records and phases stay; checkpoints are of known writes.
LEMMA SameListsAreOrderly ==
  ASSUME NEW m \in Servers, NEW k, Listed(m, k), NEW n \in Servers, n.phase = m.phase, n.ops = m.ops,
         n.live = m.live, CheckpointsFrom(m, n)
  PROVE  Orderly(m, n)
  <1>1. Orderly(m, m)
    BY LoadedIsOrderly
  <1>2. MovedOn(m, n) /\ SavedKept(m, n)
    BY <1>1 DEF Orderly, MovedOn, SameOperations, SavedKept
  <1>3. LiveFrom(m, n) /\ OneWrite(n) /\ LiveIsOpen(n)
    BY <1>1 DEF Orderly, LiveFrom, OneWrite, LiveIsOpen
  <1> QED
    BY <1>2, <1>3 DEF Orderly

\* A preview gives out an authorization.
LEMMA ImmediatePreviewIsOrderly ==
  ASSUME LifecycleInv, NEW c, NEW a \in Assets, ImmediatePreview(c, a)
  PROVE  Orderly(server, server')
  <1>1. server \in Servers /\ Listed(server, lastTx) /\ Typed /\ NextSave \in SaveIds
    <2>1. WorkflowTypeOK /\ lastSave < MaxSaves
      BY DEF LifecycleInv, TypedInv, Typed, ImmediatePreview
    <2> QED
      BY <2>1, NewSave DEF LifecycleInv, TypedInv, Typed, WorkflowTypeOK
  <1>2. PICK x, n : x = Authorization(a, "immediate") /\ n = Granted(server, x) /\ server' = n
    BY DEF ImmediatePreview, Granted
  <1>3. x \in Authorizations
    BY <1>1, <1>2, AuthorizationFacts
  <1>4. /\ n \in Servers /\ n.phase = server.phase /\ n.ops = server.ops /\ n.live = server.live
        /\ n.cps = server.cps
    BY <1>1, <1>2, <1>3, GrantedFacts
  <1>5. CheckpointsFrom(server, n)
    BY <1>4 DEF CheckpointsFrom
  <1> QED
    BY <1>1, <1>2, <1>4, <1>5, SameListsAreOrderly

\* A prepared checkpoint lists pending writes.
LEMMA CheckpointPreviewIsOrderly ==
  ASSUME LifecycleInv, "crash" \notin Tools, NEW c \in ChangeSetIds, NEW a \in Assets, CheckpointPreview(c, a)
  PROVE  Orderly(server, server')
  <1>1. /\ server \in Servers /\ Listed(server, lastTx) /\ Typed /\ NextSave \in SaveIds
        /\ session \in 1..MaxSessions /\ NoRev \in 0..NoRev
    <2>1. WorkflowTypeOK /\ lastSave < MaxSaves
      BY DEF LifecycleInv, TypedInv, Typed, CheckpointPreview
    <2> QED
      BY <2>1, NewSave, EditorNumbers DEF LifecycleInv, TypedInv, Typed, WorkflowTypeOK
  <1>2. PICK k, journal, x, n :
          /\ k = [id |-> NextSave, cs |-> c, asset |-> a, state |-> "prepared",
                  sess |-> session, afterRev |-> NoRev, effective |-> AsWrites(Effective(c, a)),
                  superseded |-> SupersededBy(c, a)]
          /\ journal = [server EXCEPT !.cps = @ \cup {k}]
          /\ x = Authorization(a, "checkpoint") /\ n = Granted(journal, x)
          /\ Finish(n, {journal})
    BY DEF CheckpointPreview, NextSave, Granted
  <1>3. /\ k \in Checkpoints /\ k.state = "prepared"
        /\ \A w \in k.effective : \E l \in server.live : l.receipt = w.receipt
    <2>1. k \in Checkpoints /\ k.state = "prepared" /\ k.effective = AsWrites(Effective(c, a))
      BY <1>1, <1>2, WritesOfRecords DEF Checkpoints
    <2> QED
      BY <1>1, <2>1, WritesOfRecords
  <1>4. x \in Authorizations
    BY <1>1, <1>2, AuthorizationFacts
  <1>5. PICK v : v = server.cps \cup {k}
    OBVIOUS
  <1>6. v \in SUBSET Checkpoints /\ journal = WithCheckpoints(server, v)
    BY <1>1, <1>2, <1>3, <1>5, ServerParts DEF WithCheckpoints
  <1>7. /\ journal \in Servers /\ journal.phase = server.phase /\ journal.ops = server.ops
        /\ journal.live = server.live /\ journal.cps = v
    BY <1>1, <1>6, ServerField
  <1>8. /\ n \in Servers /\ n.phase = journal.phase /\ n.ops = journal.ops /\ n.live = journal.live
        /\ n.cps = journal.cps
    <2>1. n = Granted(journal, x)
      BY <1>2
    <2> QED
      BY <1>4, <1>7, <2>1, GrantedFacts
  <1>9. CheckpointsFrom(server, n)
    BY <1>3, <1>5, <1>7, <1>8 DEF CheckpointsFrom
  <1>10. server' = n
    BY <1>2 DEF Finish
  <1> QED
    BY <1>1, <1>7, <1>8, <1>9, <1>10, SameListsAreOrderly

\* An immediate save marks pending writes.
LEMMA ImmediateCommitIsOrderly ==
  ASSUME LifecycleInv, "crash" \notin Tools, NEW c \in MaybeChangeSet, NEW a \in Assets, NEW auth \in server.auths,
         ImmediateCommit(c, a, auth)
  PROVE  Orderly(server, server')
  <1>1. server \in Servers /\ Listed(server, lastTx) /\ auth.id \in SaveIds
    BY ServerParts DEF LifecycleInv, TypedInv, Typed, WorkflowTypeOK, Authorizations
  <1>2. PICK R, consumed, marked, m :
          /\ R = ImmediatelySaved(c, a)
          /\ consumed = Consumed(server, auth) /\ marked = MarkSaved(consumed, R, auth.id)
          /\ m = SetStatus(marked, c, R, "saved")
          /\ Finish(m, {server, marked})
    BY DEF ImmediateCommit
  <1>3. /\ consumed \in Servers /\ consumed.phase = server.phase /\ consumed.ops = server.ops
        /\ consumed.live = server.live /\ consumed.cps = server.cps
    BY <1>1, <1>2, ConsumedFacts
  <1>4. /\ marked \in Servers /\ marked.phase = consumed.phase /\ marked.ops = consumed.ops
        /\ marked.cps = consumed.cps /\ MarkedLive(consumed, marked, R)
    BY <1>1, <1>2, <1>3, MarkSavedFacts DEF MarkedLive
  <1>5. PICK s : s = "saved"
    OBVIOUS
  <1>6. s \in OperationStatuses /\ m = SetStatus(marked, c, R, s) /\ AreWrites(R)
    BY <1>1, <1>2, <1>5, WrittenReceipts DEF OperationStatuses
  <1>7. /\ m \in Servers /\ m.phase = marked.phase /\ m.live = marked.live /\ m.cps = marked.cps
        /\ SameOperations(marked, m)
    BY <1>4, <1>6, SetStatusFacts
  <1>8. StatusWritten(marked, m, c, R, s)
    BY <1>4, <1>6, SetStatusFacts DEF StatusWritten
  <1>9. StatusWritten(server, m, c, R, s) /\ SameOperations(server, m)
    BY <1>3, <1>4, <1>7, <1>8 DEF StatusWritten, SameOperations
  <1>10. LiveFrom(server, m) /\ OneWrite(m) /\ \A y \in m.live : y.receipt \in R => y.saved
    <2>1. OneWrite(consumed)
      BY <1>1, <1>3 DEF Listed, OneWrite
    <2>2. LiveFrom(consumed, marked) /\ OneWrite(marked) /\ \A y \in marked.live : y.receipt \in R => y.saved
      BY <1>3, <1>4, <2>1, MarkedIsOrderly
    <2> QED
      BY <1>3, <1>7, <2>2 DEF LiveFrom, OneWrite
  <1>11. \A r \in R : \E l \in server.live : l.receipt = r /\ ~l.saved
    BY <1>2 DEF ImmediatelySaved
  <1>12. StatusFits(server, m, c, R, s)
    <2>1. ASSUME c # NoChangeSet, NEW i \in DOMAIN server.ops[c], server.ops[c][i].receipt \in R
          PROVE  s \in Lifecycle!Moves(server.ops[c][i].status)
      <3>1. c \in ChangeSetIds
        BY <2>1 DEF MaybeChangeSet
      <3>2. PICK l \in server.live : l.receipt = server.ops[c][i].receipt /\ ~l.saved
        BY <1>11, <2>1
      <3>3. server.ops[c][i].status \in {"applied", "unknown"}
        BY <1>1, <2>1, <3>1, <3>2 DEF Listed, LiveIsOpen, OpenStatus
      <3> QED
        BY <1>5, <3>3, OpenMoves
    <2> QED
      BY <1>5, <1>10, <2>1 DEF StatusFits, OpenStatus
  <1>13. m.phase = server.phase /\ m.cps = server.cps
    BY <1>3, <1>4, <1>7
  <1>14. server' = m
    BY <1>2 DEF Finish
  <1> QED
    BY <1>1, <1>7, <1>9, <1>10, <1>12, <1>13, <1>14, WrittenIsOrderly

\* A verified write is closed.
LEMMA VerifyWriteIsOrderly ==
  ASSUME LifecycleInv, "crash" \notin Tools, NEW c \in MaybeChangeSet, NEW r \in Receipts, VerifyLiveWrite(c, r)
  PROVE  Orderly(server, server')
  <1>1. server \in Servers /\ Listed(server, lastTx)
    BY DEF LifecycleInv, TypedInv, Typed, WorkflowTypeOK
  <1>2. PICK s, R, updated, m :
          /\ s = "verified" /\ R = {r}
          /\ updated = SetStatus(server, c, R, s) /\ m = WithoutLive(updated, r) /\ Finish(m, {updated})
    BY DEF VerifyLiveWrite
  <1>3. s \in OperationStatuses /\ updated = SetStatus(server, c, R, s) /\ AreWrites(R)
    BY <1>2, WrittenReceipts DEF OperationStatuses
  <1>4. /\ updated \in Servers /\ updated.phase = server.phase /\ updated.live = server.live
        /\ updated.cps = server.cps /\ SameOperations(server, updated)
    BY <1>1, <1>3, SetStatusFacts
  <1>5. StatusWritten(server, updated, c, R, s)
    BY <1>1, <1>3, SetStatusFacts DEF StatusWritten
  <1>6. /\ m \in Servers /\ m.phase = updated.phase /\ m.ops = updated.ops /\ m.cps = updated.cps
        /\ m.live \subseteq updated.live /\ \A y \in m.live : y.receipt # r
    <2>1. m = WithoutLive(updated, r) /\ updated \in Servers
      BY <1>2, <1>4
    <2> QED
      BY <2>1, WithoutLiveFacts
  <1>7. StatusFits(server, m, c, R, s)
    <2>1. ASSUME c # NoChangeSet, NEW i \in DOMAIN server.ops[c], server.ops[c][i].receipt \in R
          PROVE  s \in Lifecycle!Moves(server.ops[c][i].status)
      <3>1. c \in ChangeSetIds
        BY <2>1 DEF MaybeChangeSet
      <3>2. PICK l \in server.live : l.receipt = r
        BY DEF VerifyLiveWrite
      <3>3. server.ops[c][i].status \in {"applied", "unknown", "saved"}
        BY <1>1, <1>2, <2>1, <3>1, <3>2 DEF Listed, LiveIsOpen, OpenStatus
      <3> QED
        BY <1>2, <3>3, OpenMoves
    <2> QED
      BY <1>2, <1>6, <2>1 DEF StatusFits
  <1>8. SameOperations(server, m) /\ StatusWritten(server, m, c, R, s) /\ m.phase = server.phase /\ m.cps = server.cps
    BY <1>4, <1>5, <1>6 DEF SameOperations, StatusWritten
  <1>9. LiveFrom(server, m) /\ OneWrite(m)
    BY <1>1, <1>4, <1>6, FewerIsOrderly DEF Listed
  <1>10. server' = m
    BY <1>2 DEF Finish
  <1> QED
    BY <1>1, <1>6, <1>7, <1>8, <1>9, <1>10, WrittenIsOrderly

\* The writes of a verified checkpoint were saved.
LEMMA VerifyCheckpointIsOrderly ==
  ASSUME LifecycleInv, "crash" \notin Tools, NEW cp \in server.cps, VerifyCheckpoint(cp)
  PROVE  Orderly(server, server')
  <1>1. server \in Servers /\ Listed(server, lastTx) /\ cp \in Checkpoints /\ cp.afterRev \in 0..NoRev /\ cp.state = "saved"
    <2>1. server \in Servers /\ Listed(server, lastTx)
      BY DEF LifecycleInv, TypedInv, Typed, WorkflowTypeOK
    <2> QED
      BY <2>1, ServerParts, CheckpointParts DEF VerifyCheckpoint
  <1>2. PICK s, r, R : s = "verified" /\ r = cp.afterRev /\ R = {w.receipt : w \in cp.effective}
    OBVIOUS
  <1>3. PICK verified, m :
          /\ verified = WithCheckpoint(server, cp, s, r) /\ m = VerifiedEffective(verified, cp, R, R)
          /\ Finish(m, {VerifiedEffective(verified, cp, p[1], p[2]) : p \in Stages(R)})
    BY <1>2, Zenon DEF VerifyCheckpoint
  <1>4. /\ verified \in Servers /\ verified.phase = server.phase /\ verified.ops = server.ops
        /\ verified.live = server.live
        /\ \A k \in verified.cps : k \in server.cps \/ (SameCheckpoint(k, cp) /\ k.state = s /\ k.afterRev = r)
    <2>1. /\ s \in {"prepared", "saved", "verified", "stale"} /\ r \in 0..NoRev
          /\ verified = WithCheckpoint(server, cp, s, r) /\ server \in Servers /\ cp \in Checkpoints
      BY <1>1, <1>2, <1>3
    <2> QED
      BY <2>1, WithCheckpointFacts
  <1>5. /\ m \in Servers /\ m.phase = verified.phase /\ m.cps = verified.cps /\ SameOperations(verified, m)
        /\ m.live \subseteq verified.live /\ \A y \in m.live : y.receipt \notin R
    <2>1. m = VerifiedEffective(verified, cp, R, R) /\ AreWrites(R)
      BY <1>1, <1>2, <1>3, WrittenReceipts
    <2> QED
      BY <1>1, <1>4, <2>1, VerifiedEffectiveFacts
  <1>6. \A d \in ChangeSetIds : \A i \in DOMAIN server.ops[d] :
          \/ m.ops[d][i].status = server.ops[d][i].status
          \/ d = cp.cs /\ server.ops[d][i].receipt \in R /\ m.ops[d][i].status = "verified"
    <2>1. m = VerifiedEffective(verified, cp, R, R) /\ AreWrites(R)
      BY <1>1, <1>2, <1>3, WrittenReceipts
    <2> QED
      BY <1>1, <1>4, <2>1, VerifiedEffectiveFacts
  <1>7. \A i \in DOMAIN server.ops[cp.cs] :
          server.ops[cp.cs][i].receipt \in R => server.ops[cp.cs][i].status \in {"saved", "verified"}
    BY <1>1, <1>2 DEF Listed, SavedStay, CountsAsSaved
  <1>8. MovedOn(server, m)
    BY <1>4, <1>5, <1>6, <1>7, OpenMoves DEF MovedOn, SameOperations
  <1>9. SavedKept(server, m)
    <2> SUFFICES ASSUME NEW k \in server.cps, k.state = "saved", NEW w \in k.effective,
                        NEW i \in DOMAIN server.ops[k.cs], server.ops[k.cs][i].receipt = w.receipt
                 PROVE  m.ops[k.cs][i].status \in {"saved", "verified"}
      BY DEF SavedKept
    <2>1. k.cs \in ChangeSetIds /\ CountsAsSaved(server, k.cs, w)
      BY <1>1, ReceiptNumbers DEF Listed, SavedStay
    <2> QED
      BY <1>6, <2>1 DEF CountsAsSaved
  <1>10. LiveFrom(server, m) /\ OneWrite(m)
    BY <1>1, <1>4, <1>5, FewerIsOrderly DEF Listed
  <1>11. CheckpointsFrom(server, m)
    BY <1>2, <1>4, <1>5 DEF CheckpointsFrom, SameCheckpoint
  <1>12. LiveIsOpen(m)
    <2> SUFFICES ASSUME NEW d \in ChangeSetIds, NEW i \in DOMAIN m.ops[d], NEW y \in m.live,
                        y.receipt = m.ops[d][i].receipt
                 PROVE  m.ops[d][i].status \in OpenStatus(y)
      BY DEF LiveIsOpen
    <2>1. i \in DOMAIN server.ops[d] /\ server.ops[d][i].receipt = y.receipt /\ y \in server.live
      BY <1>4, <1>5 DEF SameOperations
    <2>2. m.ops[d][i].status = server.ops[d][i].status
      BY <1>5, <1>6, <2>1
    <2> QED
      BY <1>1, <2>1, <2>2 DEF Listed, LiveIsOpen
  <1>13. server' = m
    BY <1>3 DEF Finish
  <1> QED
    BY <1>4, <1>5, <1>8, <1>9, <1>10, <1>11, <1>12, <1>13 DEF Orderly

\* A stale checkpoint is no longer a saved one.
LEMMA TurnsStaleIsOrderly ==
  ASSUME LifecycleInv, "crash" \notin Tools, NEW cp \in server.cps, CheckpointTurnsStale(cp)
  PROVE  Orderly(server, server')
  <1>1. server \in Servers /\ Listed(server, lastTx) /\ cp \in Checkpoints /\ cp.afterRev \in 0..NoRev
    <2>1. server \in Servers /\ Listed(server, lastTx)
      BY DEF LifecycleInv, TypedInv, Typed, WorkflowTypeOK
    <2> QED
      BY <2>1, ServerParts, CheckpointParts
  <1>2. PICK s, r, m : s = "stale" /\ r = cp.afterRev /\ m = WithCheckpoint(server, cp, s, r) /\ Finish(m, {})
    BY DEF CheckpointTurnsStale
  <1>3. s \in {"prepared", "saved", "verified", "stale"} /\ r \in 0..NoRev /\ m = WithCheckpoint(server, cp, s, r)
    BY <1>1, <1>2
  <1>4. /\ m \in Servers /\ m.phase = server.phase /\ m.ops = server.ops /\ m.live = server.live
        /\ \A k \in m.cps : k \in server.cps \/ (SameCheckpoint(k, cp) /\ k.state = s /\ k.afterRev = r)
    <2>1. /\ s \in {"prepared", "saved", "verified", "stale"} /\ r \in 0..NoRev
          /\ m = WithCheckpoint(server, cp, s, r) /\ server \in Servers /\ cp \in Checkpoints
      BY <1>1, <1>3
    <2> QED
      BY <2>1, WithCheckpointFacts
  <1>5. CheckpointsFrom(server, m)
    BY <1>2, <1>4 DEF CheckpointsFrom, SameCheckpoint
  <1>6. server' = m
    BY <1>2 DEF Finish
  <1> QED
    BY <1>1, <1>4, <1>5, <1>6, SameListsAreOrderly
-----------------------------------------------------------------------------
(* Writes                                                                  *)

\* The change set takes an operation.
HasRoom(m, c) == ~IsClosed(Statuses(m, c)) /\ Len(m.ops[c]) < MaxOps

\* At most change set c gets another operation, which is of receipt r.
AddsTo(m, n, c, r) ==
  /\ \A e \in ChangeSetIds \ {c} : n.ops[e] = m.ops[e]
  /\ c \in ChangeSetIds =>
       \/ n.ops[c] = m.ops[c]
       \/ /\ HasRoom(m, c)
          /\ \E o \in Operations : /\ Grew(m, n, c, o)
                                   /\ o.receipt = r /\ o.status \in {"applied", "no-op", "saved"}
                                   /\ r # NoReceipt => o.status = "applied"

\* The live records are old ones or stand for write r of target t of asset a.
LiveAdded(m, n, r, a, t) ==
  \A y \in n.live : y \in m.live \/ (y.receipt = r /\ y.asset = a /\ y.target = t /\ ~y.saved)

\* A new operation is the last one.
LEMMA AddedOperations ==
  ASSUME NEW m \in Servers, NEW n, NEW c, NEW r, AddsTo(m, n, c, r), NEW e \in ChangeSetIds
  PROVE  \A i \in DOMAIN n.ops[e] :
           \/ i \in DOMAIN m.ops[e] /\ n.ops[e][i] = m.ops[e][i]
           \/ /\ i = Len(m.ops[e]) + 1 /\ n.ops[e][i].receipt = r
              /\ r # NoReceipt => n.ops[e][i].status = "applied"
  <1>1. CASE n.ops[e] = m.ops[e]
    BY <1>1
  <1>2. CASE n.ops[e] # m.ops[e]
    <2>1. PICK o \in Operations : /\ n.ops[e] = Append(m.ops[e], o)
                                  /\ o.receipt = r /\ (r # NoReceipt => o.status = "applied")
      BY <1>2 DEF AddsTo, Grew
    <2>2. m.ops[e] \in Seq(Operations)
      BY ServerParts
    <2>3. /\ Len(m.ops[e]) \in Nat
          /\ DOMAIN m.ops[e] = 1..Len(m.ops[e]) /\ DOMAIN n.ops[e] = 1..(Len(m.ops[e]) + 1)
          /\ \A i \in DOMAIN m.ops[e] : n.ops[e][i] = m.ops[e][i]
          /\ n.ops[e][Len(m.ops[e]) + 1] = o
      BY <2>1, <2>2, OperationAdded
    <2> QED
      BY <2>1, <2>3
  <1> QED
    BY <1>1, <1>2

\* A new receipt keeps the lists in order.
LEMMA AddedIsListed ==
  ASSUME NEW m \in Servers, NEW k \in Nat, NEW n \in Servers, NEW j \in Nat, k <= j, Listed(m, k), n.cps = m.cps,
         NEW c, NEW r, NEW a, NEW t, AddsTo(m, n, c, r), LiveAdded(m, n, r, a, t),
         r = NoReceipt \/ (r \in Nat /\ k < r /\ r <= j)
  PROVE  Listed(n, j)
  <1>1. \A e \in ChangeSetIds : \A i \in DOMAIN n.ops[e] :
          \/ i \in DOMAIN m.ops[e] /\ n.ops[e][i] = m.ops[e][i]
          \/ /\ i = Len(m.ops[e]) + 1 /\ n.ops[e][i].receipt = r
             /\ r # NoReceipt => n.ops[e][i].status = "applied"
    BY AddedOperations
  <1>2. Listed(m, j)
    BY ListedLater
  <1>3. /\ \A l \in m.live : l.receipt # r
        /\ \A e \in ChangeSetIds : \A i \in DOMAIN m.ops[e] : m.ops[e][i].receipt = r => r = NoReceipt
        /\ \A cp \in m.cps : \A w \in cp.effective : w.receipt # r
    BY ReceiptNumbers DEF Listed, ReceiptsUpTo
  <1>4. \A y \in n.live : y.receipt # NoReceipt /\ y.saved \in BOOLEAN
    BY ReceiptNumbers
  <1>5. \A y \in n.live : y \in m.live \/ (r # NoReceipt /\ y.receipt = r /\ y.asset = a /\ y.target = t /\ ~y.saved)
    BY <1>4 DEF LiveAdded
  <1>6. NoReceipt \in Nat /\ NoReceipt <= j
    BY DEF NoReceipt
  <1>7. ReceiptsUpTo(n, j)
    BY <1>1, <1>2, <1>5, <1>6 DEF Listed, ReceiptsUpTo
  <1>8. OwnReceipts(n)
    <2> SUFFICES ASSUME NEW e \in ChangeSetIds, NEW x \in DOMAIN n.ops[e], NEW y \in DOMAIN n.ops[e],
                        n.ops[e][x].receipt = n.ops[e][y].receipt, n.ops[e][x].receipt # NoReceipt
                 PROVE  x = y
      BY DEF OwnReceipts
    <2> QED
      BY <1>1, <1>3 DEF Listed, OwnReceipts
  <1>9. OneWrite(n)
    <2> SUFFICES ASSUME NEW x \in n.live, NEW y \in n.live, x.receipt = y.receipt
                 PROVE  x.asset = y.asset /\ x.target = y.target /\ x.saved = y.saved
      BY DEF OneWrite
    <2>1. CASE x \in m.live /\ y \in m.live
      BY <2>1 DEF Listed, OneWrite
    <2>2. CASE x \notin m.live \/ y \notin m.live
      <3>1. /\ x.receipt = r /\ x.asset = a /\ x.target = t /\ ~x.saved
            /\ y.receipt = r /\ y.asset = a /\ y.target = t /\ ~y.saved
        BY <1>3, <1>5, <2>2
      <3> QED
        BY <1>4, <3>1
    <2> QED
      BY <2>1, <2>2
  <1>10. LiveIsOpen(n)
    <2> SUFFICES ASSUME NEW e \in ChangeSetIds, NEW i \in DOMAIN n.ops[e], NEW y \in n.live,
                        y.receipt = n.ops[e][i].receipt
                 PROVE  n.ops[e][i].status \in OpenStatus(y)
      BY DEF LiveIsOpen
    <2> QED
      BY <1>1, <1>3, <1>4, <1>5 DEF Listed, LiveIsOpen, OpenStatus
  <1>11. SavedStay(n)
    <2> SUFFICES ASSUME NEW cp \in n.cps, cp.state = "saved", NEW w \in cp.effective
                 PROVE  CountsAsSaved(n, cp.cs, w)
      BY DEF SavedStay
    <2>1. CountsAsSaved(m, cp.cs, w) /\ cp.cs \in ChangeSetIds /\ w.receipt # r
      BY <1>3, ReceiptNumbers DEF Listed, SavedStay
    <2> QED
      BY <1>1, <1>5, <2>1 DEF CountsAsSaved
  <1> QED
    BY <1>7, <1>8, <1>9, <1>10, <1>11 DEF Listed

\* A call that writes: the lists are brought up to date first.
WriteCall(c, a, t, r) ==
  \E m \in Servers :
    /\ Orderly(server, m) /\ server' \in Servers /\ server'.phase = m.phase /\ server'.cps = m.cps
    /\ AddsTo(m, server', c, r) /\ LiveAdded(m, server', r, a, t)

\* What a call brings up to date.
LEMMA BegunIsOrderly ==
  ASSUME LifecycleInv, NEW c \in MaybeChangeSet, NEW n, n = Begun(c)
  PROVE  Orderly(server, n) /\ n \in Servers
  <1>1. server \in Servers /\ Listed(server, lastTx)
    BY DEF LifecycleInv, TypedInv, Typed, WorkflowTypeOK
  <1>2. CASE c = NoChangeSet
    BY <1>1, <1>2, LoadedIsOrderly DEF Begun, Orderly
  <1>3. CASE c # NoChangeSet
    <2>1. c \in ChangeSetIds /\ n = Reconciled(server, c)
      BY <1>3 DEF Begun, MaybeChangeSet
    <2> QED
      BY <1>1, <2>1, ReconciledIsOrderly DEF Orderly
  <1> QED
    BY <1>2, <1>3

\* One operation is appended.
LEMMA AppendAddsTo ==
  ASSUME EditorInv, NEW b \in Servers, NEW m \in Servers, m.ops = b.ops, NEW c \in ChangeSetIds, c # NoChangeSet,
         Accepts(b, c), NEW a \in Assets, NEW r, r \in Receipts \/ r = NoReceipt, NEW s \in {"applied", "no-op"},
         r # NoReceipt => s = "applied", NEW n, n = AppendOperation(m, c, a, r, s)
  PROVE  n \in Servers /\ n.phase = m.phase /\ n.live = m.live /\ n.cps = m.cps /\ AddsTo(b, n, c, r)
  <1>1. s \in OperationStatuses
    BY DEF OperationStatuses
  <1>2. /\ n \in Servers /\ n.phase = m.phase /\ n.live = m.live /\ n.cps = m.cps
        /\ \A d \in ChangeSetIds \ {c} : n.ops[d] = m.ops[d]
    BY <1>1, AppendOperationFacts
  <1>3. \E o \in Operations : o.receipt = r /\ o.status = s /\ Grew(m, n, c, o)
    <2>1. \E o \in Operations : o.receipt = r /\ o.asset = a /\ o.status = s /\ Grew(m, n, c, o)
      BY <1>1, AppendOperationFacts
    <2> QED
      BY <2>1
  <1>4. PICK o \in Operations : o.receipt = r /\ o.status = s /\ Grew(b, n, c, o)
    BY <1>3 DEF Grew
  <1>5. HasRoom(b, c)
    BY DEF Accepts, HasRoom
  <1> QED
    BY <1>2, <1>4, <1>5 DEF AddsTo

\* Operations are old ones, or of asset a.
OldOrOf(m, n, a) ==
  \A c \in ChangeSetIds : \A i \in DOMAIN n.ops[c] :
    \/ i \in DOMAIN m.ops[c] /\ n.ops[c][i] = m.ops[c][i]
    \/ n.ops[c][i].asset = a

\* An operation is added for its asset.
LEMMA AppendIsOf ==
  ASSUME EditorInv, NEW b \in Servers, NEW m \in Servers, m.ops = b.ops, NEW c \in ChangeSetIds,
         NEW a \in Assets, NEW r, r \in Receipts \/ r = NoReceipt, NEW s \in OperationStatuses,
         NEW n, n = AppendOperation(m, c, a, r, s)
  PROVE  OldOrOf(b, n, a)
  <1>1. \A d \in ChangeSetIds \ {c} : n.ops[d] = b.ops[d]
    BY AppendOperationFacts
  <1>2. \E o \in Operations : o.receipt = r /\ o.asset = a /\ o.status = s /\ Grew(m, n, c, o)
    BY AppendOperationFacts
  <1>3. PICK o \in Operations : o.asset = a /\ Grew(m, n, c, o)
    BY <1>2
  <1>4. PICK l \in Seq(Operations) : l = b.ops[c] /\ n.ops[c] = Append(l, o)
    BY <1>3, ServerParts DEF Grew
  <1>5. \A i \in DOMAIN n.ops[c] : (i \in DOMAIN l /\ n.ops[c][i] = l[i]) \/ n.ops[c][i] = o
    BY <1>4, OperationAdded
  <1> QED
    BY <1>1, <1>3, <1>4, <1>5 DEF OldOrOf

\* A write adds an operation and a live record of the same asset.
LEMMA ApplyOnItsAsset ==
  ASSUME LifecycleInv, "crash" \notin Tools, NEW c \in MaybeChangeSet, NEW a \in Assets, NEW t \in Targets,
         NEW v \in Values, Apply(c, a, t, v)
  PROVE  \E m \in Servers :
           /\ Orderly(server, m) /\ server' \in Servers /\ server'.phase = m.phase /\ server'.cps = m.cps
           /\ AddsTo(m, server', c, NextReceipt)
           /\ LiveAdded(m, server', NextReceipt, a, t) /\ OldOrOf(m, server', a)
  <1>1. PICK begun, journal, bound :
          /\ begun = Begun(c) /\ journal = WithWrite(begun, a, t, v)
          /\ bound = IF c = NoChangeSet THEN journal ELSE AppendOperation(journal, c, a, NextReceipt, "applied")
          /\ ApplyChanged(a, t, v, PreviousTransaction(begun, c, a))
          /\ Accepts(begun, c)
          /\ \/ \E kept \in Prunings(bound.live) : Finish(Pruned(bound, kept), {begun, journal, bound})
             \/ server' = begun
    BY DEF Apply, NextReceipt
  <1>3. /\ EditorInv /\ NextReceipt \in Receipts /\ Orderly(server, begun) /\ begun \in Servers
    BY <1>1, NewReceipt, BegunIsOrderly DEF LifecycleInv, TypedInv, Typed, ApplyChanged, RecordTransaction
  <1>4. /\ journal \in Servers /\ journal.phase = begun.phase /\ journal.ops = begun.ops
        /\ journal.cps = begun.cps
        /\ \A l \in journal.live : \/ l \in begun.live
                                   \/ l.receipt = NextReceipt /\ l.asset = a /\ l.target = t /\ ~l.saved
    BY <1>1, <1>3, WithWriteFacts
  <1>5. /\ bound \in Servers /\ bound.phase = begun.phase /\ bound.live = journal.live
        /\ bound.cps = begun.cps
        /\ AddsTo(begun, bound, c, NextReceipt) /\ OldOrOf(begun, bound, a)
    <2>1. CASE c = NoChangeSet
      BY <1>1, <1>4, <2>1 DEF AddsTo, OldOrOf
    <2>2. CASE c # NoChangeSet
      <3>1. c \in ChangeSetIds
        BY <2>2 DEF MaybeChangeSet
      <3>2. PICK r, s : r = NextReceipt /\ s = "applied"
        OBVIOUS
      <3>3. /\ EditorInv /\ begun \in Servers /\ journal \in Servers /\ journal.ops = begun.ops
            /\ c \in ChangeSetIds /\ c # NoChangeSet /\ Accepts(begun, c) /\ a \in Assets
            /\ (r \in Receipts \/ r = NoReceipt) /\ s \in {"applied", "no-op"} /\ (r # NoReceipt => s = "applied")
            /\ bound = AppendOperation(journal, c, a, r, s) /\ s \in OperationStatuses
        BY <1>1, <1>3, <1>4, <2>2, <3>1, <3>2 DEF OperationStatuses
      <3>4. /\ bound \in Servers /\ bound.phase = journal.phase /\ bound.live = journal.live
            /\ bound.cps = journal.cps /\ AddsTo(begun, bound, c, r)
        BY <3>3, AppendAddsTo
      <3>5. OldOrOf(begun, bound, a)
        BY <3>3, AppendIsOf
      <3> QED
        BY <1>4, <3>2, <3>4, <3>5
    <2> QED
      BY <2>1, <2>2
  <1>6. CASE server' = begun
    <2>1. AddsTo(begun, begun, c, NextReceipt) /\ LiveAdded(begun, begun, NextReceipt, a, t) /\ OldOrOf(begun, begun, a)
      BY DEF AddsTo, LiveAdded, OldOrOf
    <2> QED
      BY <1>3, <1>6, <2>1
  <1>7. ASSUME NEW kept \in Prunings(bound.live), server' = Pruned(bound, kept)
        PROVE  \E m \in Servers :
                 /\ Orderly(server, m) /\ server' \in Servers /\ server'.phase = m.phase /\ server'.cps = m.cps
                 /\ AddsTo(m, server', c, NextReceipt)
                 /\ LiveAdded(m, server', NextReceipt, a, t) /\ OldOrOf(m, server', a)
    <2>1. PICK m : m = Pruned(bound, kept)
      OBVIOUS
    <2>2. /\ m \in Servers /\ m.phase = bound.phase /\ m.ops = bound.ops
          /\ m.live \subseteq bound.live /\ m.cps = bound.cps
      BY <1>5, <1>7, <2>1, PrunedFacts
    <2>3. AddsTo(begun, m, c, NextReceipt) /\ LiveAdded(begun, m, NextReceipt, a, t) /\ OldOrOf(begun, m, a)
      BY <1>4, <1>5, <2>2 DEF AddsTo, LiveAdded, OldOrOf, Grew
    <2> QED
      BY <1>3, <1>5, <1>7, <2>1, <2>2, <2>3
  <1> QED
    BY <1>1, <1>6, <1>7 DEF Finish

\* A write in Editor memory.
LEMMA ApplyIsWriteCall ==
  ASSUME LifecycleInv, "crash" \notin Tools, NEW c \in MaybeChangeSet, NEW a \in Assets, NEW t \in Targets,
         NEW v \in Values, Apply(c, a, t, v)
  PROVE  WriteCall(c, a, t, NextReceipt)
  <1> QED
    BY ApplyOnItsAsset DEF WriteCall

\* A write without effect.
LEMMA ApplyNoChangeIsWriteCall ==
  ASSUME LifecycleInv, "crash" \notin Tools, NEW c \in MaybeChangeSet, NEW a \in Assets, NEW t, ApplyNoChange(c, a)
  PROVE  WriteCall(c, a, t, NoReceipt)
  <1>1. PICK begun, r, s : begun = Begun(c) /\ r = NoReceipt /\ s = "no-op"
    OBVIOUS
  <1>2. PICK m :
          /\ m = AppendOperation(begun, c, a, r, s) /\ Accepts(begun, c)
          /\ (c # NoChangeSet /\ Finish(m, {begun})) \/ server' = begun
    BY <1>1 DEF ApplyNoChange
  <1>3. EditorInv
    BY DEF LifecycleInv, TypedInv, Typed
  <1>4. Orderly(server, begun) /\ begun \in Servers
    BY <1>1, BegunIsOrderly
  <1>5. LiveAdded(begun, begun, r, a, t) /\ AddsTo(begun, begun, c, r)
    BY DEF LiveAdded, AddsTo
  <1>6. CASE server' = begun
    BY <1>1, <1>4, <1>5, <1>6 DEF WriteCall
  <1>7. CASE c # NoChangeSet /\ server' = m
    <2>1. /\ EditorInv /\ begun \in Servers /\ c \in ChangeSetIds /\ c # NoChangeSet /\ Accepts(begun, c)
          /\ (r \in Receipts \/ r = NoReceipt) /\ s \in {"applied", "no-op"} /\ (r # NoReceipt => s = "applied")
          /\ m = AppendOperation(begun, c, a, r, s)
      BY <1>1, <1>2, <1>3, <1>4, <1>7 DEF MaybeChangeSet
    <2>2. m \in Servers /\ m.phase = begun.phase /\ m.live = begun.live /\ m.cps = begun.cps /\ AddsTo(begun, m, c, r)
      BY <2>1, AppendAddsTo
    <2>3. LiveAdded(begun, m, r, a, t)
      BY <2>2 DEF LiveAdded
    <2> QED
      BY <1>1, <1>4, <1>7, <2>2, <2>3 DEF WriteCall
  <1> QED
    BY <1>2, <1>6, <1>7 DEF Finish

\* The same histories are as orderly.
LEMMA SameHistoriesAreOrderly ==
  ASSUME NEW m \in Servers, NEW b \in Servers, Orderly(m, b), NEW n, SameButLists(b, n), SameHistories(b, n)
  PROVE  Orderly(m, n)
  <1>1. n \in Servers /\ n.phase = b.phase /\ n.live = b.live /\ n.cps = b.cps
    BY DEF SameButLists
  <1>2. MovedOn(m, n) /\ SavedKept(m, n)
    <2>1. /\ \A cp \in m.cps : cp.cs \in ChangeSetIds
          /\ MovedOn(m, b) /\ SavedKept(m, b) /\ SameOperations(m, n)
      BY ReceiptNumbers, SameOperationsCarry DEF Orderly, MovedOn, SameHistories
    <2>2. \A c \in ChangeSetIds : \A i \in DOMAIN m.ops[c] : n.ops[c][i].status = b.ops[c][i].status
      BY <2>1 DEF MovedOn, SameHistories, SameOperations
    <2>3. MovedOn(m, n)
      BY <2>1, <2>2 DEF MovedOn
    <2>4. SavedKept(m, n)
      BY <2>1, <2>2 DEF SavedKept
    <2> QED
      BY <2>3, <2>4
  <1>3. LiveFrom(m, n) /\ CheckpointsFrom(m, n) /\ OneWrite(n)
    BY <1>1 DEF Orderly, LiveFrom, CheckpointsFrom, OneWrite
  <1>4. LiveIsOpen(n)
    BY <1>1 DEF Orderly, LiveIsOpen, SameHistories, SameOperations
  <1> QED
    BY <1>1, <1>2, <1>3, <1>4 DEF Orderly

\* The operation a committed patch adds.
LEMMA PatchAddsTo ==
  ASSUME NEW c \in ChangeSetIds, NEW begun, ~IsClosed(Statuses(begun, c)), NEW base, SameHistories(begun, base),
         NEW p, GotPatch(base, p, c)
  PROVE  AddsTo(base, p, c, NoReceipt)
  <1>1. Statuses(base, c) = Statuses(begun, c)
    <2>1. DOMAIN base.ops[c] = DOMAIN begun.ops[c]
          /\ \A i \in DOMAIN begun.ops[c] : base.ops[c][i].status = begun.ops[c][i].status
      BY DEF SameHistories, SameOperations
    <2> QED
      BY <2>1 DEF Statuses
  <1>2. HasRoom(base, c)
    BY <1>1 DEF HasRoom, GotPatch
  <1> QED
    BY <1>2 DEF AddsTo, GotPatch

\* A committed patch is bound like a write without effect on the Editor.
LEMMA PatchIsWriteCall ==
  ASSUME LifecycleInv, "crash" \notin Tools, NEW c \in ChangeSetIds, CommitPatch(c), NEW a, NEW t
  PROVE  WriteCall(c, a, t, NoReceipt) /\ UNCHANGED editorVars
  <1>1. server \in Servers /\ Listed(server, lastTx) /\ Typed
    BY DEF LifecycleInv, TypedInv, Typed, WorkflowTypeOK
  <1>2. PICK begun, base, p :
          /\ begun = Reconciled(server, c)
          /\ SameButLists(server, begun) /\ ~IsClosed(Statuses(begun, c))
          /\ SameButLists(begun, base) /\ SameHistories(begun, base)
          /\ SameButLists(begun, p) /\ (p = begun \/ GotPatch(base, p, c))
          /\ server' = p
    BY <1>1, CommitPatchFacts
  <1>3. Orderly(server, begun) /\ begun \in Servers
    BY <1>1, <1>2, ReconciledIsOrderly DEF SameButLists
  <1>4. Orderly(server, base) /\ base \in Servers
    BY <1>1, <1>2, <1>3, SameHistoriesAreOrderly DEF SameButLists
  <1>5. /\ p \in Servers /\ p.phase = begun.phase /\ p.cps = begun.cps /\ p.live = begun.live
        /\ base.phase = begun.phase /\ base.cps = begun.cps /\ base.live = begun.live
    BY <1>2 DEF SameButLists
  <1>6. LiveAdded(begun, p, NoReceipt, a, t) /\ LiveAdded(base, p, NoReceipt, a, t)
    BY <1>5 DEF LiveAdded
  <1>7. CASE p = begun
    <2>1. AddsTo(begun, p, c, NoReceipt)
      BY <1>7 DEF AddsTo
    <2> QED
      BY <1>1, <1>2, <1>3, <1>5, <1>6, <2>1, CommitPatchFacts DEF WriteCall
  <1>8. CASE GotPatch(base, p, c)
    <2>1. AddsTo(base, p, c, NoReceipt)
      BY <1>2, <1>8, PatchAddsTo
    <2> QED
      BY <1>1, <1>2, <1>4, <1>5, <1>6, <2>1, CommitPatchFacts DEF WriteCall
  <1> QED
    BY <1>2, <1>7, <1>8

\* A verified patch moves its operation on; the other patch tools touch no history.
LEMMA OtherPatchToolsAreOrderly ==
  ASSUME LifecycleInv, "crash" \notin Tools,
         CommitUnboundPatch \/ \E c \in ChangeSetIds, i \in 1..MaxOps : VerifyPatch(c, i)
  PROVE  Orderly(server, server')
  <1>1. server \in Servers /\ Listed(server, lastTx) /\ Typed
    BY DEF LifecycleInv, TypedInv, Typed, WorkflowTypeOK
  <1>2. /\ SameButLists(server, server') /\ SameOperations(server, server')
        /\ \A d \in ChangeSetIds : \A j \in DOMAIN server.ops[d] :
             \/ server'.ops[d][j].status = server.ops[d][j].status
             \/ /\ server.ops[d][j].status = "saved" /\ server'.ops[d][j].status = "verified"
                /\ server.ops[d][j].receipt = NoReceipt
    BY <1>1, OtherPatchToolsFacts
  <1>3. server' \in Servers /\ server'.phase = server.phase /\ server'.live = server.live /\ server'.cps = server.cps
    BY <1>2 DEF SameButLists
  <1>4. MovedOn(server, server')
    BY <1>2, OpenMoves DEF MovedOn
  <1>5. LiveFrom(server, server') /\ CheckpointsFrom(server, server') /\ OneWrite(server')
    BY <1>1, <1>3 DEF LiveFrom, CheckpointsFrom, Listed, OneWrite
  <1>6. LiveIsOpen(server')
    <2>1. \A l \in server.live : l.receipt # NoReceipt
      BY <1>1, ReceiptNumbers
    <2> QED
      BY <1>1, <1>2, <1>3, <2>1 DEF Listed, LiveIsOpen, SameOperations
  <1>7. SavedKept(server, server')
    <2> SUFFICES ASSUME NEW cp \in server.cps, cp.state = "saved", NEW w \in cp.effective,
                        NEW i \in DOMAIN server.ops[cp.cs], server.ops[cp.cs][i].receipt = w.receipt
                 PROVE  server'.ops[cp.cs][i].status \in {"saved", "verified"}
      BY DEF SavedKept
    <2>1. cp.cs \in ChangeSetIds /\ CountsAsSaved(server, cp.cs, w)
      BY <1>1, ReceiptNumbers DEF Listed, SavedStay
    <2> QED
      BY <1>2, <2>1 DEF CountsAsSaved
  <1> QED
    BY <1>3, <1>4, <1>5, <1>6, <1>7 DEF Orderly
-----------------------------------------------------------------------------
(* A checkpoint is saved, a change set is created                          *)

\* What is saved newly are pending writes of asset a.
NewlySaved(n, a) ==
  \A y \in n.cps : y.state = "saved" =>
    \/ \E cp \in server.cps : cp.state = "saved" /\ cp.effective = y.effective
    \/ \A w \in y.effective : \E l \in server.live : l.receipt = w.receipt /\ l.asset = a

\* Two operations with one receipt are one.
LEMMA StatusOfOperation ==
  ASSUME NEW m \in Servers, OwnReceipts(m), NEW c \in ChangeSetIds, NEW i \in DOMAIN m.ops[c], NEW r,
         m.ops[c][i].receipt = r, r # NoReceipt
  PROVE  StatusOf(m, c, r) = m.ops[c][i].status
  <1>1. PICK S : S = {m.ops[c][k] : k \in DOMAIN m.ops[c]}
    OBVIOUS
  <1>2. m.ops[c][i] \in S /\ \A op \in S : op.receipt = r => op = m.ops[c][i]
    BY <1>1 DEF OwnReceipts
  <1>3. (CHOOSE op \in S : op.receipt = r) = m.ops[c][i]
    BY <1>2
  <1> QED
    BY <1>1, <1>3 DEF StatusOf

\* Every receipt in R is one of these live records'.
OfRecords(R, applies) == \A r \in R : \E l \in applies : l.receipt = r

\* The writes of a checkpoint and those they replace.
LEMMA IncludedWrites ==
  ASSUME server \in Servers, OwnReceipts(server), OneWrite(server), NEW c \in ChangeSetIds, NEW a,
         NEW R, OfRecords(R, Effective(c, a)), NEW S, S = SupersededBy(c, a)
  PROVE  /\ R \cap S = {}
         /\ \A r \in R \cup S : \E l \in server.live : l.receipt = r /\ l.asset = a /\ ~l.saved
         /\ \A r \in R \cup S : \E i \in DOMAIN server.ops[c] : server.ops[c][i].receipt = r
         /\ \A i \in DOMAIN server.ops[c] : server.ops[c][i].receipt \in R \cup S => server.ops[c][i].status = "applied"
  <1>1. /\ \A r \in R : \E l \in Effective(c, a) : l.receipt = r
        /\ \A r \in S : \E l \in Included(c, a) : l.receipt = r /\ l \notin Effective(c, a)
    BY DEF SupersededBy, OfRecords
  <1>2. \A l \in Included(c, a) : /\ l \in server.live /\ l.asset = a /\ l.receipt \in Nat /\ l.receipt # NoReceipt
                                  /\ ~l.saved /\ l.receipt \in BoundReceipts(server, c)
                                  /\ StatusOf(server, c, l.receipt) = "applied"
    BY ReceiptNumbers DEF Included
  <1>3. Effective(c, a) \subseteq Included(c, a)
    BY DEF Effective
  <1>4. ASSUME NEW r \in R, r \in S PROVE FALSE
    <2>1. PICK l \in Effective(c, a) : l.receipt = r
      BY <1>1
    <2>2. PICK o \in Included(c, a) : o.receipt = r /\ o \notin Effective(c, a)
      BY <1>1, <1>4
    <2>3. l.target = o.target
      BY <1>2, <1>3, <2>1, <2>2 DEF OneWrite
    <2>4. PICK x \in Included(c, a) : x.target = o.target /\ ~(x.receipt <= o.receipt)
      BY <2>2 DEF Effective
    <2>5. x.receipt <= l.receipt
      BY <2>1, <2>3, <2>4 DEF Effective
    <2> QED
      BY <2>1, <2>2, <2>4, <2>5
  <1>5. \A r \in R \cup S : \E l \in Included(c, a) : l.receipt = r
    BY <1>1, <1>3
  <1>6. ASSUME NEW i \in DOMAIN server.ops[c], server.ops[c][i].receipt \in R \cup S
        PROVE  server.ops[c][i].status = "applied"
    <2>1. PICK l \in Included(c, a) : l.receipt = server.ops[c][i].receipt
      BY <1>5, <1>6
    <2>2. StatusOf(server, c, l.receipt) = "applied" /\ l.receipt # NoReceipt
      BY <1>2
    <2> QED
      BY <2>1, <2>2, StatusOfOperation
  <1>7. \A r \in R \cup S : \E i \in DOMAIN server.ops[c] : server.ops[c][i].receipt = r
    BY <1>2, <1>5 DEF BoundReceipts
  <1> QED
    BY <1>2, <1>4, <1>5, <1>6, <1>7

\* What the server's record is after a checkpoint is saved: R are the receipts of its writes, S of
\* those they replace.
Marked(m, cp, R) == \E saved, marked \in Servers :
  /\ saved.ops = server.ops /\ saved.live = server.live
  /\ marked = SavedEffective(saved, cp, R, R) /\ MarkedLive(saved, marked, R)
  /\ m.live = {l \in marked.live : l.receipt \notin cp.superseded}

ReceiptsOf(R, cp) == R = {w.receipt : w \in cp.effective}

LEMMA CommitFacts ==
  ASSUME LifecycleInv, "crash" \notin Tools, NEW c \in ChangeSetIds, c # NoChangeSet, NEW a \in Assets,
         NEW auth \in server.auths, NEW cp \in server.cps, CheckpointCommit(c, a, auth, cp),
         NEW R, ReceiptsOf(R, cp), NEW S, S = cp.superseded
  PROVE  /\ server \in Servers /\ Listed(server, lastTx)
         /\ cp.cs = c /\ cp.effective = AsWrites(Effective(c, a)) /\ S = SupersededBy(c, a)
         /\ R \cap S = {}
         /\ \A r \in R \cup S : \E l \in server.live : l.receipt = r /\ l.asset = a
         /\ \A i \in DOMAIN server.ops[c] : server.ops[c][i].receipt \in R \cup S => server.ops[c][i].status = "applied"
         /\ server' \in Servers /\ server'.phase = server.phase /\ SameOperations(server, server')
         /\ \A k \in server'.cps : k \in server.cps \/ (SameCheckpoint(k, cp) /\ k.state = "saved")
         /\ Marked(server', cp, R)
         /\ \A d \in ChangeSetIds : \A i \in DOMAIN server.ops[d] :
              server'.ops[d][i].status = IF d = c /\ server.ops[d][i].receipt \in S THEN "superseded"
                                         ELSE IF d = c /\ server.ops[d][i].receipt \in R THEN "saved"
                                         ELSE server.ops[d][i].status
  <1>1. /\ server \in Servers /\ Listed(server, lastTx) /\ cp \in Checkpoints
        /\ rev'[a] \in 0..NoRev /\ Prepared(cp, c, a)
    <2>1. server \in Servers /\ Listed(server, lastTx) /\ Typed
      BY DEF LifecycleInv, TypedInv, Typed, WorkflowTypeOK
    <2>2. SaveAsset(a) /\ Prepared(cp, c, a)
      BY DEF CheckpointCommit
    <2> QED
      BY <2>1, <2>2, SavedRevision, ServerParts DEF SaveAsset
  <1>2. PICK s, v : s = "saved" /\ v = rev'[a]
    OBVIOUS
  <1>3. PICK consumed, saved : consumed = Consumed(server, auth) /\ saved = WithCheckpoint(consumed, cp, s, v)
    OBVIOUS
  <1>4. PICK marked, m : marked = SavedEffective(saved, cp, R, R) /\ m = Superseded(marked, cp, S, S)
    OBVIOUS
  <1>5. server' = m
    <2>1. Finish(m, {server} \cup {SavedEffective(saved, cp, p[1], p[2]) : p \in Stages(R)}
                       \cup {Superseded(marked, cp, p[1], p[2]) : p \in Stages(S)})
      BY <1>2, <1>3, <1>4, Zenon DEF CheckpointCommit, ReceiptsOf
    <2> QED
      BY <2>1 DEF Finish
  <1>6. cp.cs = c /\ cp.effective = AsWrites(Effective(c, a)) /\ S = SupersededBy(c, a)
    BY <1>1 DEF Prepared
  <1>7. /\ R \cap S = {}
        /\ \A r \in R \cup S : \E l \in server.live : l.receipt = r /\ l.asset = a
        /\ \A i \in DOMAIN server.ops[c] : server.ops[c][i].receipt \in R \cup S => server.ops[c][i].status = "applied"
    <2>1. OfRecords(R, Effective(c, a))
      BY <1>6 DEF AsWrites, OfRecords, ReceiptsOf
    <2> QED
      BY <1>1, <1>6, <2>1, IncludedWrites DEF Listed
  <1>8. /\ consumed \in Servers /\ consumed.phase = server.phase /\ consumed.ops = server.ops
        /\ consumed.live = server.live /\ consumed.cps = server.cps
    BY <1>1, <1>3, ConsumedFacts
  <1>9. /\ saved \in Servers /\ saved.phase = server.phase /\ saved.ops = server.ops /\ saved.live = server.live
        /\ \A k \in saved.cps : k \in server.cps \/ (SameCheckpoint(k, cp) /\ k.state = s)
    <2>1. /\ s \in {"prepared", "saved", "verified", "stale"} /\ v \in 0..NoRev /\ saved = WithCheckpoint(consumed, cp, s, v)
          /\ consumed \in Servers /\ cp \in Checkpoints
      BY <1>1, <1>2, <1>3, <1>8
    <2>2. /\ saved \in Servers /\ saved.phase = consumed.phase /\ saved.ops = consumed.ops /\ saved.live = consumed.live
          /\ \A k \in saved.cps : \/ k \in consumed.cps
                                  \/ SameCheckpoint(k, cp) /\ k.state = s /\ k.afterRev = v
      BY <2>1, WithCheckpointFacts
    <2> QED
      BY <1>8, <2>2
  <1>10. /\ marked \in Servers /\ marked.phase = server.phase /\ marked.cps = saved.cps
         /\ SameOperations(server, marked) /\ MarkedLive(saved, marked, R)
         /\ \A d \in ChangeSetIds : \A i \in DOMAIN server.ops[d] :
              marked.ops[d][i].status = IF d = c /\ server.ops[d][i].receipt \in R THEN "saved"
                                        ELSE server.ops[d][i].status
    <2>1. /\ marked \in Servers /\ marked.phase = saved.phase /\ marked.cps = saved.cps
          /\ SameOperations(saved, marked) /\ MarkedLive(saved, marked, R)
          /\ \A d \in ChangeSetIds : \A i \in DOMAIN saved.ops[d] :
               marked.ops[d][i].status = IF d = cp.cs /\ d # NoChangeSet /\ saved.ops[d][i].receipt \in R THEN "saved"
                                         ELSE saved.ops[d][i].status
      BY <1>1, <1>4, <1>9, WrittenReceipts, SavedEffectiveFacts DEF ReceiptsOf
    <2> QED
      BY <1>6, <1>9, <2>1 DEF SameOperations
  <1>11. /\ m \in Servers /\ m.phase = server.phase /\ m.cps = saved.cps
         /\ m.live = {l \in marked.live : l.receipt \notin S} /\ SameOperations(server, m)
         /\ \A d \in ChangeSetIds : \A i \in DOMAIN server.ops[d] :
              m.ops[d][i].status = IF d = c /\ server.ops[d][i].receipt \in S THEN "superseded"
                                   ELSE IF d = c /\ server.ops[d][i].receipt \in R THEN "saved"
                                   ELSE server.ops[d][i].status
    <2>1. /\ m \in Servers /\ m.phase = marked.phase /\ m.cps = marked.cps
          /\ m.live = {l \in marked.live : l.receipt \notin S} /\ SameOperations(marked, m)
          /\ \A d \in ChangeSetIds : \A i \in DOMAIN marked.ops[d] :
               m.ops[d][i].status = IF d = cp.cs /\ d # NoChangeSet /\ marked.ops[d][i].receipt \in S THEN "superseded"
                                    ELSE marked.ops[d][i].status
      BY <1>1, <1>4, <1>10, WrittenReceipts, SupersededFacts
    <2>2. SameOperations(server, m)
      BY <1>10, <2>1, SameOperationsCarry
    <2> QED
      BY <1>6, <1>10, <2>1, <2>2 DEF SameOperations
  <1>12. Marked(m, cp, R)
    BY <1>4, <1>9, <1>10, <1>11 DEF Marked
  <1>13. \A k \in m.cps : k \in server.cps \/ (SameCheckpoint(k, cp) /\ k.state = "saved")
    BY <1>2, <1>9, <1>11
  <1> QED
    BY <1>1, <1>5, <1>6, <1>7, <1>11, <1>12, <1>13

\* What is saved counts as saved, what it replaces is closed.
LEMMA CommitCall ==
  ASSUME LifecycleInv, "crash" \notin Tools, NEW c \in ChangeSetIds, c # NoChangeSet, NEW a \in Assets,
         NEW auth \in server.auths, NEW cp \in server.cps, CheckpointCommit(c, a, auth, cp)
  PROVE  /\ server' \in Servers /\ server'.phase = server.phase /\ MovedOn(server, server')
         /\ LiveFrom(server, server') /\ Listed(server', lastTx) /\ NewlySaved(server', a)
  <1>1. PICK R, S, m : ReceiptsOf(R, cp) /\ S = cp.superseded /\ m = server'
    BY DEF ReceiptsOf
  <1>2. /\ server \in Servers /\ Listed(server, lastTx)
        /\ cp.cs = c /\ R \cap S = {}
        /\ \A r \in R \cup S : \E l \in server.live : l.receipt = r /\ l.asset = a
        /\ \A i \in DOMAIN server.ops[c] : server.ops[c][i].receipt \in R \cup S => server.ops[c][i].status = "applied"
        /\ m \in Servers /\ m.phase = server.phase /\ SameOperations(server, m)
        /\ \A k \in m.cps : k \in server.cps \/ (SameCheckpoint(k, cp) /\ k.state = "saved")
        /\ Marked(m, cp, R)
        /\ \A d \in ChangeSetIds : \A i \in DOMAIN server.ops[d] :
             m.ops[d][i].status = IF d = c /\ server.ops[d][i].receipt \in S THEN "superseded"
                                  ELSE IF d = c /\ server.ops[d][i].receipt \in R THEN "saved"
                                  ELSE server.ops[d][i].status
    BY <1>1, CommitFacts
  <1>3. PICK saved \in Servers, marked \in Servers :
          /\ saved.live = server.live /\ MarkedLive(saved, marked, R)
          /\ m.live = {l \in marked.live : l.receipt \notin S}
    BY <1>1, <1>2 DEF Marked
  <1>4. /\ LiveFrom(server, m) /\ OneWrite(m) /\ \A y \in m.live : y.receipt \in R => y.saved
        /\ \A y \in m.live : y.receipt \notin R => y \in server.live
    <2>1. OneWrite(saved)
      <3>1. OneWrite(server)
        BY <1>2 DEF Listed
      <3> QED
        BY <1>3, <3>1 DEF OneWrite
    <2>2. LiveFrom(saved, marked) /\ OneWrite(marked) /\ \A y \in marked.live : y.receipt \in R => y.saved
      BY <1>2, <1>3, <2>1, MarkedIsOrderly
    <2>3. \A y \in marked.live : y.receipt \notin R => y \in saved.live
      BY <1>3 DEF MarkedLive
    <2>4. OneWrite(m) /\ LiveFrom(saved, m)
      BY <1>2, <1>3, <2>2 DEF OneWrite, LiveFrom
    <2> QED
      BY <1>2, <1>3, <2>2, <2>3, <2>4 DEF LiveFrom
  <1>5. MovedOn(server, m)
    BY <1>2, <1>3, OpenMoves DEF MovedOn
  <1>6. ReceiptsUpTo(m, lastTx)
    BY <1>2, <1>3, <1>4 DEF Listed, ReceiptsUpTo, SameOperations, LiveFrom, SameCheckpoint
  <1>7. OwnReceipts(m)
    BY <1>2, <1>3 DEF Listed, OwnReceipts, SameOperations
  <1>8. LiveIsOpen(m)
    <2> SUFFICES ASSUME NEW d \in ChangeSetIds, NEW i \in DOMAIN m.ops[d], NEW y \in m.live,
                        y.receipt = m.ops[d][i].receipt
                 PROVE  m.ops[d][i].status \in OpenStatus(y)
      BY DEF LiveIsOpen
    <2>1. i \in DOMAIN server.ops[d] /\ server.ops[d][i].receipt = y.receipt /\ y.receipt \notin S
      BY <1>2, <1>3 DEF SameOperations
    <2>2. PICK l \in server.live : l.receipt = y.receipt /\ (l.saved => y.saved)
      BY <1>4 DEF LiveFrom
    <2>3. server.ops[d][i].status \in OpenStatus(l) /\ OpenStatus(l) \subseteq OpenStatus(y)
      BY <1>2, <2>1, <2>2 DEF Listed, LiveIsOpen, OpenStatus
    <2>4. CASE d = c /\ y.receipt \in R
      <3>1. m.ops[d][i].status = "saved" /\ y.saved
        BY <1>2, <1>3, <1>4, <2>1, <2>4
      <3> QED
        BY <3>1 DEF OpenStatus
    <2>5. CASE ~(d = c /\ y.receipt \in R)
      BY <1>2, <1>3, <2>1, <2>3, <2>5
    <2> QED
      BY <2>4, <2>5
  <1>9. SavedStay(m)
    <2> SUFFICES ASSUME NEW k \in m.cps, k.state = "saved", NEW w \in k.effective
                 PROVE  CountsAsSaved(m, k.cs, w)
      BY DEF SavedStay
    <2>1. CASE k \in server.cps
      <3>1. k.cs \in ChangeSetIds /\ CountsAsSaved(server, k.cs, w)
        BY <1>2, <2>1, ReceiptNumbers DEF Listed, SavedStay
      <3>2. \A i \in DOMAIN m.ops[k.cs] : m.ops[k.cs][i].receipt = w.receipt
              => m.ops[k.cs][i].status \in {"saved", "verified"}
        BY <1>2, <1>3, <3>1 DEF CountsAsSaved, SameOperations
      <3>3. \A y \in m.live : y.receipt = w.receipt => y.saved
        BY <1>4, <3>1 DEF CountsAsSaved, LiveFrom
      <3> QED
        BY <3>2, <3>3 DEF CountsAsSaved
    <2>2. CASE SameCheckpoint(k, cp)
      <3>1. k.cs = c /\ w.receipt \in R /\ w.receipt \notin S
        BY <1>1, <1>2, <2>2 DEF SameCheckpoint, ReceiptsOf
      <3>2. \A i \in DOMAIN m.ops[c] : m.ops[c][i].receipt = w.receipt => m.ops[c][i].status = "saved"
        BY <1>2, <1>3, <3>1 DEF SameOperations
      <3> QED
        BY <1>4, <3>1, <3>2 DEF CountsAsSaved
    <2> QED
      BY <1>2, <1>3, <2>1, <2>2
  <1>10. NewlySaved(m, a)
    <2> SUFFICES ASSUME NEW k \in m.cps, k.state = "saved"
                 PROVE  \/ \E o \in server.cps : o.state = "saved" /\ o.effective = k.effective
                        \/ \A w \in k.effective : \E l \in server.live : l.receipt = w.receipt /\ l.asset = a
      BY DEF NewlySaved
    <2>1. CASE SameCheckpoint(k, cp)
      <3>1. \A w \in k.effective : w.receipt \in R
        BY <1>1, <2>1 DEF SameCheckpoint, ReceiptsOf
      <3> QED
        BY <1>2, <3>1
    <2> QED
      BY <1>2, <1>3, <2>1
  <1> QED
    BY <1>1, <1>2, <1>3, <1>4, <1>5, <1>6, <1>7, <1>8, <1>9, <1>10 DEF Listed

\* At most one change set makes room, and it is finished.
LEMMA FewForgotten ==
  ASSUME LifecycleInv, NEW F \in SUBSET {d \in OpenChangeSets : Prunable(d)},
         Cardinality(OpenChangeSets \ F) < MaxSlots,
         \A d \in F : Cardinality(OpenChangeSets \ F) = MaxSlots - 1
  PROVE  /\ F = {} \/ \E d \in ChangeSetIds : F = {d} /\ IsTerminal(Statuses(server, d))
         /\ IsFiniteSet(OpenChangeSets \ F)
  <1>1. IsFiniteSet(OpenChangeSets) /\ Cardinality(OpenChangeSets) <= MaxSlots
    BY DEF LifecycleInv, ListsAreFew
  <1>2. PICK O, K : O = OpenChangeSets /\ K = O \ F
    OBVIOUS
  <1>3. IsFiniteSet(K) /\ IsFiniteSet(O) /\ Cardinality(O) \in Nat /\ Cardinality(K) \in Nat
    BY <1>1, <1>2, FS_Subset, FS_CardinalityType
  <1>4. ASSUME NEW d \in F
        PROVE  \E e \in ChangeSetIds : F = {e} /\ IsTerminal(Statuses(server, e))
    <2>1. d \in O /\ d \in ChangeSetIds /\ IsTerminal(Statuses(server, d)) /\ F \subseteq O
      BY <1>2 DEF OpenChangeSets, Prunable
    <2>2. PICK J : J = O \ {d}
      OBVIOUS
    <2>3. IsFiniteSet(J) /\ Cardinality(J) = Cardinality(O) - 1
      BY <1>3, <2>1, <2>2, FS_RemoveElement
    <2>4. K \in SUBSET J
      BY <1>2, <2>2, <1>4
    <2>5. Cardinality(K) <= Cardinality(J) /\ (Cardinality(J) = Cardinality(K) => J = K)
      BY <2>3, <2>4, FS_Subset
    <2>6. MaxSlots \in Nat /\ Cardinality(K) = MaxSlots - 1 /\ Cardinality(O) <= MaxSlots
      BY <1>1, <1>2, WorkflowBoundsAssumption
    <2>7. J = K
      BY <1>3, <2>3, <2>5, <2>6
    <2>8. F = {d}
      BY <1>2, <2>1, <2>2, <2>7
    <2> QED
      BY <2>1, <2>8
  <1> QED
    BY <1>2, <1>3, <1>4

\* A change set is created, perhaps in place of a finished one.
LEMMA CreateCall ==
  ASSUME LifecycleInv, "crash" \notin Tools, NEW c \in ChangeSetIds, CreateChangeSet(c)
  PROVE  /\ server' \in Servers /\ server'.live = server.live /\ server'.cps = server.cps
         /\ Listed(server', lastTx)
         /\ ListsAreFew'
         /\ \/ server'.ops = server.ops
            \/ \E d \in ChangeSetIds : /\ IsTerminal(Statuses(server, d)) /\ server'.phase[d] = "gone"
                                       /\ \A e \in ChangeSetIds : server'.ops[e] = IF e = d THEN <<>> ELSE server.ops[e]
  <1>1. server \in Servers /\ Listed(server, lastTx) /\ session \in 0..MaxSessions
    BY EditorNumbers DEF LifecycleInv, TypedInv, Typed, WorkflowTypeOK
  <1>2. PICK F \in SUBSET {d \in OpenChangeSets : Prunable(d)} :
          /\ Cardinality(OpenChangeSets \ F) < MaxSlots
          /\ \A d \in F : Cardinality(OpenChangeSets \ F) = MaxSlots - 1
          /\ LET m == Forget(server, F) IN
               Finish([m EXCEPT !.phase[c] = "open",
                                !.bound[c] = IF EditorAvailable THEN session ELSE NoSession], {m})
    BY DEF CreateChangeSet
  <1>3. PICK m, n : /\ m = Forget(server, F)
                    /\ n = [m EXCEPT !.phase[c] = "open",
                                     !.bound[c] = IF EditorAvailable THEN session ELSE NoSession]
                    /\ server' = n
    BY <1>2 DEF Finish
  <1>4. /\ m \in Servers /\ m.live = server.live /\ m.cps = server.cps
        /\ \A d \in ChangeSetIds : /\ m.phase[d] = (IF d \in F THEN "gone" ELSE server.phase[d])
                                   /\ m.ops[d] = (IF d \in F THEN <<>> ELSE server.ops[d])
    BY <1>1, <1>3, ForgetFacts
  <1>5. /\ n \in Servers /\ n.ops = m.ops /\ n.live = m.live /\ n.cps = m.cps
        /\ \A d \in ChangeSetIds : n.phase[d] = IF d = c THEN "open" ELSE m.phase[d]
    <2>1. PICK p, b, k : /\ p = [m.phase EXCEPT ![c] = "open"]
                         /\ b = [m.bound EXCEPT ![c] = IF EditorAvailable THEN session ELSE NoSession]
                         /\ k = WithPhase(m, p)
      OBVIOUS
    <2>2. /\ p \in [ChangeSetIds -> {"new", "open", "gone"}] /\ b \in [ChangeSetIds -> 0..MaxSessions]
          /\ \A d \in ChangeSetIds : p[d] = IF d = c THEN "open" ELSE m.phase[d]
      <3>1. m.phase \in [ChangeSetIds -> {"new", "open", "gone"}] /\ m.bound \in [ChangeSetIds -> 0..MaxSessions]
        BY <1>4, ServerParts
      <3>2. NoSession \in 0..MaxSessions
        BY BoundsAssumption DEF NoSession
      <3> QED
        BY <1>1, <2>1, <3>1, <3>2
    <2>3. k \in Servers /\ k.phase = p /\ k.ops = m.ops /\ k.live = m.live /\ k.cps = m.cps
      BY <1>4, <2>1, <2>2, ServerField
    <2>4. n = WithBound(k, b)
      BY <1>3, <2>1 DEF WithPhase, WithBound
    <2>5. n \in Servers /\ n.phase = k.phase /\ n.ops = k.ops /\ n.live = k.live /\ n.cps = k.cps
      BY <2>2, <2>3, <2>4, ServerField
    <2> QED
      BY <2>2, <2>3, <2>5
  <1>6. \A d \in ChangeSetIds : n.ops[d] = IF d \in F THEN <<>> ELSE server.ops[d]
    BY <1>4, <1>5
  <1>7. /\ F = {} \/ \E d \in ChangeSetIds : F = {d} /\ IsTerminal(Statuses(server, d))
        /\ IsFiniteSet(OpenChangeSets \ F)
    BY <1>2, FewForgotten
  <1>8. n.ops = server.ops \/ \E d \in ChangeSetIds :
          /\ IsTerminal(Statuses(server, d)) /\ n.phase[d] = "gone"
          /\ \A e \in ChangeSetIds : n.ops[e] = IF e = d THEN <<>> ELSE server.ops[e]
    <2>1. n.ops \in [ChangeSetIds -> Seq(Operations)] /\ server.ops \in [ChangeSetIds -> Seq(Operations)]
      BY <1>1, <1>5, ServerParts
    <2>2. c \notin F
      BY DEF CreateChangeSet, OpenChangeSets
    <2>3. \A d \in F : d \in ChangeSetIds /\ n.phase[d] = "gone"
      BY <1>4, <1>5, <2>2 DEF OpenChangeSets
    <2> QED
      BY <1>6, <1>7, <2>1, <2>3
  <1>9. \A d \in ChangeSetIds : \A i \in DOMAIN n.ops[d] : i \in DOMAIN server.ops[d] /\ n.ops[d][i] = server.ops[d][i]
    BY <1>6, EmptyFacts
  <1>10. Listed(n, lastTx)
    <2>1. ReceiptsUpTo(n, lastTx) /\ OwnReceipts(n) /\ OneWrite(n) /\ LiveIsOpen(n)
      BY <1>1, <1>4, <1>5, <1>9 DEF Listed, ReceiptsUpTo, OwnReceipts, OneWrite, LiveIsOpen
    <2>2. SavedStay(n)
      <3> SUFFICES ASSUME NEW k \in n.cps, k.state = "saved", NEW w \in k.effective
                   PROVE  CountsAsSaved(n, k.cs, w)
        BY DEF SavedStay
      <3>1. k.cs \in ChangeSetIds /\ CountsAsSaved(server, k.cs, w)
        BY <1>1, <1>4, <1>5, ReceiptNumbers DEF Listed, SavedStay
      <3> QED
        BY <1>4, <1>5, <1>9, <3>1 DEF CountsAsSaved
    <2> QED
      BY <2>1, <2>2 DEF Listed
  <1>11. PICK K, J : K = OpenChangeSets \ F /\ J = OpenChangeSets'
    OBVIOUS
  <1>12. J = K \cup {c}
    BY <1>3, <1>4, <1>5, <1>11 DEF OpenChangeSets
  <1>13. IsFiniteSet(J) /\ Cardinality(J) <= MaxSlots
    <2>1. IsFiniteSet(K) /\ Cardinality(K) \in Nat /\ Cardinality(K) < MaxSlots /\ MaxSlots \in Nat
      BY <1>2, <1>7, <1>11, FS_CardinalityType, WorkflowBoundsAssumption
    <2>2. IsFiniteSet(J) /\ Cardinality(J) = IF c \in K THEN Cardinality(K) ELSE Cardinality(K) + 1
      BY <1>12, <2>1, FS_AddElement
    <2> QED
      BY <2>1, <2>2
  <1>14. \A d \in ChangeSetIds : Len(n.ops[d]) <= MaxOps
    BY <1>6, EmptyFacts, WorkflowBoundsAssumption DEF LifecycleInv, ListsAreFew
  <1>15. ListsAreFew'
    BY <1>3, <1>11, <1>13, <1>14 DEF ListsAreFew
  <1> QED
    BY <1>3, <1>4, <1>5, <1>8, <1>10, <1>15
-----------------------------------------------------------------------------
(* The Editor beside the lists                                             *)

\* A record stays one of its asset.
LEMMA RecordsStayOfLive ==
  ASSUME LifecycleInv, [EditorNext]_editorVars, LiveFrom(server, server')
  PROVE  RecordsAreOfLive'
  <1> SUFFICES ASSUME NEW y \in server'.live, NEW a \in Assets, NEW r \in records'[a], r.id = y.receipt
               PROVE  y.asset = a
    BY DEF RecordsAreOfLive
  <1>1. PICK l \in server.live : y.receipt = l.receipt /\ y.asset = l.asset
    BY DEF LiveFrom
  <1>2. l.receipt <= lastTx
    BY DEF LifecycleInv, Listed, ReceiptsUpTo
  <1>3. r \in records[a]
    BY <1>1, <1>2, EditorGrows DEF LifecycleInv, RecentInv
  <1> QED
    BY <1>1, <1>3 DEF LifecycleInv, RecordsAreOfLive

\* What was on disk stays there.
LEMMA SavedStaysOnDisk ==
  ASSUME LifecycleInv, [EditorNext]_editorVars, NEW cp \in server.cps, cp.state = "saved", NEW w \in cp.effective,
         NEW a \in Assets, NEW r \in records'[a], r.id = w.receipt
  PROVE  r.id <= savedTx'[a]
  <1>1. w.receipt <= lastTx
    BY DEF LifecycleInv, Listed, ReceiptsUpTo
  <1>2. r \in records[a] /\ r.id \in Nat /\ savedTx[a] \in Nat /\ savedTx'[a] \in Nat /\ savedTx[a] <= savedTx'[a]
    BY <1>1, EditorGrows DEF LifecycleInv, RecentInv
  <1>3. r.id <= savedTx[a]
    BY <1>2 DEF LifecycleInv, SavedIsOnDisk
  <1> QED
    BY <1>2, <1>3

\* No new checkpoint, nothing new to hold.
LEMMA OldSavesStayOnDisk ==
  ASSUME LifecycleInv, [EditorNext]_editorVars,
         \A y \in server'.cps : y.state = "saved" => \E cp \in server.cps : cp.state = "saved" /\ cp.effective = y.effective
  PROVE  SavedIsOnDisk'
  BY SavedStaysOnDisk DEF SavedIsOnDisk

\* An authorized save puts on disk what its checkpoint covers.
LEMMA NewSavesAreOnDisk ==
  ASSUME LifecycleInv, NEW a \in Assets, SaveAsset(a), NewlySaved(server', a)
  PROVE  SavedIsOnDisk'
  <1> SUFFICES ASSUME NEW y \in server'.cps, y.state = "saved", NEW w \in y.effective,
                      NEW d \in Assets, NEW r \in records'[d], r.id = w.receipt
               PROVE  r.id <= savedTx'[d]
    BY DEF SavedIsOnDisk
  <1>1. [EditorNext]_editorVars
    BY DEF EditorNext, Bridge
  <1>2. CASE \E cp \in server.cps : cp.state = "saved" /\ cp.effective = y.effective
    BY <1>1, <1>2, SavedStaysOnDisk
  <1>3. CASE \E l \in server.live : l.receipt = w.receipt /\ l.asset = a
    <2>1. records' = records /\ savedTx' = [savedTx EXCEPT ![a] = lastTx] /\ savedTx \in [Assets -> 0..MaxTx]
      BY DEF SaveAsset, WriteToDisk, LifecycleInv, RecentInv, EditorInv, EditorTypeOK
    <2>2. d = a
      BY <1>3, <2>1 DEF LifecycleInv, RecordsAreOfLive
    <2>3. r.id <= lastTx
      BY <1>1, <2>1, EditorGrows DEF LifecycleInv, RecentInv
    <2> QED
      BY <2>1, <2>2, <2>3
  <1> QED
    BY <1>2, <1>3 DEF NewlySaved

\* What the tools and the Editor do, as long as no disk rollback is recorded.
LEMMA EditorPartOfCall ==
  ASSUME Typed, [WorkflowNext]_vars, "rollback" \notin Tools
  PROVE  [EditorNext]_editorVars
  <1>1. CASE ChangeSetTools \/ WriteTools
    BY <1>1, WriteToolsAreQuiet DEF QuietStep
  <1>2. CASE SaveTools
    <2>1. PICK c \in OptionalChangeSet, a \in Assets :
            \/ ImmediatePreview(c, a) \/ CheckpointPreview(c, a)
            \/ \E auth \in server.auths :
                 \/ ImmediateCommit(c, a, auth)
                 \/ SaveFails(c, a, auth)
                 \/ \E cp \in server.cps : CheckpointCommit(c, a, auth, cp)
      BY <1>2 DEF SaveTools
    <2>2. ImmediatePreview(c, a) \/ CheckpointPreview(c, a) => UNCHANGED editorVars
      BY DEF ImmediatePreview, CheckpointPreview
    <2>3. \A auth : ImmediateCommit(c, a, auth) \/ SaveFails(c, a, auth) => SaveAsset(a) \/ UNCHANGED editorVars
      BY DEF ImmediateCommit, SaveFails
    <2>4. \A auth, cp : CheckpointCommit(c, a, auth, cp) => SaveAsset(a)
      BY DEF CheckpointCommit
    <2>5. SaveAsset(a) \/ UNCHANGED editorVars
      BY <2>1, <2>2, <2>3, <2>4
    <2> QED
      BY <2>5 DEF EditorNext, Bridge
  <1>3. CASE VerifyTools
    BY <1>3 DEF VerifyTools, VerifyLiveWrite, VerifyCheckpoint, CheckpointTurnsStale
  <1>4. CASE RollbackTools
    BY <1>4 DEF RollbackTools, PromoteManifest, PrepareRollback, RollbackCommit
  <1>5. CASE ServerCrash \/ \E a \in Assets : RefreshAndRestart(a)
    BY <1>5 DEF ServerCrash, RefreshAndRestart
  <1>6. CASE User
    BY <1>6 DEF EditorNext
  <1>7. CASE UNCHANGED vars
    BY <1>7 DEF vars
  <1>8. CASE PatchTools
    BY <1>8, PatchToolsKeep
  <1> QED
    BY <1>1, <1>2, <1>3, <1>4, <1>5, <1>6, <1>7, <1>8 DEF WorkflowNext

\* The calls that are more than orderly.
CreateStep == \E c \in ChangeSetIds : CreateChangeSet(c)
WriteStep ==
  \E c \in MaybeChangeSet, a \in Assets :
    \/ \E t \in Targets, v \in Values : Apply(c, a, t, v)
    \/ ApplyNoChange(c, a)
PatchStep == \E c \in ChangeSetIds : CommitPatch(c)
SavePointStep ==
  \E c \in ChangeSetIds, a \in Assets, auth \in server.auths, cp \in server.cps :
    c # NoChangeSet /\ CheckpointCommit(c, a, auth, cp)

\* Every other call, the user, a restart: orderly.
LEMMA CallsAreOrderly ==
  ASSUME LifecycleInv, [WorkflowNext]_vars, "crash" \notin Tools, "rollback" \notin Tools
  PROVE  Orderly(server, server') \/ CreateStep \/ WriteStep \/ PatchStep \/ SavePointStep
  <1>1. server \in Servers /\ Listed(server, lastTx)
    BY DEF LifecycleInv, TypedInv, Typed, WorkflowTypeOK
  <1>2. ASSUME server' \in {server, Loaded(server)}
        PROVE  Orderly(server, server')
    BY <1>1, <1>2, LoadedIsOrderly
  <1>3. CASE ChangeSetTools
    BY <1>3, GetIsOrderly, DiscardIsOrderly DEF ChangeSetTools, CreateStep
  <1>4. CASE WriteTools
    <2>1. PICK c \in MaybeChangeSet, a \in Assets :
            \/ \E t \in Targets, v \in Values : Apply(c, a, t, v)
            \/ ApplyNoChange(c, a)
            \/ \E r \in Receipts, s \in RevertStatuses : Revert(c, a, r, s)
      BY <1>4 DEF WriteTools, OptionalChangeSet, MaybeChangeSet
    <2> QED
      BY <2>1, RevertIsOrderly DEF WriteStep
  <1>5. CASE SaveTools
    <2>1. PICK c \in MaybeChangeSet, a \in Assets :
            \/ ImmediatePreview(c, a)
            \/ c # NoChangeSet /\ CheckpointPreview(c, a)
            \/ \E auth \in server.auths :
                 \/ ImmediateCommit(c, a, auth)
                 \/ SaveFails(c, a, auth)
                 \/ \E cp \in server.cps : c # NoChangeSet /\ CheckpointCommit(c, a, auth, cp)
      BY <1>5 DEF SaveTools, OptionalChangeSet, MaybeChangeSet
    <2>2. c # NoChangeSet => c \in ChangeSetIds
      BY DEF MaybeChangeSet
    <2>3. ImmediatePreview(c, a) \/ (c # NoChangeSet /\ CheckpointPreview(c, a)) => Orderly(server, server')
      BY <2>2, ImmediatePreviewIsOrderly, CheckpointPreviewIsOrderly
    <2>4. \A auth \in server.auths : ImmediateCommit(c, a, auth) => Orderly(server, server')
      BY ImmediateCommitIsOrderly
    <2>5. \A auth \in server.auths : SaveFails(c, a, auth) => Orderly(server, server')
      BY <1>2 DEF SaveFails
    <2>6. \A auth \in server.auths, cp \in server.cps :
            c # NoChangeSet /\ CheckpointCommit(c, a, auth, cp) => SavePointStep
      BY <2>2 DEF SavePointStep
    <2> QED
      BY <2>1, <2>3, <2>4, <2>5, <2>6
  <1>6. CASE VerifyTools
    BY <1>6, VerifyWriteIsOrderly, VerifyCheckpointIsOrderly, TurnsStaleIsOrderly
       DEF VerifyTools, OptionalChangeSet, MaybeChangeSet
  <1>7. CASE RollbackTools
    BY <1>2, <1>7 DEF RollbackTools, PromoteManifest, PrepareRollback, RollbackCommit
  <1>8. CASE ServerCrash \/ \E a \in Assets : RefreshAndRestart(a)
    BY <1>2, <1>8 DEF ServerCrash, RefreshAndRestart
  <1>9. CASE (User /\ UNCHANGED workflowVars) \/ UNCHANGED vars
    BY <1>2, <1>9 DEF workflowVars, vars
  <1>10. CASE PatchTools
    BY <1>10, OtherPatchToolsAreOrderly DEF PatchTools, PatchStep
  <1> QED
    BY <1>3, <1>4, <1>5, <1>6, <1>7, <1>8, <1>9, <1>10 DEF WorkflowNext

-----------------------------------------------------------------------------
(* The lists stay in order                                                 *)

\* After an orderly call.
LEMMA OrderlyKeepsInv ==
  ASSUME LifecycleInv, TypedInv', RecentInv', [EditorNext]_editorVars, Orderly(server, server')
  PROVE  LifecycleInv'
  <1>1. server \in Servers /\ Listed(server, lastTx)
    BY DEF LifecycleInv, TypedInv, Typed, WorkflowTypeOK
  <1>2. server' \in Servers /\ Listed(server', lastTx')
    <2>1. Listed(server', lastTx) /\ server' \in Servers
      BY <1>1, OrderlyKeepsListed DEF Orderly
    <2> QED
      BY <2>1, ListedLater, EditorGrows DEF LifecycleInv, RecentInv
  <1>3. RecordsAreOfLive' /\ SavedIsOnDisk'
    <2>1. LiveFrom(server, server') /\ CheckpointsFrom(server, server')
      BY DEF Orderly
    <2>2. \A y \in server'.cps : y.state = "saved" => \E cp \in server.cps : cp.state = "saved" /\ cp.effective = y.effective
      BY <2>1 DEF CheckpointsFrom
    <2> QED
      BY <2>1, <2>2, RecordsStayOfLive, OldSavesStayOnDisk
  <1>4. ListsAreFew'
    <2>1. \A c \in ChangeSetIds : Len(server'.ops[c]) <= MaxOps
      BY DEF LifecycleInv, ListsAreFew, Orderly, MovedOn, SameOperations
    <2>2. OpenChangeSets' \in SUBSET OpenChangeSets
      BY DEF OpenChangeSets, Orderly
    <2>3. IsFiniteSet(OpenChangeSets) /\ Cardinality(OpenChangeSets) <= MaxSlots /\ MaxSlots \in Nat
      BY WorkflowBoundsAssumption DEF LifecycleInv, ListsAreFew
    <2>4. PICK O, K : O = OpenChangeSets /\ K = OpenChangeSets'
      OBVIOUS
    <2>5. IsFiniteSet(K) /\ Cardinality(K) <= MaxSlots
      <3>1. IsFiniteSet(K) /\ Cardinality(K) <= Cardinality(O)
        BY <2>2, <2>3, <2>4, FS_Subset
      <3>2. Cardinality(K) \in Nat /\ Cardinality(O) \in Nat
        BY <2>3, <2>4, <3>1, FS_CardinalityType
      <3> QED
        BY <2>3, <2>4, <3>1, <3>2
    <2> QED
      BY <2>1, <2>4, <2>5 DEF ListsAreFew
  <1> QED
    BY <1>2, <1>3, <1>4 DEF LifecycleInv

\* After a change set was created.
LEMMA CreateKeepsInv ==
  ASSUME LifecycleInv, TypedInv', RecentInv', "crash" \notin Tools, NEW c \in ChangeSetIds, CreateChangeSet(c)
  PROVE  LifecycleInv'
  <1>1. /\ server'.live = server.live /\ server'.cps = server.cps /\ Listed(server', lastTx) /\ ListsAreFew'
    BY CreateCall
  <1>2. UNCHANGED editorVars
    BY DEF CreateChangeSet
  <1>3. LiveFrom(server, server')
    BY <1>1 DEF LiveFrom
  <1>4. RecordsAreOfLive' /\ SavedIsOnDisk'
    BY <1>1, <1>2, <1>3, RecordsStayOfLive, OldSavesStayOnDisk
  <1>5. lastTx' = lastTx
    BY <1>2 DEF editorVars, historyVars
  <1> QED
    BY <1>1, <1>4, <1>5 DEF LifecycleInv

\* After a write.
LEMMA WriteKeepsInv ==
  ASSUME LifecycleInv, TypedInv', RecentInv', [EditorNext]_editorVars,
         NEW c, NEW a, NEW t, NEW r, WriteCall(c, a, t, r),
         \/ r = NoReceipt
         \/ /\ r = NextReceipt /\ lastTx' = NextReceipt
            /\ \A d \in Assets \ {a} : records'[d] = records[d]
  PROVE  LifecycleInv'
  <1>1. server \in Servers /\ Listed(server, lastTx)
    BY DEF LifecycleInv, TypedInv, Typed, WorkflowTypeOK
  <1>2. PICK m \in Servers :
          /\ Orderly(server, m) /\ server' \in Servers /\ server'.phase = m.phase /\ server'.cps = m.cps
          /\ AddsTo(m, server', c, r) /\ LiveAdded(m, server', r, a, t)
    BY DEF WriteCall
  <1>3. Listed(m, lastTx)
    BY <1>1, <1>2, OrderlyKeepsListed
  <1>4. /\ lastTx \in Nat /\ lastTx' \in Nat /\ lastTx <= lastTx'
        /\ r = NoReceipt \/ (r \in Nat /\ lastTx < r /\ r <= lastTx')
    BY EditorGrows DEF LifecycleInv, RecentInv, NextReceipt
  <1>5. PICK k : k = lastTx'
    OBVIOUS
  <1>6. Listed(server', k)
    BY <1>2, <1>3, <1>4, <1>5, AddedIsListed
  <1>7. \A y \in server'.live : \/ y \in m.live
                                \/ r # NoReceipt /\ y.receipt = r /\ y.asset = a
    BY <1>2, ReceiptNumbers DEF LiveAdded
  <1>8. RecordsAreOfLive'
    <2> SUFFICES ASSUME NEW y \in server'.live, NEW d \in Assets, NEW x \in records'[d], x.id = y.receipt
                 PROVE  y.asset = d
      BY DEF RecordsAreOfLive
    <2>1. CASE y \in m.live
      <3>1. PICK l \in server.live : y.receipt = l.receipt /\ y.asset = l.asset
        BY <1>2, <2>1 DEF Orderly, LiveFrom
      <3>2. l.receipt <= lastTx
        BY <1>1 DEF Listed, ReceiptsUpTo
      <3>3. x \in records[d]
        BY <3>1, <3>2, EditorGrows DEF LifecycleInv, RecentInv
      <3> QED
        BY <3>1, <3>3 DEF LifecycleInv, RecordsAreOfLive
    <2>2. CASE y \notin m.live
      <3>1. y.asset = a /\ y.receipt = NextReceipt /\ \A e \in Assets \ {a} : records'[e] = records[e]
        BY <1>7, <2>2
      <3>2. \A e \in Assets : \A z \in records[e] : z.id # NextReceipt
        BY EditorGrows DEF LifecycleInv, RecentInv, NextReceipt
      <3> QED
        BY <3>1, <3>2
    <2> QED
      BY <2>1, <2>2
  <1>9. SavedIsOnDisk'
    <2>1. \A y \in server'.cps : y.state = "saved" => \E cp \in server.cps : cp.state = "saved" /\ cp.effective = y.effective
      BY <1>2 DEF Orderly, CheckpointsFrom
    <2> QED
      BY <2>1, OldSavesStayOnDisk
  <1>10. \A e \in ChangeSetIds : Len(server'.ops[e]) <= MaxOps
    <2> SUFFICES ASSUME NEW e \in ChangeSetIds PROVE Len(server'.ops[e]) <= MaxOps
      OBVIOUS
    <2>1. m.ops[e] \in Seq(Operations) /\ Len(m.ops[e]) \in Nat /\ Len(m.ops[e]) <= MaxOps
      <3>1. m.ops[e] \in Seq(Operations)
        BY ServerParts
      <3>2. Len(m.ops[e]) = Len(server.ops[e]) /\ Len(server.ops[e]) <= MaxOps
        BY <1>2 DEF LifecycleInv, ListsAreFew, Orderly, MovedOn, SameOperations
      <3> QED
        BY <3>1, <3>2
    <2>2. CASE server'.ops[e] = m.ops[e]
      BY <2>1, <2>2
    <2>3. CASE server'.ops[e] # m.ops[e]
      <3>1. PICK o \in Operations : e = c /\ HasRoom(m, c) /\ server'.ops[e] = Append(m.ops[e], o)
        BY <1>2, <2>3 DEF AddsTo, Grew
      <3>2. Len(m.ops[e]) < MaxOps
        BY <3>1 DEF HasRoom
      <3>3. Len(server'.ops[e]) = Len(m.ops[e]) + 1
        BY <2>1, <3>1, OperationAdded
      <3> QED
        BY <2>1, <3>2, <3>3, WorkflowBoundsAssumption
    <2> QED
      BY <2>2, <2>3
  <1>11. ListsAreFew'
    <2>1. OpenChangeSets' \in SUBSET OpenChangeSets
      BY <1>2 DEF OpenChangeSets, Orderly
    <2>2. IsFiniteSet(OpenChangeSets) /\ Cardinality(OpenChangeSets) <= MaxSlots /\ MaxSlots \in Nat
      BY WorkflowBoundsAssumption DEF LifecycleInv, ListsAreFew
    <2>3. PICK O, K : O = OpenChangeSets /\ K = OpenChangeSets'
      OBVIOUS
    <2>4. IsFiniteSet(K) /\ Cardinality(K) <= MaxSlots
      <3>1. IsFiniteSet(K) /\ Cardinality(K) <= Cardinality(O)
        BY <2>1, <2>2, <2>3, FS_Subset
      <3>2. Cardinality(K) \in Nat /\ Cardinality(O) \in Nat
        BY <2>2, <2>3, <3>1, FS_CardinalityType
      <3> QED
        BY <2>2, <2>3, <3>1, <3>2
    <2> QED
      BY <1>10, <2>3, <2>4 DEF ListsAreFew
  <1> QED
    BY <1>5, <1>6, <1>8, <1>9, <1>11 DEF LifecycleInv

\* After a checkpoint was saved.
LEMMA CommitKeepsInv ==
  ASSUME LifecycleInv, TypedInv', RecentInv', "crash" \notin Tools, NEW c \in ChangeSetIds, c # NoChangeSet,
         NEW a \in Assets, NEW auth \in server.auths, NEW cp \in server.cps, CheckpointCommit(c, a, auth, cp)
  PROVE  LifecycleInv'
  <1>1. /\ server'.phase = server.phase /\ MovedOn(server, server')
        /\ LiveFrom(server, server') /\ Listed(server', lastTx) /\ NewlySaved(server', a)
    BY CommitCall
  <1>2. SaveAsset(a)
    BY DEF CheckpointCommit
  <1>3. [EditorNext]_editorVars /\ lastTx' = lastTx
    BY <1>2 DEF EditorNext, Bridge, SaveAsset
  <1>4. RecordsAreOfLive' /\ SavedIsOnDisk'
    BY <1>1, <1>2, <1>3, RecordsStayOfLive, NewSavesAreOnDisk
  <1>5. OpenChangeSets' = OpenChangeSets
    BY <1>1 DEF OpenChangeSets
  <1>6. ListsAreFew'
    BY <1>1, <1>5 DEF LifecycleInv, ListsAreFew, MovedOn, SameOperations
  <1> QED
    BY <1>1, <1>3, <1>4, <1>6 DEF LifecycleInv
-----------------------------------------------------------------------------
(* The lists as OperationLifecycle sees them                               *)

HistoryOf(m) == [c \in ChangeSetIds |-> [i \in DOMAIN m.ops[c] |-> m.ops[c][i].status]]

\* A history lists the statuses.
LEMMA HistoryFacts ==
  ASSUME NEW m \in Servers, NEW h, h = HistoryOf(m)
  PROVE  /\ h = [c \in ChangeSetIds |-> h[c]]
         /\ \A c \in ChangeSetIds :
              /\ Len(m.ops[c]) \in Nat /\ DOMAIN m.ops[c] = 1..Len(m.ops[c])
              /\ h[c] \in [1..Len(m.ops[c]) -> OperationStatuses] /\ Len(h[c]) = Len(m.ops[c])
              /\ \A i \in DOMAIN m.ops[c] : h[c][i] = m.ops[c][i].status
  <1>1. h = [c \in ChangeSetIds |-> h[c]]
    BY DEF HistoryOf
  <1>2. ASSUME NEW c \in ChangeSetIds
        PROVE  /\ Len(m.ops[c]) \in Nat /\ DOMAIN m.ops[c] = 1..Len(m.ops[c])
               /\ h[c] \in [1..Len(m.ops[c]) -> OperationStatuses] /\ Len(h[c]) = Len(m.ops[c])
               /\ \A i \in DOMAIN m.ops[c] : h[c][i] = m.ops[c][i].status
    <2>1. m.ops[c] \in Seq(Operations)
      BY ServerParts
    <2>2. PICK n : n = Len(m.ops[c])
      OBVIOUS
    <2>3. n \in Nat /\ DOMAIN m.ops[c] = 1..n
      BY <2>1, <2>2
    <2>4. h[c] = [i \in DOMAIN m.ops[c] |-> m.ops[c][i].status]
      BY DEF HistoryOf
    <2>5. \A i \in 1..n : h[c][i] = m.ops[c][i].status /\ h[c][i] \in OperationStatuses
      BY <2>3, <2>4, ReceiptNumbers
    <2>6. h[c] \in [1..n -> OperationStatuses]
      BY <2>3, <2>4, <2>5
    <2>7. Len(h[c]) = n
      BY <2>3, <2>6
    <2> QED
      BY <2>2, <2>3, <2>5, <2>6, <2>7
  <1> QED
    BY <1>1, <1>2

\* The same statuses are closed and terminal in both modules.
LEMMA SameDefinitions ==
  /\ \A S : Lifecycle!IsClosed(S) = IsClosed(S)
  /\ \A S : Lifecycle!IsTerminal(S) = IsTerminal(S)
  /\ Lifecycle!OperationStatuses = OperationStatuses
  <1>1. \A S : Lifecycle!DeriveStatus(S) = DeriveStatus(S)
    BY DEF Lifecycle!DeriveStatus, Lifecycle!DeriveKnownStatus, DeriveStatus, DeriveKnownStatus
  <1> QED
    BY <1>1 DEF Lifecycle!IsClosed, IsClosed, Lifecycle!ClosedStatuses, ClosedStatuses,
            Lifecycle!IsTerminal, IsTerminal, Lifecycle!TerminalStatuses, TerminalStatuses,
            Lifecycle!OperationStatuses, OperationStatuses

\* Short lists have a history.
LEMMA ShortHistories ==
  ASSUME NEW m \in Servers, NEW h, h = HistoryOf(m), \A c \in ChangeSetIds : Len(m.ops[c]) <= MaxOps
  PROVE  h \in [ChangeSetIds -> Lifecycle!Histories]
  <1>1. ASSUME NEW c \in ChangeSetIds
        PROVE  h[c] \in Lifecycle!Histories
    <2>1. PICK n : n = Len(m.ops[c])
      OBVIOUS
    <2>2. n \in 0..MaxOps /\ h[c] \in [1..n -> Lifecycle!OperationStatuses]
      BY <2>1, HistoryFacts, SameDefinitions, WorkflowBoundsAssumption
    <2> QED
      BY <2>2 DEF Lifecycle!Histories
  <1> QED
    BY <1>1, HistoryFacts

\* Lists that move on, and get at most one operation more, evolve.
LEMMA EvolvesWhen ==
  ASSUME NEW m \in Servers, NEW b \in Servers, NEW n \in Servers, MovedOn(m, b), NEW c, NEW r, AddsTo(b, n, c, r),
         NEW h, h = HistoryOf(m), NEW k, k = HistoryOf(n)
  PROVE  \A e \in ChangeSetIds : \/ Lifecycle!Kept(h[e], k[e])
                                 \/ e = c /\ Lifecycle!Grown(h[e], k[e])
  <1> SUFFICES ASSUME NEW e \in ChangeSetIds
               PROVE  Lifecycle!Kept(h[e], k[e]) \/ (e = c /\ Lifecycle!Grown(h[e], k[e]))
    OBVIOUS
  <1>1. /\ Len(m.ops[e]) \in Nat /\ DOMAIN m.ops[e] = 1..Len(m.ops[e])
        /\ Len(h[e]) = Len(m.ops[e]) /\ \A i \in DOMAIN m.ops[e] : h[e][i] = m.ops[e][i].status
        /\ Len(k[e]) = Len(n.ops[e]) /\ \A i \in DOMAIN n.ops[e] : k[e][i] = n.ops[e][i].status
        /\ DOMAIN n.ops[e] = 1..Len(n.ops[e])
        /\ Len(b.ops[e]) = Len(m.ops[e]) /\ DOMAIN b.ops[e] = DOMAIN m.ops[e]
    BY HistoryFacts DEF MovedOn, SameOperations
  <1>2. \A i \in DOMAIN m.ops[e] : \/ b.ops[e][i].status = h[e][i]
                                   \/ b.ops[e][i].status \in Lifecycle!Moves(h[e][i])
    BY <1>1 DEF MovedOn
  <1>3. CASE n.ops[e] = b.ops[e]
    BY <1>1, <1>2, <1>3 DEF Lifecycle!Kept, Lifecycle!MovesOn
  <1>4. CASE n.ops[e] # b.ops[e]
    <2>1. PICK o \in Operations : /\ e = c /\ HasRoom(b, c)
                                  /\ n.ops[e] = Append(b.ops[e], o) /\ o.status \in {"applied", "no-op", "saved"}
      BY <1>4 DEF AddsTo, Grew
    <2>2. b.ops[e] \in Seq(Operations)
      BY ServerParts
    <2>3. /\ Len(n.ops[e]) = Len(b.ops[e]) + 1
          /\ \A i \in DOMAIN b.ops[e] : i \in DOMAIN n.ops[e] /\ n.ops[e][i] = b.ops[e][i]
          /\ n.ops[e][Len(b.ops[e]) + 1] = o /\ Len(b.ops[e]) + 1 \in DOMAIN n.ops[e]
      BY <2>1, <2>2, OperationAdded
    <2>4. \A i \in 1..Len(h[e]) : k[e][i] = b.ops[e][i].status
      BY <1>1, <2>3
    <2>5. Lifecycle!MovesOn(h[e], k[e], Len(h[e]))
      BY <1>1, <1>2, <2>4 DEF Lifecycle!MovesOn
    <2>6. {k[e][i] : i \in 1..Len(h[e])} = Statuses(b, c)
      <3>1. 1..Len(h[e]) = DOMAIN b.ops[c] /\ \A i \in DOMAIN b.ops[c] : k[e][i] = b.ops[c][i].status
        BY <1>1, <2>1, <2>4
      <3>2. {k[e][i] : i \in DOMAIN b.ops[c]} = {b.ops[c][i].status : i \in DOMAIN b.ops[c]}
        BY <3>1
      <3> QED
        BY <3>1, <3>2 DEF Statuses
    <2>7. ~Lifecycle!IsClosed({k[e][i] : i \in 1..Len(h[e])})
      BY <2>1, <2>6, SameDefinitions DEF HasRoom
    <2>8. Len(k[e]) = Len(h[e]) + 1 /\ k[e][Len(k[e])] \in {"applied", "no-op", "saved"}
      BY <1>1, <2>1, <2>3
    <2> QED
      BY <2>1, <2>5, <2>7, <2>8 DEF Lifecycle!Grown
  <1> QED
    BY <1>3, <1>4

\* A step of the workflow is one of the lifecycle, or none.
LEMMA Evolves ==
  ASSUME NEW m \in Servers, MovedOn(server, m), server \in Servers, server' \in Servers, NEW c, NEW r,
         AddsTo(m, server', c, r), \A e \in ChangeSetIds : Len(server'.ops[e]) <= MaxOps
  PROVE  Lifecycle!Evolve
  <1>1. PICK h, k : h = HistoryOf(server) /\ k = HistoryOf(server')
    OBVIOUS
  <1>2. k \in [ChangeSetIds -> Lifecycle!Histories]
    BY <1>1, ShortHistories
  <1>3. \A e \in ChangeSetIds : Lifecycle!Kept(h[e], k[e]) \/ (e = c /\ Lifecycle!Grown(h[e], k[e]))
    BY <1>1, EvolvesWhen
  <1>4. \A e \in ChangeSetIds : Len(h[e]) \in Nat
    BY <1>1, HistoryFacts
  <1>5. \A e \in ChangeSetIds : Lifecycle!Grown(h[e], k[e]) => e = c
    BY <1>3, <1>4 DEF Lifecycle!Kept, Lifecycle!Grown
  <1>6. /\ k \in [ChangeSetIds -> Lifecycle!Histories]
        /\ \A e \in ChangeSetIds : Lifecycle!Kept(h[e], k[e]) \/ Lifecycle!Grown(h[e], k[e])
        /\ \A e, d \in ChangeSetIds : Lifecycle!Grown(h[e], k[e]) /\ Lifecycle!Grown(h[d], k[d]) => e = d
    BY <1>2, <1>3, <1>5
  <1> QED
    BY <1>1, <1>6 DEF Lifecycle!Evolve, HistoryOf

\* A finished change set is forgotten.
LEMMA Forgets ==
  ASSUME server \in Servers, server' \in Servers, NEW d \in ChangeSetIds, IsTerminal(Statuses(server, d)),
         \A e \in ChangeSetIds : server'.ops[e] = IF e = d THEN <<>> ELSE server.ops[e]
  PROVE  Lifecycle!Forget(d)
  <1>1. PICK h, k : h = HistoryOf(server) /\ k = HistoryOf(server')
    OBVIOUS
  <1>2. Lifecycle!StatusesIn(h[d]) = Statuses(server, d)
    <2>1. DOMAIN h[d] = DOMAIN server.ops[d] /\ \A i \in DOMAIN h[d] : h[d][i] = server.ops[d][i].status
      BY <1>1, HistoryFacts
    <2>2. {h[d][i] : i \in DOMAIN h[d]} = {server.ops[d][i].status : i \in DOMAIN h[d]}
      BY <2>1
    <2> QED
      BY <2>1, <2>2 DEF Lifecycle!StatusesIn, Statuses
  <1>3. Lifecycle!IsTerminal(Lifecycle!StatusesIn(h[d]))
    BY <1>2, SameDefinitions
  <1>4. k = [h EXCEPT ![d] = <<>>]
    <2>1. \A e \in ChangeSetIds : e # d => k[e] = h[e]
      BY <1>1 DEF HistoryOf
    <2>2. k[d] = <<>>
      BY <1>1 DEF HistoryOf
    <2> QED
      BY <1>1, <2>1, <2>2, HistoryFacts
  <1> QED
    BY <1>1, <1>3, <1>4 DEF Lifecycle!Forget, HistoryOf

\* Nothing is listed at first.
LEMMA InitIsListed ==
  ASSUME WorkflowInit
  PROVE  LifecycleInv
  <1>1. TypedInv /\ RecentInv
    <2>1. EditorInit
      BY DEF WorkflowInit
    <2> QED
      BY <2>1, InitIsTyped, InitIsRecent
  <1>2. /\ \A c \in ChangeSetIds : server.ops[c] = <<>> /\ server.phase[c] = "new"
        /\ server.live = {} /\ server.cps = {}
    BY DEF WorkflowInit
  <1>3. Listed(server, lastTx) /\ RecordsAreOfLive /\ SavedIsOnDisk
    BY <1>2, EmptyFacts DEF Listed, ReceiptsUpTo, OwnReceipts, OneWrite, LiveIsOpen, SavedStay, RecordsAreOfLive, SavedIsOnDisk
  <1>4. OpenChangeSets = {}
    BY <1>2 DEF OpenChangeSets
  <1>5. ListsAreFew
    BY <1>2, <1>4, EmptyFacts, FS_EmptySet, WorkflowBoundsAssumption DEF ListsAreFew
  <1> QED
    BY <1>1, <1>3, <1>5 DEF LifecycleInv

\* A write, or a patch, is a call that writes.
LEMMA WriteStepIsWriteCall ==
  ASSUME LifecycleInv, "crash" \notin Tools, WriteStep \/ PatchStep
  PROVE  \E c, r, a, t :
           /\ WriteCall(c, a, t, r)
           /\ \/ r = NoReceipt
              \/ /\ r = NextReceipt /\ lastTx' = NextReceipt
                 /\ \A d \in Assets \ {a} : records'[d] = records[d]
  <1>1. CASE WriteStep
    <2>1. PICK c \in MaybeChangeSet, a \in Assets :
            (\E t \in Targets, v \in Values : Apply(c, a, t, v)) \/ ApplyNoChange(c, a)
      BY <1>1 DEF WriteStep
    <2>2. ASSUME NEW t \in Targets, NEW v \in Values, Apply(c, a, t, v)
          PROVE  /\ WriteCall(c, a, t, NextReceipt) /\ lastTx' = NextReceipt
                 /\ \A d \in Assets \ {a} : records'[d] = records[d]
      <3>1. WriteCall(c, a, t, NextReceipt)
        BY <2>2, ApplyIsWriteCall
      <3>2. PICK p \in 0..lastTx : ApplyChanged(a, t, v, p)
        BY <2>2, ApplyKeeps DEF LifecycleInv, TypedInv
      <3>3. records \in [Assets -> SUBSET Records]
        BY DEF LifecycleInv, RecentInv, EditorInv, EditorTypeOK
      <3> QED
        BY <3>1, <3>2, <3>3 DEF ApplyChanged, RecordTransaction, NextReceipt
    <2>3. ApplyNoChange(c, a) => \A t : WriteCall(c, a, t, NoReceipt)
      BY ApplyNoChangeIsWriteCall
    <2> QED
      BY <2>1, <2>2, <2>3
  <1>2. CASE PatchStep
    BY <1>2, PatchIsWriteCall DEF PatchStep
  <1> QED
    BY <1>1, <1>2

\* A step of the workflow keeps the lists in order and follows the lifecycle.
LEMMA StepFollows ==
  ASSUME LifecycleInv, [WorkflowNext]_vars, "crash" \notin Tools, "rollback" \notin Tools,
         "undo" \notin UserActions, "redo" \notin UserActions
  PROVE  LifecycleInv' /\ Lifecycle!LifecycleNext
  <1>1. Typed /\ KindOfStep /\ server \in Servers
    BY StepsHaveAKind DEF LifecycleInv, TypedInv, Typed, WorkflowTypeOK
  <1>2. TypedInv' /\ [EditorNext]_editorVars /\ server' \in Servers
    <2>1. TypedInv'
      BY <1>1, StepKeepsTyped DEF LifecycleInv
    <2> QED
      BY <1>1, <2>1, EditorPartOfCall DEF TypedInv, Typed, WorkflowTypeOK
  <1>3. RecentInv'
    BY <1>2, StepKeepsRecent DEF LifecycleInv, TypedInv, Typed
  <1>4. ASSUME MovedOn(server, server'), LifecycleInv' PROVE Lifecycle!Evolve
    <2>1. \A e \in ChangeSetIds : Len(server'.ops[e]) <= MaxOps
      BY <1>4 DEF LifecycleInv, ListsAreFew
    <2>2. AddsTo(server', server', NoChangeSet, NoReceipt)
      BY DEF AddsTo
    <2> QED
      BY <1>1, <1>2, <1>4, <2>1, <2>2, Evolves
  <1>5. CASE Orderly(server, server')
    <2>1. LifecycleInv' /\ MovedOn(server, server')
      BY <1>2, <1>3, <1>5, OrderlyKeepsInv DEF Orderly
    <2> QED
      BY <1>4, <2>1 DEF Lifecycle!LifecycleNext
  <1>6. CASE CreateStep
    <2>1. PICK c \in ChangeSetIds : CreateChangeSet(c)
      BY <1>6 DEF CreateStep
    <2>2. LifecycleInv'
      BY <1>2, <1>3, <2>1, CreateKeepsInv
    <2>3. CASE server'.ops = server.ops
      <3>1. MovedOn(server, server')
        BY <1>1, <2>3, ServerParts DEF MovedOn, SameOperations
      <3> QED
        BY <1>4, <2>2, <3>1 DEF Lifecycle!LifecycleNext
    <2>4. ASSUME NEW d \in ChangeSetIds, IsTerminal(Statuses(server, d)),
                 \A e \in ChangeSetIds : server'.ops[e] = IF e = d THEN <<>> ELSE server.ops[e]
          PROVE  Lifecycle!LifecycleNext
      <3>1. Lifecycle!Forget(d)
        BY <1>1, <1>2, <2>4, Forgets
      <3> QED
        BY <3>1 DEF Lifecycle!LifecycleNext
    <2> QED
      BY <2>1, <2>2, <2>3, <2>4, CreateCall
  <1>7. CASE WriteStep \/ PatchStep
    <2>1. PICK c, r, a, t :
            /\ WriteCall(c, a, t, r)
            /\ \/ r = NoReceipt
               \/ /\ r = NextReceipt /\ lastTx' = NextReceipt
                  /\ \A d \in Assets \ {a} : records'[d] = records[d]
      BY <1>7, WriteStepIsWriteCall
    <2>3. LifecycleInv'
      BY <1>2, <1>3, <2>1, WriteKeepsInv
    <2>4. PICK m \in Servers : Orderly(server, m) /\ AddsTo(m, server', c, r)
      BY <2>1 DEF WriteCall
    <2>5. Lifecycle!Evolve
      BY <1>1, <1>2, <2>3, <2>4, Evolves DEF Orderly, LifecycleInv, ListsAreFew
    <2> QED
      BY <2>3, <2>5 DEF Lifecycle!LifecycleNext
  <1>8. CASE SavePointStep
    <2>1. PICK c \in ChangeSetIds, a \in Assets, auth \in server.auths, cp \in server.cps :
            c # NoChangeSet /\ CheckpointCommit(c, a, auth, cp)
      BY <1>8 DEF SavePointStep
    <2>2. LifecycleInv'
      BY <1>2, <1>3, <2>1, CommitKeepsInv
    <2>3. MovedOn(server, server')
      BY <2>1, CommitCall
    <2> QED
      BY <1>4, <2>2, <2>3 DEF Lifecycle!LifecycleNext
  <1> QED
    BY <1>5, <1>6, <1>7, <1>8, CallsAreOrderly

\* The change sets' histories follow OperationLifecycle as long as the server does not die inside
\* a call, no disk rollback is recorded and the user does not step through the Undo history: an
\* operation only moves on, a closed change set takes no write, only a finished one is forgotten.
THEOREM WorkflowFollowsLifecycle ==
  ASSUME "crash" \notin Tools, "rollback" \notin Tools, "undo" \notin UserActions, "redo" \notin UserActions
  PROVE  WorkflowSpec => FollowsLifecycle
  <1>1. WorkflowInit => Lifecycle!LifecycleInit
    BY EmptyFacts DEF WorkflowInit, Lifecycle!LifecycleInit
  <1>2. WorkflowInit => LifecycleInv
    BY InitIsListed
  <1>3. LifecycleInv /\ [WorkflowNext]_vars => LifecycleInv'
    BY StepFollows
  <1>4. LifecycleInv /\ [WorkflowNext]_vars =>
          [Lifecycle!LifecycleNext]_([c \in ChangeSetIds |-> [i \in DOMAIN server.ops[c] |-> server.ops[c][i].status]])
    BY StepFollows
  <1> QED
    BY <1>1, <1>2, <1>3, <1>4, PTL DEF WorkflowSpec, FollowsLifecycle, Lifecycle!LifecycleSpec

\* A terminal operation does not move.
LEMMA MovedOnKeepsTerminal ==
  ASSUME NEW m, NEW n, MovedOn(m, n), NEW c \in ChangeSetIds, NEW i \in DOMAIN m.ops[c],
         m.ops[c][i].status \in TerminalStatuses
  PROVE  /\ n.ops[c][i].status = m.ops[c][i].status
         /\ i \in DOMAIN n.ops[c]
  <1>1. Lifecycle!Moves(m.ops[c][i].status) = {}
    BY DEF Lifecycle!Moves, TerminalStatuses
  <1>2. i \in DOMAIN n.ops[c]
    BY DEF MovedOn, SameOperations
  <1> QED
    BY <1>1, <1>2 DEF MovedOn

LEMMA StepKeepsTerminal ==
  ASSUME LifecycleInv, [WorkflowNext]_vars, "crash" \notin Tools, "rollback" \notin Tools,
         NEW c \in ChangeSetIds, NEW i \in DOMAIN server.ops[c],
         server.ops[c][i].status \in TerminalStatuses
  PROVE  \/ server'.phase[c] = "gone"
         \/ server'.ops[c][i].status = server.ops[c][i].status
  <1>1. CASE Orderly(server, server')
    BY <1>1, MovedOnKeepsTerminal DEF Orderly
  <1>2. CASE CreateStep
    <2>1. PICK d \in ChangeSetIds : CreateChangeSet(d)
      BY <1>2 DEF CreateStep
    <2>2. CASE server'.ops = server.ops
      BY <2>2
    <2>3. ASSUME NEW e \in ChangeSetIds, server'.phase[e] = "gone",
                 \A f \in ChangeSetIds : server'.ops[f] = IF f = e THEN <<>> ELSE server.ops[f]
          PROVE  server'.phase[c] = "gone" \/ server'.ops[c] = server.ops[c]
      BY <2>3
    <2> QED
      BY <2>1, <2>2, <2>3, CreateCall
  <1>3. CASE WriteStep \/ PatchStep
    <2>1. PICK d, r, a, t : WriteCall(d, a, t, r)
      BY <1>3, WriteStepIsWriteCall
    <2>2. PICK m \in Servers : Orderly(server, m) /\ AddsTo(m, server', d, r)
      BY <2>1 DEF WriteCall
    <2>3. m.ops[c][i].status = server.ops[c][i].status /\ i \in DOMAIN m.ops[c]
      BY <2>2, MovedOnKeepsTerminal DEF Orderly
    <2>4. CASE server'.ops[c] = m.ops[c]
      BY <2>3, <2>4
    <2>5. CASE server'.ops[c] # m.ops[c]
      <3>1. PICK o \in Operations : server'.ops[c] = Append(m.ops[c], o)
        BY <2>2, <2>5 DEF AddsTo, Grew
      <3>2. m.ops[c] \in Seq(Operations)
        BY ServerParts
      <3>3. server'.ops[c][i] = m.ops[c][i]
        BY <2>3, <3>1, <3>2, OperationAdded
      <3> QED
        BY <2>3, <3>3
    <2> QED
      BY <2>4, <2>5
  <1>4. CASE SavePointStep
    <2>1. MovedOn(server, server')
      BY <1>4, CommitCall DEF SavePointStep
    <2> QED
      BY <2>1, MovedOnKeepsTerminal
  <1> QED
    BY <1>1, <1>2, <1>3, <1>4, CallsAreOrderly

\* The other side of the run workflow_undone: what was undone, discarded, superseded or verified
\* stays so until its change set is forgotten, as long as no disk rollback is recorded, the
\* server does not die inside a call and the user does not step through the Undo history.
THEOREM FinishedOperationsStayFinished ==
  ASSUME "crash" \notin Tools, "rollback" \notin Tools, "undo" \notin UserActions, "redo" \notin UserActions
  PROVE  WorkflowSpec => TerminalOperationsStay
  <1>1. WorkflowInit => LifecycleInv
    BY InitIsListed
  <1>2. LifecycleInv /\ [WorkflowNext]_vars => LifecycleInv'
    BY StepFollows
  <1>3. LifecycleInv /\ [WorkflowNext]_vars =>
          [\A c \in ChangeSetIds : \A i \in DOMAIN server.ops[c] :
             server.ops[c][i].status \in TerminalStatuses =>
               \/ server'.phase[c] = "gone"
               \/ server'.ops[c][i].status = server.ops[c][i].status]_vars
    BY StepKeepsTerminal
  <1> QED
    BY <1>1, <1>2, <1>3, PTL DEF WorkflowSpec, TerminalOperationsStay

-----------------------------------------------------------------------------
(* A workflow in which only the agent writes                               *)

\* Without a running Editor there is nothing to undo.
ClosedHasNoRecords == link = "closed" => \A a \in Assets : records[a] = {}

\* What the server counts as pending in Editor session s.
PendingLive(m, s) == {l \in m.live : ~l.saved /\ l.sess = s}

\* Server and Editor agree on the pending writes.
PendingIsLive(m) ==
  \A a \in Assets : \A r \in Pending(a) : \E l \in PendingLive(m, session) : l.receipt = r.id /\ l.asset = a
LiveIsPending(m) ==
  link # "closed" => \A l \in PendingLive(m, session) :
    \E r \in Pending(l.asset) : r.id = l.receipt /\ r.target = l.target /\ r.after = l.after
LiveIsOfSessions(m) == \A l \in m.live : l.sess <= session

\* A receipt is for one live record, and for operations of one change set.
OneRecord(m) == \A k, l \in m.live : k.receipt = l.receipt => k = l
OneOwner(m) ==
  \A c, d \in ChangeSetIds : \A i \in DOMAIN m.ops[c], j \in DOMAIN m.ops[d] :
    m.ops[c][i].receipt = m.ops[d][j].receipt /\ m.ops[c][i].receipt # NoReceipt => c = d

\* The pending writes of an asset are all of one change set, and a change set counts all of its
\* pending writes as applied or none.
Owns(m, c, r) == \E i \in DOMAIN m.ops[c] : m.ops[c][i].receipt = r
PendingIsOwned(m) ==
  \A a \in Assets : Pending(a) = {} \/ \E c \in ChangeSetIds : \A r \in Pending(a) : Owns(m, c, r.id)
IsPendingIn(m, s, c, i) == \E l \in PendingLive(m, s) : l.receipt = m.ops[c][i].receipt
AllOrNoneApplied(m, s) ==
  \A c \in ChangeSetIds : \A i, j \in DOMAIN m.ops[c] :
    IsPendingIn(m, s, c, i) /\ IsPendingIn(m, s, c, j) /\ m.ops[c][i].status = "applied" => m.ops[c][j].status = "applied"

\* A checkpoint covers a write, and has its backup once it is saved.
CheckpointsWrite(m) == \A cp \in m.cps : cp.effective # {}
SavedHaveBackups(m, B) == \A cp \in m.cps : cp.state # "prepared" => \E b \in B : b.id = cp.id

AgentListed(m) ==
  /\ PendingIsLive(m) /\ LiveIsPending(m) /\ LiveIsOfSessions(m)
  /\ OneRecord(m) /\ OneOwner(m) /\ PendingIsOwned(m) /\ AllOrNoneApplied(m, session)
  /\ CheckpointsWrite(m) /\ SavedHaveBackups(m, backups)

AgentInv ==
  /\ LifecycleInv /\ HeldInv /\ AgentEditorInv /\ ClosedHasNoRecords
  /\ AgentListed(server) /\ CheckpointHoldsOnlyItsWrites

\* The Editor's part of a step leaves the pending writes alone.
PendingStays ==
  /\ \A a \in Assets : Pending(a)' = Pending(a)
  /\ session' = session /\ (link' # "closed" => link # "closed")

\* The server keeps the pending records; what leaves is saved.
KeepsPending(m, n) ==
  /\ \A y \in n.live : y \in m.live
  /\ \A l \in m.live : l \in n.live \/ l.saved

\* Operations keep their receipts; what is forgotten or new is not pending.
KeepsReceipts(m, n) ==
  \A c \in ChangeSetIds :
    /\ \A i \in DOMAIN n.ops[c] :
         \/ n.ops[c][i].receipt = NoReceipt
         \/ i \in DOMAIN m.ops[c] /\ n.ops[c][i].receipt = m.ops[c][i].receipt
    /\ \A i \in DOMAIN m.ops[c] :
         \/ i \in DOMAIN n.ops[c] /\ n.ops[c][i].receipt = m.ops[c][i].receipt
         \/ \A l \in m.live : l.receipt # m.ops[c][i].receipt

\* The pending operations of a change set keep their statuses, or are all applied, or none is.
AppliedTogether(m, n, s) ==
  \A c \in ChangeSetIds :
    \/ \A i \in DOMAIN n.ops[c] : IsPendingIn(n, s, c, i) =>
         /\ i \in DOMAIN m.ops[c] /\ IsPendingIn(m, s, c, i)
         /\ n.ops[c][i].status = "applied" <=> m.ops[c][i].status = "applied"
    \/ \A i \in DOMAIN n.ops[c] : IsPendingIn(n, s, c, i) => n.ops[c][i].status = "applied"
    \/ \A i \in DOMAIN n.ops[c] : IsPendingIn(n, s, c, i) => n.ops[c][i].status # "applied"

\* Checkpoints keep their writes, ids and backups, and a new one has writes.
KeepsCheckpoints(m, n) ==
  \A y \in n.cps :
    \/ \E cp \in m.cps : /\ y.id = cp.id /\ y.effective = cp.effective
                         /\ (cp.state = "prepared" => y.state = "prepared")
    \/ y.state = "prepared" /\ y.effective # {}

Quiet(m, n, s) ==
  /\ n \in Servers /\ KeepsPending(m, n) /\ KeepsReceipts(m, n) /\ AppliedTogether(m, n, s) /\ KeepsCheckpoints(m, n)

\* Such statuses keep it that way.
LEMMA TogetherIsAllOrNone ==
  ASSUME NEW m, NEW n, NEW s, AllOrNoneApplied(m, s), AppliedTogether(m, n, s)
  PROVE  AllOrNoneApplied(n, s)
  BY DEF AllOrNoneApplied, AppliedTogether

\* Such a call keeps server and Editor in agreement.
LEMMA QuietKeepsListed ==
  ASSUME AgentInv, PendingStays, Quiet(server, server', session), backups \subseteq backups'
  PROVE  AgentListed(server)'
  <1>1. /\ server \in Servers /\ session' = session
        /\ \A a \in Assets : Pending(a)' = Pending(a)
    BY DEF PendingStays, AgentInv, HeldInv, TypedInv, Typed, WorkflowTypeOK
  <1>2. /\ \A y \in server'.live : y \in server.live
        /\ \A l \in server.live : l \in server'.live \/ l.saved
    BY DEF Quiet, KeepsPending
  <1>3. \A l : l \in PendingLive(server, session)' <=> l \in PendingLive(server, session)
    BY <1>1, <1>2 DEF PendingLive
  <1>4. PendingIsLive(server)'
    BY <1>1, <1>3 DEF AgentInv, AgentListed, PendingIsLive
  <1>5. LiveIsPending(server)'
    <2> SUFFICES ASSUME link' # "closed", NEW l \in PendingLive(server, session)'
                 PROVE  \E r \in Pending(l.asset)' : r.id = l.receipt /\ r.target = l.target /\ r.after = l.after
      BY DEF LiveIsPending
    <2>1. link # "closed" /\ l \in PendingLive(server, session) /\ l \in server.live
      BY <1>3 DEF PendingStays, PendingLive
    <2>2. l.asset \in Assets
      BY <1>1, <2>1, ServerParts DEF LiveApplies
    <2> QED
      BY <1>1, <2>1, <2>2 DEF AgentInv, AgentListed, LiveIsPending
  <1>6. LiveIsOfSessions(server)' /\ OneRecord(server')
    BY <1>1, <1>2 DEF AgentInv, AgentListed, LiveIsOfSessions, OneRecord
  <1>7. OneOwner(server')
    BY DEF AgentInv, AgentListed, OneOwner, Quiet, KeepsReceipts
  <1>8. PendingIsOwned(server)'
    <2> SUFFICES ASSUME NEW a \in Assets, Pending(a) # {}
                 PROVE  \E c \in ChangeSetIds : \A r \in Pending(a) : Owns(server', c, r.id)
      BY <1>1 DEF PendingIsOwned, Owns
    <2>1. PICK c \in ChangeSetIds : \A r \in Pending(a) : Owns(server, c, r.id)
      BY DEF AgentInv, AgentListed, PendingIsOwned
    <2>2. ASSUME NEW r \in Pending(a) PROVE Owns(server', c, r.id)
      <3>1. PICK i \in DOMAIN server.ops[c] : server.ops[c][i].receipt = r.id
        BY <2>1 DEF Owns
      <3>2. PICK l \in server.live : l.receipt = r.id
        BY DEF AgentInv, AgentListed, PendingIsLive, PendingLive
      <3>3. i \in DOMAIN server'.ops[c] /\ server'.ops[c][i].receipt = r.id
        BY <3>1, <3>2 DEF Quiet, KeepsReceipts
      <3> QED
        BY <3>3 DEF Owns
    <2> QED
      BY <2>2
  <1>9. AllOrNoneApplied(server', session')
    BY <1>1, TogetherIsAllOrNone DEF AgentInv, AgentListed, Quiet
  <1>10. CheckpointsWrite(server') /\ SavedHaveBackups(server', backups')
    BY DEF AgentInv, AgentListed, Quiet, KeepsCheckpoints, CheckpointsWrite, SavedHaveBackups
  <1> QED
    BY <1>4, <1>5, <1>6, <1>7, <1>8, <1>9, <1>10 DEF AgentListed

\* A reconciled change set counts its pending writes as applied while the Editor runs.
LEMMA ReconciledTogether ==
  ASSUME NEW m \in Servers, LiveIsOpen(m), OneRecord(m), NEW c \in ChangeSetIds, NEW n, n = Reconciled(m, c)
  PROVE  /\ AppliedTogether(m, n, session)
         /\ EditorAvailable =>
              \A i \in DOMAIN n.ops[c] : IsPendingIn(n, session, c, i) => n.ops[c][i].status = "applied"
  <1>1. /\ n.live = m.live /\ SameOperations(m, n)
        /\ \A d \in ChangeSetIds : \A i \in DOMAIN m.ops[d] :
             n.ops[d][i].status = IF d = c THEN ReconciledStatus(m, m.ops[d][i]) ELSE m.ops[d][i].status
    BY ReconciledFacts
  <1>2. \A d \in ChangeSetIds : DOMAIN n.ops[d] = DOMAIN m.ops[d]
        /\ \A i \in DOMAIN n.ops[d] : /\ n.ops[d][i].receipt = m.ops[d][i].receipt
                                      /\ IsPendingIn(n, session, d, i) <=> IsPendingIn(m, session, d, i)
    BY <1>1 DEF SameOperations, IsPendingIn, PendingLive
  <1>3. ASSUME NEW i \in DOMAIN m.ops[c], IsPendingIn(m, session, c, i)
        PROVE  IF EditorAvailable THEN n.ops[c][i].status = "applied" ELSE n.ops[c][i].status # "applied"
    <2>1. PICK op : op = m.ops[c][i]
      OBVIOUS
    <2>2. PICK l \in m.live : l.receipt = op.receipt /\ ~l.saved /\ l.sess = session
      BY <1>3, <2>1 DEF IsPendingIn, PendingLive
    <2>3. op.status \in {"applied", "unknown"}
      BY <2>1, <2>2 DEF LiveIsOpen, OpenStatus
    <2>4. IsLive(m, op.receipt)
      BY <2>2 DEF IsLive
    <2>5. LiveApply(m, op.receipt) = l
      BY <2>2 DEF LiveApply, OneRecord
    <2>6. op.apply = "none"
      <3>1. m.ops[c] \in Seq(Operations)
        BY ServerParts
      <3>2. op \in Operations
        BY <1>3, <2>1, <3>1
      <3>3. op.receipt # NoReceipt
        BY <2>2, ReceiptNumbers
      <3> QED
        BY <3>2, <3>3, OperationParts
    <2>7. ReconciledStatus(m, op) = IF EditorAvailable THEN "applied" ELSE "unknown"
      BY <2>2, <2>3, <2>4, <2>5, <2>6 DEF ReconciledStatus, ReconciledStatus_SupersededToo
    <2> QED
      BY <1>1, <2>1, <2>7
  <1>4. AppliedTogether(m, n, session)
    <2> SUFFICES ASSUME NEW d \in ChangeSetIds
                 PROVE  \/ \A i \in DOMAIN n.ops[d] : IsPendingIn(n, session, d, i) =>
                             /\ i \in DOMAIN m.ops[d] /\ IsPendingIn(m, session, d, i)
                             /\ n.ops[d][i].status = "applied" <=> m.ops[d][i].status = "applied"
                        \/ \A i \in DOMAIN n.ops[d] : IsPendingIn(n, session, d, i) => n.ops[d][i].status = "applied"
                        \/ \A i \in DOMAIN n.ops[d] : IsPendingIn(n, session, d, i) => n.ops[d][i].status # "applied"
      BY DEF AppliedTogether
    <2>1. CASE d = c /\ EditorAvailable
      BY <1>2, <1>3, <2>1
    <2>2. CASE d = c /\ ~EditorAvailable
      BY <1>2, <1>3, <2>2
    <2>3. CASE d # c
      BY <1>1, <1>2, <2>3
    <2> QED
      BY <2>1, <2>2, <2>3
  <1> QED
    BY <1>2, <1>3, <1>4

\* A call that keeps the lists and the live records.
LEMMA SameListsAreQuiet ==
  ASSUME NEW m \in Servers, NEW n \in Servers, n.live = m.live, SameOperations(m, n),
         AppliedTogether(m, n, session), KeepsCheckpoints(m, n)
  PROVE  Quiet(m, n, session)
  <1>1. KeepsPending(m, n)
    BY DEF KeepsPending
  <1>2. KeepsReceipts(m, n)
    BY DEF KeepsReceipts, SameOperations
  <1> QED
    BY <1>1, <1>2 DEF Quiet

LEMMA SameCheckpointsAreKept ==
  ASSUME NEW m, NEW n, n.cps = m.cps
  PROVE  KeepsCheckpoints(m, n)
  BY DEF KeepsCheckpoints

\* Where every pending operation keeps its status.
LEMMA SameStatusesAreTogether ==
  ASSUME NEW m, NEW n, NEW s, \A y \in n.live : y \in m.live,
         \A c \in ChangeSetIds : \A i \in DOMAIN n.ops[c] :
           /\ i \in DOMAIN m.ops[c] /\ n.ops[c][i].receipt = m.ops[c][i].receipt
           /\ \/ n.ops[c][i].status = m.ops[c][i].status
              \/ \A l \in n.live : l.receipt # n.ops[c][i].receipt
  PROVE  AppliedTogether(m, n, s)
  <1>1. ASSUME NEW c \in ChangeSetIds, NEW i \in DOMAIN n.ops[c], IsPendingIn(n, s, c, i)
        PROVE  /\ i \in DOMAIN m.ops[c] /\ IsPendingIn(m, s, c, i)
               /\ n.ops[c][i].status = "applied" <=> m.ops[c][i].status = "applied"
    BY <1>1 DEF IsPendingIn, PendingLive
  <1> QED
    BY <1>1 DEF AppliedTogether

\* What the invariant says of the server's record.
LEMMA AgentServer ==
  ASSUME AgentInv
  PROVE  /\ Typed /\ server \in Servers /\ Listed(server, lastTx) /\ AgentListed(server) /\ EditorInv
         /\ OwnReceipts(server) /\ LiveIsOpen(server) /\ OneRecord(server) /\ SavedStay(server)
  BY DEF AgentInv, LifecycleInv, TypedInv, Typed, WorkflowTypeOK, Listed, AgentListed

LEMMA GetIsQuiet ==
  ASSUME AgentInv, "crash" \notin Tools, NEW c \in ChangeSetIds, GetChangeSet(c)
  PROVE  Quiet(server, server', session)
  <1>1. PICK n : n = Reconciled(server, c) /\ Finish(n, {})
    BY DEF GetChangeSet
  <1>2. server' = n
    BY <1>1 DEF Finish
  <1>3. n \in Servers /\ n.live = server.live /\ n.cps = server.cps /\ SameOperations(server, n)
    BY <1>1, AgentServer, ReconciledFacts
  <1>4. AppliedTogether(server, n, session)
    BY <1>1, AgentServer, ReconciledTogether
  <1>5. KeepsCheckpoints(server, n)
    BY <1>3, SameCheckpointsAreKept
  <1> QED
    BY <1>2, <1>3, <1>4, <1>5, AgentServer, SameListsAreQuiet

\* A restart of the server counts no operation as applied.
LEMMA LoadedIsQuiet ==
  ASSUME AgentInv, server' = Loaded(server)
  PROVE  Quiet(server, server', session)
  <1>1. PICK n : n = Loaded(server)
    OBVIOUS
  <1>2. /\ n \in Servers /\ n.live = server.live /\ n.cps = server.cps /\ SameOperations(server, n)
        /\ \A d \in ChangeSetIds : \A i \in DOMAIN server.ops[d] :
             n.ops[d][i].status = IF server.ops[d][i].status = "applied" THEN "unknown" ELSE server.ops[d][i].status
    BY <1>1, AgentServer, LoadedFacts
  <1>3. AppliedTogether(server, n, session)
    BY <1>2 DEF AppliedTogether, SameOperations
  <1>4. KeepsCheckpoints(server, n)
    BY <1>2, SameCheckpointsAreKept
  <1> QED
    BY <1>1, <1>2, <1>3, <1>4, AgentServer, SameListsAreQuiet

\* Only operations without a live record are forgotten.
LEMMA ForgottenIsQuiet ==
  ASSUME AgentInv, NEW n \in Servers, n.live = server.live, n.cps = server.cps,
         \A c \in ChangeSetIds :
           \/ n.ops[c] = server.ops[c]
           \/ n.ops[c] = <<>> /\ \A i \in DOMAIN server.ops[c] : \A l \in server.live : l.receipt # server.ops[c][i].receipt
  PROVE  Quiet(server, n, session)
  <1>1. DOMAIN << >> = {}
    OBVIOUS
  <1>2. KeepsPending(server, n) /\ KeepsCheckpoints(server, n)
    BY SameCheckpointsAreKept DEF KeepsPending
  <1>3. KeepsReceipts(server, n)
    BY <1>1 DEF KeepsReceipts
  <1>4. \A c \in ChangeSetIds : \A i \in DOMAIN n.ops[c] :
          /\ i \in DOMAIN server.ops[c] /\ n.ops[c][i].receipt = server.ops[c][i].receipt
          /\ n.ops[c][i].status = server.ops[c][i].status
    BY <1>1
  <1>5. AppliedTogether(server, n, session)
    BY <1>4, SameStatusesAreTogether
  <1> QED
    BY <1>2, <1>3, <1>5 DEF Quiet

LEMMA DiscardIsQuiet ==
  ASSUME AgentInv, "crash" \notin Tools, NEW c \in ChangeSetIds, DiscardEmpty(c)
  PROVE  Quiet(server, server', session)
  <1>1. PICK n : n = Forget(server, {c}) /\ Finish(n, {})
    BY DEF DiscardEmpty
  <1>2. server' = n /\ server.ops[c] = <<>>
    BY <1>1 DEF Finish, DiscardEmpty
  <1>3. /\ n \in Servers /\ n.live = server.live /\ n.cps = server.cps
        /\ \A d \in ChangeSetIds : n.ops[d] = IF d \in {c} THEN <<>> ELSE server.ops[d]
    BY <1>1, AgentServer, ForgetFacts
  <1>4. \A d \in ChangeSetIds : n.ops[d] = server.ops[d]
    BY <1>2, <1>3
  <1> QED
    BY <1>2, <1>3, <1>4, ForgottenIsQuiet

LEMMA CreateIsQuiet ==
  ASSUME AgentInv, "crash" \notin Tools, NEW c \in ChangeSetIds, CreateChangeSet(c)
  PROVE  Quiet(server, server', session)
  <1>1. /\ server' \in Servers /\ server'.live = server.live /\ server'.cps = server.cps
        /\ \/ server'.ops = server.ops
           \/ \E d \in ChangeSetIds : /\ IsTerminal(Statuses(server, d))
                                      /\ \A e \in ChangeSetIds : server'.ops[e] = IF e = d THEN <<>> ELSE server.ops[e]
    BY CreateCall DEF AgentInv
  <1>2. ASSUME NEW d \in ChangeSetIds, IsTerminal(Statuses(server, d)), NEW i \in DOMAIN server.ops[d],
               NEW l \in server.live, l.receipt = server.ops[d][i].receipt
        PROVE  FALSE
    <2>1. server.ops[d][i].status \in {"applied", "unknown", "saved"}
      BY <1>2, AgentServer DEF LiveIsOpen, OpenStatus
    <2>2. server.ops[d][i].status \in Statuses(server, d)
      BY DEF Statuses
    <2> QED
      BY <1>2, <2>1, <2>2 DEF IsTerminal, DeriveStatus, TerminalStatuses
  <1>3. \A e \in ChangeSetIds :
          \/ server'.ops[e] = server.ops[e]
          \/ server'.ops[e] = <<>> /\ \A i \in DOMAIN server.ops[e] : \A l \in server.live : l.receipt # server.ops[e][i].receipt
    BY <1>1, <1>2
  <1> QED
    BY <1>1, <1>3, ForgottenIsQuiet

\* Live records that leave with their operations' statuses.
LEMMA RemovedIsTogether ==
  ASSUME NEW m, NEW n, NEW R, NEW s, SameOperations(m, n), n.live = {l \in m.live : l.receipt \notin R},
         \A c \in ChangeSetIds : \A i \in DOMAIN m.ops[c] :
           n.ops[c][i].status = m.ops[c][i].status \/ m.ops[c][i].receipt \in R
  PROVE  AppliedTogether(m, n, s) /\ KeepsReceipts(m, n)
  <1>1. \A y \in n.live : y \in m.live /\ y.receipt \notin R
    OBVIOUS
  <1>2. \A c \in ChangeSetIds : \A i \in DOMAIN n.ops[c] :
          /\ i \in DOMAIN m.ops[c] /\ n.ops[c][i].receipt = m.ops[c][i].receipt
          /\ \/ n.ops[c][i].status = m.ops[c][i].status
             \/ \A l \in n.live : l.receipt # n.ops[c][i].receipt
    BY <1>1 DEF SameOperations
  <1>3. AppliedTogether(m, n, s)
    BY <1>1, <1>2, SameStatusesAreTogether
  <1> QED
    BY <1>3 DEF KeepsReceipts, SameOperations

\* They were saved.
LEMMA RemovedIsQuiet ==
  ASSUME NEW m, NEW n \in Servers, NEW R, SameOperations(m, n), n.live = {l \in m.live : l.receipt \notin R},
         \A c \in ChangeSetIds : \A i \in DOMAIN m.ops[c] :
           n.ops[c][i].status = m.ops[c][i].status \/ m.ops[c][i].receipt \in R,
         \A l \in m.live : l.receipt \in R => l.saved,
         KeepsCheckpoints(m, n)
  PROVE  Quiet(m, n, session)
  <1>1. AppliedTogether(m, n, session) /\ KeepsReceipts(m, n)
    BY RemovedIsTogether
  <1>2. KeepsPending(m, n)
    BY DEF KeepsPending
  <1> QED
    BY <1>1, <1>2 DEF Quiet

LEMMA VerifyWriteIsQuiet ==
  ASSUME AgentInv, "crash" \notin Tools, NEW c \in MaybeChangeSet, NEW r \in Receipts, VerifyLiveWrite(c, r)
  PROVE  Quiet(server, server', session)
  <1>1. PICK s, R, updated, m :
          /\ s = "verified" /\ R = {r}
          /\ updated = SetStatus(server, c, R, s) /\ m = WithoutLive(updated, r) /\ Finish(m, {updated})
    BY DEF VerifyLiveWrite
  <1>2. s \in OperationStatuses /\ updated = SetStatus(server, c, R, s) /\ server \in Servers /\ AreWrites(R)
    BY <1>1, AgentServer, WrittenReceipts DEF OperationStatuses
  <1>3. /\ updated \in Servers /\ updated.live = server.live /\ updated.cps = server.cps
        /\ SameOperations(server, updated)
        /\ \A d \in ChangeSetIds : \A i \in DOMAIN server.ops[d] :
             updated.ops[d][i].status = IF d = c /\ c # NoChangeSet /\ server.ops[d][i].receipt \in R THEN s
                                        ELSE server.ops[d][i].status
    BY <1>2, SetStatusFacts
  <1>4. /\ m \in Servers /\ m.ops = updated.ops /\ m.cps = updated.cps
        /\ m.live = {l \in updated.live : l.receipt # r}
    <2>1. m = WithoutLive(updated, r) /\ updated \in Servers
      BY <1>1, <1>3
    <2> QED
      BY <2>1, WithoutLiveFacts
  <1>5. server' = m
    BY <1>1 DEF Finish
  <1>6. \A l \in server.live : l.receipt \in R => l.saved
    <2>1. PICK k \in server.live : k.receipt = r /\ k.saved
      BY DEF VerifyLiveWrite
    <2> QED
      BY <1>1, <2>1, AgentServer DEF OneRecord
  <1>7. KeepsCheckpoints(server, m)
    BY <1>3, <1>4, SameCheckpointsAreKept
  <1>8. m.live = {l \in server.live : l.receipt \notin R}
    BY <1>1, <1>3, <1>4
  <1>9. /\ SameOperations(server, m)
        /\ \A d \in ChangeSetIds : \A i \in DOMAIN server.ops[d] :
             m.ops[d][i].status = server.ops[d][i].status \/ server.ops[d][i].receipt \in R
    BY <1>3, <1>4 DEF SameOperations
  <1> QED
    BY <1>4, <1>5, <1>6, <1>7, <1>8, <1>9, RemovedIsQuiet

\* A checkpoint that changes its state after it was saved.
LEMMA CheckpointMovesOn ==
  ASSUME NEW m, NEW n, NEW cp \in m.cps, cp.state # "prepared",
         \A k \in n.cps : k \in m.cps \/ SameCheckpoint(k, cp)
  PROVE  KeepsCheckpoints(m, n)
  BY DEF KeepsCheckpoints, SameCheckpoint

LEMMA VerifyCheckpointIsQuiet ==
  ASSUME AgentInv, "crash" \notin Tools, NEW cp \in server.cps, VerifyCheckpoint(cp)
  PROVE  Quiet(server, server', session)
  <1>1. server \in Servers /\ cp \in Checkpoints /\ cp.afterRev \in 0..NoRev /\ cp.state = "saved" /\ cp.cs \in ChangeSetIds
    BY AgentServer, ServerParts, CheckpointParts DEF VerifyCheckpoint
  <1>2. PICK s, r, R : s = "verified" /\ r = cp.afterRev /\ R = {w.receipt : w \in cp.effective}
    OBVIOUS
  <1>3. PICK verified, m :
          /\ verified = WithCheckpoint(server, cp, s, r) /\ m = VerifiedEffective(verified, cp, R, R)
          /\ Finish(m, {VerifiedEffective(verified, cp, p[1], p[2]) : p \in Stages(R)})
    BY <1>2, Zenon DEF VerifyCheckpoint
  <1>4. /\ verified \in Servers /\ verified.ops = server.ops /\ verified.live = server.live
        /\ \A k \in verified.cps : k \in server.cps \/ (SameCheckpoint(k, cp) /\ k.state = s /\ k.afterRev = r)
    <2>1. /\ s \in {"prepared", "saved", "verified", "stale"} /\ r \in 0..NoRev
          /\ verified = WithCheckpoint(server, cp, s, r) /\ server \in Servers /\ cp \in Checkpoints
      BY <1>1, <1>2, <1>3
    <2> QED
      BY <2>1, WithCheckpointFacts
  <1>5. /\ m \in Servers /\ m.cps = verified.cps /\ SameOperations(verified, m)
        /\ m.live = {l \in verified.live : l.receipt \notin R}
        /\ \A d \in ChangeSetIds : \A i \in DOMAIN verified.ops[d] :
             m.ops[d][i].status = verified.ops[d][i].status \/ verified.ops[d][i].receipt \in R
    <2>1. m = VerifiedEffective(verified, cp, R, R) /\ AreWrites(R)
      BY <1>1, <1>2, <1>3, WrittenReceipts
    <2> QED
      BY <1>1, <1>4, <2>1, VerifiedEffectiveFacts
  <1>6. server' = m
    BY <1>3 DEF Finish
  <1>7. \A l \in server.live : l.receipt \in R => l.saved
    BY <1>1, <1>2, AgentServer DEF SavedStay, CountsAsSaved
  <1>8. KeepsCheckpoints(server, m)
    BY <1>1, <1>4, <1>5, CheckpointMovesOn
  <1>9. /\ SameOperations(server, m) /\ m.live = {l \in server.live : l.receipt \notin R}
        /\ \A d \in ChangeSetIds : \A i \in DOMAIN server.ops[d] :
             m.ops[d][i].status = server.ops[d][i].status \/ server.ops[d][i].receipt \in R
    BY <1>4, <1>5 DEF SameOperations
  <1> QED
    BY <1>5, <1>6, <1>7, <1>8, <1>9, RemovedIsQuiet

LEMMA TurnsStaleIsQuiet ==
  ASSUME AgentInv, "crash" \notin Tools, NEW cp \in server.cps, CheckpointTurnsStale(cp)
  PROVE  Quiet(server, server', session)
  <1>1. server \in Servers /\ cp \in Checkpoints /\ cp.afterRev \in 0..NoRev /\ cp.state = "saved"
    BY AgentServer, ServerParts, CheckpointParts DEF CheckpointTurnsStale
  <1>2. PICK s, r, m : s = "stale" /\ r = cp.afterRev /\ m = WithCheckpoint(server, cp, s, r) /\ Finish(m, {})
    BY DEF CheckpointTurnsStale
  <1>3. s \in {"prepared", "saved", "verified", "stale"} /\ r \in 0..NoRev /\ m = WithCheckpoint(server, cp, s, r)
    BY <1>1, <1>2
  <1>4. /\ m \in Servers /\ m.ops = server.ops /\ m.live = server.live
        /\ \A k \in m.cps : k \in server.cps \/ (SameCheckpoint(k, cp) /\ k.state = s /\ k.afterRev = r)
    <2>1. /\ s \in {"prepared", "saved", "verified", "stale"} /\ r \in 0..NoRev
          /\ m = WithCheckpoint(server, cp, s, r) /\ server \in Servers /\ cp \in Checkpoints
      BY <1>1, <1>3
    <2> QED
      BY <2>1, WithCheckpointFacts
  <1>5. KeepsCheckpoints(server, m)
    BY <1>1, <1>4, CheckpointMovesOn
  <1>6. server' = m
    BY <1>2 DEF Finish
  <1>7. SameOperations(server, m) /\ \A y \in m.live : y \in server.live
    BY <1>4 DEF SameOperations
  <1>8. AppliedTogether(server, m, session)
    BY <1>4, <1>7, SameStatusesAreTogether
  <1> QED
    BY <1>1, <1>4, <1>5, <1>6, <1>7, <1>8, SameListsAreQuiet

\* A prepared checkpoint lists writes.
LEMMA CheckpointPreviewIsQuiet ==
  ASSUME AgentInv, "crash" \notin Tools, NEW c \in ChangeSetIds, NEW a \in Assets, CheckpointPreview(c, a)
  PROVE  Quiet(server, server', session)
  <1>1. /\ server \in Servers /\ NextSave \in SaveIds /\ session \in 1..MaxSessions /\ NoRev \in 0..NoRev
    <2>1. WorkflowTypeOK /\ lastSave < MaxSaves
      BY AgentServer DEF Typed, CheckpointPreview
    <2> QED
      BY <2>1, AgentServer, NewSave, EditorNumbers
  <1>2. PICK k, journal, x, n :
          /\ k = [id |-> NextSave, cs |-> c, asset |-> a, state |-> "prepared",
                  sess |-> session, afterRev |-> NoRev, effective |-> AsWrites(Effective(c, a)),
                  superseded |-> SupersededBy(c, a)]
          /\ journal = [server EXCEPT !.cps = @ \cup {k}]
          /\ x = Authorization(a, "checkpoint") /\ n = Granted(journal, x)
          /\ Finish(n, {journal})
    BY DEF CheckpointPreview, NextSave, Granted
  <1>3. k \in Checkpoints /\ k.state = "prepared" /\ k.effective = AsWrites(Effective(c, a))
    BY <1>1, <1>2, AgentServer, WritesOfRecords DEF Checkpoints
  <1>4. k.effective # {}
    <2>1. PICK l : l \in Effective(c, a)
      BY DEF CheckpointPreview
    <2>2. [receipt |-> l.receipt, target |-> l.target, after |-> l.after] \in AsWrites(Effective(c, a))
      BY <2>1 DEF AsWrites
    <2> QED
      BY <1>3, <2>2
  <1>5. x \in Authorizations
    BY <1>1, <1>2, AgentServer, AuthorizationFacts
  <1>6. PICK v : v = server.cps \cup {k}
    OBVIOUS
  <1>7. v \in SUBSET Checkpoints /\ journal = WithCheckpoints(server, v)
    BY <1>1, <1>2, <1>3, <1>6, ServerParts DEF WithCheckpoints
  <1>8. journal \in Servers /\ journal.ops = server.ops /\ journal.live = server.live /\ journal.cps = v
    BY <1>1, <1>7, ServerField
  <1>9. n \in Servers /\ n.ops = journal.ops /\ n.live = journal.live /\ n.cps = journal.cps
    <2>1. n = Granted(journal, x)
      BY <1>2
    <2> QED
      BY <1>5, <1>8, <2>1, GrantedFacts
  <1>10. KeepsCheckpoints(server, n)
    BY <1>3, <1>4, <1>6, <1>8, <1>9 DEF KeepsCheckpoints
  <1>11. server' = n
    BY <1>2 DEF Finish
  <1>12. SameOperations(server, n) /\ \A y \in n.live : y \in server.live
    BY <1>8, <1>9 DEF SameOperations
  <1>13. AppliedTogether(server, n, session)
    BY <1>8, <1>9, <1>12, SameStatusesAreTogether
  <1> QED
    BY <1>1, <1>8, <1>9, <1>10, <1>11, <1>12, <1>13, SameListsAreQuiet

\* An old operation stays where it is.
LEMMA OldOperations ==
  ASSUME NEW m \in Servers, NEW n, NEW c, NEW r, AddsTo(m, n, c, r), NEW e \in ChangeSetIds
  PROVE  /\ \A i \in DOMAIN m.ops[e] : i \in DOMAIN n.ops[e] /\ n.ops[e][i] = m.ops[e][i]
         /\ n.ops[e] # m.ops[e] => e = c /\ \E i \in DOMAIN n.ops[e] : n.ops[e][i].receipt = r
  <1>1. CASE n.ops[e] = m.ops[e]
    BY <1>1
  <1>2. CASE n.ops[e] # m.ops[e]
    <2>1. e = c
      BY <1>2 DEF AddsTo
    <2>2. PICK o \in Operations : n.ops[e] = Append(m.ops[e], o) /\ o.receipt = r
      BY <1>2, <2>1 DEF AddsTo, Grew
    <2>3. m.ops[e] \in Seq(Operations)
      BY ServerParts
    <2>4. /\ Len(m.ops[e]) \in Nat
          /\ DOMAIN m.ops[e] = 1..Len(m.ops[e]) /\ DOMAIN n.ops[e] = 1..(Len(m.ops[e]) + 1)
          /\ \A i \in DOMAIN m.ops[e] : n.ops[e][i] = m.ops[e][i]
          /\ n.ops[e][Len(m.ops[e]) + 1] = o
      BY <2>2, <2>3, OperationAdded
    <2> QED
      BY <2>1, <2>2, <2>4
  <1> QED
    BY <1>1, <1>2

\* A write is of a new receipt, or of none.
IsNewReceipt(r) == r = NoReceipt \/ r = NextReceipt

LEMMA NewReceiptIsNew ==
  ASSUME AgentInv, NEW r, IsNewReceipt(r)
  PROVE  /\ \A l \in server.live : l.receipt # r
         /\ \A c \in ChangeSetIds : \A i \in DOMAIN server.ops[c] : server.ops[c][i].receipt = r => r = NoReceipt
  <1>1. lastTx \in Nat
    BY AgentServer, EditorNumbers
  <1>2. ReceiptsUpTo(server, lastTx)
    BY AgentServer DEF Listed
  <1>3. \A l \in server.live : l.receipt \in Nat /\ l.receipt # NoReceipt
    BY AgentServer, ReceiptNumbers
  <1>4. \A c \in ChangeSetIds : \A i \in DOMAIN server.ops[c] : server.ops[c][i].receipt \in Nat
    BY AgentServer, ReceiptNumbers
  <1> QED
    BY <1>1, <1>2, <1>3, <1>4 DEF IsNewReceipt, NextReceipt, ReceiptsUpTo

\* A change set that takes a write counts all its pending writes as applied.
LEMMA WriteIsTogether ==
  ASSUME AgentInv, EditorAvailable, NEW c \in ChangeSetIds, NEW b, b = Reconciled(server, c),
         NEW r, IsNewReceipt(r), NEW a, NEW t, NEW n \in Servers, AddsTo(b, n, c, r), LiveAdded(b, n, r, a, t)
  PROVE  AppliedTogether(server, n, session)
  <1>1. /\ b \in Servers /\ b.live = server.live /\ SameOperations(server, b)
        /\ \A d \in ChangeSetIds : \A i \in DOMAIN server.ops[d] :
             b.ops[d][i].status = IF d = c THEN ReconciledStatus(server, server.ops[d][i]) ELSE server.ops[d][i].status
    BY AgentServer, ReconciledFacts
  <1>2. \A i \in DOMAIN b.ops[c] : IsPendingIn(b, session, c, i) => b.ops[c][i].status = "applied"
    BY AgentServer, ReconciledTogether
  <1>3. /\ \A l \in server.live : l.receipt # r
        /\ \A d \in ChangeSetIds : \A i \in DOMAIN b.ops[d] : b.ops[d][i].receipt = r => r = NoReceipt
    BY <1>1, NewReceiptIsNew DEF SameOperations
  <1>4. \A l \in n.live : l.receipt # NoReceipt
    BY ReceiptNumbers
  <1>5. ASSUME NEW d \in ChangeSetIds, NEW i \in DOMAIN n.ops[d], IsPendingIn(n, session, d, i)
        PROVE  \/ i \in DOMAIN b.ops[d] /\ n.ops[d][i] = b.ops[d][i] /\ IsPendingIn(b, session, d, i)
               \/ n.ops[d] # b.ops[d] /\ n.ops[d][i].status = "applied"
    <2>1. PICK l \in n.live : ~l.saved /\ l.sess = session /\ l.receipt = n.ops[d][i].receipt
      BY <1>5 DEF IsPendingIn, PendingLive
    <2>2. \/ i \in DOMAIN b.ops[d] /\ n.ops[d][i] = b.ops[d][i]
          \/ /\ i = Len(b.ops[d]) + 1 /\ n.ops[d][i].receipt = r
             /\ r # NoReceipt => n.ops[d][i].status = "applied"
      BY <1>1, AddedOperations
    <2>3. CASE i \in DOMAIN b.ops[d] /\ n.ops[d][i] = b.ops[d][i]
      <3>1. l \in b.live
        BY <1>3, <1>4, <2>1, <2>3 DEF LiveAdded
      <3> QED
        BY <2>1, <2>3, <3>1 DEF IsPendingIn, PendingLive
    <2>4. CASE ~(i \in DOMAIN b.ops[d] /\ n.ops[d][i] = b.ops[d][i])
      BY <1>4, <2>1, <2>2, <2>4
    <2> QED
      BY <2>2, <2>3, <2>4
  <1>6. \A d \in ChangeSetIds \ {c} : n.ops[d] = b.ops[d]
    BY DEF AddsTo
  <1>7. ASSUME NEW d \in ChangeSetIds
        PROVE  \/ \A i \in DOMAIN n.ops[d] : IsPendingIn(n, session, d, i) =>
                    /\ i \in DOMAIN server.ops[d] /\ IsPendingIn(server, session, d, i)
                    /\ n.ops[d][i].status = "applied" <=> server.ops[d][i].status = "applied"
               \/ \A i \in DOMAIN n.ops[d] : IsPendingIn(n, session, d, i) => n.ops[d][i].status = "applied"
    <2>1. CASE d = c
      BY <1>2, <1>5, <2>1
    <2>2. CASE d # c
      <3>1. \A i \in DOMAIN b.ops[d] : /\ i \in DOMAIN server.ops[d] /\ b.ops[d][i].receipt = server.ops[d][i].receipt
                                       /\ b.ops[d][i].status = server.ops[d][i].status
                                       /\ IsPendingIn(b, session, d, i) => IsPendingIn(server, session, d, i)
        BY <1>1, <2>2 DEF SameOperations, IsPendingIn, PendingLive
      <3> QED
        BY <1>5, <1>6, <2>2, <3>1
    <2> QED
      BY <2>1, <2>2
  <1> QED
    BY <1>7 DEF AppliedTogether

\* A write without effect.
LEMMA ApplyNoChangeIsQuiet ==
  ASSUME AgentInv, "crash" \notin Tools, "unbound" \notin Tools, NEW c \in MaybeChangeSet, NEW a \in Assets,
         ApplyNoChange(c, a)
  PROVE  Quiet(server, server', session)
  <1>1. c \in ChangeSetIds /\ c # NoChangeSet /\ EditorAvailable
    BY DEF ApplyNoChange, ApplyCallable, MaybeChangeSet, ApplyUnchanged, ApplyAllowed, EditorAvailable
  <1>2. PICK b, r, s : b = Reconciled(server, c) /\ r = NoReceipt /\ s = "no-op"
    OBVIOUS
  <1>3. PICK m :
          /\ m = AppendOperation(b, c, a, r, s) /\ Accepts(b, c)
          /\ Finish(m, {b}) \/ server' = b
    BY <1>1, <1>2 DEF ApplyNoChange, Begun
  <1>4. /\ b \in Servers /\ b.live = server.live /\ b.cps = server.cps /\ SameOperations(server, b)
    BY <1>1, <1>2, AgentServer, ReconciledFacts
  <1>5. Quiet(server, b, session)
    <2>1. AppliedTogether(server, b, session)
      BY <1>1, <1>2, AgentServer, ReconciledTogether
    <2>2. KeepsCheckpoints(server, b)
      BY <1>4, SameCheckpointsAreKept
    <2> QED
      BY <1>4, <2>1, <2>2, AgentServer, SameListsAreQuiet
  <1>6. m \in Servers /\ m.live = b.live /\ m.cps = b.cps /\ AddsTo(b, m, c, r)
    <2>1. /\ EditorInv /\ b \in Servers /\ c \in ChangeSetIds /\ c # NoChangeSet /\ Accepts(b, c)
          /\ (r \in Receipts \/ r = NoReceipt) /\ s \in {"applied", "no-op"} /\ (r # NoReceipt => s = "applied")
          /\ m = AppendOperation(b, c, a, r, s)
      BY <1>1, <1>2, <1>3, <1>4, AgentServer
    <2> QED
      BY <2>1, AppendAddsTo
  <1>7. Quiet(server, m, session)
    <2>1. LiveAdded(b, m, r, a, a) /\ IsNewReceipt(r)
      BY <1>2, <1>6 DEF LiveAdded, IsNewReceipt
    <2>2. AppliedTogether(server, m, session)
      BY <1>1, <1>2, <1>6, <2>1, WriteIsTogether
    <2>3. KeepsCheckpoints(server, m) /\ KeepsPending(server, m)
      BY <1>4, <1>6, SameCheckpointsAreKept DEF KeepsPending
    <2>4. ASSUME NEW e \in ChangeSetIds
          PROVE  /\ \A i \in DOMAIN m.ops[e] :
                      \/ m.ops[e][i].receipt = NoReceipt
                      \/ i \in DOMAIN server.ops[e] /\ m.ops[e][i].receipt = server.ops[e][i].receipt
                 /\ \A i \in DOMAIN server.ops[e] : i \in DOMAIN m.ops[e] /\ m.ops[e][i].receipt = server.ops[e][i].receipt
      <3>1. \A i \in DOMAIN m.ops[e] :
                \/ i \in DOMAIN b.ops[e] /\ m.ops[e][i] = b.ops[e][i]
                \/ m.ops[e][i].receipt = r
        BY <1>4, <1>6, AddedOperations
      <3>2. \A i \in DOMAIN b.ops[e] : i \in DOMAIN m.ops[e] /\ m.ops[e][i] = b.ops[e][i]
        BY <1>4, <1>6, OldOperations
      <3> QED
        BY <1>2, <1>4, <3>1, <3>2 DEF SameOperations
    <2>5. KeepsReceipts(server, m)
      BY <2>4 DEF KeepsReceipts
    <2> QED
      BY <1>6, <2>2, <2>3, <2>5 DEF Quiet
  <1> QED
    BY <1>3, <1>5, <1>7 DEF Finish

\* With fewer writes than live records are kept, none is dropped.
LEMMA PrunesNone ==
  ASSUME NEW m \in Servers, OneRecord(m), MaxTx <= MaxLive, NEW kept \in Prunings(m.live), NEW n, n = Pruned(m, kept)
  PROVE  n.live = m.live
  <1>1. kept \subseteq m.live /\ (kept = m.live \/ Cardinality(kept) = MaxLive)
    BY DEF Prunings
  <1>2. n.live = kept
    <2>1. n = WithLive(m, kept)
      BY DEF Pruned, WithLive
    <2> QED
      BY <1>1, <2>1, FewerLiveFacts
  <1>3. ASSUME NEW l \in m.live, l \notin kept
        PROVE  Cardinality(kept) < MaxLive
    <2>1. /\ MaxTx \in Nat /\ MaxLive \in Nat
          /\ \A k \in m.live : k.receipt \in 1..MaxTx
      BY ReceiptNumbers, BoundsAssumption, WorkflowBoundsAssumption DEF Receipts, TxIds
    <2>2. PICK f : f = [k \in kept |-> k.receipt]
      OBVIOUS
    <2>3. \A k \in kept : k.receipt # l.receipt
      BY <1>1, <1>3 DEF OneRecord
    <2>4. f \in [kept -> (1..MaxTx) \ {l.receipt}]
      BY <1>1, <2>1, <2>2, <2>3
    <2>5. \A x, y \in kept : f[x] = f[y] => x = y
      BY <1>1, <2>2 DEF OneRecord
    <2>6. f \in Injection(kept, (1..MaxTx) \ {l.receipt})
      BY <2>4, <2>5, Fun_IsInj
    <2>7. IsFiniteSet(1..MaxTx) /\ Cardinality(1..MaxTx) = MaxTx
      BY <2>1, FS_Interval
    <2>8. IsFiniteSet((1..MaxTx) \ {l.receipt}) /\ Cardinality((1..MaxTx) \ {l.receipt}) = MaxTx - 1
      BY <2>1, <2>7, FS_RemoveElement
    <2>9. IsFiniteSet(kept) /\ Cardinality(kept) <= MaxTx - 1
      BY <2>6, <2>8, FS_Injection
    <2>10. Cardinality(kept) \in Nat
      BY <2>9, FS_CardinalityType
    <2> QED
      BY <2>1, <2>9, <2>10
  <1>4. kept = m.live
    <2>1. CASE Cardinality(kept) = MaxLive
      <3>1. MaxLive \in Nat
        BY WorkflowBoundsAssumption
      <3>2. ~(MaxLive < MaxLive)
        BY <3>1
      <3>3. \A l \in m.live : l \in kept
        BY <1>3, <2>1, <3>2
      <3> QED
        BY <1>1, <3>3
    <2> QED
      BY <1>1, <2>1
  <1> QED
    BY <1>2, <1>4

\* A write's new record and operation are known to server and Editor.
LEMMA ApplyKeepsListed ==
  ASSUME AgentInv, "crash" \notin Tools, "lost" \notin Tools, "unbound" \notin Tools, MaxTx <= MaxLive,
         NEW c \in MaybeChangeSet, NEW a \in Assets, NEW t \in Targets, NEW v \in Values, Apply(c, a, t, v)
  PROVE  AgentListed(server)' /\ AgentEditorParts' /\ server'.cps = server.cps
         /\ UNCHANGED <<backups, link, disk, rev>>
  <1>1. c \in ChangeSetIds /\ c # NoChangeSet
    BY DEF Apply, ApplyCallable, MaybeChangeSet
  <1>2. PICK b, x, r, s, y, m, p, kept :
          /\ b = Reconciled(server, c) /\ x = WithWrite(b, a, t, v) /\ r = NextReceipt /\ s = "applied"
          /\ y = AppendOperation(x, c, a, r, s) /\ kept \in Prunings(y.live) /\ m = Pruned(y, kept)
          /\ p = PreviousTransaction(b, c, a)
          /\ ApplyChanged(a, t, v, p) /\ Accepts(b, c) /\ Finish(m, {b, x, y})
    BY <1>1 DEF Apply, Begun, NextReceipt
  <1>3. /\ EditorInv /\ AgentEditorInv /\ EditorAvailable /\ r \in Receipts /\ r \in Nat /\ lastTx \in Nat /\ r > lastTx
        /\ UNCHANGED <<link, session, disk, rev, backups>> /\ lastTx < MaxTx
    <2>1. /\ link = "available" /\ lastTx < MaxTx /\ UNCHANGED <<link, session, disk, rev, backups>>
      BY <1>2 DEF ApplyChanged, ApplyAllowed, RecordTransaction, linkVars, diskVars, Apply
    <2>2. EditorInv /\ AgentEditorInv /\ lastTx \in Nat
      BY AgentServer, EditorNumbers DEF AgentInv
    <2>3. NextReceipt \in Receipts
      BY <2>1, <2>2, NewReceipt
    <2> QED
      BY <1>2, <2>1, <2>2, <2>3 DEF EditorAvailable, NextReceipt
  <1>4. PICK q : /\ q.id = r /\ q.target = t /\ q.after = v /\ Pending(a)' = Pending(a) \cup {q}
    <2>1. \E z : z.id = lastTx + 1 /\ z.target = t /\ z.after = v /\ Pending(a)' = Pending(a) \cup {z}
      BY <1>2, <1>3, AgentApply
    <2> QED
      BY <1>2, <2>1 DEF NextReceipt
  <1>5. /\ AgentEditorParts' /\ \A d \in Assets \ {a} : Pending(d)' = Pending(d)
        /\ Pending(a) = {} \/ \E z \in Pending(a) : z.id = p
    BY <1>2, <1>3, AgentApply
  <1>6. b \in Servers /\ b.live = server.live /\ b.cps = server.cps /\ SameOperations(server, b)
    BY <1>1, <1>2, AgentServer, ReconciledFacts
  <1>7. /\ x \in Servers /\ x.ops = b.ops /\ x.cps = b.cps
        /\ \E l : /\ x.live = b.live \cup {l}
                  /\ l.receipt = NextReceipt /\ l.asset = a /\ l.target = t /\ l.after = v /\ l.sess = session /\ ~l.saved
    <2>1. EditorInv /\ NextReceipt \in Receipts /\ b \in Servers /\ x = WithWrite(b, a, t, v)
      BY <1>2, <1>3, <1>6
    <2> QED
      BY <2>1, WithWriteFacts
  <1>8. PICK new : /\ x.live = server.live \cup {new}
                   /\ new.receipt = r /\ new.asset = a /\ new.target = t /\ new.after = v /\ new.sess = session /\ ~new.saved
    BY <1>2, <1>6, <1>7
  <1>9. y \in Servers /\ y.live = x.live /\ y.cps = x.cps /\ AddsTo(b, y, c, r)
    <2>1. /\ EditorInv /\ b \in Servers /\ x \in Servers /\ x.ops = b.ops /\ c \in ChangeSetIds /\ c # NoChangeSet
          /\ Accepts(b, c) /\ a \in Assets /\ (r \in Receipts \/ r = NoReceipt) /\ s \in {"applied", "no-op"}
          /\ (r # NoReceipt => s = "applied") /\ y = AppendOperation(x, c, a, r, s)
      BY <1>1, <1>2, <1>3, <1>6, <1>7
    <2> QED
      BY <2>1, AppendAddsTo
  <1>10. /\ r # NoReceipt /\ \A l \in server.live : l.receipt # r
         /\ \A d \in ChangeSetIds : \A i \in DOMAIN b.ops[d] : b.ops[d][i].receipt # r
    <2>1. r # NoReceipt
      BY <1>3, OperationParts
    <2> QED
      BY <1>2, <1>6, <2>1, NewReceiptIsNew DEF SameOperations, IsNewReceipt
  <1>11. OneRecord(y)
    BY <1>8, <1>9, <1>10, AgentServer DEF OneRecord
  <1>12. /\ m \in Servers /\ m.ops = y.ops /\ m.cps = server.cps /\ m.live = server.live \cup {new} /\ OneRecord(m)
    <2>1. m.live = y.live
      BY <1>2, <1>9, <1>11, PrunesNone
    <2>2. m \in Servers /\ m.ops = y.ops /\ m.cps = y.cps
      BY <1>2, <1>9, PrunedFacts
    <2> QED
      BY <1>6, <1>7, <1>8, <1>9, <1>11, <2>1, <2>2 DEF OneRecord
  <1>13. server' = m
    BY <1>2 DEF Finish
  <1>14. \A d \in ChangeSetIds : \A i \in DOMAIN m.ops[d] :
           \/ i \in DOMAIN b.ops[d] /\ m.ops[d][i] = b.ops[d][i]
           \/ d = c /\ i = Len(b.ops[d]) + 1 /\ m.ops[d][i].receipt = r
    <2> SUFFICES ASSUME NEW d \in ChangeSetIds, NEW i \in DOMAIN m.ops[d]
                 PROVE  \/ i \in DOMAIN b.ops[d] /\ m.ops[d][i] = b.ops[d][i]
                        \/ d = c /\ i = Len(b.ops[d]) + 1 /\ m.ops[d][i].receipt = r
      OBVIOUS
    <2>1. CASE d = c
      <3>1. \/ i \in DOMAIN b.ops[d] /\ y.ops[d][i] = b.ops[d][i]
            \/ i = Len(b.ops[d]) + 1 /\ y.ops[d][i].receipt = r
        BY <1>6, <1>9, <1>12, AddedOperations
      <3> QED
        BY <1>12, <2>1, <3>1
    <2>2. CASE d # c
      BY <1>9, <1>12, <2>2 DEF AddsTo
    <2> QED
      BY <2>1, <2>2
  <1>15. /\ \A d \in ChangeSetIds : \A i \in DOMAIN b.ops[d] : i \in DOMAIN m.ops[d] /\ m.ops[d][i] = b.ops[d][i]
         /\ \E i \in DOMAIN m.ops[c] : m.ops[c][i].receipt = r
    <2>1. \A d \in ChangeSetIds : \A i \in DOMAIN b.ops[d] : i \in DOMAIN y.ops[d] /\ y.ops[d][i] = b.ops[d][i]
      BY <1>6, <1>9, OldOperations
    <2>2. PICK o \in Operations : y.ops[c] = Append(x.ops[c], o) /\ o.receipt = r
      <3>1. s \in OperationStatuses
        BY <1>2 DEF OperationStatuses
      <3>2. \E o \in Operations : o.receipt = r /\ o.asset = a /\ o.status = s /\ Grew(x, y, c, o)
        BY <1>1, <1>2, <1>3, <1>7, <3>1, AppendOperationFacts
      <3> QED
        BY <3>2 DEF Grew
    <2>3. x.ops[c] \in Seq(Operations)
      BY <1>1, <1>7, ServerParts
    <2>4. Len(x.ops[c]) + 1 \in DOMAIN y.ops[c] /\ y.ops[c][Len(x.ops[c]) + 1] = o
      <3>1. Len(x.ops[c]) \in Nat /\ DOMAIN y.ops[c] = 1..(Len(x.ops[c]) + 1) /\ y.ops[c][Len(x.ops[c]) + 1] = o
        BY <2>2, <2>3, OperationAdded
      <3> QED
        BY <3>1
    <2> QED
      BY <1>12, <2>1, <2>2, <2>4
  <1>16. OneOwner(m)
    <2> SUFFICES ASSUME NEW d \in ChangeSetIds, NEW e \in ChangeSetIds, NEW i \in DOMAIN m.ops[d], NEW j \in DOMAIN m.ops[e],
                        m.ops[d][i].receipt = m.ops[e][j].receipt, m.ops[d][i].receipt # NoReceipt
                 PROVE  d = e
      BY DEF OneOwner
    <2>1. \A f, g \in ChangeSetIds : \A k \in DOMAIN b.ops[f], l \in DOMAIN b.ops[g] :
            b.ops[f][k].receipt = b.ops[g][l].receipt /\ b.ops[f][k].receipt # NoReceipt => f = g
      BY <1>6, AgentServer DEF AgentListed, OneOwner, SameOperations
    <2>2. CASE i \in DOMAIN b.ops[d] /\ m.ops[d][i] = b.ops[d][i]
      BY <1>10, <1>14, <2>1, <2>2
    <2>3. CASE d = c /\ m.ops[d][i].receipt = r
      BY <1>10, <1>14, <2>3
    <2> QED
      BY <1>14, <2>2, <2>3
  <1>17. AllOrNoneApplied(m, session)
    <2>1. LiveAdded(b, m, r, a, t) /\ IsNewReceipt(r)
      BY <1>2, <1>6, <1>8, <1>12 DEF LiveAdded, IsNewReceipt
    <2>2. AddsTo(b, m, c, r)
      BY <1>9, <1>12 DEF AddsTo, Grew
    <2>3. AppliedTogether(server, m, session)
      BY <1>1, <1>2, <1>3, <1>12, <2>1, <2>2, WriteIsTogether
    <2> QED
      BY <2>3, AgentServer, TogetherIsAllOrNone DEF AgentListed
  <1>18. \A l : l \in PendingLive(m, session) <=> l \in PendingLive(server, session) \/ l = new
    BY <1>8, <1>12 DEF PendingLive
  <1>19. PendingIsLive(server)'
    BY <1>3, <1>4, <1>5, <1>8, <1>13, <1>18, AgentServer DEF AgentListed, PendingIsLive
  <1>20. LiveIsPending(server)'
    <2> SUFFICES ASSUME NEW l \in PendingLive(m, session)
                 PROVE  \E z \in Pending(l.asset)' : z.id = l.receipt /\ z.target = l.target /\ z.after = l.after
      BY <1>3, <1>13 DEF LiveIsPending, PendingLive
    <2>1. CASE l = new
      BY <1>4, <1>8, <2>1
    <2>2. CASE l \in PendingLive(server, session)
      <3>1. l.asset \in Assets
        BY <2>2, AgentServer, ServerParts DEF PendingLive, LiveApplies
      <3>2. Pending(l.asset) \subseteq Pending(l.asset)'
        BY <1>4, <1>5, <3>1
      <3>3. \E z \in Pending(l.asset) : z.id = l.receipt /\ z.target = l.target /\ z.after = l.after
        BY <1>3, <2>2, AgentServer DEF AgentListed, LiveIsPending, EditorAvailable
      <3> QED
        BY <3>2, <3>3
    <2> QED
      BY <1>18, <2>1, <2>2
  <1>21. LiveIsOfSessions(server)'
    <2>1. session \in Nat
      BY <1>3, EditorNumbers
    <2> QED
      BY <1>3, <1>8, <1>12, <1>13, <2>1, AgentServer DEF AgentListed, LiveIsOfSessions
  <1>22. PendingIsOwned(server)'
    <2> SUFFICES ASSUME NEW d \in Assets
                 PROVE  Pending(d)' = {} \/ \E e \in ChangeSetIds : \A z \in Pending(d)' : Owns(m, e, z.id)
      BY <1>13 DEF PendingIsOwned, Owns
    <2>1. \A e \in ChangeSetIds : \A k : Owns(server, e, k) => Owns(m, e, k)
      BY <1>6, <1>15 DEF Owns, SameOperations
    <2>2. Pending(d) = {} \/ \E e \in ChangeSetIds : \A z \in Pending(d) : Owns(server, e, z.id)
      BY AgentServer DEF AgentListed, PendingIsOwned
    <2>3. CASE d # a
      BY <1>5, <2>1, <2>2, <2>3
    <2>4. CASE d = a
      <3>1. Owns(m, c, r)
        BY <1>15 DEF Owns
      <3>2. CASE Pending(a) = {}
        BY <1>1, <1>4, <2>4, <3>1, <3>2
      <3>3. CASE Pending(a) # {}
        <4>1. PICK e \in ChangeSetIds : \A z \in Pending(a) : Owns(server, e, z.id)
          BY <2>2, <2>4, <3>3
        <4>2. PICK z \in Pending(a) : z.id = p
          BY <1>5, <3>3
        <4>3. p \in Receipts /\ p # NoReceipt /\ p # NoTx
          <5>1. z \in Records
            BY <1>3, <4>2, AgentTypes DEF AgentEditorInv, Pending
          <5>2. p \in TxIds
            BY <4>2, <5>1 DEF Records
          <5> QED
            BY <5>2 DEF TxIds, Receipts, NoReceipt, NoTx
        <4>4. \E i \in DOMAIN server.ops[c] : server.ops[c][i].receipt = p
          <5>1. b.ops[c] # <<>> /\ p = b.ops[c][Len(b.ops[c])].receipt
            BY <1>2, <4>3 DEF PreviousTransaction
          <5>2. b.ops[c] \in Seq(Operations)
            BY <1>1, <1>6, ServerParts
          <5>3. Len(b.ops[c]) \in DOMAIN b.ops[c]
            BY <5>1, <5>2
          <5> QED
            BY <1>1, <1>6, <5>1, <5>3 DEF SameOperations
        <4>5. e = c
          BY <1>1, <4>1, <4>2, <4>3, <4>4, AgentServer DEF AgentListed, OneOwner, Owns
        <4> QED
          BY <1>1, <1>4, <2>1, <2>4, <3>1, <4>1, <4>5
      <3> QED
        BY <3>2, <3>3
    <2> QED
      BY <2>3, <2>4
  <1>23. CheckpointsWrite(server') /\ SavedHaveBackups(server', backups')
    BY <1>3, <1>12, <1>13, AgentServer DEF AgentListed, CheckpointsWrite, SavedHaveBackups
  <1> QED
    BY <1>3, <1>5, <1>12, <1>13, <1>16, <1>17, <1>19, <1>20, <1>21, <1>22, <1>23 DEF AgentListed

\* A write undone or discarded is pending no more.
LEMMA RevertKeepsListed ==
  ASSUME AgentInv, "crash" \notin Tools, "lost" \notin Tools, NEW c \in MaybeChangeSet, NEW a \in Assets,
         NEW r \in Receipts, NEW s \in RevertStatuses, Revert(c, a, r, s)
  PROVE  AgentListed(server)' /\ AgentEditorParts' /\ server'.cps = server.cps
         /\ UNCHANGED <<backups, link, disk, rev>>
  <1>1. PICK updated, m, R :
          /\ R = {r} /\ updated = SetStatus(server, c, R, s) /\ m = WithoutLive(updated, r)
          /\ Finish(m, {server, updated})
    BY DEF Revert
  <1>2. server' = m /\ s \in OperationStatuses /\ AreWrites(R)
    BY <1>1, WrittenReceipts DEF Finish, RevertStatuses, OperationStatuses
  <1>3. RevertWrite(a, r, session, s = "undone") /\ AgentEditorInv
    BY DEF Revert, AgentInv
  <1>4. /\ AgentEditorParts'
        /\ \E z \in Pending(a) : z.id = r
        /\ Pending(a)' = {q \in Pending(a) : q.id # r} /\ \A d \in Assets \ {a} : Pending(d)' = Pending(d)
    BY <1>3, AgentRevert
  <1>5. link = "available" /\ UNCHANGED <<link, session, disk, rev, backups>>
    BY <1>3 DEF RevertWrite, RevertAllowed, linkVars, diskVars, Revert
  <1>6. /\ updated \in Servers /\ updated.live = server.live /\ updated.cps = server.cps
        /\ SameOperations(server, updated)
        /\ \A d \in ChangeSetIds : \A i \in DOMAIN server.ops[d] :
             updated.ops[d][i].status = IF d = c /\ c # NoChangeSet /\ server.ops[d][i].receipt \in R THEN s
                                        ELSE server.ops[d][i].status
    <2>1. updated = SetStatus(server, c, R, s) /\ s \in OperationStatuses /\ AreWrites(R) /\ server \in Servers
      BY <1>1, <1>2, AgentServer
    <2> QED
      BY <2>1, SetStatusFacts
  <1>7. /\ m.ops = updated.ops /\ m.cps = updated.cps /\ m.live = {l \in updated.live : l.receipt # r}
    <2>1. m = WithoutLive(updated, r) /\ updated \in Servers
      BY <1>1, <1>6
    <2> QED
      BY <2>1, WithoutLiveFacts
  <1>8. /\ SameOperations(server, m) /\ m.live = {l \in server.live : l.receipt \notin R}
        /\ \A d \in ChangeSetIds : \A i \in DOMAIN server.ops[d] :
             m.ops[d][i].status = server.ops[d][i].status \/ server.ops[d][i].receipt \in R
    <2>1. m.live = {l \in server.live : l.receipt \notin R}
      BY <1>1, <1>6, <1>7
    <2>2. \A d \in ChangeSetIds : \A i \in DOMAIN server.ops[d] :
            m.ops[d][i].status = server.ops[d][i].status \/ server.ops[d][i].receipt \in R
      BY <1>6, <1>7
    <2>3. SameOperations(server, m)
      BY <1>6, <1>7 DEF SameOperations
    <2> QED
      BY <2>1, <2>2, <2>3
  <1>9. AllOrNoneApplied(m, session)
    <2>1. AppliedTogether(server, m, session)
      BY <1>8, RemovedIsTogether
    <2> QED
      BY <2>1, AgentServer, TogetherIsAllOrNone DEF AgentListed
  <1>10. \A l : l \in PendingLive(m, session) <=> l \in PendingLive(server, session) /\ l.receipt # r
    BY <1>6, <1>7 DEF PendingLive
  <1>11. \A d \in Assets : \A z \in Pending(d)' : z \in Pending(d) /\ (d = a => z.id # r)
    BY <1>4
  <1>12. PendingIsLive(server)'
    <2> SUFFICES ASSUME NEW d \in Assets, NEW z \in Pending(d)'
                 PROVE  \E l \in PendingLive(m, session) : l.receipt = z.id /\ l.asset = d
      BY <1>2, <1>5 DEF PendingIsLive
    <2>1. z \in Pending(d) /\ (d = a => z.id # r)
      BY <1>11
    <2>2. PICK l \in PendingLive(server, session) : l.receipt = z.id /\ l.asset = d
      BY <2>1, AgentServer DEF AgentListed, PendingIsLive
    <2>3. PICK k \in PendingLive(server, session) : k.receipt = r /\ k.asset = a
      BY <1>4, AgentServer DEF AgentListed, PendingIsLive
    <2>4. z.id # r
      BY <2>1, <2>2, <2>3, AgentServer DEF OneRecord, PendingLive
    <2> QED
      BY <1>10, <2>2, <2>4
  <1>13. LiveIsPending(server)'
    <2> SUFFICES ASSUME NEW l \in PendingLive(m, session)
                 PROVE  \E z \in Pending(l.asset)' : z.id = l.receipt /\ z.target = l.target /\ z.after = l.after
      BY <1>2, <1>5 DEF LiveIsPending, PendingLive
    <2>1. l \in PendingLive(server, session) /\ l.receipt # r
      BY <1>10
    <2>2. l.asset \in Assets
      BY <2>1, AgentServer, ServerParts DEF PendingLive, LiveApplies
    <2>3. PICK z \in Pending(l.asset) : z.id = l.receipt /\ z.target = l.target /\ z.after = l.after
      BY <1>5, <2>1, AgentServer DEF AgentListed, LiveIsPending
    <2>4. z \in Pending(l.asset)'
      BY <1>4, <2>1, <2>2, <2>3
    <2> QED
      BY <2>3, <2>4
  <1>14. LiveIsOfSessions(server)' /\ OneRecord(server')
    BY <1>2, <1>5, <1>8, AgentServer DEF AgentListed, LiveIsOfSessions, OneRecord
  <1>15. OneOwner(server')
    BY <1>2, <1>8, AgentServer DEF AgentListed, OneOwner, SameOperations
  <1>16. PendingIsOwned(server)'
    <2> SUFFICES ASSUME NEW d \in Assets
                 PROVE  Pending(d)' = {} \/ \E e \in ChangeSetIds : \A z \in Pending(d)' : Owns(m, e, z.id)
      BY <1>2 DEF PendingIsOwned, Owns
    <2>1. \A e \in ChangeSetIds : \A k : Owns(server, e, k) => Owns(m, e, k)
      BY <1>8 DEF Owns, SameOperations
    <2>2. Pending(d) = {} \/ \E e \in ChangeSetIds : \A z \in Pending(d) : Owns(server, e, z.id)
      BY AgentServer DEF AgentListed, PendingIsOwned
    <2> QED
      BY <1>11, <2>1, <2>2
  <1>17. CheckpointsWrite(server') /\ SavedHaveBackups(server', backups')
    BY <1>2, <1>5, <1>6, <1>7, AgentServer DEF AgentListed, CheckpointsWrite, SavedHaveBackups
  <1> QED
    BY <1>2, <1>4, <1>5, <1>6, <1>7, <1>9, <1>12, <1>13, <1>14, <1>15, <1>16, <1>17 DEF AgentListed

\* A set of numbers up to a bound has a greatest one.
LEMMA GreatestNumber ==
  ASSUME NEW N \in Nat, NEW S \in SUBSET (0..N), S # {}
  PROVE  \E x \in S : \A y \in S : y <= x
  <1> DEFINE Less == {p \in Nat \X Nat : p[1] < p[2]}
  <1>1. IsWellFoundedOn(Less, Nat)
    BY NatLessThanWellFounded DEF OpToRel
  <1>2. PICK T : T = {N - x : x \in S}
    OBVIOUS
  <1>3. T \subseteq Nat /\ T # {}
    <2>1. \A x \in S : N - x \in Nat
      OBVIOUS
    <2>2. \A y \in T : \E x \in S : y = N - x
      BY <1>2
    <2>3. PICK x \in S : N - x \in T
      BY <1>2
    <2> QED
      BY <2>1, <2>2, <2>3
  <1>4. \E x \in T : \A y \in T : <<y, x>> \notin Less
    <2> HIDE DEF Less
    <2> QED
      BY <1>1, <1>3, WFMin
  <1>5. \A x, y \in Nat : <<y, x>> \notin Less => x <= y
    OBVIOUS
  <1>6. PICK x \in T : \A y \in T : x <= y
    <2> HIDE DEF Less
    <2> QED
      BY <1>3, <1>4, <1>5
  <1>7. PICK z \in S : x = N - z
    BY <1>2
  <1>8. \A y \in S : N - z <= N - y
    BY <1>2, <1>6, <1>7
  <1> QED
    BY <1>7, <1>8

\* The last included write of a target is effective.
LEMMA LastIsEffective ==
  ASSUME server \in Servers, NEW c, NEW a, NEW l \in Included(c, a)
  PROVE  \E e \in Effective(c, a) : e.target = l.target
  <1>1. \A k \in Included(c, a) : k.receipt \in 0..MaxTx
    <2>1. MaxTx \in Nat
      BY BoundsAssumption
    <2>2. \A k \in Included(c, a) : k.receipt \in 1..MaxTx
      BY ReceiptNumbers DEF Included, Receipts, TxIds
    <2> QED
      BY <2>1, <2>2
  <1>2. PICK S : S = {k.receipt : k \in {o \in Included(c, a) : o.target = l.target}}
    OBVIOUS
  <1>3. l.receipt \in S /\ S \subseteq 0..MaxTx
    BY <1>1, <1>2
  <1>4. PICK x \in S : \A y \in S : y <= x
    BY <1>3, BoundsAssumption, GreatestNumber
  <1>5. PICK e \in Included(c, a) : e.target = l.target /\ e.receipt = x
    BY <1>2
  <1>6. \A k \in Included(c, a) : k.target = e.target => k.receipt <= e.receipt
    BY <1>2, <1>4, <1>5
  <1> QED
    BY <1>5, <1>6 DEF Effective

\* A checkpoint of an asset takes all its pending writes.
LEMMA CheckpointTakesAll ==
  ASSUME AgentInv, link # "closed", NEW c \in ChangeSetIds, NEW a \in Assets, NEW e \in Included(c, a)
  PROVE  /\ \A l \in PendingLive(server, session) : l.asset = a => l \in Included(c, a)
         /\ \A z \in Pending(a) : \E l \in Included(c, a) : l.target = z.target
  <1>1. /\ e \in PendingLive(server, session) /\ e.asset = a /\ e.receipt \in Nat /\ e.receipt # NoReceipt
        /\ e.receipt \in BoundReceipts(server, c) /\ StatusOf(server, c, e.receipt) = "applied"
    BY AgentServer, ReceiptNumbers DEF Included, PendingLive
  <1>2. PICK i \in DOMAIN server.ops[c] : server.ops[c][i].receipt = e.receipt
    BY <1>1 DEF BoundReceipts
  <1>3. server.ops[c][i].status = "applied"
    BY <1>1, <1>2, AgentServer, StatusOfOperation
  <1>4. PICK x \in Pending(a) : x.id = e.receipt
    BY <1>1, AgentServer DEF AgentListed, LiveIsPending
  <1>5. \A z \in Pending(a) : Owns(server, c, z.id)
    <2>1. PICK d \in ChangeSetIds : \A z \in Pending(a) : Owns(server, d, z.id)
      BY <1>4, AgentServer DEF AgentListed, PendingIsOwned
    <2>2. PICK j \in DOMAIN server.ops[d] : server.ops[d][j].receipt = e.receipt
      BY <1>4, <2>1 DEF Owns
    <2>3. d = c
      BY <1>1, <1>2, <2>2, AgentServer DEF AgentListed, OneOwner
    <2> QED
      BY <2>1, <2>3
  <1>6. ASSUME NEW l \in PendingLive(server, session), l.asset = a
        PROVE  l \in Included(c, a)
    <2>1. l \in server.live /\ ~l.saved /\ l.sess = session /\ l.receipt \in Nat /\ l.receipt # NoReceipt
      BY <1>6, AgentServer, ReceiptNumbers DEF PendingLive
    <2>2. PICK z \in Pending(a) : z.id = l.receipt
      BY <1>6, AgentServer DEF AgentListed, LiveIsPending
    <2>3. PICK j \in DOMAIN server.ops[c] : server.ops[c][j].receipt = l.receipt
      BY <1>5, <2>2 DEF Owns
    <2>4. IsPendingIn(server, session, c, i) /\ IsPendingIn(server, session, c, j)
      BY <1>1, <1>2, <1>6, <2>3 DEF IsPendingIn
    <2>5. server.ops[c][j].status = "applied"
      BY <1>3, <2>4, AgentServer DEF AgentListed, AllOrNoneApplied
    <2>6. StatusOf(server, c, l.receipt) = "applied"
      BY <2>1, <2>3, <2>5, AgentServer, StatusOfOperation
    <2>7. l.receipt \in BoundReceipts(server, c)
      BY <2>1, <2>3 DEF BoundReceipts
    <2> QED
      BY <1>6, <2>1, <2>6, <2>7 DEF Included
  <1>7. ASSUME NEW z \in Pending(a)
        PROVE  \E l \in Included(c, a) : l.target = z.target
    <2>1. PICK l \in PendingLive(server, session) : l.receipt = z.id /\ l.asset = a
      BY AgentServer DEF AgentListed, PendingIsLive
    <2>2. PICK y \in Pending(a) : y.id = l.receipt /\ y.target = l.target
      BY <2>1, AgentServer DEF AgentListed, LiveIsPending
    <2>3. y = z
      BY <2>1, <2>2 DEF AgentInv, AgentEditorInv, AgentEditorParts, RecordsAreDistinct, Pending
    <2> QED
      BY <1>6, <2>1, <2>2, <2>3
  <1> QED
    BY <1>6, <1>7

\* Marking records as saved leaves one per receipt.
LEMMA MarkedIsOneRecord ==
  ASSUME NEW m \in Servers, OneRecord(m), NEW cp \in Checkpoints, NEW R, NEW U, AreWrites(U),
         NEW n, n = SavedEffective(m, cp, R, U)
  PROVE  OneRecord(n)
  <1>1. PICK x : x = MarkSaved(m, R, cp.id)
    OBVIOUS
  <1>2. x \in Servers
    BY <1>1, CheckpointParts, MarkSavedFacts
  <1>3. n.live = x.live
    <2>1. PICK s, d : s = "saved" /\ d = cp.cs
      OBVIOUS
    <2>2. n = SetStatus(x, d, U, s) /\ s \in OperationStatuses /\ d \in ChangeSetIds
      BY <1>1, <2>1, CheckpointParts DEF SavedEffective, OperationStatuses
    <2> QED
      BY <1>2, <2>2, SetStatusFacts DEF MaybeChangeSet
  <1>4. PICK v : v = {IF l.receipt \in R THEN [l EXCEPT !.saved = TRUE, !.save = cp.id] ELSE l : l \in m.live}
    OBVIOUS
  <1>5. x.live = v
    <2>1. x = WithLive(m, v)
      BY <1>1, <1>4 DEF MarkSaved, WithLive
    <2>2. m.live \subseteq LiveApplies
      BY ServerParts
    <2> QED
      BY <2>1, <2>2 DEF WithLive, Servers
  <1>6. ASSUME NEW k \in v
        PROVE  \E l \in m.live : k.receipt = l.receipt
                 /\ k = IF l.receipt \in R THEN [l EXCEPT !.saved = TRUE, !.save = cp.id] ELSE l
    <2>1. PICK l \in m.live : k = IF l.receipt \in R THEN [l EXCEPT !.saved = TRUE, !.save = cp.id] ELSE l
      BY <1>4
    <2>2. l \in LiveApplies
      BY ServerParts
    <2> QED
      BY <2>1, <2>2 DEF LiveApplies
  <1>7. ASSUME NEW y \in v, NEW k \in v, y.receipt = k.receipt PROVE y = k
    <2>1. PICK l \in m.live : y.receipt = l.receipt
            /\ y = IF l.receipt \in R THEN [l EXCEPT !.saved = TRUE, !.save = cp.id] ELSE l
      BY <1>6
    <2>2. PICK o \in m.live : k.receipt = o.receipt
            /\ k = IF o.receipt \in R THEN [o EXCEPT !.saved = TRUE, !.save = cp.id] ELSE o
      BY <1>6
    <2>3. l = o
      BY <1>7, <2>1, <2>2 DEF OneRecord
    <2> QED
      BY <2>1, <2>2, <2>3
  <1> QED
    BY <1>3, <1>5, <1>7 DEF OneRecord

\* The writes a checkpoint covers are on every target a pending write went to, and all the server
\* counts as pending of the asset is included.
LEMMA CheckpointCoversPending ==
  ASSUME AgentInv, link # "closed", NEW c \in ChangeSetIds, NEW a \in Assets, NEW cp \in server.cps,
         cp.effective = AsWrites(Effective(c, a))
  PROVE  /\ \A l \in PendingLive(server, session) : l.asset = a => l \in Included(c, a)
         /\ \A z \in Pending(a) : \E w \in cp.effective : w.target = z.target
  <1>1. PICK e : e \in Effective(c, a)
    <2>1. cp.effective # {}
      BY AgentServer DEF AgentListed, CheckpointsWrite
    <2> QED
      BY <2>1 DEF AsWrites
  <1>2. Effective(c, a) \subseteq Included(c, a)
    BY DEF Effective
  <1>3. /\ \A l \in PendingLive(server, session) : l.asset = a => l \in Included(c, a)
        /\ \A z \in Pending(a) : \E l \in Included(c, a) : l.target = z.target
    BY <1>1, <1>2, CheckpointTakesAll
  <1>4. ASSUME NEW z \in Pending(a) PROVE \E w \in cp.effective : w.target = z.target
    <2>1. PICK l \in Included(c, a) : l.target = z.target
      BY <1>3
    <2>2. PICK x \in Effective(c, a) : x.target = z.target
      BY <2>1, AgentServer, LastIsEffective
    <2>3. PICK w : w = [receipt |-> x.receipt, target |-> x.target, after |-> x.after]
      OBVIOUS
    <2>4. w \in cp.effective
      BY <2>2, <2>3 DEF AsWrites
    <2> QED
      BY <2>2, <2>3, <2>4
  <1> QED
    BY <1>3, <1>4

\* A checkpoint that is saved leaves nothing of its package pending.
LEMMA CommitKeepsListed ==
  ASSUME AgentInv, "crash" \notin Tools, NEW c \in ChangeSetIds, c # NoChangeSet, NEW a \in Assets,
         NEW auth \in server.auths, NEW cp \in server.cps, CheckpointCommit(c, a, auth, cp)
  PROVE  AgentListed(server)' /\ AgentEditorParts' /\ UNCHANGED link
  <1>1. PICK R, S, m : ReceiptsOf(R, cp) /\ S = cp.superseded /\ m = server'
    BY DEF ReceiptsOf
  <1>2. /\ cp.cs = c /\ cp.effective = AsWrites(Effective(c, a)) /\ S = SupersededBy(c, a)
        /\ \A r \in R \cup S : \E l \in server.live : l.receipt = r /\ l.asset = a
        /\ m \in Servers /\ SameOperations(server, m)
        /\ \A k \in m.cps : k \in server.cps \/ (SameCheckpoint(k, cp) /\ k.state = "saved")
        /\ Marked(m, cp, R)
        /\ \A d \in ChangeSetIds : \A i \in DOMAIN server.ops[d] :
             m.ops[d][i].status = IF d = c /\ server.ops[d][i].receipt \in S THEN "superseded"
                                  ELSE IF d = c /\ server.ops[d][i].receipt \in R THEN "saved"
                                  ELSE server.ops[d][i].status
    BY <1>1, CommitFacts DEF AgentInv
  <1>3. PICK saved \in Servers, marked \in Servers :
          /\ saved.live = server.live /\ MarkedLive(saved, marked, R) /\ marked = SavedEffective(saved, cp, R, R)
          /\ m.live = {l \in marked.live : l.receipt \notin S}
    BY <1>1, <1>2 DEF Marked
  <1>4. /\ SaveAsset(a) /\ cp.id = auth.id /\ backups' = WithBackup(auth.id, a, rev'[a])
        /\ link = "available" /\ UNCHANGED <<link, session>> /\ cp \in Checkpoints
    BY AgentServer, ServerParts DEF CheckpointCommit, SaveAsset, SaveAllowed, linkVars
  <1>5. AgentEditorParts' /\ Pending(a)' = {} /\ \A d \in Assets \ {a} : Pending(d)' = Pending(d)
    BY <1>4, AgentSave DEF AgentInv
  <1>6. \A l \in PendingLive(server, session) : l.asset = a => l \in Included(c, a)
    BY <1>2, <1>4, CheckpointCoversPending
  <1>7. \A l \in Included(c, a) : l.receipt \in R \cup S
    <2> SUFFICES ASSUME NEW l \in Included(c, a) PROVE l.receipt \in R \cup S
      OBVIOUS
    <2>1. CASE l \in Effective(c, a)
      <3>1. PICK w : w = [receipt |-> l.receipt, target |-> l.target, after |-> l.after]
        OBVIOUS
      <3>2. w \in cp.effective /\ w.receipt = l.receipt
        BY <1>2, <2>1, <3>1 DEF AsWrites
      <3> QED
        BY <1>1, <3>2 DEF ReceiptsOf
    <2>2. CASE l \notin Effective(c, a)
      BY <1>2, <2>2 DEF SupersededBy
    <2> QED
      BY <2>1, <2>2
  <1>8. \A l \in server.live : l.receipt \in R \cup S => l.asset = a
    BY <1>2, AgentServer DEF OneRecord
  <1>9. /\ \A y \in m.live : y.receipt \notin S /\ (y.receipt \in R => y.saved) /\ (y.receipt \notin R => y \in server.live)
        /\ \A y \in m.live : \E l \in server.live : y.receipt = l.receipt /\ y.sess = l.sess
        /\ \A l \in server.live : l.receipt \notin R \cup S => l \in m.live
    <2>1. MarkedLive(saved, marked, R) /\ saved.live = server.live
      BY <1>3
    <2>2. /\ \A l \in server.live : l.receipt \notin R => l \in marked.live
          /\ \A y \in marked.live : y.receipt \notin R => y \in server.live
          /\ \A y \in marked.live : \E l \in server.live : y.receipt = l.receipt /\ y.sess = l.sess
          /\ \A y \in marked.live : y.receipt \in R => y.saved
      <3>1. OneWrite(saved)
        BY <2>1, AgentServer DEF Listed, OneWrite
      <3>2. \A y \in marked.live : y.receipt \in R => y.saved
        BY <2>1, <3>1, MarkedIsOrderly
      <3>3. \A y \in marked.live : \E l \in saved.live : y.receipt = l.receipt /\ y.sess = l.sess /\ (l.receipt \notin R => y = l)
        BY <2>1 DEF MarkedLive
      <3>4. \A l \in saved.live : l.receipt \notin R => l \in marked.live
        BY <2>1 DEF MarkedLive
      <3> QED
        BY <2>1, <3>2, <3>3, <3>4
    <2>3. \A y \in m.live : y \in marked.live /\ y.receipt \notin S
      BY <1>3
    <2>4. \A l \in marked.live : l.receipt \notin S => l \in m.live
      BY <1>3
    <2> QED
      BY <2>2, <2>3, <2>4
  <1>10. \A l : l \in PendingLive(m, session) <=> l \in PendingLive(server, session) /\ l.asset # a
    <2>1. ASSUME NEW l \in PendingLive(m, session)
          PROVE  l \in PendingLive(server, session) /\ l.asset # a
      <3>1. l \in m.live /\ ~l.saved /\ l.sess = session
        BY <2>1 DEF PendingLive
      <3>2. l.receipt \notin R /\ l.receipt \notin S /\ l \in server.live
        BY <1>9, <3>1
      <3>3. l \in PendingLive(server, session)
        BY <3>1, <3>2 DEF PendingLive
      <3> QED
        BY <1>6, <1>7, <3>2, <3>3
    <2>2. ASSUME NEW l \in PendingLive(server, session), l.asset # a
          PROVE  l \in PendingLive(m, session)
      BY <1>8, <1>9, <2>2 DEF PendingLive
    <2> QED
      BY <2>1, <2>2
  <1>11. PendingIsLive(server)'
    <2> SUFFICES ASSUME NEW d \in Assets, NEW z \in Pending(d)'
                 PROVE  \E l \in PendingLive(m, session) : l.receipt = z.id /\ l.asset = d
      BY <1>1, <1>4 DEF PendingIsLive
    <2>1. d # a /\ z \in Pending(d)
      BY <1>5
    <2>2. PICK l \in PendingLive(server, session) : l.receipt = z.id /\ l.asset = d
      BY <2>1, AgentServer DEF AgentListed, PendingIsLive
    <2> QED
      BY <1>10, <2>1, <2>2
  <1>12. LiveIsPending(server)'
    <2> SUFFICES ASSUME NEW l \in PendingLive(m, session)
                 PROVE  \E z \in Pending(l.asset)' : z.id = l.receipt /\ z.target = l.target /\ z.after = l.after
      BY <1>1, <1>4 DEF LiveIsPending, PendingLive
    <2>1. l \in PendingLive(server, session) /\ l.asset # a
      BY <1>10
    <2>2. l.asset \in Assets
      BY <2>1, AgentServer, ServerParts DEF PendingLive, LiveApplies
    <2>3. Pending(l.asset)' = Pending(l.asset)
      BY <1>5, <2>1, <2>2
    <2> QED
      BY <1>4, <2>1, <2>3, AgentServer DEF AgentListed, LiveIsPending
  <1>13. LiveIsOfSessions(server)'
    BY <1>1, <1>4, <1>9, AgentServer DEF AgentListed, LiveIsOfSessions
  <1>14. OneRecord(m)
    <2>1. OneRecord(saved)
      BY <1>3, AgentServer DEF OneRecord
    <2>2. OneRecord(marked)
      <3>1. AreWrites(R)
        BY <1>1, <1>4, WrittenReceipts DEF ReceiptsOf
      <3> QED
        BY <1>3, <1>4, <2>1, <3>1, MarkedIsOneRecord
    <2> QED
      BY <1>3, <2>2 DEF OneRecord
  <1>15. OneOwner(m)
    BY <1>2, AgentServer DEF AgentListed, OneOwner, SameOperations
  <1>16. PendingIsOwned(server)'
    <2> SUFFICES ASSUME NEW d \in Assets
                 PROVE  Pending(d)' = {} \/ \E f \in ChangeSetIds : \A z \in Pending(d)' : Owns(m, f, z.id)
      BY <1>1 DEF PendingIsOwned, Owns
    <2>1. \A f \in ChangeSetIds : \A k : Owns(server, f, k) => Owns(m, f, k)
      BY <1>2 DEF Owns, SameOperations
    <2>2. Pending(d) = {} \/ \E f \in ChangeSetIds : \A z \in Pending(d) : Owns(server, f, z.id)
      BY AgentServer DEF AgentListed, PendingIsOwned
    <2> QED
      BY <1>5, <2>1, <2>2
  <1>17. AllOrNoneApplied(m, session)
    <2>1. ASSUME NEW d \in ChangeSetIds, NEW i \in DOMAIN m.ops[d], IsPendingIn(m, session, d, i)
          PROVE  /\ i \in DOMAIN server.ops[d] /\ IsPendingIn(server, session, d, i)
                 /\ m.ops[d][i].status = server.ops[d][i].status
      <3>1. i \in DOMAIN server.ops[d] /\ m.ops[d][i].receipt = server.ops[d][i].receipt
        BY <1>2 DEF SameOperations
      <3>2. PICK l \in PendingLive(m, session) : l.receipt = m.ops[d][i].receipt
        BY <2>1 DEF IsPendingIn
      <3>3. l \in PendingLive(server, session) /\ l.receipt \notin R \cup S
        BY <1>8, <1>10, <3>2 DEF PendingLive
      <3> QED
        BY <1>2, <3>1, <3>2, <3>3 DEF IsPendingIn
    <2>2. AppliedTogether(server, m, session)
      BY <2>1 DEF AppliedTogether
    <2> QED
      BY <2>2, AgentServer, TogetherIsAllOrNone DEF AgentListed
  <1>18. CheckpointsWrite(m)
    BY <1>2, AgentServer DEF AgentListed, CheckpointsWrite, SameCheckpoint
  <1>19. SavedHaveBackups(m, backups')
    <2>1. PICK b : b \in backups' /\ b.id = auth.id
      <3>1. PICK b : b = [id |-> auth.id, asset |-> a, content |-> disk[a], rev |-> rev[a], after |-> NoRev, wrote |-> rev'[a]]
        OBVIOUS
      <3>2. b \in backups'
        BY <1>4, <3>1 DEF WithBackup
      <3> QED
        BY <3>1, <3>2
    <2>2. backups \subseteq backups'
      BY <1>4 DEF WithBackup
    <2> QED
      BY <1>2, <1>4, <2>1, <2>2, AgentServer DEF AgentListed, SavedHaveBackups, SameCheckpoint
  <1> QED
    BY <1>1, <1>4, <1>5, <1>11, <1>12, <1>13, <1>14, <1>15, <1>16, <1>17, <1>18, <1>19 DEF AgentListed

-----------------------------------------------------------------------------
(* Every step of such a workflow                                           *)

\* Only the agent's tools write: bound writes, undo and discard, checkpoint saves and index
\* refreshes; the user only starts and stops the Editor and the play mode, every answer arrives,
\* and the journal has room for every write.
OnlyAgentWrites ==
  /\ Tools \subseteq {"revert", "checkpoint", "refresh"}
  /\ UserActions \subseteq {"restart", "play"}
  /\ MaxTx <= MaxLive

UserStep == \/ \E a \in Assets : UserOpen(a)
            \/ UserPlay \/ EditorExit \/ EditorStart
AgentWriteStep ==
  \E c \in MaybeChangeSet, a \in Assets :
    \/ \E t \in Targets, v \in Values : Apply(c, a, t, v)
    \/ ApplyNoChange(c, a)
    \/ \E r \in Receipts, s \in RevertStatuses : Revert(c, a, r, s)

\* What is left of the user's actions.
LEMMA UserOnlyRestarts ==
  ASSUME OnlyAgentWrites, User
  PROVE  UserStep
  <1>1. "edit" \notin UserActions /\ "undo" \notin UserActions /\ "redo" \notin UserActions
        /\ "save" \notin UserActions /\ "restore" \notin UserActions
    BY DEF OnlyAgentWrites
  <1> QED
    BY <1>1 DEF User, UserEdit, UserUndo, UserRedo, UserSave, UserStep

\* A step writes, saves a checkpoint, is the user's, or leaves the Editor alone.
LEMMA AgentSteps ==
  ASSUME AgentInv, OnlyAgentWrites, [WorkflowNext]_vars
  PROVE  \/ Quiet(server, server', session) /\ UNCHANGED <<editorVars, backups>>
         \/ AgentWriteStep
         \/ SavePointStep
         \/ UserStep /\ UNCHANGED workflowVars
  <1>1. /\ "unbound" \notin Tools /\ "immediate" \notin Tools /\ "rollback" \notin Tools
        /\ "crash" \notin Tools /\ "lost" \notin Tools /\ "patch" \notin Tools
    BY DEF OnlyAgentWrites
  <1>2. CASE ChangeSetTools
    BY <1>1, <1>2, CreateIsQuiet, GetIsQuiet, DiscardIsQuiet
       DEF ChangeSetTools, CreateChangeSet, GetChangeSet, DiscardEmpty
  <1>3. CASE WriteTools
    BY <1>3 DEF WriteTools, OptionalChangeSet, MaybeChangeSet, AgentWriteStep
  <1>4. CASE SaveTools
    <2>1. PICK c \in ChangeSetIds, a \in Assets :
            \/ ImmediatePreview(c, a)
            \/ c # NoChangeSet /\ CheckpointPreview(c, a)
            \/ \E auth \in server.auths :
                 \/ ImmediateCommit(c, a, auth)
                 \/ SaveFails(c, a, auth)
                 \/ \E cp \in server.cps : c # NoChangeSet /\ CheckpointCommit(c, a, auth, cp)
      BY <1>1, <1>4 DEF SaveTools, OptionalChangeSet
    <2>2. ~ImmediatePreview(c, a) /\ \A auth : ~ImmediateCommit(c, a, auth) /\ ~SaveFails(c, a, auth)
      BY <1>1 DEF ImmediatePreview, ImmediateCommit, SaveFails
    <2>3. CheckpointPreview(c, a) => Quiet(server, server', session) /\ UNCHANGED <<editorVars, backups>>
      BY <1>1, CheckpointPreviewIsQuiet DEF CheckpointPreview
    <2> QED
      BY <2>1, <2>2, <2>3 DEF SavePointStep
  <1>5. CASE VerifyTools
    <2>1. \A c \in MaybeChangeSet : \A r \in Receipts : VerifyLiveWrite(c, r) =>
            Quiet(server, server', session) /\ UNCHANGED <<editorVars, backups>>
      BY <1>1, VerifyWriteIsQuiet DEF VerifyLiveWrite
    <2>2. \A cp \in server.cps : VerifyCheckpoint(cp) \/ CheckpointTurnsStale(cp) =>
            Quiet(server, server', session) /\ UNCHANGED <<editorVars, backups>>
      BY <1>1, VerifyCheckpointIsQuiet, TurnsStaleIsQuiet DEF VerifyCheckpoint, CheckpointTurnsStale
    <2> QED
      BY <1>5, <2>1, <2>2 DEF VerifyTools, OptionalChangeSet, MaybeChangeSet
  <1>6. ~RollbackTools /\ ~PatchTools /\ ~ServerCrash
    BY <1>1 DEF RollbackTools, PromoteManifest, PrepareRollback, RollbackCommit, ServerCrash,
                PatchTools, CommitPatch, CommitUnboundPatch, VerifyPatch
  <1>7. ASSUME NEW a \in Assets, RefreshAndRestart(a)
        PROVE  Quiet(server, server', session) /\ UNCHANGED <<editorVars, backups>>
    BY <1>7, LoadedIsQuiet DEF RefreshAndRestart
  <1>8. CASE User /\ UNCHANGED workflowVars
    BY <1>8, UserOnlyRestarts
  <1>9. CASE UNCHANGED vars
    <2>1. server \in Servers /\ server' = server /\ UNCHANGED <<editorVars, backups>>
      BY <1>9, AgentServer DEF vars, workflowVars
    <2>2. KeepsCheckpoints(server, server')
      BY <2>1 DEF KeepsCheckpoints
    <2>3. AppliedTogether(server, server', session)
      BY <2>1 DEF AppliedTogether
    <2>4. KeepsPending(server, server') /\ KeepsReceipts(server, server')
      BY <2>1 DEF KeepsPending, KeepsReceipts
    <2> QED
      BY <2>1, <2>2, <2>3, <2>4 DEF Quiet
  <1> QED
    BY <1>2, <1>3, <1>4, <1>5, <1>6, <1>7, <1>8, <1>9 DEF WorkflowNext

\* When the user opens an asset, plays, stops or starts the Editor, pending writes stay or are gone.
LEMMA UserStepKeepsListed ==
  ASSUME AgentInv, UserStep, UNCHANGED workflowVars
  PROVE  /\ AgentListed(server)' /\ AgentEditorParts' /\ ClosedHasNoRecords'
         /\ UNCHANGED <<backups, disk, rev>>
  <1>1. /\ server' = server /\ UNCHANGED <<backups, disk, rev>> /\ AgentEditorInv /\ AgentListed(server)
        /\ ClosedHasNoRecords
    BY DEF UserStep, workflowVars, AgentInv, UserOpen, UserPlay, EditorExit, EditorStart, diskVars
  <1>2. /\ OneRecord(server') /\ OneOwner(server') /\ CheckpointsWrite(server') /\ SavedHaveBackups(server', backups')
    BY <1>1 DEF AgentListed
  <1>3. CASE (\E a \in Assets : UserOpen(a)) \/ UserPlay
    <2>1. /\ UNCHANGED <<records, savedTx, dirty, resident, disk, undo, session>>
          /\ link # "closed" /\ link' # "closed"
      BY <1>3 DEF UserOpen, UserPlay, diskVars, bufferVars, linkVars, memoryVars
    <2>2. AgentEditorParts' /\ \A a \in Assets : Pending(a)' = Pending(a)
      BY <1>1, <2>1, AgentUnchanged
    <2>3. ClosedHasNoRecords'
      BY <2>1 DEF ClosedHasNoRecords
    <2>4. PendingLive(server, session)' = PendingLive(server, session)
      BY <1>1, <2>1 DEF PendingLive
    <2>5. PendingIsLive(server)'
      BY <1>1, <2>2, <2>4 DEF AgentListed, PendingIsLive
    <2>6. LiveIsPending(server)'
      <3> SUFFICES ASSUME NEW l \in PendingLive(server, session)
                   PROVE  \E r \in Pending(l.asset)' : r.id = l.receipt /\ r.target = l.target /\ r.after = l.after
        BY <2>4 DEF LiveIsPending
      <3>1. l.asset \in Assets
        BY AgentServer, ServerParts DEF PendingLive, LiveApplies
      <3> QED
        BY <1>1, <2>1, <2>2, <3>1 DEF AgentListed, LiveIsPending
    <2>7. LiveIsOfSessions(server)'
      BY <1>1, <2>1 DEF AgentListed, LiveIsOfSessions
    <2>8. PendingIsOwned(server)'
      BY <1>1, <2>2 DEF AgentListed, PendingIsOwned, Owns
    <2>9. AllOrNoneApplied(server', session')
      BY <1>1, <2>1 DEF AgentListed
    <2> QED
      BY <1>1, <1>2, <2>2, <2>3, <2>5, <2>6, <2>7, <2>8, <2>9 DEF AgentListed
  <1>4. ASSUME AgentEditorParts', \A a \in Assets : Pending(a)' = {},
               link' = "closed" \/ \A l \in server.live : l.sess # session',
               LiveIsOfSessions(server)', AllOrNoneApplied(server', session')
        PROVE  AgentListed(server)'
    <2>1. PendingIsLive(server)' /\ PendingIsOwned(server)'
      BY <1>4 DEF PendingIsLive, PendingIsOwned
    <2>2. LiveIsPending(server)'
      BY <1>1, <1>4 DEF LiveIsPending, PendingLive
    <2> QED
      BY <1>2, <1>4, <2>1, <2>2 DEF AgentListed
  <1>5. CASE EditorExit
    <2>1. AgentEditorParts' /\ \A a \in Assets : Pending(a)' = {}
      BY <1>1, <1>5, AgentExit
    <2>2. link' = "closed" /\ session' = session /\ \A a \in Assets : records'[a] = {}
      BY <1>5 DEF EditorExit
    <2>3. LiveIsOfSessions(server)' /\ AllOrNoneApplied(server', session') /\ ClosedHasNoRecords'
      BY <1>1, <2>2 DEF AgentListed, LiveIsOfSessions, ClosedHasNoRecords
    <2> QED
      BY <1>1, <1>4, <2>1, <2>2, <2>3
  <1>6. CASE EditorStart
    <2>1. /\ UNCHANGED <<records, savedTx, dirty, resident, disk, undo>>
          /\ link = "closed" /\ link' = "available" /\ session' = session + 1
      BY <1>6 DEF EditorStart, diskVars, bufferVars, memoryVars
    <2>2. AgentEditorParts' /\ \A a \in Assets : Pending(a)' = Pending(a)
      BY <1>1, <2>1, AgentUnchanged
    <2>3. \A a \in Assets : Pending(a)' = {}
      BY <1>1, <2>1, <2>2 DEF ClosedHasNoRecords, Pending
    <2>4. session \in Nat /\ \A l \in server.live : l.sess \in Nat /\ l.sess <= session
      <3>1. session \in 1..MaxSessions
        BY AgentServer DEF EditorInv, EditorTypeOK
      <3>2. \A l \in server.live : l.sess \in 1..MaxSessions
        BY AgentServer, ServerParts DEF LiveApplies
      <3> QED
        BY <1>1, <3>1, <3>2, BoundsAssumption DEF AgentListed, LiveIsOfSessions
    <2>5. \A l \in server.live : l.sess # session' /\ l.sess <= session'
      BY <2>1, <2>4
    <2>6. LiveIsOfSessions(server)'
      BY <1>1, <2>5 DEF LiveIsOfSessions
    <2>7. AllOrNoneApplied(server', session')
      BY <1>1, <2>5 DEF AllOrNoneApplied, IsPendingIn, PendingLive
    <2>8. ClosedHasNoRecords'
      BY <2>1 DEF ClosedHasNoRecords
    <2> QED
      BY <1>1, <1>4, <2>2, <2>3, <2>5, <2>6, <2>7, <2>8
  <1> QED
    BY <1>3, <1>5, <1>6 DEF UserStep

\* Server and Editor keep agreeing on what is pending.
LEMMA StepKeepsListed ==
  ASSUME AgentInv, OnlyAgentWrites, [WorkflowNext]_vars
  PROVE  /\ AgentListed(server)' /\ AgentEditorParts' /\ ClosedHasNoRecords'
         /\ UNCHANGED backups \/ SavePointStep
  <1>1. "unbound" \notin Tools /\ "crash" \notin Tools /\ "lost" \notin Tools /\ MaxTx <= MaxLive
    BY DEF OnlyAgentWrites
  <1>2. AgentEditorInv /\ ClosedHasNoRecords
    BY DEF AgentInv
  <1>3. CASE Quiet(server, server', session) /\ UNCHANGED <<editorVars, backups>>
    <2>1. UNCHANGED <<records, savedTx, dirty, resident, disk, undo, session, link, backups>>
      BY <1>3 DEF editorVars, diskVars, bufferVars, memoryVars, linkVars
    <2>2. AgentEditorParts' /\ \A a \in Assets : Pending(a)' = Pending(a)
      BY <1>2, <2>1, AgentUnchanged
    <2>3. PendingStays
      BY <2>1, <2>2 DEF PendingStays
    <2>4. ClosedHasNoRecords'
      BY <1>2, <2>1 DEF ClosedHasNoRecords
    <2> QED
      BY <1>3, <2>1, <2>2, <2>3, <2>4, QuietKeepsListed
  <1>4. CASE AgentWriteStep
    <2>1. PICK c \in MaybeChangeSet, a \in Assets :
            \/ \E t \in Targets, v \in Values : Apply(c, a, t, v)
            \/ ApplyNoChange(c, a)
            \/ \E r \in Receipts, s \in RevertStatuses : Revert(c, a, r, s)
      BY <1>4 DEF AgentWriteStep
    <2>2. CASE ApplyNoChange(c, a)
      <3>1. PICK p : ApplyUnchanged(a, p)
        BY <2>2 DEF ApplyNoChange
      <3>2. AgentEditorParts' /\ \A b \in Assets : Pending(b)' = Pending(b)
        BY <1>2, <3>1, AgentApplyUnchanged
      <3>3. UNCHANGED <<session, link, backups>> /\ link = "available"
        BY <2>2, <3>1 DEF ApplyNoChange, ApplyUnchanged, ApplyAllowed, linkVars
      <3>4. PendingStays /\ ClosedHasNoRecords'
        BY <3>2, <3>3 DEF PendingStays, ClosedHasNoRecords
      <3>5. Quiet(server, server', session)
        BY <1>1, <2>2, ApplyNoChangeIsQuiet
      <3> QED
        BY <3>2, <3>3, <3>4, <3>5, QuietKeepsListed
    <2>3. ASSUME NEW t \in Targets, NEW v \in Values, Apply(c, a, t, v)
          PROVE  AgentListed(server)' /\ AgentEditorParts' /\ ClosedHasNoRecords' /\ UNCHANGED backups
      <3>1. AgentListed(server)' /\ AgentEditorParts' /\ UNCHANGED <<backups, link>>
        BY <1>1, <2>3, ApplyKeepsListed
      <3>2. link = "available"
        BY <2>3 DEF Apply, ApplyChanged, ApplyAllowed
      <3> QED
        BY <3>1, <3>2 DEF ClosedHasNoRecords
    <2>4. ASSUME NEW r \in Receipts, NEW s \in RevertStatuses, Revert(c, a, r, s)
          PROVE  AgentListed(server)' /\ AgentEditorParts' /\ ClosedHasNoRecords' /\ UNCHANGED backups
      <3>1. AgentListed(server)' /\ AgentEditorParts' /\ UNCHANGED <<backups, link>>
        BY <1>1, <2>4, RevertKeepsListed
      <3>2. link = "available"
        BY <2>4 DEF Revert, RevertWrite, RevertAllowed
      <3> QED
        BY <3>1, <3>2 DEF ClosedHasNoRecords
    <2> QED
      BY <2>1, <2>2, <2>3, <2>4
  <1>5. CASE SavePointStep
    <2>1. PICK c \in ChangeSetIds, a \in Assets, auth \in server.auths, cp \in server.cps :
            c # NoChangeSet /\ CheckpointCommit(c, a, auth, cp)
      BY <1>5 DEF SavePointStep
    <2>2. AgentListed(server)' /\ AgentEditorParts' /\ UNCHANGED link
      BY <1>1, <2>1, CommitKeepsListed
    <2>3. link = "available"
      BY <2>1 DEF CheckpointCommit, SaveAsset, SaveAllowed
    <2> QED
      BY <1>5, <2>2, <2>3 DEF ClosedHasNoRecords
  <1>6. CASE UserStep /\ UNCHANGED workflowVars
    BY <1>6, UserStepKeepsListed
  <1> QED
    BY <1>3, <1>4, <1>5, <1>6, AgentSteps

\* What a checkpoint puts on disk is what it lists.
LEMMA CommitHoldsOnly ==
  ASSUME AgentInv,
         NEW c \in MaybeChangeSet, NEW a \in Assets, NEW auth \in server.auths, NEW cp \in server.cps,
         NEW w \in 0..NoRev, CommitStep(c, a, auth, cp, w),
         NEW k, SameCheckpoint(k, cp),
         NEW b \in backups', b.id = k.id,
         NEW t \in Targets, disk'[k.asset][t] # b.content[t]
  PROVE  \E x \in k.effective : x.target = t
  <1>1. /\ Typed /\ SaveAsset(a) /\ backups' = WithBackup(auth.id, a, w) /\ cp.id = auth.id /\ cp.cs = c
        /\ cp.effective = AsWrites(Effective(c, a)) /\ link = "available"
    BY AgentServer DEF CommitStep, Prepared, SaveAsset, SaveAllowed
  <1>2. k.asset = a /\ k.effective = cp.effective /\ b.id = auth.id
    <2>1. cp.asset = auth.asset /\ auth.asset = a
      BY DEF AgentInv, HeldInv, CheckpointsArePast, CommitStep, Authorized
    <2> QED
      BY <1>1, <2>1 DEF SameCheckpoint
  <1>3. b.content = disk[a]
    <2>1. auth.id \in SaveIds
      BY AgentServer, ServerParts DEF Authorizations
    <2>2. b \notin backups
      BY <1>2 DEF CommitStep, Authorized
    <2> QED
      BY <1>1, <2>1, <2>2, WithBackupFacts
  <1>4. disk'[a] = resident[a]
    BY <1>1, SavedRevision DEF SaveAsset
  <1>5. PICK z \in Pending(a) : z.target = t
    BY <1>2, <1>3, <1>4 DEF AgentInv, AgentEditorInv, AgentEditorParts, OnlyPendingDiffers
  <1>6. c \in ChangeSetIds
    BY <1>1, RecordNumbers DEF Checkpoints
  <1> QED
    BY <1>1, <1>2, <1>5, <1>6, CheckpointCoversPending

\* A checkpoint that held only its writes still does.
LEMMA HoldsOnlyStays ==
  ASSUME AgentInv, "restore" \notin UserActions, [EditorNext]_editorVars, UNCHANGED backups \/ SavePointStep, Typed',
         NEW k, NEW cp \in server.cps, BecameOf(k, cp), k.state \in Persisted,
         NEW b \in backups', b.id = k.id, rev'[k.asset] = k.afterRev,
         NEW t \in Targets, disk'[k.asset][t] # b.content[t]
  PROVE  \E x \in k.effective : x.target = t
  <1>1. /\ k.asset = cp.asset /\ k.afterRev = cp.afterRev /\ k.effective = cp.effective /\ k.id = cp.id
        /\ cp.state \in Persisted
    BY DEF BecameOf, SameCheckpoint, Persisted
  <1>2. b \in backups
    <2>1. CASE SavePointStep
      <3>1. PICK c \in ChangeSetIds, a \in Assets, auth \in server.auths, q \in server.cps : CheckpointCommit(c, a, auth, q)
        BY <2>1 DEF SavePointStep
      <3>2. /\ backups' = WithBackup(auth.id, a, rev'[a]) /\ SaveAsset(a) /\ \A o \in backups : o.id # auth.id
        BY <3>1 DEF CheckpointCommit, Authorized
      <3>3. PICK o \in backups : o.id = cp.id
        <4>1. cp.state # "prepared"
          BY <1>1 DEF Persisted
        <4> QED
          BY <4>1, AgentServer DEF AgentListed, SavedHaveBackups
      <3>4. auth.id \in SaveIds /\ rev'[a] \in 0..NoRev
        BY <3>2, AgentServer, ServerParts, SavedRevision DEF Authorizations, SaveAsset
      <3> QED
        BY <1>1, <3>2, <3>3, <3>4, AgentServer, WithBackupFacts
    <2> QED
      BY <2>1
  <1>3. /\ cp.asset \in Assets /\ cp.afterRev \in Nat /\ lastRev \in Nat
        /\ cp.afterRev = NoRev \/ cp.afterRev <= lastRev
        /\ rev'[cp.asset] # NoRev
    <2>1. rev' \in [Assets -> 0..MaxRev] /\ MaxRev \in Nat
      BY BoundsAssumption DEF Typed, EditorInv, EditorTypeOK
    <2>2. cp.asset \in Assets /\ cp.afterRev \in Nat /\ lastRev \in Nat /\ (cp.afterRev = NoRev \/ cp.afterRev <= lastRev)
      BY AgentServer, RecordNumbers, EditorNumbers DEF AgentInv, HeldInv, CheckpointsArePast
    <2> QED
      BY <2>1, <2>2 DEF NoRev
  <1>4. rev'[cp.asset] = rev[cp.asset] /\ disk'[cp.asset] = disk[cp.asset]
    <2>1. rev'[cp.asset] # lastRev + 1
      BY <1>1, <1>3
    <2> QED
      BY <1>3, <2>1, AgentServer, EditorRevisions
  <1> QED
    BY <1>1, <1>2, <1>4 DEF AgentInv, CheckpointHoldsOnlyItsWrites, Persisted

\* Every step keeps the agreement.
LEMMA StepKeepsAgent ==
  ASSUME AgentInv, OnlyAgentWrites, [WorkflowNext]_vars
  PROVE  AgentInv'
  <1>1. /\ "crash" \notin Tools /\ "rollback" \notin Tools
        /\ "undo" \notin UserActions /\ "redo" \notin UserActions /\ "restore" \notin UserActions
    BY DEF OnlyAgentWrites
  <1>2. TypedInv /\ HeldInv /\ LifecycleInv /\ Typed
    BY DEF AgentInv, HeldInv, TypedInv
  <1>3. LifecycleInv' /\ KindOfStep /\ [EditorNext]_editorVars
    BY <1>1, <1>2, StepFollows, StepsHaveAKind, EditorPartOfCall
  <1>4. TypedInv' /\ RecentInv' /\ Typed'
    BY <1>3 DEF LifecycleInv, TypedInv
  <1>5. HeldInv'
    BY <1>1, <1>2, <1>3, <1>4, StepKeepsHeld
  <1>6. /\ AgentListed(server)' /\ AgentEditorParts' /\ ClosedHasNoRecords'
        /\ UNCHANGED backups \/ SavePointStep
    BY StepKeepsListed
  <1>7. CheckpointHoldsOnlyItsWrites'
    <2> SUFFICES ASSUME NEW k \in server'.cps, NEW b \in backups', k.state \in {"saved", "verified"}, b.id = k.id,
                        rev'[k.asset] = k.afterRev, NEW t \in Targets, disk'[k.asset][t] # b.content[t]
                 PROVE  \E x \in k.effective : x.target = t
      BY DEF CheckpointHoldsOnlyItsWrites
    <2>1. k.state \in Persisted /\ k.state # "prepared"
      BY DEF Persisted
    <2>2. CASE \E cp \in server.cps : BecameOf(k, cp)
      BY <1>1, <1>3, <1>4, <1>6, <2>1, <2>2, HoldsOnlyStays
    <2>3. CASE \E c \in MaybeChangeSet, a \in Assets, auth \in server.auths, cp \in server.cps, w \in 0..NoRev :
                 CommitStep(c, a, auth, cp, w) /\ SameCheckpoint(k, cp)
      BY <2>3, CommitHoldsOnly
    <2> QED
      BY <1>2, <1>3, <2>1, <2>2, <2>3, CheckpointsOfStep
  <1> QED
    BY <1>3, <1>4, <1>5, <1>6, <1>7 DEF AgentInv, AgentEditorInv

\* It holds initially.
LEMMA InitIsAgreed ==
  ASSUME WorkflowInit
  PROVE  AgentInv
  <1>1. LifecycleInv /\ TypedInv /\ AgentEditorInv
    BY InitIsListed, InitIsAgents DEF LifecycleInv, WorkflowInit
  <1>2. /\ \A c \in ChangeSetIds : server.ops[c] = <<>>
        /\ server.live = {} /\ server.cps = {} /\ server.auths = {}
        /\ \A a \in Assets : records[a] = {}
    BY DEF WorkflowInit, EditorInit
  <1>3. HeldInv /\ ClosedHasNoRecords /\ CheckpointHoldsOnlyItsWrites
    BY <1>1, <1>2 DEF HeldInv, CheckpointsAreHeld, CheckpointsArePast, ClosedHasNoRecords, CheckpointHoldsOnlyItsWrites
  <1>4. \A a \in Assets : Pending(a) = {}
    BY <1>2 DEF Pending
  <1>5. PendingIsLive(server) /\ PendingIsOwned(server)
    BY <1>4 DEF PendingIsLive, PendingIsOwned
  <1>6. LiveIsPending(server) /\ LiveIsOfSessions(server) /\ OneRecord(server) /\ CheckpointsWrite(server) /\ SavedHaveBackups(server, backups)
    BY <1>2 DEF LiveIsPending, PendingLive, LiveIsOfSessions, OneRecord, CheckpointsWrite, SavedHaveBackups
  <1>7. OneOwner(server) /\ AllOrNoneApplied(server, session)
    BY <1>2, EmptyFacts DEF OneOwner, AllOrNoneApplied
  <1> QED
    BY <1>1, <1>3, <1>5, <1>6, <1>7 DEF AgentInv, AgentListed

\* The agreement is kept as long as only the agent writes.
LEMMA AgentsAgree ==
  ASSUME OnlyAgentWrites
  PROVE  WorkflowSpec => []AgentInv
  <1>1. WorkflowInit => AgentInv
    BY InitIsAgreed
  <1>2. AgentInv /\ [WorkflowNext]_vars => AgentInv'
    BY StepKeepsAgent
  <1> QED
    BY <1>1, <1>2, PTL DEF WorkflowSpec

\* No package is dirty behind the server's back: the journal has an unsaved live write of this
\* Editor session for it, through undos, saves, checkpoints, restarts and refreshes, as long as
\* only the agent writes, every answer arrives and the journal has room for every write.
THEOREM DirtyPackagesStayAccounted ==
  ASSUME OnlyAgentWrites
  PROVE  WorkflowSpec => []DirtyPackagesAreAccounted
  <1>1. AgentInv => DirtyPackagesAreAccounted
    <2> SUFFICES ASSUME AgentInv, NEW a \in Assets, dirty[a]
                 PROVE  \E l \in server.live : l.asset = a /\ l.sess = session /\ ~l.saved
      BY DEF DirtyPackagesAreAccounted
    <2>1. PICK r \in Pending(a) : TRUE
      BY DEF AgentInv, AgentEditorInv, AgentEditorParts, DirtyIsPending
    <2>2. PICK l \in PendingLive(server, session) : l.asset = a
      BY <2>1 DEF AgentInv, AgentListed, PendingIsLive
    <2> QED
      BY <2>2 DEF PendingLive
  <1> QED
    BY <1>1, AgentsAgree, PTL

\* A write the server still counts as pending in this session is one the Editor can still undo:
\* the bridge retains the record of exactly this write.
THEOREM PendingWritesStayUndoable ==
  ASSUME OnlyAgentWrites
  PROVE  WorkflowSpec => []PendingWritesCanBeUndone
  <1>1. AgentInv => PendingWritesCanBeUndone
    <2> SUFFICES ASSUME AgentInv, NEW l \in server.live, ~l.saved, l.sess = session, link # "closed"
                 PROVE  \E r \in records[l.asset] : r.id = l.receipt /\ r.target = l.target /\ r.after = l.after
      BY DEF PendingWritesCanBeUndone
    <2>1. l \in PendingLive(server, session)
      BY DEF PendingLive
    <2> QED
      BY <2>1 DEF AgentInv, AgentListed, LiveIsPending, Pending
  <1> QED
    BY <1>1, AgentsAgree, PTL

\* What a checkpoint put on disk differs from its backup only in the targets it lists, for as long
\* as the file is the revision it wrote.
THEOREM CheckpointsHoldOnlyTheirWrites ==
  ASSUME OnlyAgentWrites
  PROVE  WorkflowSpec => []CheckpointHoldsOnlyItsWrites
  <1>1. AgentInv => CheckpointHoldsOnlyItsWrites
    BY DEF AgentInv
  <1> QED
    BY <1>1, AgentsAgree, PTL

-----------------------------------------------------------------------------
(* What counts as applied can be finished                                  *)

\* A live record is of the asset its operation is of.
OnTheirAssets(m) ==
  \A c \in ChangeSetIds : \A i \in DOMAIN m.ops[c] : \A l \in m.live :
    l.receipt = m.ops[c][i].receipt => l.asset = m.ops[c][i].asset

LEMMA OnTheirAssetsStays ==
  ASSUME NEW m, NEW n, OnTheirAssets(m), SameOperations(m, n), LiveFrom(m, n)
  PROVE  OnTheirAssets(n)
  <1> SUFFICES ASSUME NEW c \in ChangeSetIds, NEW i \in DOMAIN n.ops[c], NEW y \in n.live,
                      y.receipt = n.ops[c][i].receipt
               PROVE  y.asset = n.ops[c][i].asset
    BY DEF OnTheirAssets
  <1>1. PICK l \in m.live : y.receipt = l.receipt /\ y.asset = l.asset
    BY DEF LiveFrom
  <1> QED
    BY <1>1 DEF OnTheirAssets, SameOperations

LEMMA WriteKeepsOnTheirAssets ==
  ASSUME LifecycleInv, OnTheirAssets(server), "crash" \notin Tools, WriteStep
  PROVE  OnTheirAssets(server')
  <1>1. /\ server \in Servers /\ ReceiptsUpTo(server, lastTx) /\ lastTx \in Nat
        /\ NextReceipt = lastTx + 1
    BY EditorNumbers DEF LifecycleInv, TypedInv, Typed, WorkflowTypeOK, Listed, NextReceipt
  <1>2. PICK c \in MaybeChangeSet, a \in Assets : \/ \E t \in Targets, v \in Values : Apply(c, a, t, v)
                                                  \/ ApplyNoChange(c, a)
    BY DEF WriteStep
  <1>3. ASSUME NEW m \in Servers, Orderly(server, m)
        PROVE  /\ OnTheirAssets(m)
               /\ \A e \in ChangeSetIds : \A i \in DOMAIN m.ops[e] : m.ops[e][i].receipt # NextReceipt
               /\ \A l \in m.live : l.receipt # NextReceipt
    <2>1. SameOperations(server, m) /\ LiveFrom(server, m)
      BY <1>3 DEF Orderly, MovedOn
    <2>2. OnTheirAssets(m)
      BY <2>1, OnTheirAssetsStays
    <2>3. /\ \A e \in ChangeSetIds : \A i \in DOMAIN server.ops[e] : server.ops[e][i].receipt # NextReceipt
          /\ \A l \in server.live : l.receipt # NextReceipt
      BY <1>1, ReceiptNumbers DEF ReceiptsUpTo
    <2> QED
      BY <2>1, <2>2, <2>3 DEF SameOperations, LiveFrom
  <1>4. CASE ApplyNoChange(c, a)
    <2>1. PICK t : t \in Targets \/ TRUE
      OBVIOUS
    <2>2. PICK m \in Servers : /\ Orderly(server, m) /\ server' \in Servers
                               /\ AddsTo(m, server', c, NoReceipt) /\ LiveAdded(m, server', NoReceipt, a, t)
      BY <1>4, ApplyNoChangeIsWriteCall DEF WriteCall
    <2>3. \A y \in server'.live : y.receipt # NoReceipt
      BY <2>2, ReceiptNumbers
    <2> SUFFICES ASSUME NEW e \in ChangeSetIds, NEW i \in DOMAIN server'.ops[e], NEW y \in server'.live,
                        y.receipt = server'.ops[e][i].receipt
                 PROVE  y.asset = server'.ops[e][i].asset
      BY DEF OnTheirAssets
    <2>4. i \in DOMAIN m.ops[e] /\ server'.ops[e][i] = m.ops[e][i]
      BY <2>2, <2>3, AddedOperations
    <2>5. y \in m.live
      BY <2>2, <2>3 DEF LiveAdded
    <2> QED
      BY <1>3, <2>2, <2>4, <2>5 DEF OnTheirAssets
  <1>5. ASSUME NEW t \in Targets, NEW v \in Values, Apply(c, a, t, v)
        PROVE  OnTheirAssets(server')
    <2>1. PICK m \in Servers : /\ Orderly(server, m) /\ AddsTo(m, server', c, NextReceipt)
                               /\ LiveAdded(m, server', NextReceipt, a, t) /\ OldOrOf(m, server', a)
      BY <1>5, ApplyOnItsAsset
    <2> SUFFICES ASSUME NEW e \in ChangeSetIds, NEW i \in DOMAIN server'.ops[e], NEW y \in server'.live,
                        y.receipt = server'.ops[e][i].receipt
                 PROVE  y.asset = server'.ops[e][i].asset
      BY DEF OnTheirAssets
    <2>2. CASE y.receipt = NextReceipt
      <3>1. y.asset = a
        BY <1>3, <2>1, <2>2 DEF LiveAdded
      <3>2. server'.ops[e][i].asset = a
        BY <1>3, <2>1, <2>2 DEF OldOrOf
      <3> QED
        BY <3>1, <3>2
    <2>3. CASE y.receipt # NextReceipt
      <3>1. y \in m.live
        BY <2>1, <2>3 DEF LiveAdded
      <3>2. i \in DOMAIN m.ops[e] /\ server'.ops[e][i] = m.ops[e][i]
        BY <2>1, <2>3, AddedOperations
      <3> QED
        BY <1>3, <2>1, <3>1, <3>2 DEF OnTheirAssets
    <2> QED
      BY <2>2, <2>3
  <1> QED
    BY <1>2, <1>4, <1>5

\* The operation of a patch is of no live record.
LEMMA PatchKeepsOnTheirAssets ==
  ASSUME LifecycleInv, OnTheirAssets(server), "crash" \notin Tools, PatchStep
  PROVE  OnTheirAssets(server')
  <1>1. PICK c \in ChangeSetIds : CommitPatch(c)
    BY DEF PatchStep
  <1>2. PICK a, t : a = OtherPackage /\ t = OtherPackage
    OBVIOUS
  <1>3. PICK m \in Servers : /\ Orderly(server, m) /\ server' \in Servers
                             /\ AddsTo(m, server', c, NoReceipt) /\ LiveAdded(m, server', NoReceipt, a, t)
    BY <1>1, PatchIsWriteCall DEF WriteCall
  <1>4. OnTheirAssets(m)
    BY <1>3, OnTheirAssetsStays DEF Orderly, MovedOn
  <1>5. \A y \in server'.live : y.receipt # NoReceipt /\ y \in m.live
    BY <1>3, ReceiptNumbers DEF LiveAdded
  <1> SUFFICES ASSUME NEW e \in ChangeSetIds, NEW i \in DOMAIN server'.ops[e], NEW y \in server'.live,
                      y.receipt = server'.ops[e][i].receipt
               PROVE  y.asset = server'.ops[e][i].asset
    BY DEF OnTheirAssets
  <1>6. i \in DOMAIN m.ops[e] /\ server'.ops[e][i] = m.ops[e][i]
    <2>1. c \in MaybeChangeSet
      BY DEF MaybeChangeSet
    <2> QED
      BY <1>3, <1>5, <2>1, AddedOperations
  <1> QED
    BY <1>4, <1>5, <1>6 DEF OnTheirAssets

LEMMA StepKeepsOnTheirAssets ==
  ASSUME LifecycleInv, OnTheirAssets(server), [WorkflowNext]_vars, "crash" \notin Tools, "rollback" \notin Tools
  PROVE  OnTheirAssets(server')
  <1>1. CASE Orderly(server, server')
    BY <1>1, OnTheirAssetsStays DEF Orderly, MovedOn
  <1>2. CASE CreateStep
    <2>1. PICK d \in ChangeSetIds : CreateChangeSet(d)
      BY <1>2 DEF CreateStep
    <2>2. /\ server'.live = server.live
          /\ \/ server'.ops = server.ops
             \/ \E e \in ChangeSetIds : \A f \in ChangeSetIds : server'.ops[f] = IF f = e THEN <<>> ELSE server.ops[f]
      BY <2>1, CreateCall
    <2>3. \A f \in ChangeSetIds : \A i \in DOMAIN server'.ops[f] : i \in DOMAIN server.ops[f] /\ server'.ops[f] = server.ops[f]
      BY <2>2, EmptyFacts
    <2> QED
      BY <2>2, <2>3 DEF OnTheirAssets
  <1>3. CASE SavePointStep
    <2>1. MovedOn(server, server') /\ LiveFrom(server, server')
      BY <1>3, CommitCall DEF SavePointStep
    <2> QED
      BY <2>1, OnTheirAssetsStays DEF MovedOn
  <1>4. CASE PatchStep
    BY <1>4, PatchKeepsOnTheirAssets
  <1> QED
    BY <1>1, <1>2, <1>3, <1>4, WriteKeepsOnTheirAssets, CallsAreOrderly

\* The other side of the run workflow_finish: without immediate saves, and while only the agent
\* writes, an operation that counts as applied is on a dirty package, so that it can be saved and
\* verified, undone or discarded.
THEOREM AppliedOperationsStayFinishable ==
  ASSUME OnlyAgentWrites
  PROVE  WorkflowSpec => []AppliedOperationsCanBeFinished
  <1>1. "crash" \notin Tools /\ "rollback" \notin Tools
    BY DEF OnlyAgentWrites
  <1>2. WorkflowInit => OnTheirAssets(server)
    BY EmptyFacts DEF WorkflowInit, OnTheirAssets
  <1>3. AgentInv /\ OnTheirAssets(server) /\ [WorkflowNext]_vars => OnTheirAssets(server)'
    BY <1>1, StepKeepsOnTheirAssets DEF AgentInv
  <1>4. AgentInv /\ OnTheirAssets(server) => AppliedOperationsCanBeFinished
    <2> SUFFICES ASSUME AgentInv, OnTheirAssets(server), NEW c \in ChangeSetIds, NEW i \in DOMAIN server.ops[c],
                        ReconciledStatus(server, server.ops[c][i]) = "applied"
                 PROVE  dirty[server.ops[c][i].asset]
      BY DEF AppliedOperationsCanBeFinished
    <2>1. PICK op : op = server.ops[c][i]
      OBVIOUS
    <2>2. PICK l : l = LiveApply(server, op.receipt)
      OBVIOUS
    <2>3. IsLive(server, op.receipt) /\ ~l.saved /\ link # "closed" /\ l.sess = session
      BY <2>1, <2>2 DEF ReconciledStatus, ReconciledStatus_SupersededToo, EditorAvailable
    <2>4. l \in server.live /\ l.receipt = op.receipt
      BY <2>2, <2>3 DEF IsLive, LiveApply
    <2>5. l \in PendingLive(server, session)
      BY <2>3, <2>4 DEF PendingLive
    <2>6. Pending(l.asset) # {}
      BY <2>3, <2>5 DEF AgentInv, AgentListed, LiveIsPending
    <2>7. l.asset = op.asset /\ l.asset \in Assets
      BY <2>1, <2>4, AgentServer, ServerParts DEF OnTheirAssets, LiveApplies
    <2> QED
      BY <2>1, <2>6, <2>7 DEF AgentInv, AgentEditorInv, AgentEditorParts, DirtyIsPending
  <1> QED
    BY <1>2, <1>3, <1>4, AgentsAgree, PTL DEF WorkflowSpec

-----------------------------------------------------------------------------
(* What a checkpoint replaced stays replaced                               *)

\* A receipt is of one operation of one change set, and stands for one write.
Identified(m) == OwnReceipts(m) /\ OneOwner(m) /\ OneWrite(m)

\* What has a record of an authorized save is not superseded.
SavedIsNotSuperseded(m) ==
  \A c \in ChangeSetIds : \A i \in DOMAIN m.ops[c] : \A l \in m.live :
    l.receipt = m.ops[c][i].receipt /\ l.saved => m.ops[c][i].status # "superseded"

\* Nor is what a checkpoint covers that can still be verified: the next checkpoint of the asset
\* replaces only writes made later.
CoversNone(m, cp) ==
  \A w \in cp.effective : \A i \in DOMAIN m.ops[cp.cs] :
    m.ops[cp.cs][i].receipt = w.receipt => m.ops[cp.cs][i].status # "superseded"
VerifiableCoverNone ==
  \A cp \in server.cps : cp.state = "saved" /\ rev[cp.asset] = cp.afterRev => CoversNone(server, cp)

\* A checkpoint is saved as a revision after the one the index describes, and its writes are on
\* its asset.
SavedAfterTheIndex ==
  "refresh" \notin Tools =>
    \A cp \in server.cps : cp.state = "saved" => cp.afterRev # indexRev[cp.asset]
SavedOnItsAsset(m, cp) ==
  \A w \in cp.effective : \A l \in m.live : l.receipt = w.receipt => l.asset = cp.asset
SavedOnTheirAssets(m) == \A cp \in m.cps : cp.state = "saved" => SavedOnItsAsset(m, cp)

SupersededInv ==
  /\ TypedInv /\ CheckpointsArePast /\ ("refresh" \notin Tools => BackupsAreOfTheIndex)
  /\ ReceiptsUpTo(server, lastTx) /\ Identified(server)
  /\ SavedIsNotSuperseded(server) /\ VerifiableCoverNone
  /\ SavedAfterTheIndex /\ SavedOnTheirAssets(server)

\* A call that saves no checkpoint: old operations keep their receipts, a new one is the
\* transaction the Editor just gave out or changes nothing, and only an undo, a discard or a
\* disk rollback touches what is superseded.
IsNew(r) == r = NextReceipt /\ lastTx' = NextReceipt
OperationStays(m, n, c, i) ==
  /\ i \in DOMAIN m.ops[c] /\ n.ops[c][i].receipt = m.ops[c][i].receipt
  /\ n.ops[c][i].status = "superseded" => m.ops[c][i].status = "superseded"
OperationIsNew(n, c, i) ==
  (n.ops[c][i].receipt = NoReceipt \/ IsNew(n.ops[c][i].receipt)) /\ n.ops[c][i].status # "superseded"
OperationsStay(m, n) ==
  \A c \in ChangeSetIds : \A i \in DOMAIN n.ops[c] : OperationStays(m, n, c, i) \/ OperationIsNew(n, c, i)
Revoked == {"superseded", "undone", "discarded"}
StaysSuperseded(n, c, i) ==
  n.phase[c] = "gone" \/ (i \in DOMAIN n.ops[c] /\ n.ops[c][i].status \in Revoked)
SupersededStay(m, n) ==
  \A c \in ChangeSetIds : \A i \in DOMAIN m.ops[c] :
    m.ops[c][i].status = "superseded" => StaysSuperseded(n, c, i)
LiveStays(m, n) == \A y \in n.live : y \in m.live \/ (IsNew(y.receipt) /\ ~y.saved)
SavedFrom(k, cp) == SameCheckpoint(k, cp) /\ k.afterRev = cp.afterRev /\ cp.state = "saved"
ChecksStay(m, n) ==
  \A k \in n.cps :
    /\ k.state = "saved" => \E cp \in m.cps : SavedFrom(k, cp)
    /\ \A w \in k.effective : (\E cp \in m.cps : w \in cp.effective) \/ (\E l \in m.live : l.receipt = w.receipt)

Steady(m, n) ==
  /\ n \in Servers /\ Identified(n)
  /\ OperationsStay(m, n) /\ SupersededStay(m, n) /\ LiveStays(m, n) /\ ChecksStay(m, n)

\* Whatever a crash leaves of such a call is steady as well.
LEMMA IdentifiedSame ==
  ASSUME NEW m, NEW n, Identified(m), SameOperations(m, n), n.live \subseteq m.live
  PROVE  Identified(n)
  <1>1. OwnReceipts(n)
    BY DEF Identified, SameOperations, OwnReceipts
  <1>2. OneOwner(n)
    BY DEF Identified, SameOperations, OneOwner
  <1>3. OneWrite(n)
    BY DEF Identified, OneWrite
  <1> QED
    BY <1>1, <1>2, <1>3 DEF Identified

LEMMA SteadySurvives ==
  ASSUME NEW m, NEW p \in Servers, Steady(m, p), NEW n, Survives(p, n)
  PROVE  Steady(m, n)
  <1>1. n \in Servers /\ n.phase = p.phase /\ n.live = p.live /\ n.cps = p.cps /\ SameOperations(p, n)
    BY DEF Survives
  <1>2. Identified(n)
    BY <1>1, IdentifiedSame DEF Steady
  <1>3. \A c \in ChangeSetIds : \A i \in DOMAIN p.ops[c] :
          /\ n.ops[c][i].status = "superseded" <=> p.ops[c][i].status = "superseded"
          /\ p.ops[c][i].status \in Revoked => n.ops[c][i].status = p.ops[c][i].status
    BY DEF Survives, Revoked
  <1>4. OperationsStay(m, n)
    BY <1>1, <1>3 DEF Steady, OperationsStay, OperationStays, OperationIsNew, SameOperations
  <1>5. ASSUME NEW c \in ChangeSetIds, NEW i \in DOMAIN m.ops[c], m.ops[c][i].status = "superseded"
        PROVE  StaysSuperseded(n, c, i)
    <2>1. StaysSuperseded(p, c, i)
      BY <1>5 DEF Steady, SupersededStay
    <2>2. CASE n.phase[c] = "gone"
      BY <2>2 DEF StaysSuperseded
    <2>3. CASE p.ops[c][i].status \in Revoked /\ i \in DOMAIN p.ops[c]
      BY <1>1, <1>3, <2>3 DEF StaysSuperseded, SameOperations
    <2> QED
      BY <1>1, <2>1, <2>2, <2>3 DEF StaysSuperseded
  <1>6. LiveStays(m, n) /\ ChecksStay(m, n)
    BY <1>1 DEF Steady, LiveStays, ChecksStay
  <1> QED
    BY <1>1, <1>2, <1>4, <1>5, <1>6 DEF Steady, SupersededStay

LEMMA SteadyFinish ==
  ASSUME NEW k \in Servers, NEW m \in Servers, NEW partial \in SUBSET Servers, Finish(m, partial),
         Steady(k, m), \A p \in partial : Steady(k, p)
  PROVE  Steady(k, server')
  <1>1. PICK p \in partial \cup {m} : Survives(p, server')
    BY FinishFacts
  <1>2. p \in Servers /\ Steady(k, p)
    OBVIOUS
  <1> QED
    BY <1>1, <1>2, SteadySurvives

\* Calls that only write statuses and drop records.
StatusesKept(m, n) ==
  \A c \in ChangeSetIds : \A i \in DOMAIN m.ops[c] :
    /\ n.ops[c][i].status = "superseded" => m.ops[c][i].status = "superseded"
    /\ m.ops[c][i].status = "superseded" => n.ops[c][i].status \in Revoked

LEMMA RewrittenIsSteady ==
  ASSUME NEW m \in Servers, NEW n \in Servers, Identified(m), SameOperations(m, n), n.live \subseteq m.live,
         ChecksStay(m, n), StatusesKept(m, n)
  PROVE  Steady(m, n)
  <1>1. Identified(n)
    BY IdentifiedSame
  <1>2. OperationsStay(m, n)
    BY DEF OperationsStay, OperationStays, SameOperations, StatusesKept
  <1>3. SupersededStay(m, n)
    BY DEF SupersededStay, StaysSuperseded, SameOperations, StatusesKept
  <1>4. LiveStays(m, n)
    BY DEF LiveStays
  <1> QED
    BY <1>1, <1>2, <1>3, <1>4 DEF Steady

LEMMA SameChecksStay ==
  ASSUME NEW m, NEW n, n.cps = m.cps
  PROVE  ChecksStay(m, n)
  BY DEF ChecksStay, SavedFrom, SameCheckpoint

LEMMA UnchangedIsSteady ==
  ASSUME NEW m \in Servers, Identified(m)
  PROVE  Steady(m, m)
  <1>1. SameOperations(m, m) /\ StatusesKept(m, m)
    BY DEF SameOperations, StatusesKept, Revoked
  <1>2. ChecksStay(m, m)
    BY SameChecksStay
  <1> QED
    BY <1>1, <1>2, RewrittenIsSteady

\* One status is written where nothing is superseded, or by an undo or a discard.
LEMMA StatusWriteIsSteady ==
  ASSUME NEW m \in Servers, Identified(m), NEW c \in MaybeChangeSet, NEW R, AreWrites(R), NEW s \in OperationStatuses, s # "superseded",
         \/ s \in Revoked
         \/ c # NoChangeSet => \A i \in DOMAIN m.ops[c] : m.ops[c][i].receipt \in R => m.ops[c][i].status # "superseded",
         NEW n, n = SetStatus(m, c, R, s)
  PROVE  n \in Servers /\ Steady(m, n) /\ n.live = m.live /\ n.cps = m.cps /\ SameOperations(m, n) /\ StatusesKept(m, n)
  <1>1. /\ n \in Servers /\ n.live = m.live /\ n.cps = m.cps /\ SameOperations(m, n)
        /\ \A d \in ChangeSetIds : \A i \in DOMAIN m.ops[d] :
             n.ops[d][i].status = IF d = c /\ c # NoChangeSet /\ m.ops[d][i].receipt \in R THEN s
                                  ELSE m.ops[d][i].status
    BY SetStatusFacts
  <1>2. StatusesKept(m, n)
    BY <1>1 DEF StatusesKept, Revoked
  <1> QED
    BY <1>1, <1>2, RewrittenIsSteady, SameChecksStay

\* A reconciliation leaves what is superseded alone and supersedes nothing.
LEMMA ReconciledStaysSuperseded ==
  ASSUME NEW m, NEW n \in Servers, NEW c \in ChangeSetIds, NEW i \in DOMAIN n.ops[c]
  PROVE  ReconciledStatus(m, n.ops[c][i]) = "superseded" <=> n.ops[c][i].status = "superseded"
  <1>1. n.ops[c] \in Seq(Operations)
    BY ServerParts
  <1>2. n.ops[c][i] \in Operations
    BY <1>1
  <1>3. PICK op : op = n.ops[c][i] /\ op \in Operations
    BY <1>2
  <1>4. CASE op.apply # "none"
    <2>1. op.status # "superseded"
      BY <1>3, <1>4, OperationParts DEF PatchStatus
    <2>2. ReconciledStatus(m, op) # "superseded"
      BY <1>4 DEF ReconciledStatus, ReconciledStatus_SupersededToo
    <2> QED
      BY <1>3, <2>1, <2>2
  <1>5. CASE op.apply = "none"
    BY <1>3, <1>5 DEF ReconciledStatus, ReconciledStatus_SupersededToo
  <1> QED
    BY <1>4, <1>5

LEMMA BegunIsSteady ==
  ASSUME WorkflowTypeOK, Identified(server), NEW c \in MaybeChangeSet, NEW n, n = Begun(c)
  PROVE  n \in Servers /\ Steady(server, n) /\ n.live = server.live /\ n.cps = server.cps /\ Identified(n)
         /\ SameOperations(server, n) /\ StatusesKept(server, n)
  <1>1. server \in Servers
    BY DEF WorkflowTypeOK
  <1>2. /\ n \in Servers /\ n.live = server.live /\ n.cps = server.cps /\ SameOperations(server, n)
        /\ \A d \in ChangeSetIds : \A i \in DOMAIN server.ops[d] :
              n.ops[d][i].status = IF d = c /\ c # NoChangeSet THEN ReconciledStatus(server, server.ops[d][i])
                                   ELSE server.ops[d][i].status
    BY BegunFacts
  <1>3. StatusesKept(server, n)
    BY <1>1, <1>2, ReconciledStaysSuperseded DEF StatusesKept, Revoked
  <1>4. Steady(server, n)
    BY <1>1, <1>2, <1>3, RewrittenIsSteady, SameChecksStay
  <1> QED
    BY <1>2, <1>3, <1>4 DEF Steady

\* ue_get_change_set and discard_empty_change_set, ue_create_change_set.
LEMMA GetIsSteady ==
  ASSUME WorkflowTypeOK, Identified(server), NEW c \in ChangeSetIds, GetChangeSet(c)
  PROVE  Steady(server, server')
  <1>1. PICK n : n = Reconciled(server, c) /\ Finish(n, {})
    BY DEF GetChangeSet
  <1>2. server \in Servers
    BY DEF WorkflowTypeOK
  <1>3. /\ n \in Servers /\ n.live = server.live /\ n.cps = server.cps /\ SameOperations(server, n)
        /\ \A d \in ChangeSetIds : \A i \in DOMAIN server.ops[d] :
              n.ops[d][i].status = IF d = c THEN ReconciledStatus(server, server.ops[d][i]) ELSE server.ops[d][i].status
    BY <1>1, <1>2, ReconciledFacts
  <1>4. StatusesKept(server, n)
    BY <1>2, <1>3, ReconciledStaysSuperseded DEF StatusesKept, Revoked
  <1>5. Steady(server, n)
    BY <1>2, <1>3, <1>4, RewrittenIsSteady, SameChecksStay
  <1> QED
    BY <1>1, <1>2, <1>3, <1>5, SteadyFinish

LEMMA ForgottenIsSteady ==
  ASSUME NEW m \in Servers, Identified(m), NEW F, NEW n, n = Forget(m, F)
  PROVE  n \in Servers /\ Steady(m, n)
  <1>1. /\ n \in Servers /\ n.live = m.live /\ n.cps = m.cps
        /\ \A c \in ChangeSetIds : /\ n.phase[c] = IF c \in F THEN "gone" ELSE m.phase[c]
                                   /\ n.ops[c] = IF c \in F THEN <<>> ELSE m.ops[c]
    BY ForgetFacts
  <1>2. \A c \in ChangeSetIds : /\ n.ops[c] = m.ops[c] \/ DOMAIN n.ops[c] = {}
                                /\ n.ops[c] = m.ops[c] \/ n.phase[c] = "gone"
    BY <1>1, EmptyFacts
  <1>3. \A c \in ChangeSetIds : \A i \in DOMAIN n.ops[c] : i \in DOMAIN m.ops[c] /\ n.ops[c][i] = m.ops[c][i]
    BY <1>2
  <1>4. OwnReceipts(n)
    BY <1>3 DEF Identified, OwnReceipts
  <1>5. OneOwner(n)
    BY <1>3 DEF Identified, OneOwner
  <1>6. OneWrite(n)
    BY <1>1 DEF Identified, OneWrite
  <1>7. OperationsStay(m, n)
    BY <1>3 DEF OperationsStay, OperationStays
  <1>8. SupersededStay(m, n)
    BY <1>2 DEF SupersededStay, StaysSuperseded, Revoked
  <1>9. LiveStays(m, n) /\ ChecksStay(m, n)
    BY <1>1, SameChecksStay DEF LiveStays
  <1> QED
    BY <1>1, <1>4, <1>5, <1>6, <1>7, <1>8, <1>9 DEF Steady, Identified

LEMMA CreateIsSteady ==
  ASSUME Typed, Identified(server), NEW c \in ChangeSetIds, CreateChangeSet(c)
  PROVE  Steady(server, server')
  <1>1. PICK F, m, n : /\ F \subseteq OpenChangeSets /\ m = Forget(server, F)
                       /\ n = [m EXCEPT !.phase[c] = "open",
                                        !.bound[c] = IF EditorAvailable THEN session ELSE NoSession]
                       /\ Finish(n, {m})
    BY DEF CreateChangeSet
  <1>2. server \in Servers /\ session \in 0..MaxSessions /\ server.phase[c] = "new"
    BY EditorNumbers DEF Typed, WorkflowTypeOK, CreateChangeSet
  <1>3. m \in Servers /\ Steady(server, m)
    BY <1>1, <1>2, ForgottenIsSteady
  <1>4. m.phase[c] # "gone"
    <2>1. c \notin F
      BY <1>1, <1>2 DEF OpenChangeSets
    <2> QED
      BY <1>1, <1>2, <2>1, ForgetFacts
  <1>5. PICK p, b, k : /\ p = [m.phase EXCEPT ![c] = "open"]
                       /\ b = [m.bound EXCEPT ![c] = IF EditorAvailable THEN session ELSE NoSession]
                       /\ k = WithPhase(m, p)
    OBVIOUS
  <1>6. /\ p \in [ChangeSetIds -> {"new", "open", "gone"}] /\ b \in [ChangeSetIds -> 0..MaxSessions]
        /\ \A d \in ChangeSetIds : m.phase[d] = "gone" => p[d] = "gone"
    <2>1. m.phase \in [ChangeSetIds -> {"new", "open", "gone"}] /\ m.bound \in [ChangeSetIds -> 0..MaxSessions]
      BY <1>3, ServerParts
    <2>2. NoSession \in 0..MaxSessions
      BY BoundsAssumption DEF NoSession
    <2> QED
      BY <1>2, <1>4, <1>5, <2>1, <2>2
  <1>7. /\ k \in Servers /\ k.phase = p /\ k.ops = m.ops /\ k.bound = m.bound /\ k.live = m.live
        /\ k.cps = m.cps /\ k.auths = m.auths
    BY <1>3, <1>5, <1>6, ServerField
  <1>8. n = WithBound(k, b)
    BY <1>1, <1>5 DEF WithPhase, WithBound
  <1>9. n \in Servers /\ n.phase = p /\ n.ops = m.ops /\ n.live = m.live /\ n.cps = m.cps
    BY <1>6, <1>7, <1>8, ServerField
  <1>10. Identified(n)
    BY <1>3, <1>9 DEF Steady, Identified, OwnReceipts, OneOwner, OneWrite
  <1>11. OperationsStay(server, n)
    BY <1>3, <1>9 DEF Steady, OperationsStay, OperationStays, OperationIsNew
  <1>12. SupersededStay(server, n)
    BY <1>3, <1>6, <1>9 DEF Steady, SupersededStay, StaysSuperseded
  <1>13. LiveStays(server, n) /\ ChecksStay(server, n)
    BY <1>3, <1>9 DEF Steady, LiveStays, ChecksStay
  <1>14. Steady(server, n)
    BY <1>9, <1>10, <1>11, <1>12, <1>13 DEF Steady
  <1>15. {m} \in SUBSET Servers
    BY <1>3
  <1> QED
    BY <1>1, <1>2, <1>3, <1>9, <1>14, <1>15, SteadyFinish

\* A write adds one operation and one live record of the transaction the Editor just gave out.
AddsOne(m, n, c, r) == AddsTo(m, n, c, r) /\ (r = NoReceipt \/ IsNew(r))

LEMMA AddedIsSteady ==
  ASSUME ReceiptsUpTo(server, lastTx), lastTx \in Nat, server \in Servers, Identified(server),
         NEW m \in Servers, SameOperations(server, m), StatusesKept(server, m), m.live = server.live, m.cps = server.cps,
         NEW n \in Servers, n.cps = server.cps, NEW c \in MaybeChangeSet, NEW r, AddsOne(m, n, c, r),
         \A y \in n.live : y \in server.live \/ (IsNew(y.receipt) /\ ~y.saved),
         \A x, y \in n.live : x.receipt = y.receipt /\ x \notin server.live /\ y \notin server.live => x = y
  PROVE  Steady(server, n)
  <1>1. \A e \in ChangeSetIds : \A i \in DOMAIN n.ops[e] :
          \/ i \in DOMAIN m.ops[e] /\ n.ops[e][i] = m.ops[e][i]
          \/ /\ i = Len(m.ops[e]) + 1 /\ i \notin DOMAIN m.ops[e] /\ n.ops[e][i].receipt = r /\ e = c
             /\ n.ops[e][i].status # "superseded"
    <2> SUFFICES ASSUME NEW e \in ChangeSetIds, n.ops[e] # m.ops[e], NEW i \in DOMAIN n.ops[e]
                 PROVE  \/ i \in DOMAIN m.ops[e] /\ n.ops[e][i] = m.ops[e][i]
                        \/ /\ i = Len(m.ops[e]) + 1 /\ i \notin DOMAIN m.ops[e] /\ n.ops[e][i].receipt = r /\ e = c
                           /\ n.ops[e][i].status # "superseded"
      OBVIOUS
    <2>1. PICK o \in Operations : e = c /\ n.ops[e] = Append(m.ops[e], o) /\ o.receipt = r /\ o.status # "superseded"
      BY DEF AddsOne, AddsTo, Grew
    <2>2. m.ops[e] \in Seq(Operations)
      BY ServerParts
    <2>3. /\ Len(m.ops[e]) \in Nat
          /\ DOMAIN m.ops[e] = 1..Len(m.ops[e]) /\ DOMAIN n.ops[e] = 1..(Len(m.ops[e]) + 1)
          /\ \A j \in DOMAIN m.ops[e] : n.ops[e][j] = m.ops[e][j]
          /\ n.ops[e][Len(m.ops[e]) + 1] = o
      BY <2>1, <2>2, OperationAdded
    <2> QED
      BY <2>1, <2>3
  <1>2. \A e \in ChangeSetIds : \A i \in DOMAIN m.ops[e] : i \in DOMAIN n.ops[e] /\ n.ops[e][i] = m.ops[e][i]
    <2> SUFFICES ASSUME NEW e \in ChangeSetIds, n.ops[e] # m.ops[e], NEW i \in DOMAIN m.ops[e]
                 PROVE  i \in DOMAIN n.ops[e] /\ n.ops[e][i] = m.ops[e][i]
      OBVIOUS
    <2>1. PICK o \in Operations : n.ops[e] = Append(m.ops[e], o)
      BY DEF AddsOne, AddsTo, Grew
    <2>2. m.ops[e] \in Seq(Operations)
      BY ServerParts
    <2> QED
      BY <2>1, <2>2, OperationAdded
  <1>3. \A e \in ChangeSetIds : \A i \in DOMAIN m.ops[e] :
          /\ i \in DOMAIN server.ops[e] /\ m.ops[e][i].receipt = server.ops[e][i].receipt
          /\ m.ops[e][i].receipt \in Nat /\ m.ops[e][i].receipt <= lastTx
    BY ReceiptNumbers DEF SameOperations, ReceiptsUpTo
  <1>4. r = NoReceipt \/ (r = NextReceipt /\ IsNew(r))
    BY DEF AddsOne, IsNew
  <1>5. \A k \in Nat : k <= lastTx => k # NextReceipt
    BY DEF NextReceipt
  <1>6. OwnReceipts(m) /\ OneOwner(m)
    <2>1. OwnReceipts(m)
      BY <1>3 DEF Identified, OwnReceipts
    <2>2. OneOwner(m)
      BY <1>3 DEF Identified, OneOwner
    <2> QED
      BY <2>1, <2>2
  <1>7. OwnReceipts(n)
    <2> SUFFICES ASSUME NEW e \in ChangeSetIds, NEW i \in DOMAIN n.ops[e], NEW j \in DOMAIN n.ops[e],
                        n.ops[e][i].receipt = n.ops[e][j].receipt, n.ops[e][i].receipt # NoReceipt
                 PROVE  i = j
      BY DEF OwnReceipts
    <2>1. CASE i \in DOMAIN m.ops[e] /\ j \in DOMAIN m.ops[e]
      BY <1>2, <1>6, <2>1 DEF OwnReceipts
    <2>2. CASE i \notin DOMAIN m.ops[e] /\ j \notin DOMAIN m.ops[e]
      BY <1>1, <2>2
    <2>3. CASE i \in DOMAIN m.ops[e] /\ j \notin DOMAIN m.ops[e]
      <3>1. n.ops[e][j].receipt = r /\ r = NextReceipt /\ n.ops[e][i].receipt = m.ops[e][i].receipt
        BY <1>1, <1>2, <1>4, <2>3
      <3> QED
        BY <1>3, <1>5, <2>3, <3>1
    <2>4. CASE i \notin DOMAIN m.ops[e] /\ j \in DOMAIN m.ops[e]
      <3>1. n.ops[e][i].receipt = r /\ r = NextReceipt /\ n.ops[e][j].receipt = m.ops[e][j].receipt
        BY <1>1, <1>2, <1>4, <2>4
      <3> QED
        BY <1>3, <1>5, <2>4, <3>1
    <2> QED
      BY <2>1, <2>2, <2>3, <2>4
  <1>8. OneOwner(n)
    <2> SUFFICES ASSUME NEW e \in ChangeSetIds, NEW d \in ChangeSetIds, NEW i \in DOMAIN n.ops[e], NEW j \in DOMAIN n.ops[d],
                        n.ops[e][i].receipt = n.ops[d][j].receipt, n.ops[e][i].receipt # NoReceipt
                 PROVE  e = d
      BY DEF OneOwner
    <2>1. CASE i \in DOMAIN m.ops[e] /\ j \in DOMAIN m.ops[d]
      BY <1>2, <1>6, <2>1 DEF OneOwner
    <2>2. CASE i \notin DOMAIN m.ops[e] /\ j \notin DOMAIN m.ops[d]
      BY <1>1, <2>2
    <2>3. CASE i \in DOMAIN m.ops[e] /\ j \notin DOMAIN m.ops[d]
      <3>1. n.ops[d][j].receipt = r /\ r = NextReceipt /\ n.ops[e][i].receipt = m.ops[e][i].receipt
        BY <1>1, <1>2, <1>4, <2>3
      <3> QED
        BY <1>3, <1>5, <2>3, <3>1
    <2>4. CASE i \notin DOMAIN m.ops[e] /\ j \in DOMAIN m.ops[d]
      <3>1. n.ops[e][i].receipt = r /\ r = NextReceipt /\ n.ops[d][j].receipt = m.ops[d][j].receipt
        BY <1>1, <1>2, <1>4, <2>4
      <3> QED
        BY <1>3, <1>5, <2>4, <3>1
    <2> QED
      BY <2>1, <2>2, <2>3, <2>4
  <1>9. OneWrite(n)
    <2> SUFFICES ASSUME NEW x \in n.live, NEW y \in n.live, x.receipt = y.receipt
                 PROVE  x.asset = y.asset /\ x.target = y.target /\ x.saved = y.saved
      BY DEF OneWrite
    <2>1. \A l \in server.live : l.receipt # NextReceipt
      BY <1>5, ReceiptNumbers DEF ReceiptsUpTo
    <2>2. CASE x \in server.live /\ y \in server.live
      BY <2>2 DEF Identified, OneWrite
    <2>3. CASE x \notin server.live /\ y \notin server.live
      BY <2>3
    <2> QED
      BY <2>1, <2>2, <2>3 DEF IsNew
  <1>10. OperationsStay(server, n)
    <2> SUFFICES ASSUME NEW e \in ChangeSetIds, NEW i \in DOMAIN n.ops[e]
                 PROVE  OperationStays(server, n, e, i) \/ OperationIsNew(n, e, i)
      BY DEF OperationsStay
    <2>1. CASE i \in DOMAIN m.ops[e]
      BY <1>2, <1>3, <2>1 DEF OperationStays, StatusesKept
    <2>2. CASE i \notin DOMAIN m.ops[e]
      BY <1>1, <1>4, <2>2 DEF OperationIsNew
    <2> QED
      BY <2>1, <2>2
  <1>11. SupersededStay(server, n)
    BY <1>2 DEF SupersededStay, StaysSuperseded, StatusesKept, SameOperations
  <1>12. LiveStays(server, n) /\ ChecksStay(server, n)
    BY SameChecksStay DEF LiveStays
  <1> QED
    BY <1>7, <1>8, <1>9, <1>10, <1>11, <1>12 DEF Steady, Identified

\* ue_apply_asset_property_live, with and without a change of the value.
LEMMA ApplyIsSteady ==
  ASSUME Typed, ReceiptsUpTo(server, lastTx), Identified(server), NEW c \in MaybeChangeSet, NEW a \in Assets,
         NEW t \in Targets, NEW v \in Values, Apply(c, a, t, v)
  PROVE  Steady(server, server')
  <1>1. PICK begun, journal, bound, kept, m :
          /\ begun = Begun(c) /\ journal = WithWrite(begun, a, t, v)
          /\ bound = IF c = NoChangeSet THEN journal ELSE AppendOperation(journal, c, a, NextReceipt, "applied")
          /\ m = Pruned(bound, kept)
          /\ ApplyChanged(a, t, v, PreviousTransaction(begun, c, a))
          /\ Accepts(begun, c)
          /\ (kept \in Prunings(bound.live) /\ Finish(m, {begun, journal, bound})) \/ server' = begun
    BY DEF Apply, NextReceipt
  <1>2. EditorInv /\ WorkflowTypeOK /\ server \in Servers /\ lastTx \in Nat
    BY EditorNumbers DEF Typed, WorkflowTypeOK
  <1>3. NextReceipt \in Receipts /\ lastTx' = NextReceipt
    BY <1>1, <1>2, NewReceipt DEF ApplyChanged, RecordTransaction, NextReceipt
  <1>4. /\ begun \in Servers /\ Steady(server, begun) /\ begun.live = server.live /\ begun.cps = server.cps
        /\ SameOperations(server, begun) /\ StatusesKept(server, begun)
    BY <1>1, <1>2, BegunIsSteady
  <1>5. /\ journal \in Servers /\ journal.phase = begun.phase /\ journal.ops = begun.ops /\ journal.cps = server.cps
    BY <1>1, <1>2, <1>3, <1>4, WithWriteFacts
  <1>6. PICK l : /\ journal.live = server.live \cup {l}
                 /\ l.receipt = NextReceipt /\ ~l.saved
    <2>1. \E l : /\ journal.live = begun.live \cup {l}
                 /\ l.receipt = NextReceipt /\ l.asset = a /\ l.target = t /\ l.after = v
                 /\ l.sess = session /\ ~l.saved
      BY <1>1, <1>2, <1>3, <1>4, WithWriteFacts
    <2> QED
      BY <1>4, <2>1
  <1>7. /\ bound \in Servers /\ bound.live = journal.live /\ bound.cps = server.cps
        /\ AddsTo(begun, bound, c, NextReceipt)
    <2>1. CASE c = NoChangeSet
      BY <1>1, <1>5, <2>1 DEF AddsTo
    <2>2. CASE c # NoChangeSet
      <3>1. c \in ChangeSetIds
        BY <2>2 DEF MaybeChangeSet
      <3>2. PICK r, s : r = NextReceipt /\ s = "applied"
        OBVIOUS
      <3>3. /\ EditorInv /\ begun \in Servers /\ journal \in Servers /\ journal.ops = begun.ops
            /\ c \in ChangeSetIds /\ c # NoChangeSet /\ Accepts(begun, c) /\ a \in Assets
            /\ (r \in Receipts \/ r = NoReceipt) /\ s \in {"applied", "no-op"} /\ (r # NoReceipt => s = "applied")
            /\ bound = AppendOperation(journal, c, a, r, s)
        BY <1>1, <1>2, <1>3, <1>4, <1>5, <2>2, <3>1, <3>2
      <3>4. /\ bound \in Servers /\ bound.phase = journal.phase /\ bound.live = journal.live /\ bound.cps = journal.cps
            /\ AddsTo(begun, bound, c, r)
        BY <3>3, AppendAddsTo
      <3> QED
        BY <1>5, <3>2, <3>4
    <2> QED
      BY <2>1, <2>2
  <1>9. ASSUME NEW n \in Servers, n.cps = server.cps, n.live \subseteq journal.live, AddsTo(begun, n, c, NextReceipt)
        PROVE  Steady(server, n)
    <2>1. AddsOne(begun, n, c, NextReceipt)
      BY <1>3, <1>9 DEF AddsOne, IsNew
    <2>2. /\ \A y \in n.live : y \in server.live \/ (IsNew(y.receipt) /\ ~y.saved)
          /\ \A x, y \in n.live : x.receipt = y.receipt /\ x \notin server.live /\ y \notin server.live => x = y
      BY <1>3, <1>6, <1>9 DEF IsNew
    <2> QED
      BY <1>2, <1>4, <1>9, <2>1, <2>2, AddedIsSteady
  <1>10. AddsTo(begun, journal, c, NextReceipt)
    BY <1>5 DEF AddsTo
  <1>11. Steady(server, journal) /\ Steady(server, bound)
    BY <1>5, <1>7, <1>9, <1>10
  <1>12. CASE server' = begun
    BY <1>4, <1>12
  <1>13. CASE kept \in Prunings(bound.live) /\ Finish(m, {begun, journal, bound})
    <2>1. PICK partial : partial = {begun, journal, bound}
      OBVIOUS
    <2>2. partial \in SUBSET Servers /\ (\A p \in partial : Steady(server, p)) /\ Finish(m, partial)
      BY <1>4, <1>5, <1>7, <1>11, <1>13, <2>1
    <2>3. /\ m \in Servers /\ m.ops = bound.ops /\ m.live \subseteq bound.live /\ m.cps = bound.cps
      BY <1>1, <1>7, <1>13, PrunedFacts
    <2>4. AddsTo(begun, m, c, NextReceipt)
      BY <1>7, <2>3 DEF AddsTo, Grew
    <2>5. Steady(server, m)
      BY <1>7, <1>9, <2>3, <2>4
    <2> QED
      BY <1>2, <2>2, <2>3, <2>5, SteadyFinish
  <1> QED
    BY <1>1, <1>12, <1>13

LEMMA ApplyNoChangeIsSteady ==
  ASSUME Typed, ReceiptsUpTo(server, lastTx), Identified(server), NEW c \in MaybeChangeSet, NEW a \in Assets,
         ApplyNoChange(c, a)
  PROVE  Steady(server, server')
  <1>1. PICK begun, r, s : begun = Begun(c) /\ r = NoReceipt /\ s = "no-op"
    OBVIOUS
  <1>2. PICK m :
          /\ m = AppendOperation(begun, c, a, r, s) /\ Accepts(begun, c)
          /\ (c # NoChangeSet /\ Finish(m, {begun})) \/ server' = begun
    BY <1>1 DEF ApplyNoChange
  <1>3. EditorInv /\ WorkflowTypeOK /\ server \in Servers /\ lastTx \in Nat
    BY EditorNumbers DEF Typed, WorkflowTypeOK
  <1>4. /\ begun \in Servers /\ Steady(server, begun) /\ begun.live = server.live /\ begun.cps = server.cps
        /\ SameOperations(server, begun) /\ StatusesKept(server, begun)
    BY <1>1, <1>3, BegunIsSteady
  <1>5. CASE server' = begun
    BY <1>4, <1>5
  <1>6. CASE c # NoChangeSet /\ Finish(m, {begun})
    <2>1. /\ EditorInv /\ begun \in Servers /\ c \in ChangeSetIds /\ c # NoChangeSet /\ Accepts(begun, c)
          /\ (r \in Receipts \/ r = NoReceipt) /\ s \in {"applied", "no-op"} /\ (r # NoReceipt => s = "applied")
          /\ m = AppendOperation(begun, c, a, r, s)
      BY <1>1, <1>2, <1>3, <1>4, <1>6 DEF MaybeChangeSet
    <2>2. m \in Servers /\ m.live = begun.live /\ m.cps = begun.cps /\ AddsTo(begun, m, c, r)
      BY <2>1, AppendAddsTo
    <2>3. AddsOne(begun, m, c, r)
      BY <1>1, <2>2 DEF AddsOne
    <2>4. Steady(server, m)
      BY <1>3, <1>4, <2>2, <2>3, AddedIsSteady
    <2>5. {begun} \in SUBSET Servers
      BY <1>4
    <2> QED
      BY <1>3, <1>4, <1>6, <2>2, <2>4, <2>5, SteadyFinish
  <1> QED
    BY <1>2, <1>5, <1>6

\* ue_undo_asset_property_live and ue_discard_asset_property_live.
LEMMA RevertIsSteady ==
  ASSUME WorkflowTypeOK, Identified(server), NEW c \in MaybeChangeSet, NEW a, NEW r \in Receipts, NEW s \in RevertStatuses,
         Revert(c, a, r, s)
  PROVE  Steady(server, server')
  <1>1. PICK R, updated, m :
          /\ R = {r} /\ updated = SetStatus(server, c, R, s) /\ m = WithoutLive(updated, r)
          /\ Finish(m, {server, updated}) \/ UNCHANGED server
    BY DEF Revert
  <1>2. server \in Servers /\ s \in OperationStatuses /\ s # "superseded" /\ s \in Revoked /\ AreWrites(R)
    BY <1>1, WrittenReceipts DEF WorkflowTypeOK, RevertStatuses, OperationStatuses, Revoked
  <1>3. /\ updated \in Servers /\ Steady(server, updated) /\ updated.live = server.live /\ updated.cps = server.cps
        /\ SameOperations(server, updated) /\ StatusesKept(server, updated)
    BY <1>1, <1>2, StatusWriteIsSteady
  <1>4. /\ m \in Servers /\ m.ops = updated.ops /\ m.live \subseteq updated.live /\ m.cps = updated.cps
    <2>1. m = WithoutLive(updated, r) /\ updated \in Servers
      BY <1>1, <1>3
    <2> QED
      BY <2>1, WithoutLiveFacts
  <1>5. SameOperations(server, m) /\ StatusesKept(server, m) /\ ChecksStay(server, m)
    BY <1>3, <1>4, SameChecksStay DEF SameOperations, StatusesKept
  <1>6. Steady(server, m) /\ Steady(server, server)
    BY <1>2, <1>3, <1>4, <1>5, RewrittenIsSteady, UnchangedIsSteady
  <1>7. CASE UNCHANGED server
    BY <1>6, <1>7
  <1>8. CASE Finish(m, {server, updated})
    <2>1. PICK partial : partial = {server, updated}
      OBVIOUS
    <2>2. partial \in SUBSET Servers /\ (\A p \in partial : Steady(server, p)) /\ Finish(m, partial)
      BY <1>2, <1>3, <1>6, <1>8, <2>1
    <2> QED
      BY <1>2, <1>4, <1>6, <2>2, SteadyFinish
  <1> QED
    BY <1>1, <1>7, <1>8

\* A rollback on disk writes one status.
LEMMA RollbackIsSteady ==
  ASSUME WorkflowTypeOK, Identified(server), NEW b, NEW c \in MaybeChangeSet, NEW r \in Receipts, RollbackCommit(b, c, r)
  PROVE  Steady(server, server')
  <1>1. PICK R, s, m : R = {r} /\ s = "undone" /\ m = SetStatus(server, c, R, s)
                       /\ (Finish(m, {server}) \/ Finish(server, {}))
    BY DEF RollbackCommit
  <1>2. server \in Servers /\ s \in OperationStatuses /\ s # "superseded" /\ s \in Revoked /\ AreWrites(R)
    BY <1>1, WrittenReceipts DEF WorkflowTypeOK, OperationStatuses, Revoked
  <1>3. m \in Servers /\ Steady(server, m) /\ Steady(server, server)
    BY <1>1, <1>2, StatusWriteIsSteady, UnchangedIsSteady
  <1>4. {server} \in SUBSET Servers
    BY <1>2
  <1> QED
    BY <1>1, <1>2, <1>3, <1>4, SteadyFinish

\* ue_verify_live_write: what is saved is not superseded.
LEMMA VerifyWriteIsSteady ==
  ASSUME WorkflowTypeOK, Identified(server), SavedIsNotSuperseded(server), NEW c \in MaybeChangeSet, NEW r \in Receipts,
         VerifyLiveWrite(c, r)
  PROVE  Steady(server, server')
  <1>1. PICK R, s, updated, m :
          /\ R = {r} /\ s = "verified" /\ updated = SetStatus(server, c, R, s) /\ m = WithoutLive(updated, r)
          /\ Finish(m, {updated})
    BY DEF VerifyLiveWrite
  <1>2. server \in Servers /\ s \in OperationStatuses /\ s # "superseded" /\ AreWrites(R)
    BY <1>1, WrittenReceipts DEF WorkflowTypeOK, OperationStatuses
  <1>3. c # NoChangeSet => \A i \in DOMAIN server.ops[c] :
          server.ops[c][i].receipt \in R => server.ops[c][i].status # "superseded"
    <2> SUFFICES ASSUME c # NoChangeSet, NEW i \in DOMAIN server.ops[c], server.ops[c][i].receipt = r
                 PROVE  server.ops[c][i].status # "superseded"
      BY <1>1
    <2>1. c \in ChangeSetIds
      BY DEF MaybeChangeSet
    <2>2. PICK l \in server.live : l.receipt = r /\ l.saved
      BY DEF VerifyLiveWrite
    <2> QED
      BY <2>1, <2>2 DEF SavedIsNotSuperseded
  <1>4. /\ updated \in Servers /\ Steady(server, updated) /\ updated.live = server.live /\ updated.cps = server.cps
        /\ SameOperations(server, updated) /\ StatusesKept(server, updated)
    BY <1>1, <1>2, <1>3, StatusWriteIsSteady
  <1>5. /\ m \in Servers /\ m.ops = updated.ops /\ m.live \subseteq updated.live /\ m.cps = updated.cps
    <2>1. m = WithoutLive(updated, r) /\ updated \in Servers
      BY <1>1, <1>4
    <2> QED
      BY <2>1, WithoutLiveFacts
  <1>6. SameOperations(server, m) /\ StatusesKept(server, m) /\ ChecksStay(server, m)
    BY <1>4, <1>5, SameChecksStay DEF SameOperations, StatusesKept
  <1>7. Steady(server, m)
    BY <1>2, <1>4, <1>5, <1>6, RewrittenIsSteady
  <1>8. {updated} \in SUBSET Servers
    BY <1>4
  <1> QED
    BY <1>1, <1>2, <1>4, <1>5, <1>7, <1>8, SteadyFinish

\* A preview lists one more checkpoint, of pending writes.
LEMMA PreviewIsSteady ==
  ASSUME Typed, Identified(server), NEW c \in ChangeSetIds, NEW a \in Assets, CheckpointPreview(c, a)
  PROVE  Steady(server, server')
  <1>1. lastSave < MaxSaves
    BY DEF CheckpointPreview
  <1>2. PICK k, journal, x, n :
          /\ k = [id |-> NextSave, cs |-> c, asset |-> a, state |-> "prepared",
                  sess |-> session, afterRev |-> NoRev, effective |-> AsWrites(Effective(c, a)),
                  superseded |-> SupersededBy(c, a)]
          /\ journal = [server EXCEPT !.cps = @ \cup {k}]
          /\ x = Authorization(a, "checkpoint") /\ n = Granted(journal, x)
          /\ Finish(n, {journal})
    BY DEF CheckpointPreview, NextSave, Granted
  <1>3. server \in Servers /\ NextSave \in SaveIds /\ session \in 1..MaxSessions /\ NoRev \in 0..NoRev
    BY <1>1, NewSave, EditorNumbers DEF Typed, WorkflowTypeOK
  <1>4. /\ k \in Checkpoints /\ k.state = "prepared" /\ k.effective = AsWrites(Effective(c, a))
    BY <1>2, <1>3, WritesOfRecords DEF Checkpoints
  <1>5. x \in Authorizations
    BY <1>2, <1>3, AuthorizationFacts
  <1>6. PICK v : v = server.cps \cup {k}
    OBVIOUS
  <1>7. v \in SUBSET Checkpoints /\ journal = WithCheckpoints(server, v)
    BY <1>2, <1>3, <1>4, <1>6, ServerParts DEF WithCheckpoints
  <1>8. /\ journal \in Servers /\ journal.ops = server.ops /\ journal.live = server.live /\ journal.cps = v
    BY <1>3, <1>7, ServerField
  <1>9. /\ n \in Servers /\ n.ops = journal.ops /\ n.live = journal.live /\ n.cps = journal.cps
    <2>1. n = Granted(journal, x)
      BY <1>2
    <2> QED
      BY <1>5, <1>8, <2>1, GrantedFacts
  <1>10. \A w \in k.effective : \E l \in server.live : l.receipt = w.receipt
    BY <1>4, WritesOfRecords
  <1>11. ASSUME NEW q \in Servers, q.ops = server.ops, q.live = server.live, q.cps = v
         PROVE  Steady(server, q)
    <2>1. SameOperations(server, q) /\ StatusesKept(server, q)
      BY <1>11 DEF SameOperations, StatusesKept, Revoked
    <2>2. ChecksStay(server, q)
      <3>1. \A y \in q.cps : y \in server.cps \/ y = k
        BY <1>6, <1>11
      <3> QED
        BY <1>4, <1>10, <3>1 DEF ChecksStay, SavedFrom, SameCheckpoint
    <2> QED
      BY <1>3, <1>11, <2>1, <2>2, RewrittenIsSteady
  <1>12. Steady(server, journal) /\ Steady(server, n)
    BY <1>8, <1>9, <1>11
  <1>13. {journal} \in SUBSET Servers
    BY <1>8
  <1> QED
    BY <1>2, <1>3, <1>9, <1>12, <1>13, SteadyFinish

\* ue_verify_live_write_checkpoint: what can be verified covers nothing superseded.
LEMMA VerifyCheckpointIsSteady ==
  ASSUME WorkflowTypeOK, Identified(server), VerifiableCoverNone, NEW cp \in server.cps, VerifyCheckpoint(cp)
  PROVE  Steady(server, server')
  <1>1. /\ server \in Servers /\ cp \in Checkpoints /\ cp.afterRev \in 0..NoRev /\ cp.cs \in ChangeSetIds
        /\ cp.state = "saved" /\ CoversNone(server, cp)
    <2>1. server \in Servers
      BY DEF WorkflowTypeOK
    <2>2. cp.state = "saved" /\ rev[cp.asset] = cp.afterRev
      BY DEF VerifyCheckpoint
    <2> QED
      BY <2>1, <2>2, ServerParts, CheckpointParts DEF VerifiableCoverNone
  <1>2. PICK s, r, R : s = "verified" /\ r = cp.afterRev /\ R = {w.receipt : w \in cp.effective}
    OBVIOUS
  <1>3. PICK verified, m, partial :
          /\ verified = WithCheckpoint(server, cp, s, r) /\ m = VerifiedEffective(verified, cp, R, R)
          /\ partial = {VerifiedEffective(verified, cp, p[1], p[2]) : p \in Stages(R)}
          /\ Finish(m, partial)
    BY <1>2, Zenon DEF VerifyCheckpoint
  <1>4. /\ verified \in Servers /\ verified.ops = server.ops /\ verified.live = server.live
        /\ \A k \in verified.cps : k \in server.cps \/ (SameCheckpoint(k, cp) /\ k.state = s /\ k.afterRev = r)
    <2>1. /\ s \in {"prepared", "saved", "verified", "stale"} /\ r \in 0..NoRev
          /\ verified = WithCheckpoint(server, cp, s, r) /\ server \in Servers /\ cp \in Checkpoints
      BY <1>1, <1>2, <1>3
    <2> QED
      BY <2>1, WithCheckpointFacts
  <1>5. ASSUME NEW U, U \subseteq R, AreWrites(U), NEW D, NEW n, n = VerifiedEffective(verified, cp, U, D)
        PROVE  n \in Servers /\ Steady(server, n)
    <2>1. /\ n \in Servers /\ n.cps = verified.cps /\ SameOperations(verified, n) /\ n.live \subseteq verified.live
          /\ \A d \in ChangeSetIds : \A i \in DOMAIN verified.ops[d] :
               \/ n.ops[d][i].status = verified.ops[d][i].status
               \/ d = cp.cs /\ verified.ops[d][i].receipt \in U /\ n.ops[d][i].status = "verified"
      BY <1>1, <1>4, <1>5, VerifiedEffectiveFacts
    <2>2. SameOperations(server, n) /\ n.live \subseteq server.live
      BY <1>4, <2>1 DEF SameOperations
    <2>3. \A i \in DOMAIN server.ops[cp.cs] : server.ops[cp.cs][i].receipt \in U => server.ops[cp.cs][i].status # "superseded"
      BY <1>1, <1>2, <1>5 DEF CoversNone
    <2>4. StatusesKept(server, n)
      BY <1>4, <2>1, <2>3 DEF StatusesKept, Revoked
    <2>5. ChecksStay(server, n)
      BY <1>1, <1>2, <1>4, <2>1 DEF ChecksStay, SavedFrom, SameCheckpoint
    <2> QED
      BY <1>1, <2>1, <2>2, <2>4, <2>5, RewrittenIsSteady
  <1>6. m \in Servers /\ Steady(server, m)
    <2>1. AreWrites(R)
      BY <1>1, <1>2, WrittenReceipts
    <2> QED
      BY <1>3, <1>5, <2>1
  <1>7. \A n \in partial : n \in Servers /\ Steady(server, n)
    <2>1. \A p \in Stages(R) : p[1] \subseteq R /\ AreWrites(p[1])
      BY <1>1, <1>2, WrittenReceipts DEF Stages
    <2> QED
      BY <1>3, <1>5, <2>1
  <1> QED
    BY <1>1, <1>3, <1>6, <1>7, SteadyFinish

LEMMA TurnsStaleIsSteady ==
  ASSUME WorkflowTypeOK, Identified(server), NEW cp \in server.cps, CheckpointTurnsStale(cp)
  PROVE  Steady(server, server')
  <1>1. PICK s, r, m : s = "stale" /\ r = cp.afterRev /\ m = WithCheckpoint(server, cp, s, r) /\ Finish(m, {})
    BY DEF CheckpointTurnsStale
  <1>2. server \in Servers /\ cp \in Checkpoints /\ r \in 0..NoRev /\ s \in {"prepared", "saved", "verified", "stale"}
    BY <1>1, ServerParts, CheckpointParts DEF WorkflowTypeOK
  <1>3. /\ m \in Servers /\ m.ops = server.ops /\ m.live = server.live
        /\ \A k \in m.cps : \/ k \in server.cps
                            \/ SameCheckpoint(k, cp) /\ k.state = s /\ k.afterRev = r
    BY <1>1, <1>2, WithCheckpointFacts
  <1>4. SameOperations(server, m) /\ StatusesKept(server, m)
    BY <1>3 DEF SameOperations, StatusesKept, Revoked
  <1>5. ChecksStay(server, m)
    BY <1>1, <1>3 DEF ChecksStay, SavedFrom, SameCheckpoint
  <1>6. Steady(server, m)
    BY <1>2, <1>3, <1>4, <1>5, RewrittenIsSteady
  <1> QED
    BY <1>1, <1>2, <1>3, <1>6, SteadyFinish

\* A patch adds an operation of no live record, or verifies one that was saved.
LEMMA CommitPatchIsSteady ==
  ASSUME Typed, ReceiptsUpTo(server, lastTx), Identified(server), NEW c \in ChangeSetIds, CommitPatch(c)
  PROVE  Steady(server, server')
  <1>1. PICK begun, base, p :
          /\ begun = Reconciled(server, c)
          /\ SameButLists(server, begun) /\ ~IsClosed(Statuses(begun, c))
          /\ SameButLists(begun, base) /\ SameHistories(begun, base)
          /\ SameButLists(begun, p) /\ (p = begun \/ GotPatch(base, p, c))
          /\ Survives(p, server')
    BY CommitPatchFacts
  <1>2. server \in Servers /\ lastTx \in Nat
    BY EditorNumbers DEF Typed, WorkflowTypeOK
  <1>3. /\ begun \in Servers /\ begun.live = server.live /\ begun.cps = server.cps
        /\ base \in Servers /\ base.live = server.live /\ base.cps = server.cps
        /\ p \in Servers /\ p.live = server.live /\ p.cps = server.cps
    BY <1>1 DEF SameButLists
  <1>4. SameOperations(server, begun) /\ StatusesKept(server, begun)
    <2>1. /\ SameOperations(server, begun)
          /\ \A d \in ChangeSetIds : \A i \in DOMAIN server.ops[d] :
               begun.ops[d][i].status = IF d = c THEN ReconciledStatus(server, server.ops[d][i])
                                        ELSE server.ops[d][i].status
      BY <1>1, <1>2, ReconciledFacts
    <2>2. StatusesKept(server, begun)
      BY <1>2, <2>1, ReconciledStaysSuperseded DEF StatusesKept, Revoked
    <2> QED
      BY <2>1, <2>2
  <1>5. SameOperations(server, base) /\ StatusesKept(server, base)
    <2>1. SameOperations(server, base)
      BY <1>1, <1>4, SameOperationsCarry DEF SameHistories
    <2> QED
      BY <1>1, <1>4, <2>1 DEF SameHistories, SameOperations, StatusesKept
  <1>6. CASE p = begun
    BY <1>1, <1>2, <1>3, <1>4, <1>6, RewrittenIsSteady, SameChecksStay, SteadySurvives
  <1>7. CASE GotPatch(base, p, c)
    <2>1. AddsOne(base, p, c, NoReceipt) /\ c \in MaybeChangeSet
      BY <1>1, <1>7, PatchAddsTo DEF AddsOne, MaybeChangeSet
    <2>2. Steady(server, p)
      BY <1>2, <1>3, <1>5, <2>1, AddedIsSteady
    <2> QED
      BY <1>1, <1>3, <2>2, SteadySurvives
  <1> QED
    BY <1>1, <1>6, <1>7

LEMMA OtherPatchToolsAreSteady ==
  ASSUME Typed, Identified(server),
         CommitUnboundPatch \/ \E c \in ChangeSetIds, i \in 1..MaxOps : VerifyPatch(c, i)
  PROVE  Steady(server, server')
  <1>1. PICK p :
          /\ SameButLists(server, p) /\ SameOperations(server, p)
          /\ \A d \in ChangeSetIds : \A j \in DOMAIN server.ops[d] :
               \/ p.ops[d][j].status = server.ops[d][j].status
               \/ /\ server.ops[d][j].status = "saved" /\ p.ops[d][j].status = "verified"
                  /\ server.ops[d][j].receipt = NoReceipt
          /\ Survives(p, server')
    BY OtherPatchToolsFacts
  <1>2. server \in Servers /\ p \in Servers /\ p.live = server.live /\ p.cps = server.cps
    BY <1>1 DEF Typed, WorkflowTypeOK, SameButLists
  <1>3. StatusesKept(server, p)
    BY <1>1 DEF StatusesKept, Revoked
  <1>4. Steady(server, p)
    BY <1>1, <1>2, <1>3, RewrittenIsSteady, SameChecksStay
  <1> QED
    BY <1>1, <1>2, <1>4, SteadySurvives

\* Every step is steady, or saves a checkpoint.
SavesCheckpoint ==
  \E c \in ChangeSetIds, a \in Assets, auth \in server.auths, cp \in server.cps :
    c # NoChangeSet /\ CheckpointCommit(c, a, auth, cp)

LEMMA StepIsSteady ==
  ASSUME SupersededInv, [WorkflowNext]_vars, "immediate" \notin Tools
  PROVE  Steady(server, server') \/ SavesCheckpoint
  <1>1. /\ Typed /\ WorkflowTypeOK /\ server \in Servers /\ ReceiptsUpTo(server, lastTx) /\ Identified(server)
        /\ SavedIsNotSuperseded(server) /\ VerifiableCoverNone
    BY DEF SupersededInv, TypedInv, Typed, WorkflowTypeOK
  <1>2. CASE ChangeSetTools
    <2>1. PICK c \in ChangeSetIds : CreateChangeSet(c) \/ GetChangeSet(c) \/ DiscardEmpty(c)
      BY <1>2 DEF ChangeSetTools
    <2>2. CASE DiscardEmpty(c)
      <3>1. PICK F, n : F = {c} /\ n = Forget(server, F) /\ Finish(n, {})
        BY <2>2 DEF DiscardEmpty
      <3>2. n \in Servers /\ Steady(server, n)
        BY <1>1, <3>1, ForgottenIsSteady
      <3> QED
        BY <1>1, <3>1, <3>2, SteadyFinish
    <2> QED
      BY <1>1, <2>1, <2>2, CreateIsSteady, GetIsSteady
  <1>3. CASE WriteTools
    <2>1. PICK c \in MaybeChangeSet, a \in Assets :
            \/ \E t \in Targets, v \in Values : Apply(c, a, t, v)
            \/ ApplyNoChange(c, a)
            \/ \E r \in Receipts, s \in RevertStatuses : Revert(c, a, r, s)
      BY <1>3 DEF WriteTools, OptionalChangeSet, MaybeChangeSet
    <2> QED
      BY <1>1, <2>1, ApplyIsSteady, ApplyNoChangeIsSteady, RevertIsSteady
  <1>4. CASE SaveTools
    <2>1. PICK c \in MaybeChangeSet, a \in Assets :
            \/ ImmediatePreview(c, a)
            \/ c # NoChangeSet /\ CheckpointPreview(c, a)
            \/ \E auth \in server.auths :
                 \/ ImmediateCommit(c, a, auth)
                 \/ SaveFails(c, a, auth)
                 \/ \E cp \in server.cps : c # NoChangeSet /\ CheckpointCommit(c, a, auth, cp)
      BY <1>4 DEF SaveTools, OptionalChangeSet, MaybeChangeSet
    <2>2. c # NoChangeSet => c \in ChangeSetIds
      BY DEF MaybeChangeSet
    <2>3. ~ImmediatePreview(c, a) /\ \A auth : ~ImmediateCommit(c, a, auth)
      BY DEF ImmediatePreview, ImmediateCommit
    <2>4. CASE c # NoChangeSet /\ CheckpointPreview(c, a)
      BY <1>1, <2>2, <2>4, PreviewIsSteady
    <2>5. CASE \E auth \in server.auths : SaveFails(c, a, auth)
      <3>1. UNCHANGED server
        BY <2>5 DEF SaveFails
      <3> QED
        BY <1>1, <3>1, UnchangedIsSteady
    <2>6. CASE \E auth \in server.auths, cp \in server.cps : c # NoChangeSet /\ CheckpointCommit(c, a, auth, cp)
      BY <2>2, <2>6 DEF SavesCheckpoint
    <2> QED
      BY <2>1, <2>3, <2>4, <2>5, <2>6
  <1>5. CASE VerifyTools
    <2>1. CASE \E c \in OptionalChangeSet, r \in Receipts : VerifyLiveWrite(c, r)
      <3>1. PICK c \in MaybeChangeSet, r \in Receipts : VerifyLiveWrite(c, r)
        BY <2>1 DEF OptionalChangeSet, MaybeChangeSet
      <3> QED
        BY <1>1, <3>1, VerifyWriteIsSteady
    <2>2. CASE \E cp \in server.cps : VerifyCheckpoint(cp) \/ CheckpointTurnsStale(cp)
      BY <1>1, <2>2, VerifyCheckpointIsSteady, TurnsStaleIsSteady
    <2> QED
      BY <1>5, <2>1, <2>2 DEF VerifyTools
  <1>6. CASE RollbackTools
    <2>1. CASE \E b \in backups, c \in OptionalChangeSet, r \in Receipts : RollbackCommit(b, c, r)
      <3>1. PICK b \in backups, c \in MaybeChangeSet, r \in Receipts : RollbackCommit(b, c, r)
        BY <2>1 DEF OptionalChangeSet, MaybeChangeSet
      <3> QED
        BY <1>1, <3>1, RollbackIsSteady
    <2>2. CASE (\E l \in server.live, b \in backups : PromoteManifest(l, b)) \/ (\E a \in Assets : PrepareRollback(a))
      <3>1. UNCHANGED server
        BY <2>2 DEF PromoteManifest, PrepareRollback, workflowVars
      <3> QED
        BY <1>1, <3>1, UnchangedIsSteady
    <2> QED
      BY <1>6, <2>1, <2>2 DEF RollbackTools
  <1>7. CASE ServerCrash \/ \E a \in Assets : RefreshAndRestart(a)
    <2>1. server' = Loaded(server)
      BY <1>7 DEF ServerCrash, RefreshAndRestart
    <2>2. Survives(server, server') /\ Steady(server, server)
      BY <1>1, <2>1, SurvivesFacts, UnchangedIsSteady
    <2> QED
      BY <1>1, <2>2, SteadySurvives
  <1>8. CASE (User /\ UNCHANGED workflowVars) \/ UNCHANGED vars
    <2>1. UNCHANGED server
      BY <1>8 DEF vars, workflowVars
    <2> QED
      BY <1>1, <2>1, UnchangedIsSteady
  <1>9. CASE PatchTools
    BY <1>1, <1>9, CommitPatchIsSteady, OtherPatchToolsAreSteady DEF PatchTools
  <1> QED
    BY <1>2, <1>3, <1>4, <1>5, <1>6, <1>7, <1>8, <1>9 DEF WorkflowNext

\* Whatever a crash leaves of a commit: writes in R may be marked as saved, those in S as
\* superseded, and only the committed checkpoint is saved newly.
CommitShape(m, n, c, cp, R, S, v) ==
  /\ n \in Servers /\ n.phase = m.phase /\ SameOperations(m, n)
  /\ \A d \in ChangeSetIds : \A i \in DOMAIN m.ops[d] :
       /\ n.ops[d][i].status = "superseded" =>
            m.ops[d][i].status = "superseded" \/ (d = c /\ m.ops[d][i].receipt \in S)
       /\ m.ops[d][i].status = "superseded" =>
            n.ops[d][i].status = "superseded" \/ (d = c /\ m.ops[d][i].receipt \in R)
  /\ OneWrite(n)
  /\ \A y \in n.live : \E l \in m.live :
       y.receipt = l.receipt /\ y.asset = l.asset /\ (y.saved => l.saved \/ l.receipt \in R)
  /\ \A k \in n.cps : k \in m.cps \/ (SameCheckpoint(k, cp) /\ k.state = "saved" /\ k.afterRev = v)

LEMMA MarkedIsOneWrite ==
  ASSUME NEW m, NEW n, NEW D, OneWrite(m), MarkedLive(m, n, D)
  PROVE  OneWrite(n)
  <1> SUFFICES ASSUME NEW x \in n.live, NEW y \in n.live, x.receipt = y.receipt
               PROVE  x.asset = y.asset /\ x.target = y.target /\ x.saved = y.saved
    BY DEF OneWrite
  <1>1. PICK k \in m.live : x.receipt = k.receipt /\ x.asset = k.asset /\ x.target = k.target
                            /\ x.saved = (k.saved \/ k.receipt \in D)
    BY DEF MarkedLive
  <1>2. PICK l \in m.live : y.receipt = l.receipt /\ y.asset = l.asset /\ y.target = l.target
                            /\ y.saved = (l.saved \/ l.receipt \in D)
    BY DEF MarkedLive
  <1>3. k.asset = l.asset /\ k.target = l.target /\ k.saved = l.saved
    BY <1>1, <1>2 DEF OneWrite
  <1> QED
    BY <1>1, <1>2, <1>3

LEMMA ShapeSurvives ==
  ASSUME NEW m, NEW p \in Servers, NEW c, NEW cp, NEW R, NEW S, NEW v, CommitShape(m, p, c, cp, R, S, v),
         NEW n, Survives(p, n)
  PROVE  CommitShape(m, n, c, cp, R, S, v)
  <1>1. n \in Servers /\ n.phase = p.phase /\ n.live = p.live /\ n.cps = p.cps /\ SameOperations(p, n)
    BY DEF Survives
  <1>2. \A d \in ChangeSetIds : \A i \in DOMAIN p.ops[d] :
          n.ops[d][i].status = "superseded" <=> p.ops[d][i].status = "superseded"
    BY DEF Survives
  <1>3. SameOperations(m, n)
    BY <1>1, SameOperationsCarry DEF CommitShape
  <1>4. OneWrite(n)
    BY <1>1 DEF CommitShape, OneWrite
  <1>5. \A d \in ChangeSetIds : \A i \in DOMAIN m.ops[d] : i \in DOMAIN p.ops[d]
    BY DEF CommitShape, SameOperations
  <1>6. \A d \in ChangeSetIds : \A i \in DOMAIN m.ops[d] :
       /\ n.ops[d][i].status = "superseded" =>
            m.ops[d][i].status = "superseded" \/ (d = c /\ m.ops[d][i].receipt \in S)
       /\ m.ops[d][i].status = "superseded" =>
            n.ops[d][i].status = "superseded" \/ (d = c /\ m.ops[d][i].receipt \in R)
    BY <1>2, <1>5 DEF CommitShape
  <1>7. /\ \A y \in n.live : \E l \in m.live :
            y.receipt = l.receipt /\ y.asset = l.asset /\ (y.saved => l.saved \/ l.receipt \in R)
        /\ \A k \in n.cps : k \in m.cps \/ (SameCheckpoint(k, cp) /\ k.state = "saved" /\ k.afterRev = v)
    BY <1>1 DEF CommitShape
  <1> QED
    BY <1>1, <1>3, <1>4, <1>6, <1>7 DEF CommitShape

LEMMA CommitHasShape ==
  ASSUME Typed, OneWrite(server), NEW c \in ChangeSetIds, c # NoChangeSet, NEW a \in Assets,
         NEW auth \in server.auths, NEW cp \in server.cps, CheckpointCommit(c, a, auth, cp),
         NEW R, ReceiptsOf(R, cp), NEW S, S = cp.superseded
  PROVE  CommitShape(server, server', c, cp, R, S, rev'[a])
  <1>1. server \in Servers /\ cp \in Checkpoints /\ rev'[a] \in 0..NoRev /\ cp.cs = c
    <2>1. SaveAsset(a) /\ cp.cs = c
      BY DEF CheckpointCommit, Prepared
    <2> QED
      BY <2>1, SavedRevision, ServerParts DEF SaveAsset, Typed, WorkflowTypeOK
  <1>2. PICK s, v : s = "saved" /\ v = rev'[a]
    OBVIOUS
  <1>3. PICK consumed, saved : consumed = Consumed(server, auth) /\ saved = WithCheckpoint(consumed, cp, s, v)
    OBVIOUS
  <1>4. PICK marked, m : marked = SavedEffective(saved, cp, R, R) /\ m = Superseded(marked, cp, S, S)
    OBVIOUS
  <1>5. PICK first, second, partial :
          /\ first = {SavedEffective(saved, cp, p[1], p[2]) : p \in Stages(R)}
          /\ second = {Superseded(marked, cp, p[1], p[2]) : p \in Stages(S)}
          /\ partial = {server} \cup first \cup second
    OBVIOUS
  <1>6. Finish(m, partial)
    BY <1>2, <1>3, <1>4, <1>5, Zenon DEF CheckpointCommit, ReceiptsOf
  <1>7. /\ consumed \in Servers /\ consumed.phase = server.phase /\ consumed.ops = server.ops
        /\ consumed.live = server.live /\ consumed.cps = server.cps
    BY <1>1, <1>3, ConsumedFacts
  <1>8. /\ saved \in Servers /\ saved.phase = server.phase /\ saved.ops = server.ops /\ saved.live = server.live
        /\ \A k \in saved.cps : k \in server.cps \/ (SameCheckpoint(k, cp) /\ k.state = "saved" /\ k.afterRev = rev'[a])
    <2>1. /\ s \in {"prepared", "saved", "verified", "stale"} /\ v \in 0..NoRev /\ saved = WithCheckpoint(consumed, cp, s, v)
          /\ consumed \in Servers /\ cp \in Checkpoints
      BY <1>1, <1>2, <1>3, <1>7
    <2>2. /\ saved \in Servers /\ saved.phase = consumed.phase /\ saved.ops = consumed.ops /\ saved.live = consumed.live
          /\ \A k \in saved.cps : \/ k \in consumed.cps
                                  \/ SameCheckpoint(k, cp) /\ k.state = s /\ k.afterRev = v
      BY <2>1, WithCheckpointFacts
    <2> QED
      BY <1>2, <1>7, <2>2
  <1>9. CommitShape(server, server, c, cp, R, S, rev'[a])
    BY <1>1 DEF CommitShape, SameOperations
  <1>10. ASSUME NEW D, D \subseteq R, NEW U, U \subseteq R, AreWrites(U), NEW n, n = SavedEffective(saved, cp, D, U)
         PROVE  n \in Servers /\ CommitShape(server, n, c, cp, R, S, rev'[a])
    <2>1. /\ n \in Servers /\ n.phase = saved.phase /\ n.cps = saved.cps
          /\ SameOperations(saved, n) /\ MarkedLive(saved, n, D)
          /\ \A d \in ChangeSetIds : \A i \in DOMAIN saved.ops[d] :
               n.ops[d][i].status = IF d = cp.cs /\ d # NoChangeSet /\ saved.ops[d][i].receipt \in U THEN "saved"
                                    ELSE saved.ops[d][i].status
      BY <1>1, <1>8, <1>10, SavedEffectiveFacts
    <2>2. SameOperations(server, n)
      BY <1>8, <2>1 DEF SameOperations
    <2>3. OneWrite(n)
      <3>1. OneWrite(saved)
        BY <1>8 DEF OneWrite
      <3> QED
        BY <2>1, <3>1, MarkedIsOneWrite
    <2>4. \A y \in n.live : \E l \in server.live :
            y.receipt = l.receipt /\ y.asset = l.asset /\ (y.saved => l.saved \/ l.receipt \in R)
      BY <1>8, <1>10, <2>1 DEF MarkedLive
    <2>5. \A d \in ChangeSetIds : \A i \in DOMAIN server.ops[d] :
            /\ n.ops[d][i].status = "superseded" => server.ops[d][i].status = "superseded"
            /\ server.ops[d][i].status = "superseded" =>
                 n.ops[d][i].status = "superseded" \/ (d = c /\ server.ops[d][i].receipt \in R)
      BY <1>1, <1>8, <1>10, <2>1
    <2> QED
      BY <1>8, <2>1, <2>2, <2>3, <2>4, <2>5 DEF CommitShape
  <1>writes. AreWrites(R) /\ AreWrites(S)
    BY <1>1, WrittenReceipts DEF ReceiptsOf
  <1>11. marked \in Servers /\ CommitShape(server, marked, c, cp, R, S, rev'[a])
    BY <1>writes, <1>4, <1>10
  <1>12. ASSUME NEW U, U \subseteq S, AreWrites(U), NEW D, NEW n, n = Superseded(marked, cp, U, D)
         PROVE  n \in Servers /\ CommitShape(server, n, c, cp, R, S, rev'[a])
    <2>1. /\ n \in Servers /\ n.phase = marked.phase /\ n.cps = marked.cps
          /\ n.live \subseteq marked.live /\ SameOperations(marked, n)
          /\ \A d \in ChangeSetIds : \A i \in DOMAIN marked.ops[d] :
               n.ops[d][i].status = IF d = cp.cs /\ d # NoChangeSet /\ marked.ops[d][i].receipt \in U THEN "superseded"
                                    ELSE marked.ops[d][i].status
      BY <1>1, <1>11, <1>12, SupersededFacts
    <2>2. SameOperations(server, n)
      BY <1>11, <2>1, SameOperationsCarry DEF CommitShape
    <2>3. OneWrite(n)
      BY <1>11, <2>1 DEF CommitShape, OneWrite
    <2>4. \A d \in ChangeSetIds : \A i \in DOMAIN server.ops[d] :
            i \in DOMAIN marked.ops[d] /\ marked.ops[d][i].receipt = server.ops[d][i].receipt
      BY <1>11 DEF CommitShape, SameOperations
    <2>5. \A d \in ChangeSetIds : \A i \in DOMAIN server.ops[d] :
            /\ n.ops[d][i].status = "superseded" =>
                 server.ops[d][i].status = "superseded" \/ (d = c /\ server.ops[d][i].receipt \in S)
            /\ server.ops[d][i].status = "superseded" =>
                 n.ops[d][i].status = "superseded" \/ (d = c /\ server.ops[d][i].receipt \in R)
      BY <1>1, <1>11, <1>12, <2>1, <2>4 DEF CommitShape
    <2>6. /\ \A y \in n.live : \E l \in server.live :
              y.receipt = l.receipt /\ y.asset = l.asset /\ (y.saved => l.saved \/ l.receipt \in R)
          /\ \A k \in n.cps : k \in server.cps \/ (SameCheckpoint(k, cp) /\ k.state = "saved" /\ k.afterRev = rev'[a])
          /\ n.phase = server.phase
      BY <1>11, <2>1 DEF CommitShape
    <2> QED
      BY <2>1, <2>2, <2>3, <2>5, <2>6 DEF CommitShape
  <1>13. m \in Servers /\ CommitShape(server, m, c, cp, R, S, rev'[a])
    BY <1>writes, <1>4, <1>12
  <1>14. \A n \in partial : n \in Servers /\ CommitShape(server, n, c, cp, R, S, rev'[a])
    <2>1. \A T : \A p \in Stages(T) : p[1] \subseteq T /\ p[2] \subseteq T
      BY DEF Stages
    <2>2. /\ \A p \in Stages(R) : AreWrites(p[2])
          /\ \A p \in Stages(S) : AreWrites(p[1])
      BY <1>writes, WrittenReceipts
    <2>3. \A n \in first : n \in Servers /\ CommitShape(server, n, c, cp, R, S, rev'[a])
      BY <1>5, <1>10, <2>1, <2>2
    <2>4. \A n \in second : n \in Servers /\ CommitShape(server, n, c, cp, R, S, rev'[a])
      BY <1>5, <1>12, <2>1, <2>2
    <2> QED
      BY <1>1, <1>5, <1>9, <2>3, <2>4
  <1>15. PICK n \in partial \cup {m} : Survives(n, server')
    <2>1. partial \in SUBSET Servers
      BY <1>14
    <2> QED
      BY <1>6, <1>13, <2>1, FinishFacts
  <1>16. n \in Servers /\ CommitShape(server, n, c, cp, R, S, rev'[a])
    BY <1>13, <1>14
  <1> QED
    BY <1>15, <1>16, ShapeSurvives

\* What such a commit is about: its checkpoint is on the asset saved, the writes it saves and those
\* they replace are pending, on this asset and of this change set.
CommitWrites(c, a, cp, R, S) ==
  /\ cp.cs = c /\ cp.asset = a /\ R \cap S = {}
  /\ \A r \in R \cup S : /\ \E l \in server.live : l.receipt = r /\ l.asset = a /\ ~l.saved
                         /\ \E i \in DOMAIN server.ops[c] : server.ops[c][i].receipt = r
                         /\ r # NoReceipt
  /\ \A i \in DOMAIN server.ops[c] : server.ops[c][i].receipt \in R \cup S => server.ops[c][i].status = "applied"

LEMMA CommitIsOfPending ==
  ASSUME SupersededInv, NEW c \in ChangeSetIds, NEW a \in Assets,
         NEW auth \in server.auths, NEW cp \in server.cps, CheckpointCommit(c, a, auth, cp),
         NEW R, ReceiptsOf(R, cp), NEW S, S = cp.superseded
  PROVE  CommitWrites(c, a, cp, R, S)
  <1>1. server \in Servers /\ OwnReceipts(server) /\ OneWrite(server)
    BY DEF SupersededInv, Identified, TypedInv, Typed, WorkflowTypeOK
  <1>2. cp.cs = c /\ cp.effective = AsWrites(Effective(c, a)) /\ S = SupersededBy(c, a)
    BY DEF CheckpointCommit, Prepared
  <1>3. cp.asset = a
    BY DEF CheckpointCommit, Authorized, SupersededInv, CheckpointsArePast
  <1>4. OfRecords(R, Effective(c, a))
    BY <1>2 DEF AsWrites, OfRecords, ReceiptsOf
  <1>5. /\ R \cap S = {}
        /\ \A r \in R \cup S : \E l \in server.live : l.receipt = r /\ l.asset = a /\ ~l.saved
        /\ \A r \in R \cup S : \E i \in DOMAIN server.ops[c] : server.ops[c][i].receipt = r
        /\ \A i \in DOMAIN server.ops[c] : server.ops[c][i].receipt \in R \cup S => server.ops[c][i].status = "applied"
    BY <1>1, <1>2, <1>4, IncludedWrites
  <1>6. \A r \in R \cup S : r # NoReceipt
    BY <1>1, <1>5, ReceiptNumbers
  <1> QED
    BY <1>2, <1>3, <1>5, <1>6 DEF CommitWrites

\* Transactions are only counted up.
LEMMA TransactionsGrow ==
  ASSUME TypedInv, KindOfStep
  PROVE  lastTx \in Nat /\ lastTx' \in Nat /\ lastTx <= lastTx'
  <1> USE DEF memoryVars, diskVars, bufferVars, linkVars, historyVars
  <1>1. lastTx \in Nat
    BY EditorNumbers DEF TypedInv, Typed
  <1> SUFFICES lastTx' = lastTx \/ lastTx' = lastTx + 1
    BY <1>1
  <1>2. ASSUME NEW a \in Assets, NEW t, NEW v, NEW p, ApplyChanged(a, t, v, p) \/ ApplyUnchanged(a, p)
        PROVE  lastTx' = lastTx \/ lastTx' = lastTx + 1
    BY <1>2 DEF ApplyChanged, ApplyUnchanged, RecordTransaction
  <1>3. ASSUME NEW a \in Assets, NEW id, NEW redoable, RevertWrite(a, id, session, redoable)
        PROVE  lastTx' = lastTx
    BY <1>3 DEF RevertWrite
  <1>4. ASSUME NEW a \in Assets, SaveAsset(a) \/ PrepareDiskRollback(a) \/ PrepareDiskRollbackFails(a)
        PROVE  lastTx' = lastTx
    BY <1>4 DEF SaveAsset, PrepareDiskRollback, PrepareDiskRollbackFails
  <1>5. CASE Bridge
    BY <1>2, <1>3, <1>4, <1>5 DEF Bridge, BridgeApply
  <1>6. CASE User
    <2>1. ASSUME NEW a \in Assets, UserSave(a) \/ UserOpen(a)
          PROVE  lastTx' = lastTx
      BY <2>1 DEF UserSave, UserOpen
    <2>2. ASSUME NEW a \in Assets, NEW t \in Targets, NEW v \in Values, UserEdit(a, t, v)
          PROVE  lastTx' = lastTx + 1
      BY <2>2 DEF UserEdit, RecordTransaction
    <2>3. ASSUME NEW a, NEW x, NEW r, RestoreFile(a, x, r)
          PROVE  lastTx' = lastTx
      BY <2>3 DEF RestoreFile
    <2>4. ASSUME UserUndo \/ UserRedo \/ UserPlay \/ EditorExit \/ EditorStart
          PROVE  lastTx' = lastTx
      BY <2>4 DEF UserUndo, UserRedo, UserPlay, EditorExit, EditorStart
    <2> QED
      BY <1>6, <2>1, <2>2, <2>3, <2>4 DEF User
  <1>7. CASE UNCHANGED editorVars
    BY <1>7 DEF editorVars
  <1>8. CASE \E b \in backups : RestoreFile(b.asset, b.content, b.rev)
    BY <1>8 DEF RestoreFile
  <1> QED
    BY <1>5, <1>6, <1>7, <1>8, EditorPartOfStep DEF EditorNext

\* Where no user brings files back, a package is what it was, was saved under a new revision, or
\* is a backup the rollback tool put back.
RevisionOf(a) ==
  \/ rev'[a] = rev[a]
  \/ rev'[a] = lastRev + 1
  \/ "rollback" \in Tools /\ \E b \in backups : b.asset = a /\ rev'[a] = b.rev
LEMMA RevisionsOfStep ==
  ASSUME TypedInv, KindOfStep, "restore" \notin UserActions, NEW a \in Assets
  PROVE  RevisionOf(a)
  <1>1. CASE [EditorNext]_editorVars
    BY <1>1, EditorRevisions DEF TypedInv, Typed, RevisionOf
  <1>2. CASE UNCHANGED editorVars
    BY <1>2, <1>1 DEF editorVars
  <1>3. CASE \E c \in MaybeChangeSet, d \in Assets, id \in SaveIds, w \in 0..NoRev : SaveStep(c, d, id, w)
    BY <1>1, <1>3 DEF SaveStep, EditorNext, Bridge
  <1>4. CASE \E c \in MaybeChangeSet, d \in Assets, auth \in server.auths, cp \in server.cps, w \in 0..NoRev :
               CommitStep(c, d, auth, cp, w)
    BY <1>1, <1>4 DEF CommitStep, EditorNext, Bridge
  <1>5. CASE \E b \in backups : RestoreStep(b)
    <2>1. PICK b \in backups : RestoreStep(b)
      BY <1>5
    <2>2. rev \in [Assets -> 0..MaxRev] /\ b.asset \in Assets
      BY EditorNumbers, BackupParts DEF TypedInv, Typed
    <2>3. "rollback" \in Tools /\ rev' = [rev EXCEPT ![b.asset] = b.rev]
      BY <2>1 DEF RestoreStep, RestoreFile
    <2> QED
      BY <2>2, <2>3 DEF RevisionOf
  <1> QED
    BY <1>1, <1>2, <1>3, <1>4, <1>5 DEF KindOfStep, QuietStep, PreviewStep, PromoteStep, RefreshStep

\* A checkpoint that was saved before can be verified after the step only if it could before.
LEMMA VerifiableBefore ==
  ASSUME SupersededInv, TypedInv', KindOfStep, "restore" \notin UserActions,
         "refresh" \notin Tools \/ "rollback" \notin Tools,
         NEW cp \in server.cps, cp.state = "saved", rev'[cp.asset] = cp.afterRev
  PROVE  rev[cp.asset] = cp.afterRev
  <1>1. /\ cp.asset \in Assets /\ cp.afterRev \in Nat
        /\ cp.afterRev = NoRev \/ cp.afterRev <= lastRev
    BY RecordNumbers DEF SupersededInv, TypedInv, CheckpointsArePast
  <1>2. lastRev \in Nat /\ NoRev \in Nat /\ NoRev > MaxRev /\ MaxRev \in Nat
    BY EditorNumbers DEF SupersededInv, TypedInv, Typed
  <1>3. rev' \in [Assets -> 0..MaxRev]
    BY DEF TypedInv, Typed, EditorInv, EditorTypeOK
  <1>4. RevisionOf(cp.asset)
    BY <1>1, RevisionsOfStep DEF SupersededInv
  <1>5. rev'[cp.asset] # lastRev + 1
    BY <1>1, <1>2, <1>3
  <1>6. ASSUME "rollback" \in Tools, NEW b \in backups, b.asset = cp.asset, rev'[cp.asset] = b.rev
        PROVE  FALSE
    <2>1. "refresh" \notin Tools
      BY <1>6
    <2>2. b.rev = indexRev[cp.asset]
      BY <1>6, <2>1 DEF SupersededInv, BackupsAreOfTheIndex
    <2>3. cp.afterRev # indexRev[cp.asset]
      BY <2>1 DEF SupersededInv, SavedAfterTheIndex
    <2> QED
      BY <1>6, <2>2, <2>3
  <1> QED
    BY <1>4, <1>5, <1>6 DEF RevisionOf

\* A steady step keeps what it depends on.
LEMMA SteadyKeeps ==
  ASSUME SupersededInv, TypedInv', CheckpointsArePast', KindOfStep, Steady(server, server'),
         "refresh" \notin Tools => BackupsAreOfTheIndex',
         "restore" \notin UserActions, "refresh" \notin Tools \/ "rollback" \notin Tools
  PROVE  SupersededInv'
  <1> DEFINE n == server'
  <1>1. /\ lastTx \in Nat /\ lastTx' \in Nat /\ lastTx <= lastTx' /\ NextReceipt = lastTx + 1
        /\ ReceiptsUpTo(server, lastTx) /\ SavedIsNotSuperseded(server) /\ SavedOnTheirAssets(server)
        /\ server \in Servers /\ n \in Servers
    BY TransactionsGrow DEF SupersededInv, TypedInv, Typed, WorkflowTypeOK, Steady, NextReceipt
  <1>2. /\ \A y \in server.live : y.receipt \in Nat
        /\ \A cp \in server.cps : cp \in Checkpoints /\ cp.cs \in ChangeSetIds /\ \A w \in cp.effective : w.receipt \in Nat
        /\ \A k \in n.cps : k.cs \in ChangeSetIds
        /\ \A c \in ChangeSetIds : \A i \in DOMAIN n.ops[c] : n.ops[c][i].receipt \in Nat
    BY <1>1, ReceiptNumbers
  <1>3. /\ \A c \in ChangeSetIds : \A i \in DOMAIN n.ops[c] : OperationStays(server, n, c, i) \/ OperationIsNew(n, c, i)
        /\ \A y \in n.live : y \in server.live \/ (IsNew(y.receipt) /\ ~y.saved)
        /\ \A k \in n.cps :
             /\ k.state = "saved" => \E cp \in server.cps : SavedFrom(k, cp)
             /\ \A w \in k.effective :
                  (\E cp \in server.cps : w \in cp.effective) \/ (\E l \in server.live : l.receipt = w.receipt)
    BY DEF Steady, OperationsStay, LiveStays, ChecksStay
  <1>4. ReceiptsUpTo(n, lastTx')
    <2>1. ASSUME NEW c \in ChangeSetIds, NEW i \in DOMAIN n.ops[c]
          PROVE  n.ops[c][i].receipt <= lastTx'
      <3>1. CASE OperationStays(server, n, c, i)
        <4>1. n.ops[c][i].receipt <= lastTx
          BY <1>1, <3>1 DEF OperationStays, ReceiptsUpTo
        <4> QED
          BY <1>1, <1>2, <4>1
      <3>2. CASE OperationIsNew(n, c, i)
        BY <1>1, <3>2 DEF OperationIsNew, IsNew, NoReceipt
      <3> QED
        BY <1>3, <3>1, <3>2
    <2>2. ASSUME NEW y \in n.live
          PROVE  y.receipt <= lastTx'
      <3>1. CASE y \in server.live
        <4>1. y.receipt <= lastTx
          BY <1>1, <3>1 DEF ReceiptsUpTo
        <4> QED
          BY <1>1, <1>2, <3>1, <4>1
      <3> QED
        BY <1>1, <1>3, <3>1 DEF IsNew
    <2>3. ASSUME NEW k \in n.cps, NEW w \in k.effective
          PROVE  w.receipt <= lastTx'
      <3>1. w.receipt \in Nat /\ w.receipt <= lastTx
        BY <1>1, <1>2, <1>3 DEF ReceiptsUpTo
      <3> QED
        BY <1>1, <3>1
    <2> QED
      BY <2>1, <2>2, <2>3 DEF ReceiptsUpTo
  <1>5. SavedIsNotSuperseded(n)
    <2> SUFFICES ASSUME NEW c \in ChangeSetIds, NEW i \in DOMAIN n.ops[c], NEW l \in n.live,
                        l.receipt = n.ops[c][i].receipt, l.saved
                 PROVE  n.ops[c][i].status # "superseded"
      BY DEF SavedIsNotSuperseded
    <2>1. l \in server.live
      BY <1>3
    <2>2. CASE OperationStays(server, n, c, i)
      BY <1>1, <2>1, <2>2 DEF OperationStays, SavedIsNotSuperseded
    <2> QED
      BY <1>3, <2>2 DEF OperationIsNew
  <1>6. ASSUME NEW k \in n.cps, k.state = "saved"
        PROVE  \E cp \in server.cps : SavedFrom(k, cp)
    BY <1>3, <1>6
  <1>7. VerifiableCoverNone'
    <2> SUFFICES ASSUME NEW k \in n.cps, k.state = "saved", rev'[k.asset] = k.afterRev,
                        NEW w \in k.effective, NEW i \in DOMAIN n.ops[k.cs], n.ops[k.cs][i].receipt = w.receipt,
                        n.ops[k.cs][i].status = "superseded"
                 PROVE  FALSE
      BY DEF VerifiableCoverNone, CoversNone
    <2>1. PICK cp \in server.cps : SavedFrom(k, cp)
      BY <1>6
    <2>2. cp.state = "saved" /\ cp.asset = k.asset /\ cp.cs = k.cs /\ cp.effective = k.effective /\ cp.afterRev = k.afterRev
      BY <2>1 DEF SavedFrom, SameCheckpoint
    <2>3. rev[cp.asset] = cp.afterRev
      BY <2>2, VerifiableBefore
    <2>4. CoversNone(server, cp)
      BY <2>2, <2>3 DEF SupersededInv, VerifiableCoverNone
    <2>5. OperationStays(server, n, k.cs, i)
      BY <1>2, <1>3 DEF OperationIsNew
    <2> QED
      BY <2>2, <2>4, <2>5 DEF OperationStays, CoversNone
  <1>8. SavedAfterTheIndex'
    <2> SUFFICES ASSUME "refresh" \notin Tools, NEW k \in n.cps, k.state = "saved"
                 PROVE  k.afterRev # indexRev'[k.asset]
      BY DEF SavedAfterTheIndex
    <2>1. UNCHANGED indexRev
      BY DEF KindOfStep, QuietStep, PreviewStep, SaveStep, CommitStep, PromoteStep, RestoreStep, RefreshStep
    <2>2. PICK cp \in server.cps : SavedFrom(k, cp)
      BY <1>6
    <2> QED
      BY <2>1, <2>2 DEF SavedFrom, SameCheckpoint, SupersededInv, SavedAfterTheIndex
  <1>9. SavedOnTheirAssets(n)
    <2> SUFFICES ASSUME NEW k \in n.cps, k.state = "saved", NEW w \in k.effective, NEW l \in n.live, l.receipt = w.receipt
                 PROVE  l.asset = k.asset
      BY DEF SavedOnTheirAssets, SavedOnItsAsset
    <2>1. PICK cp \in server.cps : SavedFrom(k, cp)
      BY <1>6
    <2>2. cp.state = "saved" /\ cp.asset = k.asset /\ cp.effective = k.effective
      BY <2>1 DEF SavedFrom, SameCheckpoint
    <2>3. w.receipt \in Nat /\ w.receipt <= lastTx
      BY <1>1, <1>2, <2>2 DEF ReceiptsUpTo
    <2>4. l \in server.live
      BY <1>1, <1>3, <2>3 DEF IsNew
    <2> QED
      BY <1>1, <2>2, <2>4 DEF SavedOnTheirAssets, SavedOnItsAsset
  <1>10. Identified(n)
    BY DEF Steady
  <1> QED
    BY <1>4, <1>5, <1>7, <1>8, <1>9, <1>10 DEF SupersededInv

\* So does saving a checkpoint: the checkpoint becomes verifiable with its own writes, the ones it
\* replaces are on its asset, and what is verifiable on another asset covers none of them.
LEMMA CommitKeeps ==
  ASSUME SupersededInv, TypedInv', CheckpointsArePast', KindOfStep, SavesCheckpoint,
         "refresh" \notin Tools => BackupsAreOfTheIndex'
  PROVE  SupersededInv' /\ SupersededStay(server, server')
  <1> DEFINE n == server'
  <1>1. PICK c \in ChangeSetIds, a \in Assets, auth \in server.auths, cp \in server.cps :
               c # NoChangeSet /\ CheckpointCommit(c, a, auth, cp)
    BY DEF SavesCheckpoint
  <1>2. PICK R : ReceiptsOf(R, cp)
    BY DEF ReceiptsOf
  <1>3. PICK S : S = cp.superseded
    OBVIOUS
  <1>4. CommitShape(server, n, c, cp, R, S, rev'[a])
    BY <1>1, <1>2, <1>3, CommitHasShape DEF SupersededInv, TypedInv, Identified
  <1>5. CommitWrites(c, a, cp, R, S)
    BY <1>1, <1>2, <1>3, CommitIsOfPending
  <1>6. /\ cp.cs = c /\ cp.asset = a /\ R \cap S = {}
        /\ \A r \in R \cup S : /\ \E l \in server.live : l.receipt = r /\ l.asset = a /\ ~l.saved
                               /\ \E i \in DOMAIN server.ops[c] : server.ops[c][i].receipt = r
                               /\ r # NoReceipt
        /\ \A i \in DOMAIN server.ops[c] : server.ops[c][i].receipt \in R \cup S => server.ops[c][i].status = "applied"
    BY <1>5 DEF CommitWrites
  <1>7. /\ n \in Servers /\ n.phase = server.phase /\ SameOperations(server, n) /\ OneWrite(n)
        /\ \A y \in n.live : \E l \in server.live :
             y.receipt = l.receipt /\ y.asset = l.asset /\ (y.saved => l.saved \/ l.receipt \in R)
        /\ \A k \in n.cps : k \in server.cps \/ (SameCheckpoint(k, cp) /\ k.state = "saved" /\ k.afterRev = rev'[a])
    BY <1>4 DEF CommitShape
  <1>8. \A d \in ChangeSetIds : \A i \in DOMAIN server.ops[d] :
          /\ n.ops[d][i].status = "superseded" =>
               server.ops[d][i].status = "superseded" \/ (d = c /\ server.ops[d][i].receipt \in S)
          /\ server.ops[d][i].status = "superseded" =>
               n.ops[d][i].status = "superseded" \/ (d = c /\ server.ops[d][i].receipt \in R)
    BY <1>4 DEF CommitShape
  <1>9. \A d \in ChangeSetIds : \A i \in DOMAIN n.ops[d] :
          i \in DOMAIN server.ops[d] /\ n.ops[d][i].receipt = server.ops[d][i].receipt
    BY <1>7 DEF SameOperations
  <1>10. /\ rev'[a] = lastRev + 1 /\ (\A b \in Assets \ {a} : rev'[b] = rev[b])
         /\ rev[a] = indexRev[a] /\ UNCHANGED <<indexRev, lastTx>>
    <2>1. Typed /\ SaveAsset(a) /\ SaveCallable(c, a) /\ UNCHANGED indexRev
      BY <1>1 DEF CheckpointCommit, SupersededInv, TypedInv
    <2> QED
      BY <2>1, SavedRevision DEF SaveAsset, SaveCallable, Fresh
  <1>11. /\ ReceiptsUpTo(server, lastTx) /\ Identified(server) /\ SavedIsNotSuperseded(server)
         /\ SavedOnTheirAssets(server) /\ lastTx \in Nat /\ lastRev \in Nat /\ rev[a] \in Nat /\ rev[a] <= lastRev
    BY EditorNumbers DEF SupersededInv, TypedInv, Typed, RevisionsArePast
  <1>12. ReceiptsUpTo(n, lastTx')
    <2>1. \A d \in ChangeSetIds : \A i \in DOMAIN n.ops[d] : n.ops[d][i].receipt <= lastTx
      BY <1>9, <1>11 DEF ReceiptsUpTo
    <2>2. \A y \in n.live : y.receipt <= lastTx
      BY <1>7, <1>11 DEF ReceiptsUpTo
    <2>3. \A k \in n.cps : k.effective = cp.effective \/ k \in server.cps
      BY <1>7 DEF SameCheckpoint
    <2>4. \A k \in n.cps : \A w \in k.effective : w.receipt <= lastTx
      BY <1>11, <2>3 DEF ReceiptsUpTo
    <2> QED
      BY <1>10, <2>1, <2>2, <2>4 DEF ReceiptsUpTo
  <1>13. Identified(n)
    <2>1. OwnReceipts(n)
      BY <1>7, <1>11 DEF Identified, SameOperations, OwnReceipts
    <2>2. OneOwner(n)
      <3>1. OneOwner(server)
        BY <1>11 DEF Identified
      <3> SUFFICES ASSUME NEW d \in ChangeSetIds, NEW e \in ChangeSetIds, NEW i \in DOMAIN n.ops[d], NEW j \in DOMAIN n.ops[e],
                          n.ops[d][i].receipt = n.ops[e][j].receipt, n.ops[d][i].receipt # NoReceipt
                   PROVE  d = e
        BY DEF OneOwner
      <3> QED
        BY <1>9, <3>1 DEF OneOwner
    <2> QED
      BY <1>7, <2>1, <2>2 DEF Identified
  <1>14. SavedIsNotSuperseded(n)
    <2> SUFFICES ASSUME NEW d \in ChangeSetIds, NEW i \in DOMAIN n.ops[d], NEW y \in n.live,
                        y.receipt = n.ops[d][i].receipt, y.saved, n.ops[d][i].status = "superseded"
                 PROVE  FALSE
      BY DEF SavedIsNotSuperseded
    <2>1. i \in DOMAIN server.ops[d] /\ n.ops[d][i].receipt = server.ops[d][i].receipt
      BY <1>9
    <2>2. PICK l \in server.live : y.receipt = l.receipt /\ (l.saved \/ l.receipt \in R)
      BY <1>7
    <2>3. CASE l.saved
      <3>1. server.ops[d][i].status # "superseded"
        BY <1>11, <2>1, <2>2, <2>3 DEF SavedIsNotSuperseded
      <3>2. l.receipt \in S
        BY <1>8, <2>1, <2>2, <3>1
      <3>3. PICK o \in server.live : o.receipt = l.receipt /\ ~o.saved
        BY <1>6, <3>2
      <3> QED
        BY <1>11, <2>3, <3>3 DEF Identified, OneWrite
    <2>4. CASE l.receipt \in R
      <3>1. PICK j \in DOMAIN server.ops[c] : server.ops[c][j].receipt = l.receipt /\ l.receipt # NoReceipt
        BY <1>6, <2>4
      <3>2. d = c
        BY <1>11, <2>1, <2>2, <3>1 DEF Identified, OneOwner
      <3>3. server.ops[d][i].status = "applied"
        BY <1>6, <2>1, <2>2, <2>4, <3>2
      <3>4. l.receipt \in S
        BY <1>8, <2>1, <2>2, <3>3
      <3> QED
        BY <1>6, <2>4, <3>4
    <2> QED
      BY <2>2, <2>3, <2>4
  <1>15. VerifiableCoverNone'
    <2> SUFFICES ASSUME NEW k \in n.cps, k.state = "saved", rev'[k.asset] = k.afterRev,
                        NEW w \in k.effective, NEW i \in DOMAIN n.ops[k.cs], n.ops[k.cs][i].receipt = w.receipt,
                        n.ops[k.cs][i].status = "superseded"
                 PROVE  FALSE
      BY DEF VerifiableCoverNone, CoversNone
    <2>1. k.cs \in ChangeSetIds
      BY <1>7, ReceiptNumbers
    <2>2. i \in DOMAIN server.ops[k.cs] /\ server.ops[k.cs][i].receipt = w.receipt
      BY <1>9, <2>1
    <2>3. CASE k \in server.cps
      <3>1. k.asset \in Assets /\ (k.afterRev = NoRev \/ k.afterRev <= lastRev)
        BY <2>3, RecordNumbers DEF SupersededInv, TypedInv, CheckpointsArePast
      <3>2. k.asset # a
        <4>1. rev' \in [Assets -> 0..MaxRev] /\ NoRev > MaxRev /\ MaxRev \in Nat /\ NoRev \in Nat
          BY EditorNumbers DEF TypedInv, Typed, EditorInv, EditorTypeOK, SupersededInv
        <4>2. rev'[a] # NoRev
          BY <4>1
        <4> QED
          BY <1>10, <1>11, <3>1, <4>2
      <3>3. CoversNone(server, k)
        BY <1>10, <2>3, <3>1, <3>2 DEF SupersededInv, VerifiableCoverNone
      <3>4. server.ops[k.cs][i].status # "superseded"
        BY <2>2, <3>3 DEF CoversNone
      <3>5. w.receipt \in S
        BY <1>8, <2>1, <2>2, <3>4
      <3>6. PICK l \in server.live : l.receipt = w.receipt /\ l.asset = a
        BY <1>6, <3>5
      <3> QED
        BY <1>11, <2>3, <3>2, <3>6 DEF SavedOnTheirAssets, SavedOnItsAsset
    <2>4. CASE SameCheckpoint(k, cp)
      <3>1. k.cs = c /\ w.receipt \in R
        BY <1>2, <1>6, <2>4 DEF SameCheckpoint, ReceiptsOf
      <3>2. server.ops[c][i].status = "applied"
        BY <1>6, <2>2, <3>1
      <3>3. w.receipt \in S
        BY <1>8, <2>2, <3>1, <3>2
      <3> QED
        BY <1>6, <3>1, <3>3
    <2> QED
      BY <1>7, <2>3, <2>4
  <1>16. SavedAfterTheIndex'
    <2> SUFFICES ASSUME "refresh" \notin Tools, NEW k \in n.cps, k.state = "saved"
                 PROVE  k.afterRev # indexRev'[k.asset]
      BY DEF SavedAfterTheIndex
    <2>1. CASE k \in server.cps
      BY <1>10, <2>1 DEF SupersededInv, SavedAfterTheIndex
    <2>2. CASE SameCheckpoint(k, cp) /\ k.afterRev = rev'[a]
      BY <1>6, <1>10, <1>11, <2>2 DEF SameCheckpoint
    <2> QED
      BY <1>7, <2>1, <2>2
  <1>17. SavedOnTheirAssets(n)
    <2> SUFFICES ASSUME NEW k \in n.cps, k.state = "saved", NEW w \in k.effective, NEW y \in n.live, y.receipt = w.receipt
                 PROVE  y.asset = k.asset
      BY DEF SavedOnTheirAssets, SavedOnItsAsset
    <2>1. PICK l \in server.live : y.receipt = l.receipt /\ y.asset = l.asset
      BY <1>7
    <2>2. CASE k \in server.cps
      BY <1>11, <2>1, <2>2 DEF SavedOnTheirAssets, SavedOnItsAsset
    <2>3. CASE SameCheckpoint(k, cp)
      <3>1. k.asset = a /\ w.receipt \in R
        BY <1>2, <1>6, <2>3 DEF SameCheckpoint, ReceiptsOf
      <3>2. PICK o \in server.live : o.receipt = w.receipt /\ o.asset = a
        BY <1>6, <3>1
      <3> QED
        BY <1>11, <2>1, <3>1, <3>2 DEF Identified, OneWrite
    <2> QED
      BY <1>7, <2>2, <2>3
  <1>18. SupersededStay(server, n)
    <2> SUFFICES ASSUME NEW d \in ChangeSetIds, NEW i \in DOMAIN server.ops[d], server.ops[d][i].status = "superseded"
                 PROVE  i \in DOMAIN n.ops[d] /\ n.ops[d][i].status = "superseded"
      BY DEF SupersededStay, StaysSuperseded, Revoked
    <2>1. i \in DOMAIN n.ops[d]
      BY <1>7 DEF SameOperations
    <2>2. ~(d = c /\ server.ops[d][i].receipt \in R)
      BY <1>6
    <2> QED
      BY <1>8, <2>1, <2>2
  <1> QED
    BY <1>12, <1>13, <1>14, <1>15, <1>16, <1>17, <1>18 DEF SupersededInv

\* What a later write replaced at a checkpoint never counts as pending, saved or verified again,
\* whatever a crash of the server leaves in the journals.  It is said of servers that save through
\* checkpoints, where no user copies older files over the packages, and of which not both refresh
\* the index and roll packages back: a rollback to a revision that an index refreshed since the
\* checkpoint describes makes that checkpoint verifiable again, with what was replaced after it.
THEOREM ReplacedWritesStayReplaced ==
  ASSUME "immediate" \notin Tools, "restore" \notin UserActions,
         "refresh" \notin Tools \/ "rollback" \notin Tools
  PROVE  WorkflowSpec => SupersededNeverCounts
  <1>1. ASSUME WorkflowInit
        PROVE  SupersededInv
    <2>1. TypedInv
      BY <1>1, InitIsTyped
    <2>2. /\ server.live = {} /\ server.cps = {} /\ server.auths = {} /\ backups = {} /\ lastTx = 0
          /\ \A c \in ChangeSetIds : server.ops[c] = <<>>
      BY <1>1 DEF WorkflowInit, EditorInit
    <2>3. \A c \in ChangeSetIds : DOMAIN server.ops[c] = {}
      BY <2>2, EmptyFacts
    <2>4. Identified(server) /\ ReceiptsUpTo(server, lastTx)
      BY <2>2, <2>3 DEF Identified, OwnReceipts, OneOwner, OneWrite, ReceiptsUpTo
    <2>5. SavedIsNotSuperseded(server) /\ VerifiableCoverNone /\ SavedAfterTheIndex /\ SavedOnTheirAssets(server)
      BY <2>2, <2>3 DEF SavedIsNotSuperseded, VerifiableCoverNone, SavedAfterTheIndex, SavedOnTheirAssets
    <2>6. CheckpointsArePast /\ BackupsAreOfTheIndex
      BY <2>2 DEF CheckpointsArePast, BackupsAreOfTheIndex
    <2> QED
      BY <2>1, <2>4, <2>5, <2>6 DEF SupersededInv
  <1>2. ASSUME SupersededInv, [WorkflowNext]_vars
        PROVE  SupersededInv' /\ SupersededStay(server, server')
    <2>1. KindOfStep
      BY <1>2, StepsHaveAKind DEF SupersededInv, TypedInv
    <2>2. TypedInv'
      BY <1>2, <2>1, StepKeepsTyped DEF SupersededInv
    <2>3. CheckpointsArePast'
      BY <1>2, <2>1, <2>2, StepKeepsPast DEF SupersededInv
    <2>4. "refresh" \notin Tools => BackupsAreOfTheIndex'
      BY <1>2, <2>1, StepKeepsBackups DEF SupersededInv
    <2>5. CASE Steady(server, server')
      <3>1. SupersededInv'
        BY <1>2, <2>1, <2>2, <2>3, <2>4, <2>5, SteadyKeeps
      <3> QED
        BY <2>5, <3>1 DEF Steady
    <2>6. CASE SavesCheckpoint
      BY <1>2, <2>1, <2>2, <2>3, <2>4, <2>6, CommitKeeps
    <2> QED
      BY <1>2, <2>5, <2>6, StepIsSteady
  <1> DEFINE Kept == \A c \in ChangeSetIds : \A i \in DOMAIN server.ops[c] :
                       server.ops[c][i].status = "superseded" =>
                         \/ server'.phase[c] = "gone"
                         \/ server'.ops[c][i].status \in {"superseded", "undone", "discarded"}
  <1>3. SupersededInv /\ [WorkflowNext]_vars => [Kept]_vars
    BY <1>2 DEF SupersededStay, StaysSuperseded, Revoked
  <1>4. SupersededInv /\ [WorkflowNext]_vars => SupersededInv'
    BY <1>2
  <1> HIDE DEF Kept
  <1>5. WorkflowSpec => [][Kept]_vars
    BY <1>1, <1>3, <1>4, PTL DEF WorkflowSpec
  <1> QED
    BY <1>5 DEF Kept, SupersededNeverCounts

=============================================================================
