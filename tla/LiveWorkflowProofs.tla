------------------------- MODULE LiveWorkflowProofs -------------------------
(***************************************************************************)
(* Theorems about LiveWorkflow for every set of assets, targets, values,   *)
(* change sets, tools and user actions, and every bound.                   *)
(*                                                                         *)
(* The server is one record, so the first part says once what each        *)
(* operator of LiveWorkflow does to the fields of such a record.  The      *)
(* second part says per tool what of it survives, whatever intermediate    *)
(* state a crash loads again, and brings every step down to a few kinds.   *)
(* The invariants are proved over these kinds.  What the histories of the  *)
(* change sets follow is in LiveHistoryProofs.                             *)
(***************************************************************************)
EXTENDS LiveWorkflow, LiveEditorProofs, FiniteSetTheorems, FunctionTheorems, WellFoundedInduction, TLAPS
-----------------------------------------------------------------------------
(* The server's records                                                    *)

\* One part of the server's memory changes.
WithLists(m, v) == [m EXCEPT !.ops = v]
WithLive(m, v) == [m EXCEPT !.live = v]
WithCheckpoints(m, v) == [m EXCEPT !.cps = v]
WithAuthorizations(m, v) == [m EXCEPT !.auths = v]
WithPhase(m, v) == [m EXCEPT !.phase = v]
WithBound(m, v) == [m EXCEPT !.bound = v]
WithList(m, c, f) == WithLists(m, [m.ops EXCEPT ![c] = f])

\* The other parts stay.
LEMMA ServerField ==
  ASSUME NEW m \in Servers, NEW n
  PROVE  /\ \A v \in [ChangeSetIds -> {"new", "open", "gone"}] : n = WithPhase(m, v) =>
              /\ n \in Servers /\ n.phase = v /\ n.ops = m.ops /\ n.bound = m.bound
              /\ n.live = m.live /\ n.cps = m.cps /\ n.auths = m.auths
         /\ \A v \in [ChangeSetIds -> Seq(Operations)] : n = WithLists(m, v) =>
              /\ n \in Servers /\ n.phase = m.phase /\ n.ops = v /\ n.bound = m.bound
              /\ n.live = m.live /\ n.cps = m.cps /\ n.auths = m.auths
         /\ \A v \in [ChangeSetIds -> 0..MaxSessions] : n = WithBound(m, v) =>
              /\ n \in Servers /\ n.phase = m.phase /\ n.ops = m.ops /\ n.bound = v
              /\ n.live = m.live /\ n.cps = m.cps /\ n.auths = m.auths
         /\ \A v \in SUBSET LiveApplies : n = WithLive(m, v) =>
              /\ n \in Servers /\ n.phase = m.phase /\ n.ops = m.ops /\ n.bound = m.bound
              /\ n.live = v /\ n.cps = m.cps /\ n.auths = m.auths
         /\ \A v \in SUBSET Checkpoints : n = WithCheckpoints(m, v) =>
              /\ n \in Servers /\ n.phase = m.phase /\ n.ops = m.ops /\ n.bound = m.bound
              /\ n.live = m.live /\ n.cps = v /\ n.auths = m.auths
         /\ \A v \in SUBSET Authorizations : n = WithAuthorizations(m, v) =>
              /\ n \in Servers /\ n.phase = m.phase /\ n.ops = m.ops /\ n.bound = m.bound
              /\ n.live = m.live /\ n.cps = m.cps /\ n.auths = v
  BY DEF Servers, WithPhase, WithLists, WithBound, WithLive, WithCheckpoints, WithAuthorizations

\* What the server's memory consists of.
LEMMA ServerParts ==
  ASSUME NEW m \in Servers
  PROVE  /\ m.phase \in [ChangeSetIds -> {"new", "open", "gone"}]
         /\ m.ops \in [ChangeSetIds -> Seq(Operations)]
         /\ m.bound \in [ChangeSetIds -> 0..MaxSessions]
         /\ m.live \in SUBSET LiveApplies /\ m.cps \in SUBSET Checkpoints /\ m.auths \in SUBSET Authorizations
  BY DEF Servers

Applied == {"none", "unverified", "verified"}

\* The status of an operation with an apply record.
PatchStatus(apply, s) ==
  /\ s \in {"saved", "verified"}
  /\ apply = "unverified" => s = "saved"

\* An operation is a receipt, an asset, a status and an apply record, and a receipt is a
\* number.  Only a patch has an apply record, and is saved or verified.
LEMMA OperationParts ==
  /\ \A op \in Operations : /\ op.receipt \in Receipts \cup {NoReceipt} /\ op.receipt \in Nat
                            /\ op.asset \in Assets \cup {OtherPackage} /\ op.status \in OperationStatuses
                            /\ op.apply \in Applied
                            /\ op.apply # "none" => op.receipt = NoReceipt /\ PatchStatus(op.apply, op.status)
  /\ \A op \in Operations, s \in OperationStatuses : \A o : o = WithStatus(op, s) =>
       /\ o.receipt = op.receipt /\ o.asset = op.asset /\ o.status = s /\ o.apply = op.apply
       /\ op.apply = "none" \/ PatchStatus(op.apply, s) => o \in Operations
  /\ \A op \in Operations, y \in Applied : \A o : o = WithApply(op, y) =>
       /\ o.receipt = op.receipt /\ o.asset = op.asset /\ o.status = op.status /\ o.apply = y
       /\ y = "none" \/ (op.receipt = NoReceipt /\ PatchStatus(y, op.status)) => o \in Operations
  /\ \A l \in LiveApplies : l.receipt \in Receipts /\ l.receipt \in Nat /\ l.receipt # NoReceipt
  /\ Receipts \subseteq Nat /\ NoReceipt \notin Receipts /\ NoReceipt \in Nat
  <1>1. Receipts \subseteq Nat /\ NoReceipt \notin Receipts /\ NoReceipt \in Nat
    BY BoundsAssumption DEF Receipts, TxIds, NoReceipt
  <1> DEFINE Shapes == [receipt : Receipts \cup {NoReceipt}, asset : Assets \cup {OtherPackage},
                         status : OperationStatuses, apply : Applied]
  <1>2. \A op \in Operations : /\ op.receipt \in Receipts \cup {NoReceipt}
                               /\ op.asset \in Assets \cup {OtherPackage} /\ op.status \in OperationStatuses
                               /\ op.apply \in Applied
                               /\ op.apply # "none" => op.receipt = NoReceipt /\ PatchStatus(op.apply, op.status)
    BY DEF Operations, PatchStatus, Applied
  <1>3. \A l \in LiveApplies : l.receipt \in Receipts
    BY DEF LiveApplies
  <1>4. /\ Operations \subseteq Shapes
        /\ \A o \in Shapes : o \in Operations
             <=> (o.apply # "none" => o.receipt = NoReceipt /\ PatchStatus(o.apply, o.status))
    BY DEF Operations, PatchStatus, Applied
  <1>5. ASSUME NEW op \in Operations, NEW s \in OperationStatuses, NEW o, o = WithStatus(op, s)
        PROVE  /\ o.receipt = op.receipt /\ o.asset = op.asset /\ o.status = s /\ o.apply = op.apply
               /\ op.apply = "none" \/ PatchStatus(op.apply, s) => o \in Operations
    <2>1. op \in Shapes
      BY <1>4
    <2>2. /\ o \in Shapes
          /\ o.receipt = op.receipt /\ o.asset = op.asset /\ o.status = s /\ o.apply = op.apply
      BY <1>5, <2>1 DEF WithStatus
    <2> QED
      BY <1>2, <1>4, <2>2
  <1>6. ASSUME NEW op \in Operations, NEW y \in Applied, NEW o, o = WithApply(op, y)
        PROVE  /\ o.receipt = op.receipt /\ o.asset = op.asset /\ o.status = op.status /\ o.apply = y
               /\ y = "none" \/ (op.receipt = NoReceipt /\ PatchStatus(y, op.status)) => o \in Operations
    <2>1. op \in Shapes
      BY <1>4
    <2>2. /\ o \in Shapes
          /\ o.receipt = op.receipt /\ o.asset = op.asset /\ o.status = op.status /\ o.apply = y
      BY <1>6, <2>1 DEF WithApply
    <2> QED
      BY <1>4, <2>2
  <1>7. \A op \in Operations : op.receipt \in Nat
    BY <1>1, <1>2
  <1> HIDE DEF Shapes
  <1> QED
    BY <1>1, <1>2, <1>3, <1>5, <1>6, <1>7

\* What the Editor's invariant says of a few variables.
LEMMA EditorNumbers ==
  ASSUME EditorInv
  PROVE  /\ session \in 1..MaxSessions /\ session \in 0..MaxSessions
         /\ lastTx \in Nat /\ lastRev \in Nat /\ lastRev \in 0..MaxRev /\ MaxRev \in Nat
         /\ rev \in [Assets -> 0..MaxRev] /\ disk \in [Assets -> Contents] /\ resident \in [Assets -> Contents]
         /\ NoRev \in Nat /\ NoRev > MaxRev /\ 0..MaxRev \subseteq 0..NoRev
  <1>1. MaxRev \in Nat /\ MaxSessions \in Nat
    BY BoundsAssumption
  <1>2. session \in 1..MaxSessions /\ lastTx \in 0..MaxTx /\ lastRev \in 0..MaxRev
    BY DEF EditorInv, EditorTypeOK
  <1>3. rev \in [Assets -> 0..MaxRev] /\ disk \in [Assets -> Contents] /\ resident \in [Assets -> Contents]
    BY DEF EditorInv, EditorTypeOK
  <1>4. NoRev \in Nat /\ NoRev > MaxRev /\ 0..MaxRev \subseteq 0..NoRev
    BY <1>1 DEF NoRev
  <1>5. session \in 0..MaxSessions
    BY <1>1, <1>2
  <1> QED
    BY <1>1, <1>2, <1>3, <1>4, <1>5

\* A change set's list, with an operation of its own in each place.
LEMMA MappedList ==
  ASSUME NEW s \in Seq(Operations), NEW f, f = [i \in DOMAIN s |-> f[i]],
         \A i \in DOMAIN s : f[i] \in Operations
  PROVE  f \in Seq(Operations) /\ Len(f) = Len(s) /\ DOMAIN f = DOMAIN s /\ DOMAIN s = 1..Len(s)
  <1>1. DOMAIN s = 1..Len(s) /\ Len(s) \in Nat
    OBVIOUS
  <1>2. f \in [1..Len(s) -> Operations]
    BY <1>1
  <1>3. f \in Seq(Operations)
    BY <1>1, <1>2
  <1> QED
    BY <1>1, <1>2, <1>3

\* The list of one change set changes.
LEMMA OneList ==
  ASSUME NEW m \in Servers, NEW c \in ChangeSetIds, NEW f \in Seq(Operations),
         NEW n, n = WithList(m, c, f)
  PROVE  /\ n \in Servers /\ n.phase = m.phase /\ n.bound = m.bound
         /\ n.live = m.live /\ n.cps = m.cps /\ n.auths = m.auths
         /\ n.ops[c] = f /\ \A d \in ChangeSetIds \ {c} : n.ops[d] = m.ops[d]
  <1>1. m.ops \in [ChangeSetIds -> Seq(Operations)]
    BY ServerParts
  <1>2. PICK v : v = [m.ops EXCEPT ![c] = f]
    OBVIOUS
  <1>3. /\ v \in [ChangeSetIds -> Seq(Operations)]
        /\ v[c] = f /\ \A d \in ChangeSetIds \ {c} : v[d] = m.ops[d]
    BY <1>1, <1>2
  <1>4. n = WithLists(m, v)
    BY <1>2 DEF WithList
  <1>5. /\ n \in Servers /\ n.phase = m.phase /\ n.ops = v /\ n.bound = m.bound
        /\ n.live = m.live /\ n.cps = m.cps /\ n.auths = m.auths
    BY <1>3, <1>4, ServerField
  <1> QED
    BY <1>3, <1>5

AreWrites(R) == R \subseteq Receipts

\* Statuses are only written to the operations of writes.
LEMMA WrittenReceipts ==
  /\ \A r \in Receipts : AreWrites({r})
  /\ \A cp \in Checkpoints : \A R : R = {w.receipt : w \in cp.effective} => AreWrites(R)
  /\ \A cp \in Checkpoints : AreWrites(cp.superseded)
  /\ \A R : AreWrites(R) => \A p \in Stages(R) : AreWrites(p[1]) /\ AreWrites(p[2])
  /\ server \in Servers => \A c, a, R : R = ImmediatelySaved(c, a) => AreWrites(R)
  <1>1. \A cp \in Checkpoints : cp.superseded \subseteq Receipts /\ \A w \in cp.effective : w.receipt \in Receipts
    BY DEF Checkpoints, Writes
  <1>2. ASSUME NEW cp \in Checkpoints, NEW R, R = {w.receipt : w \in cp.effective}
        PROVE  R \subseteq Receipts
    BY <1>1, <1>2
  <1>3. \A R : R \subseteq Receipts => \A p \in Stages(R) : p[1] \subseteq Receipts /\ p[2] \subseteq Receipts
    BY DEF Stages
  <1>4. ASSUME server \in Servers, NEW c, NEW a, NEW R, R = ImmediatelySaved(c, a)
        PROVE  R \subseteq Receipts
    <2>1. \A l \in server.live : l.receipt \in Receipts
      BY <1>4, ServerParts, OperationParts
    <2> QED
      BY <1>4, <2>1 DEF ImmediatelySaved
  <1> QED
    BY <1>1, <1>2, <1>3, <1>4 DEF AreWrites

\* n has the operations of m in their places; their statuses may differ.
SameOperations(m, n) ==
  \A c \in ChangeSetIds :
    /\ DOMAIN n.ops[c] = DOMAIN m.ops[c] /\ Len(n.ops[c]) = Len(m.ops[c])
    /\ \A i \in DOMAIN m.ops[c] :
         n.ops[c][i].receipt = m.ops[c][i].receipt /\ n.ops[c][i].asset = m.ops[c][i].asset

\* A status is written to the operations with certain receipts.
LEMMA SetStatusFacts ==
  ASSUME NEW m \in Servers, NEW c \in MaybeChangeSet, NEW R, AreWrites(R),
         NEW s \in OperationStatuses, NEW n, n = SetStatus(m, c, R, s)
  PROVE  /\ n \in Servers /\ n.phase = m.phase /\ n.bound = m.bound
         /\ n.live = m.live /\ n.cps = m.cps /\ n.auths = m.auths
         /\ SameOperations(m, n)
         /\ \A d \in ChangeSetIds : \A i \in DOMAIN m.ops[d] :
              n.ops[d][i].status = IF d = c /\ c # NoChangeSet /\ m.ops[d][i].receipt \in R THEN s
                                   ELSE m.ops[d][i].status
  <1>1. CASE c = NoChangeSet
    BY <1>1 DEF SetStatus, SameOperations
  <1>2. CASE c # NoChangeSet
    <2>1. c \in ChangeSetIds
      BY <1>2 DEF MaybeChangeSet
    <2>2. PICK l \in Seq(Operations) : l = m.ops[c]
      BY <2>1, ServerParts
    <2>3. PICK f : f = [i \in DOMAIN l |-> IF l[i].receipt \in R THEN WithStatus(l[i], s) ELSE l[i]]
      OBVIOUS
    <2>4. \A i \in DOMAIN l : /\ l[i] \in Operations /\ f[i] \in Operations
                              /\ f[i].receipt = l[i].receipt /\ f[i].asset = l[i].asset
                              /\ f[i].status = IF l[i].receipt \in R THEN s ELSE l[i].status
      <3>1. ASSUME NEW i \in DOMAIN l PROVE l[i] \in Operations /\ (l[i].receipt \in R => l[i].apply = "none")
        BY OperationParts DEF AreWrites
      <3>2. \A i \in DOMAIN l : f[i] = IF l[i].receipt \in R THEN WithStatus(l[i], s) ELSE l[i]
        BY <2>3
      <3> QED
        BY <3>1, <3>2, OperationParts
    <2>5. f \in Seq(Operations) /\ Len(f) = Len(l) /\ DOMAIN f = DOMAIN l
      BY <2>3, <2>4, MappedList
    <2>6. n = WithList(m, c, f)
      BY <1>2, <2>2, <2>3 DEF SetStatus, WithList, WithLists
    <2>7. /\ n \in Servers /\ n.phase = m.phase /\ n.bound = m.bound
          /\ n.live = m.live /\ n.cps = m.cps /\ n.auths = m.auths
          /\ n.ops[c] = f /\ \A d \in ChangeSetIds \ {c} : n.ops[d] = m.ops[d]
      BY <2>1, <2>5, <2>6, OneList
    <2> QED
      BY <1>2, <2>1, <2>2, <2>4, <2>5, <2>7 DEF SameOperations
  <1> QED
    BY <1>1, <1>2

\* What is reported of an operation is a status, and of a patch with an apply record one of
\* those that such a patch has.
LEMMA ReconciledIsStatus ==
  ASSUME NEW m, NEW op \in Operations
  PROVE  /\ ReconciledStatus(m, op) \in OperationStatuses
         /\ op.apply = "none" \/ PatchStatus(op.apply, ReconciledStatus(m, op))
  <1>1. op.status \in OperationStatuses
    BY OperationParts
  <1>2. {"unknown", "saved", "applied", "verified"} \subseteq OperationStatuses
    BY DEF OperationStatuses
  <1>3. ReconciledStatus(m, op) \in {op.status, "unknown", "saved", "applied", "verified"}
    BY DEF ReconciledStatus, ReconciledStatus_SupersededToo
  <1>4. op.apply # "none" => ReconciledStatus(m, op) = IF op.apply = "verified" THEN "verified" ELSE "saved"
    BY DEF ReconciledStatus, ReconciledStatus_SupersededToo
  <1> QED
    BY <1>1, <1>2, <1>3, <1>4 DEF PatchStatus

\* The operations of one change set are brought up to date.
LEMMA ReconciledFacts ==
  ASSUME NEW m \in Servers, NEW c \in ChangeSetIds, NEW n, n = Reconciled(m, c)
  PROVE  /\ n \in Servers /\ n.phase = m.phase /\ n.bound = m.bound
         /\ n.live = m.live /\ n.cps = m.cps /\ n.auths = m.auths
         /\ SameOperations(m, n)
         /\ \A d \in ChangeSetIds : \A i \in DOMAIN m.ops[d] :
              n.ops[d][i].status = IF d = c THEN ReconciledStatus(m, m.ops[d][i]) ELSE m.ops[d][i].status
  <1>1. PICK l \in Seq(Operations) : l = m.ops[c]
    BY ServerParts
  <1>2. PICK f : f = [i \in DOMAIN l |-> WithStatus(l[i], ReconciledStatus(m, l[i]))]
    OBVIOUS
  <1>3. \A i \in DOMAIN l : /\ l[i] \in Operations /\ ReconciledStatus(m, l[i]) \in OperationStatuses
                            /\ l[i].apply = "none" \/ PatchStatus(l[i].apply, ReconciledStatus(m, l[i]))
    BY ReconciledIsStatus
  <1>4. \A i \in DOMAIN l : /\ f[i] \in Operations /\ f[i].receipt = l[i].receipt /\ f[i].asset = l[i].asset
                            /\ f[i].status = ReconciledStatus(m, l[i])
    BY <1>2, <1>3, OperationParts
  <1>5. f \in Seq(Operations) /\ Len(f) = Len(l) /\ DOMAIN f = DOMAIN l
    BY <1>2, <1>4, MappedList
  <1>6. n = WithList(m, c, f)
    BY <1>1, <1>2 DEF Reconciled, WithList, WithLists
  <1>7. /\ n \in Servers /\ n.phase = m.phase /\ n.bound = m.bound
        /\ n.live = m.live /\ n.cps = m.cps /\ n.auths = m.auths
        /\ n.ops[c] = f /\ \A d \in ChangeSetIds \ {c} : n.ops[d] = m.ops[d]
    BY <1>5, <1>6, OneList
  <1> QED
    BY <1>1, <1>4, <1>5, <1>7 DEF SameOperations

\* After a restart nothing counts as applied any more.
LEMMA LoadedFacts ==
  ASSUME NEW m \in Servers, NEW n, n = Loaded(m)
  PROVE  /\ n \in Servers /\ n.phase = m.phase /\ n.bound = m.bound
         /\ n.live = m.live /\ n.cps = m.cps /\ n.auths = {}
         /\ SameOperations(m, n)
         /\ \A d \in ChangeSetIds : \A i \in DOMAIN m.ops[d] :
              n.ops[d][i].status = IF m.ops[d][i].status = "applied" THEN "unknown" ELSE m.ops[d][i].status
  <1> DEFINE Kept(op) == IF op.status = "applied" THEN WithStatus(op, "unknown") ELSE op
  <1>1. PICK v : v = [c \in ChangeSetIds |-> [i \in DOMAIN m.ops[c] |-> Kept(WithApply(m.ops[c][i], "none"))]]
    OBVIOUS
  <1>2. ASSUME NEW c \in ChangeSetIds
        PROVE  /\ v[c] \in Seq(Operations) /\ Len(v[c]) = Len(m.ops[c]) /\ DOMAIN v[c] = DOMAIN m.ops[c]
               /\ \A i \in DOMAIN m.ops[c] :
                    /\ v[c][i].receipt = m.ops[c][i].receipt /\ v[c][i].asset = m.ops[c][i].asset
                    /\ v[c][i].status = IF m.ops[c][i].status = "applied" THEN "unknown" ELSE m.ops[c][i].status
    <2>1. PICK l \in Seq(Operations) : l = m.ops[c]
      BY ServerParts
    <2>2. PICK f : f = v[c]
      OBVIOUS
    <2>3. f = [i \in DOMAIN l |-> Kept(WithApply(l[i], "none"))]
      BY <1>1, <2>1, <2>2
    <2>4. "unknown" \in OperationStatuses
      BY DEF OperationStatuses
    <2>5. \A i \in DOMAIN l :
            /\ f[i] \in Operations /\ f[i].receipt = l[i].receipt /\ f[i].asset = l[i].asset
            /\ f[i].status = IF l[i].status = "applied" THEN "unknown" ELSE l[i].status
      <3> SUFFICES ASSUME NEW i \in DOMAIN l
                   PROVE  /\ f[i] \in Operations /\ f[i].receipt = l[i].receipt /\ f[i].asset = l[i].asset
                          /\ f[i].status = IF l[i].status = "applied" THEN "unknown" ELSE l[i].status
        OBVIOUS
      <3>1. l[i] \in Operations /\ "none" \in Applied
        BY DEF Applied
      <3>2. PICK o : o = WithApply(l[i], "none")
        OBVIOUS
      <3>3. o \in Operations /\ o.receipt = l[i].receipt /\ o.asset = l[i].asset /\ o.status = l[i].status
        BY <3>1, <3>2, OperationParts
      <3>4. o.apply = "none"
        BY <3>1, <3>2, OperationParts
      <3>5. f[i] = Kept(o)
        BY <2>3, <3>2
      <3> QED
        BY <2>4, <3>3, <3>4, <3>5, OperationParts
    <2>6. f = [i \in DOMAIN l |-> f[i]]
      BY <2>3
    <2>7. f \in Seq(Operations) /\ Len(f) = Len(l) /\ DOMAIN f = DOMAIN l
      BY <2>5, <2>6, MappedList
    <2> QED
      BY <2>1, <2>2, <2>5, <2>7
  <1>3. v \in [ChangeSetIds -> Seq(Operations)]
    BY <1>1, <1>2
  <1>4. PICK k : k = WithLists(m, v)
    OBVIOUS
  <1>5. /\ k \in Servers /\ k.phase = m.phase /\ k.ops = v /\ k.bound = m.bound
        /\ k.live = m.live /\ k.cps = m.cps /\ k.auths = m.auths
    BY <1>3, <1>4, ServerField
  <1>6. n = WithAuthorizations(k, {})
    BY <1>1, <1>4 DEF Loaded, WithLists, WithAuthorizations
  <1>7. /\ n \in Servers /\ n.phase = k.phase /\ n.ops = k.ops /\ n.bound = k.bound
        /\ n.live = k.live /\ n.cps = k.cps /\ n.auths = {}
    <2>1. {} \in SUBSET Authorizations
      OBVIOUS
    <2> QED
      BY <1>5, <1>6, <2>1, ServerField
  <1> QED
    BY <1>2, <1>5, <1>7 DEF SameOperations

\* An operation is added at the end of a list.
LEMMA OperationAdded ==
  ASSUME NEW s \in Seq(Operations), NEW o \in Operations
  PROVE  /\ Append(s, o) \in Seq(Operations)
         /\ Len(s) \in Nat /\ Len(Append(s, o)) = Len(s) + 1
         /\ DOMAIN s = 1..Len(s) /\ DOMAIN Append(s, o) = 1..(Len(s) + 1)
         /\ \A i \in DOMAIN s : i \in DOMAIN Append(s, o) /\ Append(s, o)[i] = s[i]
         /\ Append(s, o)[Len(s) + 1] = o
  OBVIOUS

\* The list of a change set got the operation o.
Grew(m, n, c, o) == n.ops[c] = Append(m.ops[c], o)

\* An operation is added at the end of a change set.
LEMMA AppendOperationFacts ==
  ASSUME EditorInv,
         NEW m \in Servers, NEW c \in ChangeSetIds, NEW a \in Assets, NEW r, r \in Receipts \/ r = NoReceipt,
         NEW s \in OperationStatuses, NEW n, n = AppendOperation(m, c, a, r, s)
  PROVE  /\ n \in Servers /\ n.phase = m.phase
         /\ n.live = m.live /\ n.cps = m.cps /\ n.auths = m.auths
         /\ \A d \in ChangeSetIds \ {c} : n.ops[d] = m.ops[d]
         /\ \E o \in Operations : /\ o.receipt = r /\ o.asset = a /\ o.status = s
                                  /\ Grew(m, n, c, o)
  <1> session \in 0..MaxSessions
    BY EditorNumbers
  <1>1. PICK l \in Seq(Operations) : l = m.ops[c]
    BY ServerParts
  <1>2. PICK o : o = [receipt |-> r, asset |-> a, status |-> s, apply |-> "none"]
    OBVIOUS
  <1>3. o \in Operations
    <2>1. r \in Receipts \cup {NoReceipt}
      OBVIOUS
    <2> QED
      BY <1>2, <2>1 DEF Operations
  <1>4. o.receipt = r /\ o.asset = a /\ o.status = s
    BY <1>2
  <1>5. PICK f : f = Append(l, o)
    OBVIOUS
  <1>6. f \in Seq(Operations)
    BY <1>3, <1>5
  <1>7. PICK k : k = WithList(m, c, f)
    OBVIOUS
  <1>8. /\ k \in Servers /\ k.phase = m.phase /\ k.bound = m.bound
        /\ k.live = m.live /\ k.cps = m.cps /\ k.auths = m.auths
        /\ k.ops[c] = f /\ \A d \in ChangeSetIds \ {c} : k.ops[d] = m.ops[d]
    BY <1>6, <1>7, OneList
  <1>9. PICK b : b = [m.bound EXCEPT ![c] = IF r # NoReceipt \/ @ = NoSession THEN session ELSE @]
    OBVIOUS
  <1>10. b \in [ChangeSetIds -> 0..MaxSessions]
    BY <1>9, ServerParts
  <1>11. n = WithBound(k, b)
    BY <1>1, <1>2, <1>5, <1>7, <1>9 DEF AppendOperation, WithBound, WithList, WithLists
  <1>12. /\ n \in Servers /\ n.phase = k.phase /\ n.ops = k.ops
         /\ n.live = k.live /\ n.cps = k.cps /\ n.auths = k.auths
    BY <1>8, <1>10, <1>11, ServerField
  <1>13. Grew(m, n, c, o) /\ \A d \in ChangeSetIds \ {c} : n.ops[d] = m.ops[d]
    BY <1>1, <1>5, <1>8, <1>12 DEF Grew
  <1>14. /\ n \in Servers /\ n.phase = m.phase
         /\ n.live = m.live /\ n.cps = m.cps /\ n.auths = m.auths
    BY <1>8, <1>12
  <1> QED
    BY <1>3, <1>4, <1>13, <1>14

\* n shows the same operations as m, with the same statuses.
SameHistories(m, n) ==
  /\ SameOperations(m, n)
  /\ \A c \in ChangeSetIds : \A i \in DOMAIN m.ops[c] : n.ops[c][i].status = m.ops[c][i].status

\* A committed patch is added at the end of a change set.
LEMMA AppendPatchFacts ==
  ASSUME NEW m \in Servers, NEW c \in ChangeSetIds, NEW n, n = AppendPatch(m, c)
  PROVE  /\ n \in Servers /\ n.phase = m.phase /\ n.bound = m.bound
         /\ n.live = m.live /\ n.cps = m.cps /\ n.auths = m.auths
         /\ \A d \in ChangeSetIds \ {c} : n.ops[d] = m.ops[d]
         /\ \E o \in Operations : /\ o.receipt = NoReceipt /\ o.asset = OtherPackage /\ o.status = "saved"
                                  /\ Grew(m, n, c, o)
  <1>1. PICK l \in Seq(Operations) : l = m.ops[c]
    BY ServerParts
  <1>2. PICK o : o = [receipt |-> NoReceipt, asset |-> OtherPackage, status |-> "saved", apply |-> "unverified"]
    OBVIOUS
  <1>3. o \in Operations /\ o.receipt = NoReceipt /\ o.asset = OtherPackage /\ o.status = "saved"
    BY <1>2 DEF Operations, OperationStatuses
  <1>4. PICK f : f = Append(l, o)
    OBVIOUS
  <1>5. f \in Seq(Operations)
    BY <1>3, <1>4
  <1>6. n = WithList(m, c, f)
    BY <1>1, <1>2, <1>4 DEF AppendPatch, WithList, WithLists
  <1>7. /\ n \in Servers /\ n.phase = m.phase /\ n.bound = m.bound
        /\ n.live = m.live /\ n.cps = m.cps /\ n.auths = m.auths
        /\ n.ops[c] = f /\ \A d \in ChangeSetIds \ {c} : n.ops[d] = m.ops[d]
    BY <1>5, <1>6, OneList
  <1>8. Grew(m, n, c, o)
    BY <1>1, <1>4, <1>7 DEF Grew
  <1> QED
    BY <1>3, <1>7, <1>8

\* Apply records are dropped.
LEMMA WithoutAppliesFacts ==
  ASSUME NEW m \in Servers, NEW dropped, NEW n, n = WithoutApplies(m, dropped)
  PROVE  /\ n \in Servers /\ n.phase = m.phase /\ n.bound = m.bound
         /\ n.live = m.live /\ n.cps = m.cps /\ n.auths = m.auths
         /\ SameHistories(m, n)
  <1>1. PICK v : v = [c \in ChangeSetIds |-> [i \in DOMAIN m.ops[c] |->
                       IF <<c, i>> \in dropped THEN WithApply(m.ops[c][i], "none") ELSE m.ops[c][i]]]
    OBVIOUS
  <1>2. ASSUME NEW c \in ChangeSetIds
        PROVE  /\ v[c] \in Seq(Operations) /\ Len(v[c]) = Len(m.ops[c]) /\ DOMAIN v[c] = DOMAIN m.ops[c]
               /\ \A i \in DOMAIN m.ops[c] :
                    /\ v[c][i].receipt = m.ops[c][i].receipt /\ v[c][i].asset = m.ops[c][i].asset
                    /\ v[c][i].status = m.ops[c][i].status
    <2>1. PICK l \in Seq(Operations) : l = m.ops[c]
      BY ServerParts
    <2>2. PICK f : f = v[c]
      OBVIOUS
    <2>3. f = [i \in DOMAIN l |-> IF <<c, i>> \in dropped THEN WithApply(l[i], "none") ELSE l[i]]
      BY <1>1, <2>1, <2>2
    <2>4. ASSUME NEW i \in DOMAIN l
          PROVE  /\ f[i] \in Operations /\ f[i].receipt = l[i].receipt /\ f[i].asset = l[i].asset
                 /\ f[i].status = l[i].status
      <3>1. l[i] \in Operations /\ "none" \in Applied
        BY DEF Applied
      <3>2. PICK o : o = WithApply(l[i], "none")
        OBVIOUS
      <3>3. o \in Operations /\ o.receipt = l[i].receipt /\ o.asset = l[i].asset /\ o.status = l[i].status
        BY <3>1, <3>2, OperationParts
      <3>4. f[i] = o \/ f[i] = l[i]
        BY <2>3, <3>2
      <3> QED
        BY <3>1, <3>3, <3>4
    <2>5. f = [i \in DOMAIN l |-> f[i]]
      BY <2>3
    <2>6. f \in Seq(Operations) /\ Len(f) = Len(l) /\ DOMAIN f = DOMAIN l
      BY <2>4, <2>5, MappedList
    <2> QED
      BY <2>1, <2>2, <2>4, <2>6
  <1>3. v \in [ChangeSetIds -> Seq(Operations)]
    BY <1>1, <1>2
  <1>4. n = WithLists(m, v)
    BY <1>1 DEF WithoutApplies, WithLists
  <1>5. /\ n \in Servers /\ n.phase = m.phase /\ n.ops = v /\ n.bound = m.bound
        /\ n.live = m.live /\ n.cps = m.cps /\ n.auths = m.auths
    BY <1>3, <1>4, ServerField
  <1> QED
    BY <1>2, <1>5 DEF SameHistories, SameOperations

\* A bound patch is verified.
LEMMA PatchVerifiedFacts ==
  ASSUME NEW m \in Servers, NEW c \in ChangeSetIds, NEW i, <<c, i>> \in Applies(m),
         NEW s \in {"verified", m.ops[c][i].status}, NEW n, n = PatchVerified(m, c, i, s)
  PROVE  /\ n \in Servers /\ n.phase = m.phase /\ n.bound = m.bound
         /\ n.live = m.live /\ n.cps = m.cps /\ n.auths = m.auths
         /\ SameOperations(m, n)
         /\ i \in DOMAIN m.ops[c] /\ m.ops[c][i].receipt = NoReceipt
         /\ m.ops[c][i].status \in {"saved", "verified"}
         /\ \A d \in ChangeSetIds : \A j \in DOMAIN m.ops[d] :
              n.ops[d][j].status = IF d = c /\ j = i THEN s ELSE m.ops[d][j].status
  <1>1. PICK l \in Seq(Operations) : l = m.ops[c]
    BY ServerParts
  <1>2. i \in DOMAIN l /\ l[i].apply # "none"
    BY <1>1 DEF Applies
  <1>3. /\ l[i] \in Operations /\ "verified" \in Applied /\ "verified" \in OperationStatuses
        /\ l[i].receipt = NoReceipt /\ l[i].status \in {"saved", "verified"}
        /\ s \in {"saved", "verified"} /\ s \in OperationStatuses
    <2>1. l[i] \in Operations /\ "verified" \in Applied /\ {"saved", "verified"} \subseteq OperationStatuses
      BY <1>2 DEF Applied, OperationStatuses
    <2> QED
      BY <1>1, <1>2, <2>1, OperationParts DEF PatchStatus
  <1>4. PICK k : k = WithApply(l[i], "verified")
    OBVIOUS
  <1>5. /\ k.receipt = l[i].receipt /\ k.asset = l[i].asset /\ k.status = l[i].status /\ k.apply = "verified"
        /\ k \in Operations
    <2>1. PatchStatus("verified", l[i].status)
      BY <1>3 DEF PatchStatus
    <2> QED
      BY <1>3, <1>4, <2>1, OperationParts
  <1>6. PICK o : o = WithStatus(k, s)
    OBVIOUS
  <1>7. o \in Operations /\ o.receipt = l[i].receipt /\ o.asset = l[i].asset /\ o.status = s
    <2>1. PatchStatus(k.apply, s)
      BY <1>3, <1>5 DEF PatchStatus
    <2> QED
      BY <1>3, <1>5, <1>6, <2>1, OperationParts
  <1>8. PICK f : f = [l EXCEPT ![i] = o]
    OBVIOUS
  <1>9. \A j \in DOMAIN l : f[j] = IF j = i THEN o ELSE l[j]
    BY <1>8
  <1>10. f = [j \in DOMAIN l |-> f[j]]
    BY <1>8
  <1>11. \A j \in DOMAIN l : l[j] \in Operations
    OBVIOUS
  <1>12. f \in Seq(Operations) /\ Len(f) = Len(l) /\ DOMAIN f = DOMAIN l
    <2>1. \A j \in DOMAIN l : f[j] \in Operations
      BY <1>7, <1>9, <1>11
    <2> QED
      BY <1>10, <2>1, MappedList
  <1>13. n = WithList(m, c, f)
    <2>1. n = [m EXCEPT !.ops[c][i] = WithStatus(WithApply(@, "verified"), s)]
      BY DEF PatchVerified
    <2>2. m.ops[c][i] = l[i]
      BY <1>1
    <2>3. n = [m EXCEPT !.ops = [m.ops EXCEPT ![c] = [l EXCEPT ![i] = o]]]
      BY <1>1, <1>4, <1>6, <2>1, <2>2
    <2> QED
      BY <1>8, <2>3 DEF WithList, WithLists
  <1>14. /\ n \in Servers /\ n.phase = m.phase /\ n.bound = m.bound
         /\ n.live = m.live /\ n.cps = m.cps /\ n.auths = m.auths
         /\ n.ops[c] = f /\ \A d \in ChangeSetIds \ {c} : n.ops[d] = m.ops[d]
    BY <1>12, <1>13, OneList
  <1>15. \A j \in DOMAIN l : /\ f[j].receipt = l[j].receipt /\ f[j].asset = l[j].asset
                             /\ f[j].status = IF j = i THEN s ELSE l[j].status
    BY <1>7, <1>9
  <1> QED
    BY <1>1, <1>2, <1>3, <1>12, <1>14, <1>15 DEF SameOperations

\* Live records are marked as saved.
LEMMA MarkSavedFacts ==
  ASSUME NEW m \in Servers, NEW R, NEW id \in SaveIds, NEW n, n = MarkSaved(m, R, id)
  PROVE  /\ n \in Servers /\ n.phase = m.phase /\ n.ops = m.ops /\ n.bound = m.bound
         /\ n.cps = m.cps /\ n.auths = m.auths
         /\ \A k \in n.live : \E l \in m.live :
              /\ k.receipt = l.receipt /\ k.asset = l.asset /\ k.target = l.target /\ k.after = l.after
              /\ k.sess = l.sess /\ k.saved = (l.saved \/ l.receipt \in R) /\ (l.receipt \notin R => k = l)
         /\ \A l \in m.live : \E k \in n.live : k.receipt = l.receipt
         /\ \A l \in m.live : l.receipt \notin R => l \in n.live
  <1>1. PICK v : v = {IF l.receipt \in R THEN [l EXCEPT !.saved = TRUE, !.save = id] ELSE l : l \in m.live}
    OBVIOUS
  <1>2. m.live \in SUBSET LiveApplies /\ \A l \in LiveApplies : l.saved \in BOOLEAN
    BY ServerParts DEF LiveApplies
  <1>3. \A l \in m.live : \A k : k = [l EXCEPT !.saved = TRUE, !.save = id] =>
          /\ k \in LiveApplies /\ k.receipt = l.receipt /\ k.asset = l.asset /\ k.target = l.target
          /\ k.after = l.after /\ k.sess = l.sess /\ k.saved = TRUE
    BY <1>2 DEF LiveApplies
  <1>4. /\ v \subseteq LiveApplies
        /\ \A k \in v : \E l \in m.live :
              /\ k.receipt = l.receipt /\ k.asset = l.asset /\ k.target = l.target /\ k.after = l.after
              /\ k.sess = l.sess /\ k.saved = (l.saved \/ l.receipt \in R) /\ (l.receipt \notin R => k = l)
    <2> SUFFICES ASSUME NEW k \in v
                 PROVE  /\ k \in LiveApplies
                        /\ \E l \in m.live :
                             /\ k.receipt = l.receipt /\ k.asset = l.asset /\ k.target = l.target /\ k.after = l.after
                             /\ k.sess = l.sess /\ k.saved = (l.saved \/ l.receipt \in R)
                             /\ (l.receipt \notin R => k = l)
      OBVIOUS
    <2>1. PICK l \in m.live : k = IF l.receipt \in R THEN [l EXCEPT !.saved = TRUE, !.save = id] ELSE l
      BY <1>1
    <2>2. CASE l.receipt \in R
      BY <1>2, <1>3, <2>1, <2>2
    <2>3. CASE l.receipt \notin R
      BY <1>2, <2>1, <2>3
    <2> QED
      BY <2>2, <2>3
  <1>5. \A l \in m.live : l.receipt \notin R => l \in v
    BY <1>1
  <1>6. \A l \in m.live : \E k \in v : k.receipt = l.receipt
    BY <1>1, <1>3
  <1>7. n = WithLive(m, v)
    BY <1>1 DEF MarkSaved, WithLive
  <1>8. /\ n \in Servers /\ n.phase = m.phase /\ n.ops = m.ops /\ n.bound = m.bound
        /\ n.live = v /\ n.cps = m.cps /\ n.auths = m.auths
    BY <1>4, <1>7, ServerField
  <1> QED
    BY <1>4, <1>5, <1>6, <1>8

\* Live records are dropped.
LEMMA FewerLiveFacts ==
  ASSUME NEW m \in Servers, NEW v, v \subseteq m.live, NEW n, n = WithLive(m, v)
  PROVE  /\ n \in Servers /\ n.phase = m.phase /\ n.ops = m.ops /\ n.bound = m.bound
         /\ n.live = v /\ n.cps = m.cps /\ n.auths = m.auths
  <1>1. v \in SUBSET LiveApplies
    BY ServerParts
  <1> QED
    BY <1>1, ServerField

\* The record of one write is dropped.
LEMMA WithoutLiveFacts ==
  ASSUME NEW m \in Servers, NEW r, NEW n, n = WithoutLive(m, r)
  PROVE  /\ n \in Servers /\ n.phase = m.phase /\ n.ops = m.ops /\ n.bound = m.bound
         /\ n.live = {l \in m.live : l.receipt # r} /\ n.cps = m.cps /\ n.auths = m.auths
  <1>1. PICK v : v = {l \in m.live : l.receipt # r}
    OBVIOUS
  <1>2. v \subseteq m.live /\ n = WithLive(m, v)
    BY <1>1 DEF WithoutLive, WithLive
  <1> QED
    BY <1>1, <1>2, FewerLiveFacts

\* Beyond the limit records are dropped.
LEMMA PrunedFacts ==
  ASSUME NEW m \in Servers, NEW kept \in Prunings(m.live), NEW n, n = Pruned(m, kept)
  PROVE  /\ n \in Servers /\ n.phase = m.phase /\ n.ops = m.ops /\ n.bound = m.bound
         /\ n.live \subseteq m.live /\ n.cps = m.cps /\ n.auths = m.auths
  <1>1. kept \subseteq m.live
    BY DEF Prunings
  <1>2. n = WithLive(m, kept)
    BY DEF Pruned, WithLive
  <1> QED
    BY <1>1, <1>2, FewerLiveFacts

\* The number of the next write.
NextReceipt == lastTx + 1

\* A write gets a live record under a number of its own.
LEMMA WithWriteFacts ==
  ASSUME EditorInv, NextReceipt \in Receipts,
         NEW m \in Servers, NEW a \in Assets, NEW t \in Targets, NEW v \in Values,
         NEW n, n = WithWrite(m, a, t, v)
  PROVE  /\ n \in Servers /\ n.phase = m.phase /\ n.ops = m.ops /\ n.bound = m.bound
         /\ n.cps = m.cps /\ n.auths = m.auths
         /\ m.live \subseteq n.live
         /\ \A l \in n.live : \/ l \in m.live
                              \/ /\ l.receipt = NextReceipt /\ l.asset = a /\ l.target = t /\ l.after = v
                                 /\ l.sess = session /\ ~l.saved
         /\ \E l : /\ n.live = m.live \cup {l}
                  /\ l.receipt = NextReceipt /\ l.asset = a /\ l.target = t /\ l.after = v
                  /\ l.sess = session /\ ~l.saved
  <1>1. PICK l : l = [receipt |-> NextReceipt, asset |-> a, target |-> t, after |-> v, sess |-> session,
                      saved |-> FALSE, save |-> 0]
    OBVIOUS
  <1>2. /\ l \in LiveApplies /\ l.receipt = NextReceipt /\ l.asset = a /\ l.target = t /\ l.after = v
        /\ l.sess = session /\ ~l.saved
    <2>1. session \in 1..MaxSessions
      BY EditorNumbers
    <2> QED
      BY <1>1, <2>1 DEF LiveApplies
  <1>3. PICK w : w = m.live \cup {l}
    OBVIOUS
  <1>4. n = WithLive(m, w)
    BY <1>1, <1>3 DEF WithWrite, WithLive, NextReceipt
  <1>5. w \in SUBSET LiveApplies
    BY <1>2, <1>3, ServerParts
  <1>6. /\ n \in Servers /\ n.phase = m.phase /\ n.ops = m.ops /\ n.bound = m.bound
        /\ n.live = w /\ n.cps = m.cps /\ n.auths = m.auths
    BY <1>4, <1>5, ServerField
  <1> QED
    BY <1>2, <1>3, <1>6

\* Change sets are forgotten.
LEMMA ForgetFacts ==
  ASSUME NEW m \in Servers, NEW F, NEW n, n = Forget(m, F)
  PROVE  /\ n \in Servers /\ n.bound = m.bound /\ n.live = m.live /\ n.cps = m.cps /\ n.auths = m.auths
         /\ \A c \in ChangeSetIds : /\ n.phase[c] = IF c \in F THEN "gone" ELSE m.phase[c]
                                    /\ n.ops[c] = IF c \in F THEN <<>> ELSE m.ops[c]
  <1>1. PICK p : p = [c \in ChangeSetIds |-> IF c \in F THEN "gone" ELSE m.phase[c]]
    OBVIOUS
  <1>2. PICK v : v = [c \in ChangeSetIds |-> IF c \in F THEN <<>> ELSE m.ops[c]]
    OBVIOUS
  <1>3. p \in [ChangeSetIds -> {"new", "open", "gone"}]
    BY <1>1, ServerParts
  <1>4. v \in [ChangeSetIds -> Seq(Operations)]
    <2>1. <<>> \in Seq(Operations)
      BY EmptyFacts
    <2>2. m.ops \in [ChangeSetIds -> Seq(Operations)]
      BY ServerParts
    <2>3. \A c \in ChangeSetIds : v[c] \in Seq(Operations)
      BY <1>2, <2>1, <2>2
    <2> QED
      BY <1>2, <2>3
  <1>5. PICK k : k = WithPhase(m, p)
    OBVIOUS
  <1>6. /\ k \in Servers /\ k.phase = p /\ k.ops = m.ops /\ k.bound = m.bound
        /\ k.live = m.live /\ k.cps = m.cps /\ k.auths = m.auths
    BY <1>3, <1>5, ServerField
  <1>7. n = WithLists(k, v)
    BY <1>1, <1>2, <1>5 DEF Forget, WithPhase, WithLists
  <1>8. /\ n \in Servers /\ n.phase = k.phase /\ n.ops = v /\ n.bound = k.bound
        /\ n.live = k.live /\ n.cps = k.cps /\ n.auths = k.auths
    BY <1>4, <1>6, <1>7, ServerField
  <1> QED
    BY <1>1, <1>2, <1>6, <1>8

\* A checkpoint is a set of writes of one asset by one change set.
LEMMA CheckpointParts ==
  ASSUME NEW cp \in Checkpoints
  PROVE  /\ cp.id \in SaveIds /\ cp.cs \in ChangeSetIds /\ cp.asset \in Assets
         /\ cp.state \in {"prepared", "saved", "verified", "stale"}
         /\ cp.sess \in 1..MaxSessions /\ cp.afterRev \in 0..NoRev
         /\ cp.effective \in SUBSET Writes /\ cp.superseded \in SUBSET Receipts
         /\ \A w \in cp.effective : w.receipt \in Receipts /\ w.target \in Targets /\ w.after \in Values
  <1>1. /\ cp.id \in SaveIds /\ cp.cs \in ChangeSetIds /\ cp.asset \in Assets
        /\ cp.state \in {"prepared", "saved", "verified", "stale"}
        /\ cp.sess \in 1..MaxSessions /\ cp.afterRev \in 0..NoRev
        /\ cp.effective \in SUBSET Writes /\ cp.superseded \in SUBSET Receipts
    BY DEF Checkpoints
  <1>2. \A w \in Writes : w.receipt \in Receipts /\ w.target \in Targets /\ w.after \in Values
    BY DEF Writes
  <1> QED
    BY <1>1, <1>2

\* k is the checkpoint cp in another state.
SameCheckpoint(k, cp) ==
  /\ k.id = cp.id /\ k.cs = cp.cs /\ k.asset = cp.asset /\ k.sess = cp.sess
  /\ k.effective = cp.effective /\ k.superseded = cp.superseded

\* A checkpoint takes another state.
LEMMA WithCheckpointFacts ==
  ASSUME NEW m \in Servers, NEW cp \in Checkpoints, NEW s \in {"prepared", "saved", "verified", "stale"},
         NEW r \in 0..NoRev, NEW n, n = WithCheckpoint(m, cp, s, r)
  PROVE  /\ n \in Servers /\ n.phase = m.phase /\ n.ops = m.ops /\ n.bound = m.bound
         /\ n.live = m.live /\ n.auths = m.auths
         /\ \A k \in n.cps : \/ k \in m.cps
                             \/ SameCheckpoint(k, cp) /\ k.state = s /\ k.afterRev = r
  <1>1. PICK y : y = [cp EXCEPT !.state = s, !.afterRev = r]
    OBVIOUS
  <1>2. PICK z : z = [cp EXCEPT !.state = s]
    OBVIOUS
  <1>3. z \in Checkpoints /\ SameCheckpoint(z, cp) /\ z.state = s
    BY <1>2 DEF Checkpoints, SameCheckpoint
  <1>4. y = [z EXCEPT !.afterRev = r]
    BY <1>1, <1>2
  <1>5. y \in Checkpoints /\ SameCheckpoint(y, z) /\ y.state = s /\ y.afterRev = r
    BY <1>3, <1>4 DEF Checkpoints, SameCheckpoint
  <1>6. SameCheckpoint(y, cp)
    BY <1>3, <1>5 DEF SameCheckpoint
  <1>7. PICK v : v = (m.cps \ {cp}) \cup {y}
    OBVIOUS
  <1>8. v \in SUBSET Checkpoints
    BY <1>5, <1>7, ServerParts
  <1>9. n = WithCheckpoints(m, v)
    BY <1>1, <1>7 DEF WithCheckpoint, WithCheckpoints
  <1>10. /\ n \in Servers /\ n.phase = m.phase /\ n.ops = m.ops /\ n.bound = m.bound
         /\ n.live = m.live /\ n.cps = v /\ n.auths = m.auths
    BY <1>8, <1>9, ServerField
  <1> QED
    BY <1>5, <1>6, <1>7, <1>10

\* An authorization is used up.
LEMMA ConsumedFacts ==
  ASSUME NEW m \in Servers, NEW auth, NEW n, n = Consumed(m, auth)
  PROVE  /\ n \in Servers /\ n.phase = m.phase /\ n.ops = m.ops /\ n.bound = m.bound
         /\ n.live = m.live /\ n.cps = m.cps /\ n.auths \subseteq m.auths
  <1>1. PICK v : v = m.auths \ {auth}
    OBVIOUS
  <1>2. v \in SUBSET Authorizations
    BY <1>1, ServerParts
  <1>3. n = WithAuthorizations(m, v)
    BY <1>1 DEF Consumed, WithAuthorizations
  <1> QED
    BY <1>1, <1>2, <1>3, ServerField

\* The live records of n are those of m, some of them marked as saved.
MarkedLive(m, n, R) ==
  /\ \A k \in n.live : \E l \in m.live :
       /\ k.receipt = l.receipt /\ k.asset = l.asset /\ k.target = l.target /\ k.after = l.after
       /\ k.sess = l.sess /\ k.saved = (l.saved \/ l.receipt \in R) /\ (l.receipt \notin R => k = l)
  /\ \A l \in m.live : \E k \in n.live : k.receipt = l.receipt
  /\ \A l \in m.live : l.receipt \notin R => l \in n.live

\* The effective writes of a checkpoint are saved.
LEMMA SavedEffectiveFacts ==
  ASSUME NEW m \in Servers, NEW cp \in Checkpoints, NEW R, NEW U, AreWrites(U),
         NEW n, n = SavedEffective(m, cp, R, U)
  PROVE  /\ n \in Servers /\ n.phase = m.phase /\ n.bound = m.bound
         /\ n.cps = m.cps /\ n.auths = m.auths
         /\ SameOperations(m, n) /\ MarkedLive(m, n, R)
         /\ \A d \in ChangeSetIds : \A i \in DOMAIN m.ops[d] :
              n.ops[d][i].status = IF d = cp.cs /\ d # NoChangeSet /\ m.ops[d][i].receipt \in U THEN "saved"
                                   ELSE m.ops[d][i].status
  <1>1. cp.id \in SaveIds /\ cp.cs \in MaybeChangeSet /\ "saved" \in OperationStatuses
    BY CheckpointParts DEF MaybeChangeSet, OperationStatuses
  <1>2. PICK k : k = MarkSaved(m, R, cp.id)
    OBVIOUS
  <1>3. /\ k \in Servers /\ k.phase = m.phase /\ k.ops = m.ops /\ k.bound = m.bound
        /\ k.cps = m.cps /\ k.auths = m.auths /\ MarkedLive(m, k, R)
    BY <1>1, <1>2, MarkSavedFacts DEF MarkedLive
  <1>4. n = SetStatus(k, cp.cs, U, "saved")
    BY <1>2 DEF SavedEffective
  <1>5. /\ n \in Servers /\ n.phase = k.phase /\ n.bound = k.bound
        /\ n.live = k.live /\ n.cps = k.cps /\ n.auths = k.auths
        /\ SameOperations(k, n)
        /\ \A d \in ChangeSetIds : \A i \in DOMAIN k.ops[d] :
              n.ops[d][i].status = IF d = cp.cs /\ cp.cs # NoChangeSet /\ k.ops[d][i].receipt \in U THEN "saved"
                                   ELSE k.ops[d][i].status
    BY <1>1, <1>3, <1>4, SetStatusFacts
  <1> QED
    BY <1>3, <1>5 DEF SameOperations, MarkedLive

\* The superseded writes of a checkpoint are closed.
LEMMA SupersededFacts ==
  ASSUME NEW m \in Servers, NEW cp \in Checkpoints, NEW U, AreWrites(U), NEW R,
         NEW n, n = Superseded(m, cp, U, R)
  PROVE  /\ n \in Servers /\ n.phase = m.phase /\ n.bound = m.bound
         /\ n.live = {l \in m.live : l.receipt \notin R} /\ n.cps = m.cps /\ n.auths = m.auths
         /\ SameOperations(m, n)
         /\ \A d \in ChangeSetIds : \A i \in DOMAIN m.ops[d] :
              n.ops[d][i].status = IF d = cp.cs /\ d # NoChangeSet /\ m.ops[d][i].receipt \in U THEN "superseded"
                                   ELSE m.ops[d][i].status
  <1>1. cp.cs \in MaybeChangeSet /\ "superseded" \in OperationStatuses
    BY CheckpointParts DEF MaybeChangeSet, OperationStatuses
  <1>2. PICK k : k = SetStatus(m, cp.cs, U, "superseded")
    OBVIOUS
  <1>3. /\ k \in Servers /\ k.phase = m.phase /\ k.bound = m.bound
        /\ k.live = m.live /\ k.cps = m.cps /\ k.auths = m.auths
        /\ SameOperations(m, k)
        /\ \A d \in ChangeSetIds : \A i \in DOMAIN m.ops[d] :
              k.ops[d][i].status = IF d = cp.cs /\ cp.cs # NoChangeSet /\ m.ops[d][i].receipt \in U THEN "superseded"
                                   ELSE m.ops[d][i].status
    BY <1>1, <1>2, SetStatusFacts
  <1>4. PICK v : v = {l \in k.live : l.receipt \notin R}
    OBVIOUS
  <1>5. v \subseteq k.live /\ n = WithLive(k, v)
    BY <1>2, <1>4 DEF Superseded, WithLive
  <1>6. /\ n \in Servers /\ n.phase = k.phase /\ n.ops = k.ops /\ n.bound = k.bound
        /\ n.live = v /\ n.cps = k.cps /\ n.auths = k.auths
    BY <1>3, <1>5, FewerLiveFacts
  <1> QED
    BY <1>3, <1>4, <1>6 DEF SameOperations

\* The effective writes of a checkpoint are verified.
LEMMA VerifiedEffectiveFacts ==
  ASSUME NEW m \in Servers, NEW cp \in Checkpoints, NEW U, AreWrites(U), NEW R,
         NEW n, n = VerifiedEffective(m, cp, U, R)
  PROVE  /\ n \in Servers /\ n.phase = m.phase /\ n.bound = m.bound
         /\ n.live = {l \in m.live : l.receipt \notin R} /\ n.cps = m.cps /\ n.auths = m.auths
         /\ SameOperations(m, n)
         /\ \A d \in ChangeSetIds : \A i \in DOMAIN m.ops[d] :
              \/ n.ops[d][i].status = m.ops[d][i].status /\ ~(d = cp.cs /\ d # NoChangeSet /\ m.phase[d] = "open"
                                                              /\ m.ops[d][i].receipt \in U)
              \/ d = cp.cs /\ m.ops[d][i].receipt \in U /\ n.ops[d][i].status = "verified"
  <1>1. cp.cs \in MaybeChangeSet /\ "verified" \in OperationStatuses
    BY CheckpointParts DEF MaybeChangeSet, OperationStatuses
  <1>2. PICK k : k = IF m.phase[cp.cs] = "open" THEN SetStatus(m, cp.cs, U, "verified") ELSE m
    OBVIOUS
  <1>3. /\ k \in Servers /\ k.phase = m.phase /\ k.bound = m.bound
        /\ k.live = m.live /\ k.cps = m.cps /\ k.auths = m.auths
        /\ SameOperations(m, k)
        /\ \A d \in ChangeSetIds : \A i \in DOMAIN m.ops[d] :
              \/ k.ops[d][i].status = m.ops[d][i].status /\ ~(d = cp.cs /\ d # NoChangeSet /\ m.phase[d] = "open"
                                                              /\ m.ops[d][i].receipt \in U)
              \/ d = cp.cs /\ m.ops[d][i].receipt \in U /\ k.ops[d][i].status = "verified"
    <2>1. CASE m.phase[cp.cs] = "open"
      <3>1. k = SetStatus(m, cp.cs, U, "verified")
        BY <1>2, <2>1
      <3>2. /\ k \in Servers /\ k.phase = m.phase /\ k.bound = m.bound
            /\ k.live = m.live /\ k.cps = m.cps /\ k.auths = m.auths
            /\ SameOperations(m, k)
            /\ \A d \in ChangeSetIds : \A i \in DOMAIN m.ops[d] :
                  k.ops[d][i].status = IF d = cp.cs /\ cp.cs # NoChangeSet /\ m.ops[d][i].receipt \in U THEN "verified"
                                       ELSE m.ops[d][i].status
        BY <1>1, <3>1, SetStatusFacts
      <3> QED
        BY <2>1, <3>2
    <2>2. CASE m.phase[cp.cs] # "open"
      BY <1>2, <2>2 DEF SameOperations
    <2> QED
      BY <2>1, <2>2
  <1>4. PICK v : v = {l \in k.live : l.receipt \notin R}
    OBVIOUS
  <1>5. v \subseteq k.live /\ n = WithLive(k, v)
    BY <1>2, <1>4 DEF VerifiedEffective, WithLive
  <1>6. /\ n \in Servers /\ n.phase = k.phase /\ n.ops = k.ops /\ n.bound = k.bound
        /\ n.live = v /\ n.cps = k.cps /\ n.auths = k.auths
    BY <1>3, <1>5, FewerLiveFacts
  <1> QED
    BY <1>3, <1>4, <1>6 DEF SameOperations

-----------------------------------------------------------------------------
(* Every tool leaves a well-formed server                                  *)

\* n is what is left of p: p itself, or p after a restart.
Survives(p, n) ==
  /\ n \in Servers /\ n.phase = p.phase /\ n.bound = p.bound /\ n.live = p.live /\ n.cps = p.cps
  /\ n.auths \subseteq p.auths
  /\ SameOperations(p, n)
  /\ \A d \in ChangeSetIds : \A i \in DOMAIN p.ops[d] :
       n.ops[d][i].status = p.ops[d][i].status
         \/ (p.ops[d][i].status = "applied" /\ n.ops[d][i].status = "unknown")

\* Memory that was not touched, or was loaded again.
LEMMA SurvivesFacts ==
  ASSUME NEW p \in Servers
  PROVE  Survives(p, p) /\ Survives(p, Loaded(p))
  <1>1. PICK n : n = Loaded(p)
    OBVIOUS
  <1>2. Survives(p, n)
    BY <1>1, LoadedFacts DEF Survives
  <1> QED
    BY <1>1, <1>2 DEF Survives, SameOperations

\* A call ends as it means to, or one of its intermediate states is loaded again.
LEMMA FinishFacts ==
  ASSUME NEW m \in Servers, NEW partial \in SUBSET Servers, Finish(m, partial)
  PROVE  /\ "crash" \notin Tools => server' = m
         /\ \E p \in partial \cup {m} : Survives(p, server')
  BY SurvivesFacts DEF Finish

\* k is the checkpoint cp, or it is what has become of it without a save.
BecameOf(k, cp) ==
  /\ SameCheckpoint(k, cp) /\ k.afterRev = cp.afterRev
  /\ k.state \in {"saved", "verified"} => cp.state \in {"saved", "verified"}

\* No checkpoint is prepared or saved, no authorization is given and no list grows.
ServerKept(m, n) ==
  /\ n \in Servers
  /\ \A k \in n.cps : \E cp \in m.cps : BecameOf(k, cp)
  /\ n.auths \subseteq m.auths
  /\ \A c \in ChangeSetIds : Len(n.ops[c]) \in {0, Len(m.ops[c])}

\* This is so of what survives it.
LEMMA KeptSurvives ==
  ASSUME NEW m, NEW p, NEW n, ServerKept(m, p), Survives(p, n)
  PROVE  ServerKept(m, n)
  BY DEF ServerKept, Survives, SameOperations

\* It is so where checkpoints and authorizations are untouched and operations stay in place.
LEMMA KeptWhenSame ==
  ASSUME NEW m \in Servers, NEW n \in Servers, n.cps = m.cps, n.auths \subseteq m.auths, SameOperations(m, n)
  PROVE  ServerKept(m, n)
  BY DEF ServerKept, SameOperations, BecameOf, SameCheckpoint

\* Operations that stay in place through two changes stay in place.
LEMMA SameOperationsCarry ==
  ASSUME NEW m, NEW p, NEW n, SameOperations(m, p), SameOperations(p, n)
  PROVE  SameOperations(m, n)
  BY DEF SameOperations

\* The call of a tool that keeps it all.
LEMMA FinishKeeps ==
  ASSUME NEW m \in Servers, NEW partial, Finish(m, partial),
         ServerKept(server, m), \A p \in partial : ServerKept(server, p)
  PROVE  ServerKept(server, server')
  <1>1. partial \in SUBSET Servers
    BY DEF ServerKept
  <1>2. PICK p \in partial \cup {m} : Survives(p, server')
    BY <1>1, FinishFacts
  <1> QED
    BY <1>2, KeptSurvives

\* The types of the Editor and of the workflow.
Typed == EditorInv /\ WorkflowTypeOK

\* The tools that create, read and discard change sets keep it all.
LEMMA ChangeSetToolsKeep ==
  ASSUME Typed, NEW c \in ChangeSetIds, CreateChangeSet(c) \/ GetChangeSet(c) \/ DiscardEmpty(c)
  PROVE  ServerKept(server, server') /\ UNCHANGED <<editorVars, indexRev, backups, lastSave>>
  <1>1. server \in Servers /\ session \in 0..MaxSessions
    BY EditorNumbers DEF Typed, WorkflowTypeOK
  <1>2. ASSUME NEW F, NEW n, n = Forget(server, F)
        PROVE  n \in Servers /\ ServerKept(server, n)
    <2>1. /\ n \in Servers /\ n.cps = server.cps /\ n.auths = server.auths
          /\ \A d \in ChangeSetIds : n.ops[d] = IF d \in F THEN <<>> ELSE server.ops[d]
      BY <1>1, <1>2, ForgetFacts
    <2>2. \A d \in ChangeSetIds : Len(n.ops[d]) \in {0, Len(server.ops[d])}
      BY <2>1, EmptyFacts
    <2> QED
      BY <1>1, <2>1, <2>2 DEF ServerKept, BecameOf, SameCheckpoint
  <1>3. CASE CreateChangeSet(c)
    <2>1. PICK F, m, n : /\ m = Forget(server, F)
                         /\ n = [m EXCEPT !.phase[c] = "open",
                                          !.bound[c] = IF EditorAvailable THEN session ELSE NoSession]
                         /\ Finish(n, {m})
      BY <1>3 DEF CreateChangeSet
    <2>2. m \in Servers /\ ServerKept(server, m)
      BY <1>2, <2>1
    <2>3. PICK p, b, k : /\ p = [m.phase EXCEPT ![c] = "open"]
                         /\ b = [m.bound EXCEPT ![c] = IF EditorAvailable THEN session ELSE NoSession]
                         /\ k = WithPhase(m, p)
      OBVIOUS
    <2>4. p \in [ChangeSetIds -> {"new", "open", "gone"}] /\ b \in [ChangeSetIds -> 0..MaxSessions]
      <3>1. m.phase \in [ChangeSetIds -> {"new", "open", "gone"}] /\ m.bound \in [ChangeSetIds -> 0..MaxSessions]
        BY <2>2, ServerParts
      <3>2. NoSession \in 0..MaxSessions
        BY BoundsAssumption DEF NoSession
      <3> QED
        BY <1>1, <2>3, <3>1, <3>2
    <2>5. k \in Servers /\ k.phase = p /\ k.ops = m.ops /\ k.bound = m.bound /\ k.cps = m.cps /\ k.auths = m.auths
      BY <2>2, <2>3, <2>4, ServerField
    <2>6. n = WithBound(k, b)
      BY <2>1, <2>3 DEF WithPhase, WithBound
    <2>7. n \in Servers /\ n.ops = k.ops /\ n.cps = k.cps /\ n.auths = k.auths
      BY <2>4, <2>5, <2>6, ServerField
    <2>8. ServerKept(server, n)
      BY <2>2, <2>5, <2>7 DEF ServerKept
    <2>9. UNCHANGED <<editorVars, indexRev, backups, lastSave>>
      BY <1>3 DEF CreateChangeSet
    <2>10. \A q \in {m} : ServerKept(server, q)
      BY <2>2
    <2>11. ServerKept(server, server')
      BY <2>1, <2>7, <2>8, <2>10, FinishKeeps
    <2> QED
      BY <2>9, <2>11
  <1>4. CASE GetChangeSet(c)
    <2>1. PICK n : n = Reconciled(server, c) /\ Finish(n, {})
      BY <1>4 DEF GetChangeSet
    <2>2. n \in Servers /\ n.cps = server.cps /\ n.auths = server.auths /\ SameOperations(server, n)
      BY <1>1, <2>1, ReconciledFacts
    <2>3. ServerKept(server, n)
      BY <1>1, <2>2, KeptWhenSame
    <2> QED
      BY <1>4, <2>1, <2>2, <2>3, FinishKeeps DEF GetChangeSet
  <1>5. CASE DiscardEmpty(c)
    <2>1. PICK n : n = Forget(server, {c}) /\ Finish(n, {})
      BY <1>5 DEF DiscardEmpty
    <2> QED
      BY <1>2, <1>5, <2>1, FinishKeeps DEF DiscardEmpty
  <1> QED
    BY <1>3, <1>4, <1>5

\* A transaction that a write may continue is one that was given out.
LEMMA PreviousIsPast ==
  ASSUME EditorInv, NEW a \in Assets, NEW p, ApplyAllowed(a, p)
  PROVE  p \in 0..lastTx
  <1>1. lastTx \in Nat
    BY EditorNumbers
  <1>2. CASE dirty[a]
    <2>1. PICK q \in records[a] : q.id = p
      BY <1>2 DEF ApplyAllowed, ContinuesChain
    <2>2. p \in Nat /\ p <= lastTx
      BY <2>1, IdsAreNumbers
    <2> QED
      BY <1>1, <2>2
  <1>3. CASE ~dirty[a]
    BY <1>1, <1>3 DEF ApplyAllowed, NoTx
  <1> QED
    BY <1>2, <1>3

\* No checkpoint or authorization changes.
SavesKept(m, n) ==
  /\ n \in Servers /\ n.auths \subseteq m.auths
  /\ \A k \in n.cps : \E cp \in m.cps : BecameOf(k, cp)

\* Checkpoints and authorizations of the same memory.
LEMMA SavesKeptWhenSame ==
  ASSUME NEW m \in Servers, NEW n \in Servers, n.cps = m.cps, n.auths \subseteq m.auths
  PROVE  SavesKept(m, n)
  BY DEF SavesKept, BecameOf, SameCheckpoint

\* A call that leaves checkpoints and authorizations alone.
LEMMA FinishKeepsSaves ==
  ASSUME NEW m \in Servers, NEW partial, Finish(m, partial),
         SavesKept(server, m), \A p \in partial : SavesKept(server, p)
  PROVE  SavesKept(server, server')
  <1>1. partial \in SUBSET Servers
    BY DEF SavesKept
  <1>2. PICK p \in partial \cup {m} : Survives(p, server')
    BY <1>1, FinishFacts
  <1>3. SavesKept(server, p)
    BY <1>2
  <1> QED
    BY <1>2, <1>3 DEF SavesKept, Survives

\* What a call has brought up to date before it looks at a change set.
LEMMA BegunFacts ==
  ASSUME WorkflowTypeOK, NEW c \in MaybeChangeSet, NEW n, n = Begun(c)
  PROVE  /\ n \in Servers /\ n.phase = server.phase /\ n.bound = server.bound
         /\ n.live = server.live /\ n.cps = server.cps /\ n.auths = server.auths
         /\ SameOperations(server, n)
         /\ \A d \in ChangeSetIds : \A i \in DOMAIN server.ops[d] :
              n.ops[d][i].status = IF d = c /\ c # NoChangeSet THEN ReconciledStatus(server, server.ops[d][i])
                                   ELSE server.ops[d][i].status
  <1>1. server \in Servers
    BY DEF WorkflowTypeOK
  <1>2. CASE c = NoChangeSet
    BY <1>1, <1>2 DEF Begun, SameOperations
  <1>3. CASE c # NoChangeSet
    <2>1. c \in ChangeSetIds /\ n = Reconciled(server, c)
      BY <1>3 DEF Begun, MaybeChangeSet
    <2> QED
      BY <1>1, <1>3, <2>1, ReconciledFacts
  <1> QED
    BY <1>2, <1>3

\* The number of a write is a receipt of its own.
LEMMA NewReceipt ==
  ASSUME EditorInv, lastTx < MaxTx
  PROVE  NextReceipt \in Receipts
  <1>1. lastTx \in 0..MaxTx
    BY DEF EditorInv, EditorTypeOK
  <1> QED
    BY <1>1, BoundsAssumption DEF Receipts, TxIds, NextReceipt

\* A write leaves checkpoints and authorizations alone.
LEMMA ApplyKeeps ==
  ASSUME Typed, NEW c \in MaybeChangeSet, NEW a \in Assets, NEW t \in Targets, NEW v \in Values, Apply(c, a, t, v)
  PROVE  /\ SavesKept(server, server') /\ UNCHANGED <<indexRev, backups, lastSave>>
         /\ \E p \in 0..lastTx : ApplyChanged(a, t, v, p)
  <1>1. PICK begun, journal, bound :
          /\ begun = Begun(c) /\ journal = WithWrite(begun, a, t, v)
          /\ bound = IF c = NoChangeSet THEN journal ELSE AppendOperation(journal, c, a, NextReceipt, "applied")
          /\ ApplyChanged(a, t, v, PreviousTransaction(begun, c, a))
          /\ \/ \E kept \in Prunings(bound.live) : Finish(Pruned(bound, kept), {begun, journal, bound})
             \/ server' = begun
    BY DEF Apply, NextReceipt
  <1>2. /\ server \in Servers /\ session \in 1..MaxSessions /\ session \in 0..MaxSessions
        /\ NextReceipt \in Receipts
    BY <1>1, EditorNumbers, NewReceipt DEF Typed, WorkflowTypeOK, ApplyChanged, RecordTransaction
  <1>3. begun \in Servers /\ begun.cps = server.cps /\ begun.auths = server.auths
    BY <1>1, BegunFacts DEF Typed
  <1>4. journal \in Servers /\ journal.cps = server.cps /\ journal.auths = server.auths
    BY <1>1, <1>2, <1>3, WithWriteFacts DEF Typed
  <1>5. bound \in Servers /\ bound.cps = server.cps /\ bound.auths = server.auths
    <2>1. CASE c = NoChangeSet
      BY <1>1, <1>4, <2>1
    <2>2. CASE c # NoChangeSet
      <3>1. c \in ChangeSetIds /\ "applied" \in OperationStatuses
        BY <1>2, <2>2 DEF MaybeChangeSet, OperationStatuses
      <3>2. bound = AppendOperation(journal, c, a, NextReceipt, "applied")
        BY <1>1, <2>2
      <3> QED
        BY <1>2, <1>4, <3>1, <3>2, AppendOperationFacts DEF Typed
    <2> QED
      BY <2>1, <2>2
  <1>8. SavesKept(server, server')
    <2>1. SavesKept(server, begun) /\ SavesKept(server, journal) /\ SavesKept(server, bound)
      BY <1>2, <1>3, <1>4, <1>5, SavesKeptWhenSame
    <2>2. CASE server' = begun
      BY <2>1, <2>2
    <2>3. ASSUME NEW kept \in Prunings(bound.live), NEW m, m = Pruned(bound, kept),
                 Finish(m, {begun, journal, bound})
          PROVE  SavesKept(server, server')
      <3>1. \A p \in {begun, journal, bound} : SavesKept(server, p)
        BY <2>1
      <3>2. m \in Servers /\ m.cps = server.cps /\ m.auths = server.auths
        BY <1>5, <2>3, PrunedFacts
      <3>3. SavesKept(server, m)
        BY <1>2, <3>2, SavesKeptWhenSame
      <3> QED
        BY <2>3, <3>1, <3>2, <3>3, FinishKeepsSaves
    <2> QED
      BY <1>1, <2>2, <2>3
  <1>9. PICK p : p = PreviousTransaction(begun, c, a)
    OBVIOUS
  <1>10. p \in 0..lastTx
    BY <1>1, <1>9, PreviousIsPast DEF ApplyChanged, Typed
  <1>11. UNCHANGED <<indexRev, backups, lastSave>>
    BY DEF Apply
  <1> QED
    BY <1>1, <1>8, <1>9, <1>10, <1>11

\* A write without effect leaves them alone as well.
LEMMA ApplyNoChangeKeeps ==
  ASSUME Typed, NEW c \in MaybeChangeSet, NEW a \in Assets, ApplyNoChange(c, a)
  PROVE  /\ SavesKept(server, server') /\ UNCHANGED <<indexRev, backups, lastSave>>
         /\ \E p \in 0..lastTx : ApplyUnchanged(a, p)
  <1>1. PICK begun, m :
          /\ begun = Begun(c) /\ m = AppendOperation(begun, c, a, NoReceipt, "no-op")
          /\ ApplyUnchanged(a, PreviousTransaction(begun, c, a))
          /\ (c # NoChangeSet /\ Finish(m, {begun})) \/ server' = begun
    BY DEF ApplyNoChange
  <1>2. /\ server \in Servers /\ session \in 0..MaxSessions
    BY EditorNumbers DEF Typed, WorkflowTypeOK
  <1>3. begun \in Servers /\ begun.cps = server.cps /\ begun.auths = server.auths
    BY <1>1, BegunFacts DEF Typed
  <1>4. SavesKept(server, begun)
    BY <1>2, <1>3, SavesKeptWhenSame
  <1>5. ASSUME c # NoChangeSet, Finish(m, {begun}) PROVE SavesKept(server, server')
    <2>1. c \in ChangeSetIds /\ "no-op" \in OperationStatuses
      BY <1>5 DEF MaybeChangeSet, OperationStatuses
    <2>2. m \in Servers /\ m.cps = server.cps /\ m.auths = server.auths
      <3>1. PICK r, s : r = NoReceipt /\ s = "no-op"
        OBVIOUS
      <3>2. /\ m = AppendOperation(begun, c, a, r, s) /\ EditorInv /\ s \in OperationStatuses
            /\ c \in ChangeSetIds /\ r = NoReceipt
        BY <1>1, <2>1, <3>1 DEF Typed
      <3>3. /\ m \in Servers /\ m.cps = begun.cps /\ m.auths = begun.auths
        BY <1>3, <3>2, AppendOperationFacts
      <3> QED
        BY <1>3, <3>3
    <2>3. SavesKept(server, m) /\ \A p \in {begun} : SavesKept(server, p)
      BY <1>2, <1>4, <2>2, SavesKeptWhenSame
    <2> QED
      BY <1>5, <2>2, <2>3, FinishKeepsSaves
  <1>6. PICK p : p = PreviousTransaction(begun, c, a)
    OBVIOUS
  <1>7. p \in 0..lastTx
    BY <1>1, <1>6, PreviousIsPast DEF ApplyUnchanged, Typed
  <1>8. UNCHANGED <<indexRev, backups, lastSave>>
    BY DEF ApplyNoChange
  <1> QED
    BY <1>1, <1>4, <1>5, <1>6, <1>7, <1>8

\* An undo or a discard leaves them alone as well.
LEMMA RevertKeeps ==
  ASSUME Typed, NEW c \in MaybeChangeSet, NEW a \in Assets, NEW r \in Receipts, NEW s \in RevertStatuses,
         Revert(c, a, r, s)
  PROVE  /\ ServerKept(server, server') /\ UNCHANGED <<indexRev, backups, lastSave>>
         /\ \E redoable \in BOOLEAN : RevertWrite(a, r, session, redoable)
         /\ r \in 1..lastTx
  <1>1. PICK updated, m :
          /\ updated = SetStatus(server, c, {r}, s) /\ m = WithoutLive(updated, r)
          /\ Finish(m, {server, updated}) \/ UNCHANGED server
    BY DEF Revert
  <1>2. server \in Servers /\ s \in OperationStatuses /\ AreWrites({r})
    BY WrittenReceipts DEF Typed, WorkflowTypeOK, RevertStatuses, OperationStatuses
  <1>3. /\ updated \in Servers /\ updated.cps = server.cps /\ updated.auths = server.auths
        /\ SameOperations(server, updated)
    BY <1>1, <1>2, SetStatusFacts
  <1>4. m \in Servers /\ m.ops = updated.ops /\ m.cps = server.cps /\ m.auths = server.auths
    BY <1>1, <1>3, WithoutLiveFacts
  <1>5. SameOperations(server, m) /\ SameOperations(server, server)
    BY <1>3, <1>4 DEF SameOperations
  <1>6. ServerKept(server, m) /\ ServerKept(server, server) /\ ServerKept(server, updated)
    BY <1>2, <1>3, <1>4, <1>5, KeptWhenSame
  <1>7. ServerKept(server, server')
    <2>1. CASE UNCHANGED server
      BY <1>6, <2>1
    <2>2. CASE Finish(m, {server, updated})
      <3>1. \A p \in {server, updated} : ServerKept(server, p)
        BY <1>6
      <3> QED
        BY <1>4, <1>6, <2>2, <3>1, FinishKeeps
    <2> QED
      BY <1>1, <2>1, <2>2
  <1>8. RevertWrite(a, r, session, s = "undone") /\ (s = "undone") \in BOOLEAN
    BY DEF Revert
  <1>9. r \in 1..lastTx
    <2>1. PICK q \in records[a] : q.id = r
      BY <1>8 DEF RevertWrite, RevertAllowed
    <2>2. r \in Nat /\ r <= lastTx /\ lastTx \in Nat
      BY <2>1, IdsAreNumbers DEF Typed
    <2>3. r # 0
      BY OperationParts DEF NoReceipt
    <2> QED
      BY <2>2, <2>3
  <1>10. UNCHANGED <<indexRev, backups, lastSave>>
    BY DEF Revert
  <1> QED
    BY <1>7, <1>8, <1>9, <1>10

\* The number of the next save receipt.
NextSave == lastSave + 1

\* A save receipt has a number of its own.
LEMMA NewSave ==
  ASSUME WorkflowTypeOK, lastSave < MaxSaves
  PROVE  NextSave \in SaveIds /\ NextSave \in 0..MaxSaves /\ lastSave \in Nat
  <1>1. lastSave \in 0..MaxSaves /\ MaxSaves \in Nat
    BY WorkflowBoundsAssumption DEF WorkflowTypeOK
  <1> QED
    BY <1>1 DEF SaveIds, NextSave

\* What an authorization says.
LEMMA AuthorizationFacts ==
  ASSUME Typed, NextSave \in SaveIds, NEW a \in Assets, NEW kind \in {"immediate", "checkpoint"},
         NEW x, x = Authorization(a, kind)
  PROVE  x \in Authorizations /\ x.id = NextSave /\ x.asset = a
  <1>1. rev[a] \in 0..MaxRev /\ session \in 1..MaxSessions
    BY EditorNumbers DEF Typed
  <1>2. x = [id |-> NextSave, kind |-> kind, asset |-> a, rev |-> rev[a], sess |-> session]
    BY DEF Authorization, NextSave
  <1> QED
    BY <1>1, <1>2 DEF Authorizations

\* An authorization is kept.
Granted(m, x) == [m EXCEPT !.auths = @ \cup {x}]

\* Nothing else changes.
LEMMA GrantedFacts ==
  ASSUME NEW m \in Servers, NEW x \in Authorizations, NEW n, n = Granted(m, x)
  PROVE  /\ n \in Servers /\ n.phase = m.phase /\ n.ops = m.ops /\ n.bound = m.bound
         /\ n.live = m.live /\ n.cps = m.cps
         /\ \A y \in n.auths : y \in m.auths \/ y = x
  <1>1. PICK v : v = m.auths \cup {x}
    OBVIOUS
  <1>2. v \in SUBSET Authorizations
    BY <1>1, ServerParts
  <1>3. n = WithAuthorizations(m, v)
    BY <1>1 DEF Granted, WithAuthorizations
  <1>4. /\ n \in Servers /\ n.phase = m.phase /\ n.ops = m.ops /\ n.bound = m.bound
        /\ n.live = m.live /\ n.cps = m.cps /\ n.auths = v
    BY <1>2, <1>3, ServerField
  <1> QED
    BY <1>1, <1>4

\* The server after a preview: one more authorization, perhaps one more checkpoint.
Previewed(m, n, a) ==
  /\ n \in Servers /\ SameOperations(m, n)
  /\ \A k \in n.cps : \/ \E cp \in m.cps : BecameOf(k, cp)
                      \/ k.state = "prepared" /\ k.afterRev = NoRev /\ k.id = NextSave /\ k.asset = a
  /\ \A x \in n.auths : x \in m.auths \/ (x.id = NextSave /\ x.asset = a)

\* What the bridge was asked to save comes with a receipt of its own.
LEMMA ImmediatePreviewKeeps ==
  ASSUME Typed, NEW c, NEW a \in Assets, ImmediatePreview(c, a)
  PROVE  /\ Previewed(server, server', a) /\ lastSave < MaxSaves /\ lastSave' = NextSave
         /\ UNCHANGED <<editorVars, indexRev, backups>>
  <1>1. /\ lastSave < MaxSaves /\ lastSave' = NextSave /\ UNCHANGED <<editorVars, indexRev, backups>>
    BY DEF ImmediatePreview, NextSave
  <1>2. PICK x, n : /\ x = Authorization(a, "immediate") /\ n = Granted(server, x)
                    /\ server' = n
    BY DEF ImmediatePreview, Granted
  <1>3. server \in Servers /\ NextSave \in SaveIds
    BY <1>1, NewSave DEF Typed, WorkflowTypeOK
  <1>4. x \in Authorizations /\ x.id = NextSave /\ x.asset = a
    BY <1>2, <1>3, AuthorizationFacts
  <1>5. /\ n \in Servers /\ n.ops = server.ops /\ n.cps = server.cps
        /\ \A y \in n.auths : y \in server.auths \/ y = x
    BY <1>2, <1>3, <1>4, GrantedFacts
  <1>6. Previewed(server, n, a)
    BY <1>4, <1>5 DEF Previewed, SameOperations, BecameOf, SameCheckpoint
  <1> QED
    BY <1>1, <1>2, <1>6

\* The writes of a checkpoint come from the live records.
LEMMA WritesOfRecords ==
  ASSUME Typed, NEW c, NEW a
  PROVE  /\ AsWrites(Effective(c, a)) \in SUBSET Writes /\ SupersededBy(c, a) \in SUBSET Receipts
         /\ \A w \in AsWrites(Effective(c, a)) : \E l \in Effective(c, a) :
              w.receipt = l.receipt /\ w.target = l.target /\ w.after = l.after
         /\ Effective(c, a) \subseteq Included(c, a) /\ Included(c, a) \subseteq server.live
  <1>1. server.live \subseteq LiveApplies
    BY ServerParts DEF Typed, WorkflowTypeOK
  <1>2. Effective(c, a) \subseteq Included(c, a) /\ Included(c, a) \subseteq server.live
    BY DEF Effective, Included
  <1>3. \A l \in LiveApplies : l.receipt \in Receipts /\ l.target \in Targets /\ l.after \in Values
    BY DEF LiveApplies
  <1>4. ASSUME NEW l \in LiveApplies, NEW w, w = [receipt |-> l.receipt, target |-> l.target, after |-> l.after]
        PROVE  w \in Writes /\ w.receipt = l.receipt /\ w.target = l.target /\ w.after = l.after
    BY <1>3, <1>4 DEF Writes
  <1>5. /\ AsWrites(Effective(c, a)) \in SUBSET Writes
        /\ \A w \in AsWrites(Effective(c, a)) : \E l \in Effective(c, a) :
             w.receipt = l.receipt /\ w.target = l.target /\ w.after = l.after
    BY <1>1, <1>2, <1>4 DEF AsWrites
  <1>6. SupersededBy(c, a) \in SUBSET Receipts
    BY <1>1, <1>2, <1>3 DEF SupersededBy
  <1> QED
    BY <1>2, <1>5, <1>6

\* A prepared checkpoint is one more checkpoint.
LEMMA CheckpointPreviewKeeps ==
  ASSUME Typed, NEW c \in ChangeSetIds, NEW a \in Assets, CheckpointPreview(c, a)
  PROVE  /\ Previewed(server, server', a) /\ lastSave < MaxSaves /\ lastSave' = NextSave
         /\ UNCHANGED <<editorVars, indexRev, backups>>
  <1>1. /\ lastSave < MaxSaves /\ lastSave' = NextSave /\ UNCHANGED <<editorVars, indexRev, backups>>
    BY DEF CheckpointPreview, NextSave
  <1>2. PICK k, journal, x, n :
          /\ k = [id |-> NextSave, cs |-> c, asset |-> a, state |-> "prepared",
                  sess |-> session, afterRev |-> NoRev, effective |-> AsWrites(Effective(c, a)),
                  superseded |-> SupersededBy(c, a)]
          /\ journal = [server EXCEPT !.cps = @ \cup {k}]
          /\ x = Authorization(a, "checkpoint") /\ n = Granted(journal, x)
          /\ Finish(n, {journal})
    BY DEF CheckpointPreview, NextSave, Granted
  <1>3. server \in Servers /\ NextSave \in SaveIds /\ session \in 1..MaxSessions /\ NoRev \in 0..NoRev
    BY <1>1, NewSave, EditorNumbers DEF Typed, WorkflowTypeOK
  <1>4. /\ k \in Checkpoints /\ k.id = NextSave /\ k.asset = a /\ k.state = "prepared" /\ k.afterRev = NoRev
    BY <1>2, <1>3, WritesOfRecords DEF Checkpoints
  <1>5. x \in Authorizations /\ x.id = NextSave /\ x.asset = a
    BY <1>2, <1>3, AuthorizationFacts
  <1>6. PICK v : v = server.cps \cup {k}
    OBVIOUS
  <1>7. v \in SUBSET Checkpoints /\ journal = WithCheckpoints(server, v)
    BY <1>2, <1>3, <1>4, <1>6, ServerParts DEF WithCheckpoints
  <1>8. /\ journal \in Servers /\ journal.ops = server.ops /\ journal.cps = v /\ journal.auths = server.auths
    BY <1>3, <1>7, ServerField
  <1>9. /\ n \in Servers /\ n.ops = journal.ops /\ n.cps = journal.cps
        /\ \A y \in n.auths : y \in journal.auths \/ y = x
    <2>1. n = Granted(journal, x)
      BY <1>2
    <2> QED
      BY <1>5, <1>8, <2>1, GrantedFacts
  <1>10. \A y \in v : \/ \E cp \in server.cps : BecameOf(y, cp)
                      \/ y.state = "prepared" /\ y.afterRev = NoRev /\ y.id = NextSave /\ y.asset = a
    BY <1>4, <1>6 DEF BecameOf, SameCheckpoint
  <1>11. Previewed(server, n, a) /\ Previewed(server, journal, a)
    BY <1>5, <1>8, <1>9, <1>10 DEF Previewed, SameOperations
  <1>12. PICK p \in {journal} \cup {n} : Survives(p, server')
    <2>1. {journal} \in SUBSET Servers
      BY <1>8
    <2> QED
      BY <1>2, <1>9, <2>1, FinishFacts
  <1>13. Previewed(server, p, a)
    BY <1>11
  <1>14. Previewed(server, server', a)
    BY <1>12, <1>13 DEF Previewed, Survives, SameOperations
  <1> QED
    BY <1>1, <1>14

\* What a save leaves in the backup directory.
LEMMA WithBackupFacts ==
  ASSUME Typed, NEW id \in SaveIds, NEW a \in Assets, NEW w \in 0..NoRev
  PROVE  /\ WithBackup(id, a, w) \in SUBSET Backups /\ backups \subseteq WithBackup(id, a, w)
         /\ \A b \in WithBackup(id, a, w) :
              \/ b \in backups
              \/ /\ b.id = id /\ b.asset = a /\ b.content = disk[a] /\ b.rev = rev[a] /\ b.after = NoRev
                 /\ b.wrote = w
  <1>1. backups \subseteq Backups /\ disk[a] \in Contents /\ rev[a] \in 0..MaxRev /\ NoRev \in 0..NoRev
    BY EditorNumbers DEF Typed, WorkflowTypeOK
  <1>2. PICK b : b = [id |-> id, asset |-> a, content |-> disk[a], rev |-> rev[a], after |-> NoRev, wrote |-> w]
    OBVIOUS
  <1>3. /\ b \in Backups /\ b.id = id /\ b.asset = a /\ b.content = disk[a] /\ b.rev = rev[a] /\ b.after = NoRev
        /\ b.wrote = w
    BY <1>1, <1>2 DEF Backups
  <1>4. WithBackup(id, a, w) = backups \cup {b}
    BY <1>2 DEF WithBackup
  <1> QED
    BY <1>1, <1>3, <1>4

\* The revision a save gives out.
LEMMA SavedRevision ==
  ASSUME Typed, NEW a \in Assets, WriteToDisk(a)
  PROVE  /\ rev'[a] = lastRev + 1 /\ lastRev' = lastRev + 1 /\ rev'[a] \in 0..NoRev /\ rev'[a] # NoRev
         /\ disk'[a] = resident[a]
         /\ \A b \in Assets \ {a} : rev'[b] = rev[b] /\ disk'[b] = disk[b]
  <1>1. lastRev \in Nat /\ lastRev \in 0..MaxRev /\ MaxRev \in Nat
    BY EditorNumbers DEF Typed
  <1>2. rev \in [Assets -> 0..MaxRev] /\ disk \in [Assets -> Contents] /\ NoRev = MaxRev + 1
    BY EditorNumbers DEF Typed, NoRev
  <1> QED
    BY <1>1, <1>2 DEF WriteToDisk

\* An immediate save leaves lists and checkpoints as they are.
LEMMA ImmediateCommitKeeps ==
  ASSUME Typed, NEW c \in MaybeChangeSet, NEW a \in Assets, NEW auth \in server.auths, ImmediateCommit(c, a, auth)
  PROVE  /\ ServerKept(server, server') /\ SaveAsset(a) /\ UNCHANGED <<indexRev, lastSave>>
         /\ \E w \in 0..NoRev : backups' = WithBackup(auth.id, a, w)
         /\ SaveCallable(c, a)
  <1>1. SaveAsset(a) /\ UNCHANGED <<indexRev, lastSave>> /\ SaveCallable(c, a)
        /\ backups' = WithBackup(auth.id, a, rev'[a])
    BY DEF ImmediateCommit
  <1>2. rev'[a] \in 0..NoRev
    BY <1>1, SavedRevision DEF SaveAsset
  <1>3. PICK receipts, consumed, marked, m :
          /\ receipts = ImmediatelySaved(c, a)
          /\ consumed = Consumed(server, auth) /\ marked = MarkSaved(consumed, receipts, auth.id)
          /\ m = SetStatus(marked, c, receipts, "saved")
          /\ Finish(m, {server, marked})
    BY DEF ImmediateCommit
  <1>4. server \in Servers /\ auth \in Authorizations /\ auth.id \in SaveIds
    BY ServerParts DEF Typed, WorkflowTypeOK, Authorizations
  <1>5. /\ consumed \in Servers /\ consumed.ops = server.ops /\ consumed.cps = server.cps
        /\ consumed.auths \subseteq server.auths
    BY <1>3, <1>4, ConsumedFacts
  <1>6. marked \in Servers /\ marked.ops = consumed.ops /\ marked.cps = consumed.cps /\ marked.auths = consumed.auths
    BY <1>3, <1>4, <1>5, MarkSavedFacts
  <1>7. "saved" \in OperationStatuses /\ AreWrites(receipts)
    BY <1>3, <1>4, WrittenReceipts DEF OperationStatuses
  <1>8. m \in Servers /\ m.cps = marked.cps /\ m.auths = marked.auths /\ SameOperations(marked, m)
    BY <1>3, <1>6, <1>7, SetStatusFacts
  <1>9. SameOperations(server, marked) /\ SameOperations(server, m) /\ SameOperations(server, server)
    BY <1>5, <1>6, <1>8 DEF SameOperations
  <1>10. ServerKept(server, server) /\ ServerKept(server, marked) /\ ServerKept(server, m)
    BY <1>4, <1>5, <1>6, <1>8, <1>9, KeptWhenSame
  <1>11. \A p \in {server, marked} : ServerKept(server, p)
    BY <1>10
  <1>12. ServerKept(server, server')
    BY <1>3, <1>8, <1>10, <1>11, FinishKeeps
  <1> QED
    BY <1>1, <1>2, <1>12

\* A save whose answer is lost leaves the server as it is.
LEMMA SaveFailsKeeps ==
  ASSUME Typed, NEW c, NEW a \in Assets, NEW auth \in server.auths, SaveFails(c, a, auth)
  PROVE  /\ server' = server /\ (SaveAsset(a) \/ UNCHANGED editorVars)
         /\ UNCHANGED <<indexRev, lastSave>>
         /\ \E w \in 0..NoRev : backups' = WithBackup(auth.id, a, w)
         /\ SaveCallable(c, a)
  <1>1. UNCHANGED <<server, indexRev, lastSave>> /\ SaveCallable(c, a)
    BY DEF SaveFails
  <1>2. CASE SaveAsset(a) /\ backups' = WithBackup(auth.id, a, rev'[a])
    <2>1. rev'[a] \in 0..NoRev
      BY <1>2, SavedRevision DEF SaveAsset
    <2> QED
      BY <1>1, <1>2, <2>1
  <1>3. CASE UNCHANGED editorVars /\ backups' = WithBackup(auth.id, a, NoRev)
    <2>1. NoRev \in 0..NoRev
      BY EditorNumbers DEF Typed
    <2> QED
      BY <1>1, <1>3, <2>1
  <1> QED
    BY <1>2, <1>3 DEF SaveFails

\* The checkpoint of a commit is saved.
Committed(m, n, cp, a) ==
  /\ n \in Servers /\ SameOperations(m, n) /\ n.auths \subseteq m.auths
  /\ \A k \in n.cps : \/ \E o \in m.cps : BecameOf(k, o)
                      \/ SameCheckpoint(k, cp) /\ k.state = "saved" /\ k.afterRev = rev'[a]

\* Whatever a crash leaves of a commit, a checkpoint is saved only with what the save wrote.
LEMMA CheckpointCommitKeeps ==
  ASSUME Typed, NEW c \in ChangeSetIds, NEW a \in Assets, NEW auth \in server.auths, NEW cp \in server.cps,
         CheckpointCommit(c, a, auth, cp)
  PROVE  /\ Committed(server, server', cp, a) /\ SaveAsset(a) /\ UNCHANGED <<indexRev, lastSave>>
         /\ \E w \in 0..NoRev : backups' = WithBackup(auth.id, a, w)
         /\ SaveCallable(c, a) /\ Prepared(cp, c, a) /\ Authorized(auth, a) /\ cp.id = auth.id
  <1>1. /\ SaveAsset(a) /\ UNCHANGED <<indexRev, lastSave>> /\ SaveCallable(c, a) /\ Prepared(cp, c, a)
        /\ Authorized(auth, a) /\ cp.id = auth.id
        /\ backups' = WithBackup(auth.id, a, rev'[a])
    BY DEF CheckpointCommit
  <1>2. rev'[a] \in 0..NoRev
    BY <1>1, SavedRevision DEF SaveAsset
  <1>17. PICK receipts : receipts = {w.receipt : w \in cp.effective}
    OBVIOUS
  <1>18. PICK consumed, saved : consumed = Consumed(server, auth) /\ saved = WithCheckpoint(consumed, cp, "saved", rev'[a])
    OBVIOUS
  <1>19. PICK marked, m : /\ marked = SavedEffective(saved, cp, receipts, receipts)
                          /\ m = Superseded(marked, cp, cp.superseded, cp.superseded)
    OBVIOUS
  <1>20. Finish(m, {server} \cup {SavedEffective(saved, cp, p[1], p[2]) : p \in Stages(receipts)}
                       \cup {Superseded(marked, cp, p[1], p[2]) : p \in Stages(cp.superseded)})
    BY <1>17, <1>18, <1>19, Zenon DEF CheckpointCommit
  <1>3. /\ consumed = Consumed(server, auth) /\ saved = WithCheckpoint(consumed, cp, "saved", rev'[a])
        /\ marked = SavedEffective(saved, cp, receipts, receipts)
        /\ m = Superseded(marked, cp, cp.superseded, cp.superseded)
        /\ Finish(m, {server} \cup {SavedEffective(saved, cp, p[1], p[2]) : p \in Stages(receipts)}
                       \cup {Superseded(marked, cp, p[1], p[2]) : p \in Stages(cp.superseded)})
    BY <1>18, <1>19, <1>20
  <1>4. server \in Servers /\ cp \in Checkpoints
    BY ServerParts DEF Typed, WorkflowTypeOK
  <1>5. /\ consumed \in Servers /\ consumed.ops = server.ops /\ consumed.cps = server.cps
        /\ consumed.auths \subseteq server.auths
    BY <1>3, <1>4, ConsumedFacts
  <1>6. /\ saved \in Servers /\ saved.ops = consumed.ops /\ saved.auths = consumed.auths
        /\ \A k \in saved.cps : \/ k \in consumed.cps
                                \/ SameCheckpoint(k, cp) /\ k.state = "saved" /\ k.afterRev = rev'[a]
    <2>1. PICK s, r : s = "saved" /\ r = rev'[a]
      OBVIOUS
    <2>2. s \in {"prepared", "saved", "verified", "stale"} /\ r \in 0..NoRev /\ saved = WithCheckpoint(consumed, cp, s, r)
      BY <1>2, <1>3, <2>1
    <2>3. /\ saved \in Servers /\ saved.ops = consumed.ops /\ saved.auths = consumed.auths
          /\ \A k \in saved.cps : \/ k \in consumed.cps
                                  \/ SameCheckpoint(k, cp) /\ k.state = s /\ k.afterRev = r
      BY <1>4, <1>5, <2>2, WithCheckpointFacts
    <2> QED
      BY <2>1, <2>3
  <1>7. ASSUME NEW n \in Servers, SameOperations(saved, n), n.cps = saved.cps, n.auths = saved.auths
        PROVE  Committed(server, n, cp, a)
    BY <1>5, <1>6, <1>7 DEF Committed, SameOperations, BecameOf, SameCheckpoint
  <1>21. AreWrites(receipts) /\ AreWrites(cp.superseded)
    BY <1>4, <1>17, WrittenReceipts
  <1>8. ASSUME NEW R, NEW U, AreWrites(U), NEW n, n = SavedEffective(saved, cp, R, U)
        PROVE  n \in Servers /\ n.cps = saved.cps /\ n.auths = saved.auths /\ SameOperations(saved, n)
    BY <1>4, <1>6, <1>8, SavedEffectiveFacts
  <1>9. ASSUME NEW R, NEW U, AreWrites(U), NEW n, n = Superseded(marked, cp, U, R)
        PROVE  n \in Servers /\ n.cps = saved.cps /\ n.auths = saved.auths /\ SameOperations(saved, n)
    <2>1. marked \in Servers /\ marked.cps = saved.cps /\ marked.auths = saved.auths /\ SameOperations(saved, marked)
      BY <1>3, <1>8, <1>21
    <2>2. n \in Servers /\ n.cps = marked.cps /\ n.auths = marked.auths /\ SameOperations(marked, n)
      BY <1>4, <1>9, <2>1, SupersededFacts
    <2> QED
      BY <2>1, <2>2, SameOperationsCarry
  <1>10. PICK partial : partial = {server} \cup {SavedEffective(saved, cp, p[1], p[2]) : p \in Stages(receipts)}
                       \cup {Superseded(marked, cp, p[1], p[2]) : p \in Stages(cp.superseded)}
    OBVIOUS
  <1>11. \A n \in partial : n \in Servers /\ Committed(server, n, cp, a)
    <2> SUFFICES ASSUME NEW n \in partial PROVE n \in Servers /\ Committed(server, n, cp, a)
      OBVIOUS
    <2>1. CASE n = server
      BY <1>4, <2>1 DEF Committed, SameOperations, BecameOf, SameCheckpoint
    <2>2. CASE \E p \in Stages(receipts) : n = SavedEffective(saved, cp, p[1], p[2])
      BY <1>7, <1>8, <1>21, <2>2, WrittenReceipts
    <2>3. CASE \E p \in Stages(cp.superseded) : n = Superseded(marked, cp, p[1], p[2])
      BY <1>7, <1>9, <1>21, <2>3, WrittenReceipts
    <2> QED
      BY <1>10, <2>1, <2>2, <2>3
  <1>12. m \in Servers /\ Committed(server, m, cp, a)
    BY <1>3, <1>7, <1>9, <1>21
  <1>13. PICK n \in partial \cup {m} : Survives(n, server')
    <2>1. partial \in SUBSET Servers
      BY <1>11
    <2>2. Finish(m, partial)
      BY <1>3, <1>10
    <2> QED
      BY <1>12, <2>1, <2>2, FinishFacts
  <1>14. Committed(server, n, cp, a)
    BY <1>11, <1>12
  <1>15. Committed(server, server', cp, a)
    BY <1>13, <1>14 DEF Committed, Survives, SameOperations
  <1>16. \E w \in 0..NoRev : backups' = WithBackup(auth.id, a, w)
    BY <1>1, <1>2
  <1> QED
    BY <1>1, <1>15, <1>16

\* A verification leaves lists and checkpoints as they are.
LEMMA VerifyLiveWriteKeeps ==
  ASSUME Typed, NEW c \in MaybeChangeSet, NEW r \in Receipts, VerifyLiveWrite(c, r)
  PROVE  ServerKept(server, server') /\ UNCHANGED <<editorVars, indexRev, backups, lastSave>>
  <1>1. PICK updated, m : /\ updated = SetStatus(server, c, {r}, "verified") /\ m = WithoutLive(updated, r)
                          /\ Finish(m, {updated})
    BY DEF VerifyLiveWrite
  <1>2. server \in Servers /\ "verified" \in OperationStatuses /\ AreWrites({r})
    BY WrittenReceipts DEF Typed, WorkflowTypeOK, OperationStatuses
  <1>3. /\ updated \in Servers /\ updated.cps = server.cps /\ updated.auths = server.auths
        /\ SameOperations(server, updated)
    BY <1>1, <1>2, SetStatusFacts
  <1>4. m \in Servers /\ m.ops = updated.ops /\ m.cps = server.cps /\ m.auths = server.auths
    BY <1>1, <1>3, WithoutLiveFacts
  <1>5. SameOperations(server, m)
    BY <1>3, <1>4 DEF SameOperations
  <1>6. ServerKept(server, m) /\ \A p \in {updated} : ServerKept(server, p)
    BY <1>2, <1>3, <1>4, <1>5, KeptWhenSame
  <1>7. ServerKept(server, server')
    BY <1>1, <1>4, <1>6, FinishKeeps
  <1> QED
    BY <1>7 DEF VerifyLiveWrite

\* A verified checkpoint was saved before.
LEMMA VerifyCheckpointKeeps ==
  ASSUME Typed, NEW cp \in server.cps, VerifyCheckpoint(cp)
  PROVE  ServerKept(server, server') /\ UNCHANGED <<editorVars, indexRev, backups, lastSave>>
  <1>1. PICK receipts, verified, m :
          /\ receipts = {w.receipt : w \in cp.effective}
          /\ verified = WithCheckpoint(server, cp, "verified", cp.afterRev)
          /\ m = VerifiedEffective(verified, cp, receipts, receipts)
          /\ Finish(m, {VerifiedEffective(verified, cp, p[1], p[2]) : p \in Stages(receipts)})
    BY DEF VerifyCheckpoint
  <1>2. cp.state = "saved"
    BY DEF VerifyCheckpoint
  <1>3. server \in Servers /\ cp \in Checkpoints /\ cp.afterRev \in 0..NoRev
    BY ServerParts, CheckpointParts DEF Typed, WorkflowTypeOK
  <1>4. /\ verified \in Servers /\ verified.ops = server.ops /\ verified.auths = server.auths
        /\ \A k \in verified.cps : \/ k \in server.cps
                                   \/ SameCheckpoint(k, cp) /\ k.state = "verified" /\ k.afterRev = cp.afterRev
    <2>1. PICK s, r : s = "verified" /\ r = cp.afterRev
      OBVIOUS
    <2>2. /\ s \in {"prepared", "saved", "verified", "stale"} /\ r \in 0..NoRev /\ verified = WithCheckpoint(server, cp, s, r)
          /\ server \in Servers /\ cp \in Checkpoints
      BY <1>1, <1>3, <2>1
    <2>3. /\ verified \in Servers /\ verified.ops = server.ops /\ verified.auths = server.auths
          /\ \A k \in verified.cps : \/ k \in server.cps
                                     \/ SameCheckpoint(k, cp) /\ k.state = s /\ k.afterRev = r
      BY <2>2, WithCheckpointFacts
    <2> QED
      BY <2>1, <2>3
  <1>5. ASSUME NEW R, NEW U, AreWrites(U), NEW n, n = VerifiedEffective(verified, cp, U, R)
        PROVE  n \in Servers /\ ServerKept(server, n)
    <2>1. n \in Servers /\ n.cps = verified.cps /\ n.auths = verified.auths /\ SameOperations(verified, n)
      BY <1>3, <1>4, <1>5, VerifiedEffectiveFacts
    <2> QED
      BY <1>2, <1>4, <2>1 DEF ServerKept, SameOperations, BecameOf, SameCheckpoint
  <1>6. PICK partial : partial = {VerifiedEffective(verified, cp, p[1], p[2]) : p \in Stages(receipts)}
    OBVIOUS
  <1>10. AreWrites(receipts)
    BY <1>1, <1>3, WrittenReceipts
  <1>7. \A n \in partial : ServerKept(server, n)
    BY <1>5, <1>6, <1>10, WrittenReceipts
  <1>8. m \in Servers /\ ServerKept(server, m) /\ Finish(m, partial)
    BY <1>1, <1>5, <1>6, <1>10
  <1>9. ServerKept(server, server')
    BY <1>7, <1>8, FinishKeeps
  <1> QED
    BY <1>9 DEF VerifyCheckpoint

\* A stale checkpoint claims nothing.
LEMMA CheckpointTurnsStaleKeeps ==
  ASSUME Typed, NEW cp \in server.cps, CheckpointTurnsStale(cp)
  PROVE  ServerKept(server, server') /\ UNCHANGED <<editorVars, indexRev, backups, lastSave>>
  <1>1. PICK s, r, m : s = "stale" /\ r = cp.afterRev /\ m = WithCheckpoint(server, cp, s, r) /\ Finish(m, {})
    BY DEF CheckpointTurnsStale
  <1>2. server \in Servers /\ cp \in Checkpoints /\ r \in 0..NoRev /\ s \in {"prepared", "saved", "verified", "stale"}
    BY <1>1, ServerParts, CheckpointParts DEF Typed, WorkflowTypeOK
  <1>3. /\ m \in Servers /\ m.ops = server.ops /\ m.auths = server.auths
        /\ \A k \in m.cps : \/ k \in server.cps
                            \/ SameCheckpoint(k, cp) /\ k.state = s /\ k.afterRev = r
    BY <1>1, <1>2, WithCheckpointFacts
  <1>4. ServerKept(server, m)
    BY <1>1, <1>3 DEF ServerKept, BecameOf, SameCheckpoint
  <1>5. ServerKept(server, server')
    BY <1>1, <1>3, <1>4, FinishKeeps
  <1> QED
    BY <1>5 DEF CheckpointTurnsStale

\* A rollback puts back a backup and may write one status.
LEMMA RollbackCommitKeeps ==
  ASSUME Typed, NEW b \in backups, NEW c \in MaybeChangeSet, NEW r \in Receipts, RollbackCommit(b, c, r)
  PROVE  /\ ServerKept(server, server') /\ RestoreFile(b.asset, b.content, b.rev)
         /\ UNCHANGED <<indexRev, backups, lastSave>>
  <1>1. PICK m : /\ m = SetStatus(server, c, {r}, "undone")
                 /\ Finish(m, {server}) \/ Finish(server, {})
    BY DEF RollbackCommit
  <1>2. server \in Servers /\ "undone" \in OperationStatuses /\ AreWrites({r})
    BY WrittenReceipts DEF Typed, WorkflowTypeOK, OperationStatuses
  <1>3. /\ m \in Servers /\ m.cps = server.cps /\ m.auths = server.auths /\ SameOperations(server, m)
    BY <1>1, <1>2, SetStatusFacts
  <1>4. SameOperations(server, server)
    BY DEF SameOperations
  <1>5. ServerKept(server, m) /\ \A p \in {server} : ServerKept(server, p)
    BY <1>2, <1>3, <1>4, KeptWhenSame
  <1>6. ServerKept(server, server')
    <2>1. CASE Finish(m, {server})
      BY <1>3, <1>5, <2>1, FinishKeeps
    <2>2. CASE Finish(server, {})
      BY <1>2, <1>5, <2>2, FinishKeeps
    <2> QED
      BY <1>1, <2>1, <2>2
  <1> QED
    BY <1>6 DEF RollbackCommit

\* A restart loses authorizations and applied statuses.
LEMMA LoadedKeeps ==
  ASSUME Typed, server' = Loaded(server)
  PROVE  ServerKept(server, server')
  <1>1. server \in Servers
    BY DEF Typed, WorkflowTypeOK
  <1>2. Survives(server, server')
    BY <1>1, SurvivesFacts
  <1> QED
    BY <1>2 DEF Survives, ServerKept, SameOperations, BecameOf, SameCheckpoint

\* n differs from m in the lists of operations only.
SameButLists(m, n) ==
  /\ n \in Servers /\ n.phase = m.phase /\ n.bound = m.bound
  /\ n.live = m.live /\ n.cps = m.cps /\ n.auths = m.auths

\* The list of c gets a patch; the other lists stay.
GotPatch(m, n, c) ==
  /\ Len(m.ops[c]) < MaxOps
  /\ \A d \in ChangeSetIds \ {c} : n.ops[d] = m.ops[d]
  /\ \E o \in Operations : /\ o.receipt = NoReceipt /\ o.asset = OtherPackage /\ o.status = "saved"
                           /\ Grew(m, n, c, o)

\* A patch is bound like a write: into a change set that is up to date and not closed.
LEMMA CommitPatchFacts ==
  ASSUME Typed, NEW c \in ChangeSetIds, CommitPatch(c)
  PROVE  /\ UNCHANGED <<editorVars, indexRev, backups, lastSave>>
         /\ "patch" \in Tools /\ server.phase[c] = "open"
         /\ \E begun, base, p :
              /\ begun = Reconciled(server, c)
              /\ SameButLists(server, begun) /\ ~IsClosed(Statuses(begun, c))
              /\ SameButLists(begun, base) /\ SameHistories(begun, base)
              /\ SameButLists(begun, p) /\ (p = begun \/ GotPatch(base, p, c))
              /\ Survives(p, server') /\ ("crash" \notin Tools => server' = p)
  <1>1. PICK begun : begun = Reconciled(server, c)
    OBVIOUS
  <1>2. /\ "patch" \in Tools /\ server.phase[c] = "open" /\ UNCHANGED <<editorVars, indexRev, backups, lastSave>>
        /\ ~IsClosed(Statuses(begun, c))
        /\ \/ Finish(begun, {})
           \/ /\ Len(begun.ops[c]) < MaxOps
              /\ \E dropped \in SUBSET Applies(begun) :
                   Finish(AppendPatch(WithoutApplies(begun, dropped), c), {begun, AppendPatch(begun, c)})
    BY <1>1 DEF CommitPatch
  <1>4. SameButLists(server, begun) /\ begun \in Servers
    BY <1>1, ReconciledFacts DEF Typed, WorkflowTypeOK, SameButLists
  <1>5. SameButLists(begun, begun) /\ SameHistories(begun, begun) /\ Survives(begun, begun)
    BY <1>4, SurvivesFacts DEF SameButLists, SameHistories, SameOperations
  <1>6. CASE Finish(begun, {})
    <2>1. server' = begun
      BY <1>6 DEF Finish
    <2> QED
      BY <1>1, <1>2, <1>4, <1>5, <2>1
  <1>7. ASSUME Len(begun.ops[c]) < MaxOps,
               NEW dropped, NEW base, NEW m, NEW n, base = WithoutApplies(begun, dropped),
               m = AppendPatch(base, c), n = AppendPatch(begun, c), Finish(m, {begun, n})
        PROVE  \E k, p : /\ SameButLists(begun, k) /\ SameHistories(begun, k)
                         /\ SameButLists(begun, p) /\ (p = begun \/ GotPatch(k, p, c))
                         /\ Survives(p, server') /\ ("crash" \notin Tools => server' = p)
    <2>1. SameButLists(begun, base) /\ base \in Servers /\ SameHistories(begun, base)
      BY <1>4, <1>7, WithoutAppliesFacts DEF SameButLists
    <2>2. Len(base.ops[c]) < MaxOps
      BY <1>7, <2>1 DEF SameHistories, SameOperations
    <2>3. SameButLists(base, m) /\ GotPatch(base, m, c) /\ m \in Servers
      BY <1>7, <2>1, <2>2, AppendPatchFacts DEF SameButLists, GotPatch
    <2>4. SameButLists(begun, n) /\ GotPatch(begun, n, c) /\ n \in Servers
      BY <1>4, <1>7, AppendPatchFacts DEF SameButLists, GotPatch
    <2>5. SameButLists(begun, m)
      BY <2>1, <2>3 DEF SameButLists
    <2>6. CASE "crash" \notin Tools
      <3>1. server' = m /\ Survives(m, m)
        BY <1>7, <2>3, <2>6, SurvivesFacts DEF Finish
      <3> QED
        BY <2>1, <2>3, <2>5, <3>1
    <2>7. CASE "crash" \in Tools
      <3>1. PICK p \in {begun, n, m} : Survives(p, server')
        <4>1. {begun, n} \in SUBSET Servers
          BY <1>4, <2>4
        <4> QED
          BY <1>7, <2>3, <4>1, FinishFacts
      <3> QED
        BY <1>5, <2>1, <2>3, <2>4, <2>5, <2>7, <3>1
    <2> QED
      BY <2>6, <2>7
  <1>8. ASSUME Len(begun.ops[c]) < MaxOps, NEW dropped \in SUBSET Applies(begun),
               Finish(AppendPatch(WithoutApplies(begun, dropped), c), {begun, AppendPatch(begun, c)})
        PROVE  \E k, p : /\ SameButLists(begun, k) /\ SameHistories(begun, k)
                         /\ SameButLists(begun, p) /\ (p = begun \/ GotPatch(k, p, c))
                         /\ Survives(p, server') /\ ("crash" \notin Tools => server' = p)
    BY <1>7, <1>8
  <1> QED
    BY <1>1, <1>2, <1>4, <1>6, <1>8

\* A patch without a change set, or a verification without one, shows in no change set.
\* A verification in its change set closes one operation that is no write.
LEMMA OtherPatchToolsFacts ==
  ASSUME Typed, CommitUnboundPatch \/ \E c \in ChangeSetIds, i \in 1..MaxOps : VerifyPatch(c, i)
  PROVE  /\ UNCHANGED <<editorVars, indexRev, backups, lastSave>> /\ "patch" \in Tools
         /\ \E p :
              /\ SameButLists(server, p) /\ SameOperations(server, p)
              /\ \A d \in ChangeSetIds : \A j \in DOMAIN server.ops[d] :
                   \/ p.ops[d][j].status = server.ops[d][j].status
                   \/ /\ server.ops[d][j].status = "saved" /\ p.ops[d][j].status = "verified"
                      /\ server.ops[d][j].receipt = NoReceipt
              /\ Survives(p, server') /\ ("crash" \notin Tools => server' = p)
  <1>1. server \in Servers
    BY DEF Typed, WorkflowTypeOK
  <1> DEFINE Moved(p) ==
        \A d \in ChangeSetIds : \A j \in DOMAIN server.ops[d] :
          \/ p.ops[d][j].status = server.ops[d][j].status
          \/ /\ server.ops[d][j].status = "saved" /\ p.ops[d][j].status = "verified"
             /\ server.ops[d][j].receipt = NoReceipt
  <1>2. SameButLists(server, server) /\ SameOperations(server, server) /\ Moved(server)
    BY <1>1 DEF SameButLists, SameOperations
  <1>3. CASE CommitUnboundPatch
    <2>1. PICK dropped, m : m = WithoutApplies(server, dropped) /\ Finish(m, {})
      BY <1>3 DEF CommitUnboundPatch
    <2>2. SameButLists(server, m) /\ SameHistories(server, m) /\ m \in Servers
      BY <1>1, <2>1, WithoutAppliesFacts DEF SameButLists
    <2>3. server' = m /\ Survives(m, m)
      BY <2>1, <2>2, SurvivesFacts DEF Finish
    <2>4. SameOperations(server, m) /\ Moved(m)
      BY <2>2 DEF SameHistories
    <2> QED
      BY <1>3, <2>2, <2>3, <2>4 DEF CommitUnboundPatch
  <1>4. CASE \E c \in ChangeSetIds, i \in 1..MaxOps : VerifyPatch(c, i)
    <2>1. PICK c \in ChangeSetIds, i \in 1..MaxOps : VerifyPatch(c, i)
      BY <1>4
    <2>2. PICK s, m :
            /\ s \in {"verified", server.ops[c][i].status}
            /\ m = PatchVerified(server, c, i, s) /\ (Finish(m, {server}) \/ Finish(m, {}))
      BY <2>1 DEF VerifyPatch
    <2>3. /\ SameButLists(server, m) /\ SameOperations(server, m) /\ m \in Servers
          /\ i \in DOMAIN server.ops[c] /\ server.ops[c][i].receipt = NoReceipt
          /\ server.ops[c][i].status \in {"saved", "verified"}
          /\ \A d \in ChangeSetIds : \A j \in DOMAIN server.ops[d] :
               m.ops[d][j].status = IF d = c /\ j = i THEN s ELSE server.ops[d][j].status
      <3>1. <<c, i>> \in Applies(server)
        BY <2>1 DEF VerifyPatch
      <3> QED
        BY <1>1, <2>2, <3>1, PatchVerifiedFacts DEF SameButLists
    <2>4. Moved(m)
      BY <2>2, <2>3
    <2>5. Finish(m, {}) => Finish(m, {server})
      BY DEF Finish
    <2>6. \E p \in {server, m} : Survives(p, server') /\ ("crash" \notin Tools => server' = p)
      <3>1. {server} \in SUBSET Servers
        BY <1>1
      <3>2. CASE "crash" \notin Tools
        <4>1. server' = m /\ Survives(m, m)
          BY <2>2, <2>3, <3>2, SurvivesFacts DEF Finish
        <4> QED
          BY <4>1
      <3>3. CASE "crash" \in Tools
        BY <2>2, <2>3, <2>5, <3>1, <3>3, FinishFacts
      <3> QED
        BY <3>2, <3>3
    <2> QED
      BY <1>2, <2>1, <2>3, <2>4, <2>6 DEF VerifyPatch
  <1> QED
    BY <1>3, <1>4

\* The tools for patches leave checkpoints and authorizations alone.
LEMMA PatchToolsKeep ==
  ASSUME Typed, PatchTools
  PROVE  SavesKept(server, server') /\ UNCHANGED <<editorVars, indexRev, backups, lastSave>>
  <1>1. server \in Servers
    BY DEF Typed, WorkflowTypeOK
  <1>2. ASSUME NEW p, SameButLists(server, p), Survives(p, server')
        PROVE  SavesKept(server, server')
    BY <1>2 DEF SameButLists, Survives, SavesKept, BecameOf, SameCheckpoint
  <1>3. ASSUME NEW c \in ChangeSetIds, CommitPatch(c)
        PROVE  SavesKept(server, server') /\ UNCHANGED <<editorVars, indexRev, backups, lastSave>>
    <2>1. PICK begun, p : SameButLists(server, begun) /\ SameButLists(begun, p) /\ Survives(p, server')
      BY <1>3, CommitPatchFacts
    <2>2. SameButLists(server, p)
      BY <2>1 DEF SameButLists
    <2> QED
      BY <1>2, <1>3, <2>1, <2>2, CommitPatchFacts
  <1>4. CASE CommitUnboundPatch \/ \E c \in ChangeSetIds, i \in 1..MaxOps : VerifyPatch(c, i)
    <2>1. PICK p : SameButLists(server, p) /\ Survives(p, server')
      BY <1>4, OtherPatchToolsFacts
    <2> QED
      BY <1>2, <1>4, <2>1, OtherPatchToolsFacts
  <1> QED
    BY <1>3, <1>4 DEF PatchTools

-----------------------------------------------------------------------------
(* Every variable keeps its type                                           *)

\* Revisions on disk and in backups have been given out.
RevisionsArePast ==
  /\ \A a \in Assets : rev[a] <= lastRev
  /\ \A b \in backups : b.rev <= lastRev

TypedInv == Typed /\ UnloadedHasNoRecords /\ RevisionsArePast

\* Where no list grows, no save changes either.
LEMMA KeptSaves ==
  ASSUME NEW m, NEW n, ServerKept(m, n)
  PROVE  SavesKept(m, n)
  BY DEF ServerKept, SavesKept

\* What a step of the workflow comes down to for packages, checkpoints and backups.
QuietStep ==
  /\ [EditorNext]_editorVars /\ SavesKept(server, server')
  /\ UNCHANGED <<indexRev, backups, lastSave>>
PreviewStep(a) ==
  /\ Previewed(server, server', a) /\ lastSave < MaxSaves /\ lastSave' = NextSave
  /\ UNCHANGED <<editorVars, indexRev, backups>>
SaveStep(c, a, id, w) ==
  /\ SavesKept(server, server') /\ (SaveAsset(a) \/ UNCHANGED editorVars)
  /\ backups' = WithBackup(id, a, w) /\ UNCHANGED <<indexRev, lastSave>>
  /\ SaveCallable(c, a)
CommitStep(c, a, auth, cp, w) ==
  /\ Committed(server, server', cp, a) /\ SaveAsset(a) /\ UNCHANGED <<indexRev, lastSave>>
  /\ backups' = WithBackup(auth.id, a, w) /\ SaveCallable(c, a)
  /\ Prepared(cp, c, a) /\ Authorized(auth, a) /\ cp.id = auth.id
PromoteStep(b) ==
  /\ backups' = (backups \ {b}) \cup {[b EXCEPT !.after = rev[b.asset]]}
  /\ UNCHANGED <<editorVars, server, indexRev, lastSave>>
RestoreStep(b) ==
  /\ "rollback" \in Tools /\ SavesKept(server, server') /\ RestoreFile(b.asset, b.content, b.rev)
  /\ UNCHANGED <<indexRev, backups, lastSave>>
RefreshStep(a) ==
  /\ "refresh" \in Tools /\ SavesKept(server, server')
  /\ indexRev' = [indexRev EXCEPT ![a] = rev[a]]
  /\ UNCHANGED <<editorVars, backups, lastSave>>
KindOfStep ==
  \/ QuietStep
  \/ \E a \in Assets : PreviewStep(a)
  \/ \E c \in MaybeChangeSet, a \in Assets, id \in SaveIds, w \in 0..NoRev : SaveStep(c, a, id, w)
  \/ \E c \in MaybeChangeSet, a \in Assets, auth \in server.auths, cp \in server.cps, w \in 0..NoRev :
       CommitStep(c, a, auth, cp, w)
  \/ \E b \in backups : PromoteStep(b) \/ RestoreStep(b)
  \/ \E a \in Assets : RefreshStep(a)

\* The tools that create change sets, write and undo are quiet.
LEMMA WriteToolsAreQuiet ==
  ASSUME Typed, ChangeSetTools \/ WriteTools
  PROVE  QuietStep
  <1>1. CASE ChangeSetTools
    <2>1. PICK c \in ChangeSetIds : CreateChangeSet(c) \/ GetChangeSet(c) \/ DiscardEmpty(c)
      BY <1>1 DEF ChangeSetTools
    <2> QED
      BY <2>1, ChangeSetToolsKeep, KeptSaves DEF QuietStep
  <1>2. CASE WriteTools
    <2>1. PICK c \in MaybeChangeSet, a \in Assets :
            \/ \E t \in Targets, v \in Values : Apply(c, a, t, v)
            \/ ApplyNoChange(c, a)
            \/ \E r \in Receipts, s \in RevertStatuses : Revert(c, a, r, s)
      BY <1>2 DEF WriteTools, OptionalChangeSet, MaybeChangeSet
    <2>2. CASE \E t \in Targets, v \in Values : Apply(c, a, t, v)
      <3>1. PICK t \in Targets, v \in Values : Apply(c, a, t, v)
        BY <2>2
      <3>2. PICK p \in 0..lastTx : ApplyChanged(a, t, v, p)
        BY <3>1, ApplyKeeps
      <3>3. EditorNext
        BY <3>2 DEF EditorNext, Bridge, BridgeApply
      <3> QED
        BY <3>1, <3>3, ApplyKeeps DEF QuietStep
    <2>3. CASE ApplyNoChange(c, a)
      <3>1. PICK p \in 0..lastTx : ApplyUnchanged(a, p)
        BY <2>3, ApplyNoChangeKeeps
      <3>2. EditorNext \/ UNCHANGED editorVars
        <4>1. CASE Targets = {} \/ Values = {}
          <5>1. records[a] \subseteq Records
            BY DEF Typed, EditorInv, EditorTypeOK
          <5>2. records[a] = {}
            BY <4>1, <5>1 DEF Records
          <5>3. records' = [records EXCEPT ![a] = {}]
            BY <3>1, <5>2 DEF ApplyUnchanged, RetainedRecords
          <5>4. records \in [Assets -> SUBSET Records]
            BY DEF Typed, EditorInv, EditorTypeOK
          <5>5. records' = records
            BY <5>2, <5>3, <5>4
          <5> QED
            BY <3>1, <5>5 DEF ApplyUnchanged, editorVars
        <4>2. CASE Targets # {} /\ Values # {}
          <5>1. PICK t \in Targets, v \in Values : TRUE
            BY <4>2
          <5> QED
            BY <3>1, <5>1 DEF EditorNext, Bridge, BridgeApply
        <4> QED
          BY <4>1, <4>2
      <3> QED
        BY <2>3, <3>2, ApplyNoChangeKeeps DEF QuietStep
    <2>4. CASE \E r \in Receipts, s \in RevertStatuses : Revert(c, a, r, s)
      <3>1. PICK r \in Receipts, s \in RevertStatuses : Revert(c, a, r, s)
        BY <2>4
      <3>2. PICK redoable \in BOOLEAN : RevertWrite(a, r, session, redoable) /\ r \in 1..lastTx
        BY <3>1, RevertKeeps
      <3>3. EditorNext
        BY <3>2 DEF EditorNext, Bridge
      <3> QED
        BY <3>1, <3>3, RevertKeeps, KeptSaves DEF QuietStep
    <2> QED
      BY <2>1, <2>2, <2>3, <2>4
  <1> QED
    BY <1>1, <1>2

\* Every step of the workflow is of one of these kinds.
LEMMA StepsHaveAKind ==
  ASSUME Typed, [WorkflowNext]_vars
  PROVE  KindOfStep
  <1>1. server \in Servers /\ server.auths \subseteq Authorizations /\ SavesKept(server, server)
    <2>1. server \in Servers
      BY DEF Typed, WorkflowTypeOK
    <2> QED
      BY <2>1, ServerParts, SavesKeptWhenSame
  <1>2. CASE ChangeSetTools \/ WriteTools
    BY <1>2, WriteToolsAreQuiet DEF KindOfStep
  <1>3. CASE SaveTools
    <2>1. PICK c \in MaybeChangeSet, a \in Assets :
            \/ ImmediatePreview(c, a)
            \/ c # NoChangeSet /\ CheckpointPreview(c, a)
            \/ \E auth \in server.auths :
                 \/ ImmediateCommit(c, a, auth)
                 \/ SaveFails(c, a, auth)
                 \/ \E cp \in server.cps : c # NoChangeSet /\ CheckpointCommit(c, a, auth, cp)
      BY <1>3 DEF SaveTools, OptionalChangeSet, MaybeChangeSet
    <2>2. c # NoChangeSet => c \in ChangeSetIds
      BY DEF MaybeChangeSet
    <2>3. \A auth \in server.auths : auth.id \in SaveIds
      BY <1>1 DEF Authorizations
    <2>4. CASE ImmediatePreview(c, a)
      <3>1. PreviewStep(a)
        BY <2>4, ImmediatePreviewKeeps DEF PreviewStep
      <3> QED
        BY <3>1 DEF KindOfStep
    <2>5. CASE c # NoChangeSet /\ CheckpointPreview(c, a)
      <3>1. PreviewStep(a)
        BY <2>2, <2>5, CheckpointPreviewKeeps DEF PreviewStep
      <3> QED
        BY <3>1 DEF KindOfStep
    <2>6. ASSUME NEW auth \in server.auths, ImmediateCommit(c, a, auth) PROVE KindOfStep
      <3>1. PICK w \in 0..NoRev : backups' = WithBackup(auth.id, a, w)
        BY <2>6, ImmediateCommitKeeps
      <3>2. SaveStep(c, a, auth.id, w)
        BY <2>6, <3>1, ImmediateCommitKeeps, KeptSaves DEF SaveStep
      <3> QED
        BY <2>3, <3>2 DEF KindOfStep
    <2>7. ASSUME NEW auth \in server.auths, SaveFails(c, a, auth) PROVE KindOfStep
      <3>1. PICK w \in 0..NoRev : backups' = WithBackup(auth.id, a, w)
        BY <2>7, SaveFailsKeeps
      <3>2. SaveStep(c, a, auth.id, w)
        BY <1>1, <2>7, <3>1, SaveFailsKeeps DEF SaveStep
      <3> QED
        BY <2>3, <3>2 DEF KindOfStep
    <2>8. ASSUME NEW auth \in server.auths, NEW cp \in server.cps, c # NoChangeSet, CheckpointCommit(c, a, auth, cp)
          PROVE  KindOfStep
      <3>1. PICK w \in 0..NoRev : backups' = WithBackup(auth.id, a, w)
        BY <2>2, <2>8, CheckpointCommitKeeps
      <3>2. CommitStep(c, a, auth, cp, w)
        BY <2>2, <2>8, <3>1, CheckpointCommitKeeps DEF CommitStep
      <3> QED
        BY <3>2 DEF KindOfStep
    <2> QED
      BY <2>1, <2>4, <2>5, <2>6, <2>7, <2>8
  <1>4. CASE VerifyTools
    <2>1. ServerKept(server, server') /\ UNCHANGED <<editorVars, indexRev, backups, lastSave>>
      <3>1. CASE \E c \in OptionalChangeSet, r \in Receipts : VerifyLiveWrite(c, r)
        <4>1. PICK c \in MaybeChangeSet, r \in Receipts : VerifyLiveWrite(c, r)
          BY <3>1 DEF OptionalChangeSet, MaybeChangeSet
        <4> QED
          BY <4>1, VerifyLiveWriteKeeps
      <3>2. CASE \E cp \in server.cps : VerifyCheckpoint(cp) \/ CheckpointTurnsStale(cp)
        BY <3>2, VerifyCheckpointKeeps, CheckpointTurnsStaleKeeps
      <3> QED
        BY <1>4, <3>1, <3>2 DEF VerifyTools
    <2>2. QuietStep
      BY <2>1, KeptSaves DEF QuietStep
    <2> QED
      BY <2>2 DEF KindOfStep
  <1>5. CASE RollbackTools
    <2>1. CASE \E l \in server.live, b \in backups : PromoteManifest(l, b)
      <3>1. PICK b \in backups : PromoteStep(b)
        BY <2>1 DEF PromoteManifest, PromoteStep
      <3> QED
        BY <3>1 DEF KindOfStep
    <2>2. CASE \E a \in Assets : PrepareRollback(a)
      <3>1. PICK a \in Assets : PrepareRollback(a)
        BY <2>2
      <3>2. EditorNext /\ UNCHANGED workflowVars
        BY <3>1 DEF PrepareRollback, EditorNext, Bridge
      <3>3. QuietStep
        BY <1>1, <3>2 DEF QuietStep, workflowVars
      <3> QED
        BY <3>3 DEF KindOfStep
    <2>3. CASE \E b \in backups, c \in OptionalChangeSet, r \in Receipts : RollbackCommit(b, c, r)
      <3>1. PICK b \in backups, c \in MaybeChangeSet, r \in Receipts : RollbackCommit(b, c, r)
        BY <2>3 DEF OptionalChangeSet, MaybeChangeSet
      <3>2. RestoreStep(b)
        BY <3>1, RollbackCommitKeeps, KeptSaves DEF RestoreStep, RollbackCommit
      <3> QED
        BY <3>2 DEF KindOfStep
    <2> QED
      BY <1>5, <2>1, <2>2, <2>3 DEF RollbackTools
  <1>6. CASE ServerCrash
    <2>1. ServerKept(server, server') /\ UNCHANGED <<editorVars, indexRev, backups, lastSave>>
      BY <1>6, LoadedKeeps DEF ServerCrash
    <2>2. QuietStep
      BY <2>1, KeptSaves DEF QuietStep
    <2> QED
      BY <2>2 DEF KindOfStep
  <1>7. ASSUME NEW a \in Assets, RefreshAndRestart(a) PROVE KindOfStep
    <2>1. ServerKept(server, server')
      BY <1>7, LoadedKeeps DEF RefreshAndRestart
    <2>2. RefreshStep(a)
      BY <1>7, <2>1, KeptSaves DEF RefreshAndRestart, RefreshStep
    <2> QED
      BY <2>2 DEF KindOfStep
  <1>8. CASE (User /\ UNCHANGED workflowVars) \/ UNCHANGED vars
    <2>1. [EditorNext]_editorVars /\ UNCHANGED workflowVars
      BY <1>8 DEF EditorNext, vars
    <2>2. QuietStep
      BY <1>1, <2>1 DEF QuietStep, workflowVars
    <2> QED
      BY <2>2 DEF KindOfStep
  <1>9. CASE PatchTools
    <2>1. QuietStep
      BY <1>9, PatchToolsKeep DEF QuietStep
    <2> QED
      BY <2>1 DEF KindOfStep
  <1> QED
    BY <1>2, <1>3, <1>4, <1>5, <1>6, <1>7, <1>8, <1>9 DEF WorkflowNext

\* A backup is what a package file was.
LEMMA BackupParts ==
  ASSUME Typed, NEW b \in backups
  PROVE  /\ b \in Backups /\ b.id \in SaveIds /\ b.asset \in Assets /\ b.content \in Contents
         /\ b.rev \in 0..MaxRev /\ b.rev \in Nat
  <1>1. b \in Backups
    BY DEF Typed, WorkflowTypeOK
  <1>2. b.id \in SaveIds /\ b.asset \in Assets /\ b.content \in Contents /\ b.rev \in 0..MaxRev
    BY <1>1 DEF Backups
  <1> QED
    BY <1>1, <1>2

\* A manifest is promoted.
LEMMA PromotedBackups ==
  ASSUME Typed, NEW b \in backups, PromoteStep(b)
  PROVE  /\ backups' \in SUBSET Backups
         /\ \A k \in backups' : \E o \in backups :
              k.id = o.id /\ k.asset = o.asset /\ k.content = o.content /\ k.rev = o.rev
  <1>1. rev[b.asset] \in 0..NoRev
    BY BackupParts, EditorNumbers DEF Typed
  <1>2. PICK y : y = [b EXCEPT !.after = rev[b.asset]]
    OBVIOUS
  <1>3. y \in Backups /\ y.id = b.id /\ y.asset = b.asset /\ y.content = b.content /\ y.rev = b.rev
    <2>1. b \in Backups
      BY BackupParts
    <2> QED
      BY <1>1, <1>2, <2>1 DEF Backups
  <1>4. backups' = (backups \ {b}) \cup {y} /\ backups \subseteq Backups
    BY <1>2 DEF PromoteStep, Typed, WorkflowTypeOK
  <1> QED
    BY <1>3, <1>4

\* The Editor's part of a step: a step of its own, or a backup put back.
LEMMA EditorPartOfStep ==
  ASSUME TypedInv, KindOfStep
  PROVE  /\ [EditorNext]_editorVars \/ \E b \in backups : RestoreFile(b.asset, b.content, b.rev)
         /\ EditorInv' /\ UnloadedHasNoRecords'
  <1>1. [EditorNext]_editorVars \/ \E b \in backups : RestoreFile(b.asset, b.content, b.rev)
    BY DEF KindOfStep, QuietStep, PreviewStep, SaveStep, CommitStep, PromoteStep, RestoreStep, RefreshStep,
           EditorNext, Bridge
  <1>2. EditorInv /\ UnloadedHasNoRecords
    BY DEF TypedInv, Typed
  <1>3. CASE [EditorNext]_editorVars
    BY <1>1, <1>2, <1>3, StepKeepsInv, StepKeepsUnloaded
  <1>4. CASE \E b \in backups : RestoreFile(b.asset, b.content, b.rev)
    <2>1. PICK b \in backups : RestoreFile(b.asset, b.content, b.rev)
      BY <1>4
    <2>2. b.asset \in Assets /\ b.content \in Contents /\ b.rev \in Nat /\ lastRev \in Nat /\ b.rev <= lastRev
      BY BackupParts, EditorNumbers DEF TypedInv, Typed, RevisionsArePast
    <2>3. b.rev \in 0..lastRev
      BY <2>2
    <2>4. EditorInv'
      BY <1>2, <2>1, <2>2, <2>3, RestoreKeepsInv
    <2>5. UnloadedHasNoRecords'
      BY <1>2, <2>1 DEF RestoreFile, UnloadedHasNoRecords
    <2> QED
      BY <1>1, <2>4, <2>5
  <1> QED
    BY <1>1, <1>3, <1>4

\* Every step keeps the types.
LEMMA StepKeepsTyped ==
  ASSUME TypedInv, KindOfStep
  PROVE  TypedInv'
  <1>1. /\ EditorInv' /\ UnloadedHasNoRecords' /\ Typed /\ RevisionsArePast
    BY EditorPartOfStep DEF TypedInv
  <1>2. server' \in Servers
    <2>1. SavesKept(server, server') => server' \in Servers
      BY DEF SavesKept
    <2>2. \A a \in Assets : Previewed(server, server', a) => server' \in Servers
      BY DEF Previewed
    <2>3. \A cp \in server.cps, a \in Assets : Committed(server, server', cp, a) => server' \in Servers
      BY DEF Committed
    <2>4. UNCHANGED server => server' \in Servers
      BY <1>1 DEF Typed, WorkflowTypeOK
    <2>5. CASE QuietStep
      BY <2>1, <2>5 DEF QuietStep
    <2>6. CASE \E a \in Assets : PreviewStep(a)
      BY <2>2, <2>6 DEF PreviewStep
    <2>7. ASSUME NEW c, NEW a, NEW id, NEW w, SaveStep(c, a, id, w) PROVE server' \in Servers
      BY <2>1, <2>7 DEF SaveStep
    <2>8. ASSUME NEW c, NEW a \in Assets, NEW auth, NEW cp \in server.cps, NEW w, CommitStep(c, a, auth, cp, w)
          PROVE  server' \in Servers
      BY <2>3, <2>8 DEF CommitStep
    <2>9. ASSUME NEW b \in backups, PromoteStep(b) \/ RestoreStep(b) PROVE server' \in Servers
      BY <2>1, <2>4, <2>9 DEF PromoteStep, RestoreStep
    <2>10. ASSUME NEW a \in Assets, RefreshStep(a) PROVE server' \in Servers
      BY <2>1, <2>10 DEF RefreshStep
    <2> QED
      BY <2>5, <2>6, <2>7, <2>8, <2>9, <2>10 DEF KindOfStep
  <1>3. indexRev' \in [Assets -> 0..MaxRev]
    <2>1. indexRev \in [Assets -> 0..MaxRev] /\ rev \in [Assets -> 0..MaxRev]
      BY <1>1, EditorNumbers DEF Typed, WorkflowTypeOK
    <2> QED
      BY <2>1 DEF KindOfStep, QuietStep, PreviewStep, SaveStep, CommitStep, PromoteStep, RestoreStep, RefreshStep
  <1>4. lastSave' \in 0..MaxSaves
    <2>1. lastSave \in 0..MaxSaves
      BY <1>1 DEF Typed, WorkflowTypeOK
    <2>2. lastSave' = lastSave \/ (lastSave < MaxSaves /\ lastSave' = NextSave)
      BY DEF KindOfStep, QuietStep, PreviewStep, SaveStep, CommitStep, PromoteStep, RestoreStep, RefreshStep
    <2> QED
      BY <1>1, <2>1, <2>2, NewSave DEF Typed
  <1>5. /\ backups' \in SUBSET Backups
        /\ \A k \in backups' : \/ \E o \in backups : k.rev = o.rev
                               \/ \E a \in Assets : k.rev = rev[a]
    <2>1. CASE UNCHANGED backups
      BY <1>1, <2>1 DEF Typed, WorkflowTypeOK
    <2>2. ASSUME NEW id \in SaveIds, NEW a \in Assets, NEW w \in 0..NoRev, backups' = WithBackup(id, a, w)
          PROVE  /\ backups' \in SUBSET Backups
                 /\ \A k \in backups' : \/ \E o \in backups : k.rev = o.rev
                                        \/ \E x \in Assets : k.rev = rev[x]
      <3>1. /\ WithBackup(id, a, w) \in SUBSET Backups
            /\ \A b \in WithBackup(id, a, w) : b \in backups \/ b.rev = rev[a]
        BY <1>1, WithBackupFacts
      <3> QED
        BY <2>2, <3>1
    <2>3. \A auth \in server.auths : auth.id \in SaveIds
      BY <1>1, ServerParts DEF Typed, WorkflowTypeOK, Authorizations
    <2>4. CASE \E b \in backups : PromoteStep(b)
      BY <1>1, <2>4, PromotedBackups
    <2>5. CASE \E c \in MaybeChangeSet, a \in Assets, id \in SaveIds, w \in 0..NoRev : SaveStep(c, a, id, w)
      BY <2>2, <2>5 DEF SaveStep
    <2>6. CASE \E c \in MaybeChangeSet, a \in Assets, auth \in server.auths, cp \in server.cps, w \in 0..NoRev :
                 CommitStep(c, a, auth, cp, w)
      BY <2>2, <2>3, <2>6 DEF CommitStep
    <2> QED
      BY <2>1, <2>4, <2>5, <2>6 DEF KindOfStep, QuietStep, PreviewStep, RestoreStep, RefreshStep
  <1>6. /\ lastRev \in Nat /\ lastRev' \in Nat /\ lastRev <= lastRev'
        /\ \A a \in Assets : rev[a] \in Nat /\ rev'[a] \in Nat /\ rev'[a] <= lastRev'
    <2>1. lastRev \in Nat /\ lastRev' \in Nat /\ rev \in [Assets -> 0..MaxRev] /\ rev' \in [Assets -> 0..MaxRev]
      BY <1>1, BoundsAssumption DEF Typed, EditorInv, EditorTypeOK
    <2>2. \A a \in Assets : rev[a] \in Nat /\ rev'[a] \in Nat /\ rev[a] <= lastRev
      BY <1>1, <2>1 DEF RevisionsArePast
    <2>3. CASE [EditorNext]_editorVars
      BY <1>1, <2>1, <2>2, <2>3, EditorRevisions DEF Typed
    <2>4. CASE \E b \in backups : RestoreFile(b.asset, b.content, b.rev)
      <3>1. PICK b \in backups : RestoreFile(b.asset, b.content, b.rev)
        BY <2>4
      <3>2. b.rev \in Nat /\ b.rev <= lastRev /\ b.asset \in Assets
        BY <1>1, BackupParts DEF RevisionsArePast
      <3> QED
        BY <2>1, <2>2, <3>1, <3>2 DEF RestoreFile
    <2> QED
      BY <2>3, <2>4, EditorPartOfStep
  <1>7. RevisionsArePast'
    <2>1. ASSUME NEW k \in backups' PROVE k.rev <= lastRev'
      <3>1. k.rev \in Nat
        BY <1>5, BoundsAssumption DEF Backups
      <3>2. k.rev <= lastRev
        BY <1>1, <1>5 DEF RevisionsArePast
      <3> QED
        BY <1>6, <3>1, <3>2
    <2> QED
      BY <1>6, <2>1 DEF RevisionsArePast
  <1> QED
    BY <1>1, <1>2, <1>3, <1>4, <1>5, <1>7 DEF TypedInv, Typed, WorkflowTypeOK

\* The types hold when the first server starts.
LEMMA InitIsTyped == WorkflowInit => TypedInv
  <1> SUFFICES ASSUME WorkflowInit PROVE TypedInv
    OBVIOUS
  <1>1. EditorInv /\ UnloadedHasNoRecords
    BY InitEstablishesInv DEF WorkflowInit
  <1>2. server \in Servers
    <2>1. <<>> \in Seq(Operations)
      BY EmptyFacts
    <2>2. NoSession \in 0..MaxSessions
      BY BoundsAssumption DEF NoSession
    <2> QED
      BY <2>1, <2>2 DEF WorkflowInit, Servers
  <1>3. indexRev \in [Assets -> 0..MaxRev] /\ backups = {} /\ lastSave = 0
    BY <1>1, EditorNumbers DEF WorkflowInit
  <1>4. lastSave \in 0..MaxSaves
    BY <1>3, WorkflowBoundsAssumption
  <1>5. RevisionsArePast
    BY <1>3 DEF WorkflowInit, EditorInit, RevisionsArePast
  <1> QED
    BY <1>1, <1>2, <1>3, <1>4, <1>5 DEF TypedInv, Typed, WorkflowTypeOK

\* The types hold in every reachable state, whatever tools a run has and whatever its user does.
THEOREM WorkflowTyped == WorkflowSpec => []TypedInv
  <1>1. TypedInv /\ [WorkflowNext]_vars => TypedInv'
    <2> SUFFICES ASSUME TypedInv, [WorkflowNext]_vars PROVE TypedInv'
      OBVIOUS
    <2>1. KindOfStep
      BY StepsHaveAKind DEF TypedInv
    <2> QED
      BY <2>1, StepKeepsTyped
  <1> QED
    BY <1>1, InitIsTyped, PTL DEF WorkflowSpec

\* Every variable of the workflow keeps its type: change sets, live records, checkpoints, one-time
\* authorizations and backups, through every tool, crash and restart.
THEOREM WorkflowTypeCorrect == WorkflowSpec => []WorkflowTypeOK
  <1>1. TypedInv => WorkflowTypeOK
    BY DEF TypedInv, Typed
  <1> QED
    BY <1>1, WorkflowTyped, PTL

\* With a user who may put package files back, as the rollback tool does, the Editor under the
\* workflow is the Editor: no tool, crash or lost answer makes it do anything else.
THEOREM WorkflowDrivesTheEditor ==
  ASSUME "rollback" \in Tools => "restore" \in UserActions
  PROVE  WorkflowSpec => EditorSpec
  <1>1. TypedInv /\ [WorkflowNext]_vars => [EditorNext]_editorVars
    <2> SUFFICES ASSUME TypedInv, [WorkflowNext]_vars PROVE [EditorNext]_editorVars
      OBVIOUS
    <2>1. KindOfStep
      BY StepsHaveAKind DEF TypedInv
    <2>2. ASSUME NEW b \in backups, RestoreStep(b) PROVE EditorNext
      <3>1. "restore" \in UserActions /\ RestoreFile(b.asset, b.content, b.rev)
        BY <2>2 DEF RestoreStep
      <3>2. /\ b.asset \in Assets /\ b.content \in Contents /\ b.rev \in Nat /\ lastRev \in Nat
            /\ b.rev <= lastRev
        BY BackupParts, EditorNumbers DEF TypedInv, Typed, RevisionsArePast
      <3>3. b.rev \in 0..lastRev
        BY <3>2
      <3> QED
        BY <3>1, <3>2, <3>3 DEF EditorNext, User
    <2>3. CASE \E b \in backups : PromoteStep(b)
      BY <2>3 DEF PromoteStep
    <2> QED
      BY <2>1, <2>2, <2>3 DEF KindOfStep, QuietStep, PreviewStep, SaveStep, CommitStep, RefreshStep, EditorNext, Bridge
  <1> QED
    BY <1>1, WorkflowTyped, PTL DEF WorkflowSpec, WorkflowInit, EditorSpec

\* What the Editor promises to any client holds under the tools of the workflow, whatever they
\* and the user do: a clean package is on disk, and no write continues over a user's edit.
THEOREM WorkflowKeepsTheEditorsPromises == WorkflowSpec => []CleanMeansSaved /\ ChainSparesUserEdits
  <1>1. TypedInv => CleanMeansSaved /\ [WritesSpareUserEdits]_editorVars
    BY InvSparesUserEdits DEF TypedInv, Typed, EditorInv
  <1> QED
    BY <1>1, WorkflowTyped, PTL DEF ChainSparesUserEdits, WritesSpareUserEdits

-----------------------------------------------------------------------------
(* Checkpoints hold their writes                                           *)

\* The writes of a checkpoint are in this content.
HoldsIn(cp, content) == \A w \in cp.effective : content[w.target] = w.after
Persisted == {"saved", "verified"}

\* What a checkpoint reports as saved is in the package file of its revision, and in
\* every backup that was taken of that revision.
CheckpointsAreHeld ==
  \A cp \in server.cps : cp.state \in Persisted =>
    /\ rev[cp.asset] = cp.afterRev => HoldsIn(cp, disk[cp.asset])
    /\ \A b \in backups : b.asset = cp.asset /\ b.rev = cp.afterRev => HoldsIn(cp, b.content)

\* Receipts and revisions of checkpoints have been given out, and a receipt is for one asset.
CheckpointsArePast ==
  /\ \A cp \in server.cps : /\ cp.id <= lastSave
                            /\ cp.afterRev = NoRev \/ cp.afterRev <= lastRev
  /\ \A x \in server.auths : x.id <= lastSave
  /\ \A cp \in server.cps, x \in server.auths : x.id = cp.id => x.asset = cp.asset

HeldInv == TypedInv /\ CheckpointsAreHeld /\ CheckpointsArePast

\* Numbers in the records of the server.
LEMMA RecordNumbers ==
  ASSUME Typed
  PROVE  /\ lastSave \in Nat /\ NextSave \in Nat /\ NextSave > lastSave
         /\ \A cp \in server.cps : cp.id \in Nat /\ cp.afterRev \in Nat /\ cp.asset \in Assets /\ cp \in Checkpoints
         /\ \A x \in server.auths : x.id \in Nat
  <1>1. server \in Servers /\ lastSave \in Nat
    BY WorkflowBoundsAssumption DEF Typed, WorkflowTypeOK
  <1>2. SaveIds \subseteq Nat /\ 0..NoRev \subseteq Nat
    BY DEF SaveIds
  <1>3. \A cp \in server.cps : cp \in Checkpoints /\ cp.id \in Nat /\ cp.afterRev \in Nat /\ cp.asset \in Assets
    BY <1>1, <1>2, ServerParts, CheckpointParts
  <1>4. \A x \in server.auths : x.id \in Nat
    BY <1>1, <1>2, ServerParts DEF Authorizations
  <1> QED
    BY <1>1, <1>3, <1>4 DEF NextSave

\* The receipts stay past.
LEMMA PastStays ==
  ASSUME Typed, Typed', CheckpointsArePast, lastRev <= lastRev',
         \/ SavesKept(server, server') /\ lastSave' = lastSave
         \/ \E a : Previewed(server, server', a) /\ lastSave' = NextSave
         \/ \E cp \in server.cps, a \in Assets : /\ Committed(server, server', cp, a) /\ lastSave' = lastSave
                                               /\ rev'[a] <= lastRev'
  PROVE  CheckpointsArePast'
  <1>1. /\ lastSave \in Nat /\ NextSave > lastSave /\ NextSave \in Nat
        /\ \A cp \in server.cps : cp.id \in Nat /\ cp.afterRev \in Nat
        /\ \A x \in server.auths : x.id \in Nat
        /\ lastRev \in Nat /\ lastRev' \in Nat
    BY RecordNumbers, EditorNumbers, BoundsAssumption DEF Typed, EditorInv, EditorTypeOK
  <1>2. /\ \A cp \in server.cps : cp.id <= lastSave /\ (cp.afterRev = NoRev \/ cp.afterRev <= lastRev)
        /\ \A x \in server.auths : x.id <= lastSave
        /\ \A cp \in server.cps, x \in server.auths : x.id = cp.id => x.asset = cp.asset
    BY DEF CheckpointsArePast
  <1>3. CASE SavesKept(server, server') /\ lastSave' = lastSave
    <2>1. \A k \in server'.cps : \E cp \in server.cps : k.id = cp.id /\ k.asset = cp.asset /\ k.afterRev = cp.afterRev
      BY <1>3 DEF SavesKept, BecameOf, SameCheckpoint
    <2>2. server'.auths \subseteq server.auths
      BY <1>3 DEF SavesKept
    <2> QED
      BY <1>1, <1>2, <1>3, <2>1, <2>2 DEF CheckpointsArePast
  <1>4. ASSUME NEW a, Previewed(server, server', a), lastSave' = NextSave
        PROVE  CheckpointsArePast'
    <2>1. \A k \in server'.cps :
            \/ \E cp \in server.cps : k.id = cp.id /\ k.asset = cp.asset /\ k.afterRev = cp.afterRev
            \/ k.id = NextSave /\ k.asset = a /\ k.afterRev = NoRev
      BY <1>4 DEF Previewed, BecameOf, SameCheckpoint
    <2>2. \A x \in server'.auths : x \in server.auths \/ (x.id = NextSave /\ x.asset = a)
      BY <1>4 DEF Previewed
    <2>3. \A k \in server'.cps : k.id <= lastSave' /\ (k.afterRev = NoRev \/ k.afterRev <= lastRev')
      BY <1>1, <1>2, <1>4, <2>1
    <2>4. \A x \in server'.auths : x.id <= lastSave'
      BY <1>1, <1>2, <1>4, <2>2
    <2>5. ASSUME NEW k \in server'.cps, NEW x \in server'.auths, x.id = k.id
          PROVE  x.asset = k.asset
      BY <1>1, <1>2, <2>1, <2>2, <2>5
    <2> QED
      BY <2>3, <2>4, <2>5 DEF CheckpointsArePast
  <1>5. ASSUME NEW cp \in server.cps, NEW a \in Assets, Committed(server, server', cp, a), lastSave' = lastSave, rev'[a] <= lastRev'
        PROVE  CheckpointsArePast'
    <2>1. \A k \in server'.cps :
            \/ \E o \in server.cps : k.id = o.id /\ k.asset = o.asset /\ k.afterRev = o.afterRev
            \/ k.id = cp.id /\ k.asset = cp.asset /\ k.afterRev = rev'[a]
      BY <1>5 DEF Committed, BecameOf, SameCheckpoint
    <2>2. server'.auths \subseteq server.auths
      BY <1>5 DEF Committed
    <2> QED
      BY <1>1, <1>2, <1>5, <2>1, <2>2 DEF CheckpointsArePast
  <1> QED
    BY <1>3, <1>4, <1>5

\* A checkpoint that was held stays held where packages are left alone or get new revisions,
\* and new backups are taken of what was on disk.
LEMMA HeldStays ==
  ASSUME HeldInv, TypedInv',
         NEW k, NEW cp \in server.cps, BecameOf(k, cp), k.state \in Persisted,
         \A a \in Assets : \/ rev'[a] = rev[a] /\ disk'[a] = disk[a]
                           \/ rev'[a] = lastRev + 1
                           \/ \E b \in backups : a = b.asset /\ rev'[a] = b.rev /\ disk'[a] = b.content,
         \A b \in backups' : \/ \E o \in backups : b.asset = o.asset /\ b.rev = o.rev /\ b.content = o.content
                             \/ b.rev = rev[b.asset] /\ b.content = disk[b.asset]
  PROVE  /\ rev'[k.asset] = k.afterRev => HoldsIn(k, disk'[k.asset])
         /\ \A b \in backups' : b.asset = k.asset /\ b.rev = k.afterRev => HoldsIn(k, b.content)
  <1>1. /\ k.asset = cp.asset /\ k.afterRev = cp.afterRev /\ k.effective = cp.effective /\ cp.state \in Persisted
    BY DEF BecameOf, SameCheckpoint, Persisted
  <1>2. \A content : HoldsIn(cp, content) => HoldsIn(k, content)
    BY <1>1 DEF HoldsIn
  <1>3. /\ rev[cp.asset] = cp.afterRev => HoldsIn(cp, disk[cp.asset])
        /\ \A b \in backups : b.asset = cp.asset /\ b.rev = cp.afterRev => HoldsIn(cp, b.content)
    BY <1>1 DEF HeldInv, CheckpointsAreHeld
  <1>4. /\ cp.asset \in Assets /\ cp.afterRev \in Nat /\ lastRev \in Nat
        /\ cp.afterRev = NoRev \/ cp.afterRev <= lastRev
        /\ rev'[cp.asset] # NoRev
    <2>1. rev' \in [Assets -> 0..MaxRev] /\ MaxRev \in Nat
      BY BoundsAssumption DEF TypedInv, Typed, EditorInv, EditorTypeOK
    <2>2. cp.asset \in Assets /\ cp.afterRev \in Nat /\ lastRev \in Nat /\ (cp.afterRev = NoRev \/ cp.afterRev <= lastRev)
      BY RecordNumbers, EditorNumbers DEF HeldInv, TypedInv, Typed, CheckpointsArePast
    <2> QED
      BY <2>1, <2>2 DEF NoRev
  <1>5. ASSUME rev'[k.asset] = k.afterRev PROVE HoldsIn(k, disk'[k.asset])
    <2>1. rev'[cp.asset] # lastRev + 1
      BY <1>1, <1>4, <1>5
    <2>2. CASE rev'[cp.asset] = rev[cp.asset] /\ disk'[cp.asset] = disk[cp.asset]
      BY <1>1, <1>2, <1>3, <1>5, <2>2
    <2>3. CASE \E b \in backups : cp.asset = b.asset /\ rev'[cp.asset] = b.rev /\ disk'[cp.asset] = b.content
      BY <1>1, <1>2, <1>3, <1>5, <2>3
    <2> QED
      BY <1>4, <2>1, <2>2, <2>3
  <1>6. ASSUME NEW b \in backups', b.asset = k.asset, b.rev = k.afterRev PROVE HoldsIn(k, b.content)
    BY <1>1, <1>2, <1>3, <1>6
  <1> QED
    BY <1>5, <1>6

\* What a step does to the package files when nobody but the tools puts back old ones: it leaves
\* them, writes a new revision, or restores a backup.
LEMMA PackagesOfStep ==
  ASSUME TypedInv, KindOfStep, "restore" \notin UserActions
  PROVE  \A a \in Assets : \/ rev'[a] = rev[a] /\ disk'[a] = disk[a]
                           \/ rev'[a] = lastRev + 1
                           \/ \E b \in backups : a = b.asset /\ rev'[a] = b.rev /\ disk'[a] = b.content
  <1>1. CASE [EditorNext]_editorVars
    BY <1>1, EditorRevisions DEF TypedInv, Typed
  <1>2. CASE \E b \in backups : RestoreFile(b.asset, b.content, b.rev)
    <2>1. PICK b \in backups : RestoreFile(b.asset, b.content, b.rev)
      BY <1>2
    <2>2. rev \in [Assets -> 0..MaxRev] /\ disk \in [Assets -> Contents] /\ b.asset \in Assets
      BY EditorNumbers, BackupParts DEF TypedInv, Typed
    <2> QED
      BY <2>1, <2>2 DEF RestoreFile
  <1> QED
    BY <1>1, <1>2, EditorPartOfStep

\* A backup is of an earlier one's content, or of what is on disk.
LEMMA BackupsOfStep ==
  ASSUME TypedInv, KindOfStep
  PROVE  \A b \in backups' : \/ \E o \in backups : b.asset = o.asset /\ b.rev = o.rev /\ b.content = o.content
                             \/ b.rev = rev[b.asset] /\ b.content = disk[b.asset]
  <1>1. Typed /\ \A auth \in server.auths : auth.id \in SaveIds
    BY ServerParts DEF TypedInv, Typed, WorkflowTypeOK, Authorizations
  <1>2. CASE UNCHANGED backups
    BY <1>2
  <1>3. ASSUME NEW id \in SaveIds, NEW a \in Assets, NEW w \in 0..NoRev, backups' = WithBackup(id, a, w), NEW b \in backups'
        PROVE  b \in backups \/ (b.rev = rev[b.asset] /\ b.content = disk[b.asset])
    BY <1>1, <1>3, WithBackupFacts
  <1>4. CASE \E b \in backups : PromoteStep(b)
    BY <1>1, <1>4, PromotedBackups
  <1>5. CASE \E c \in MaybeChangeSet, a \in Assets, id \in SaveIds, w \in 0..NoRev : SaveStep(c, a, id, w)
    BY <1>3, <1>5 DEF SaveStep
  <1>6. CASE \E c \in MaybeChangeSet, a \in Assets, auth \in server.auths, cp \in server.cps, w \in 0..NoRev :
               CommitStep(c, a, auth, cp, w)
    BY <1>1, <1>3, <1>6 DEF CommitStep
  <1> QED
    BY <1>2, <1>4, <1>5, <1>6 DEF KindOfStep, QuietStep, PreviewStep, RestoreStep, RefreshStep

\* A checkpoint was there before, is only prepared, or has just been committed.
LEMMA CheckpointsOfStep ==
  ASSUME TypedInv, KindOfStep, NEW k \in server'.cps
  PROVE  \/ \E cp \in server.cps : BecameOf(k, cp)
         \/ k.state = "prepared"
         \/ \E c \in MaybeChangeSet, a \in Assets, auth \in server.auths, cp \in server.cps, w \in 0..NoRev :
              CommitStep(c, a, auth, cp, w) /\ SameCheckpoint(k, cp) /\ k.state = "saved" /\ k.afterRev = rev'[a]
  <1>1. CASE SavesKept(server, server')
    BY <1>1 DEF SavesKept
  <1>2. CASE \E a \in Assets : PreviewStep(a)
    <2>1. PICK a \in Assets : Previewed(server, server', a)
      BY <1>2 DEF PreviewStep
    <2> QED
      BY <2>1 DEF Previewed
  <1>3. ASSUME NEW c \in MaybeChangeSet, NEW a \in Assets, NEW auth \in server.auths, NEW cp \in server.cps,
               NEW w \in 0..NoRev, CommitStep(c, a, auth, cp, w)
        PROVE  \/ \E o \in server.cps : BecameOf(k, o)
               \/ CommitStep(c, a, auth, cp, w) /\ SameCheckpoint(k, cp) /\ k.state = "saved" /\ k.afterRev = rev'[a]
    <2>1. Committed(server, server', cp, a)
      BY <1>3 DEF CommitStep
    <2> QED
      BY <1>3, <2>1 DEF Committed
  <1>4. CASE \E b \in backups : PromoteStep(b)
    <2>1. server \in Servers /\ UNCHANGED server
      BY <1>4 DEF PromoteStep, TypedInv, Typed, WorkflowTypeOK
    <2> QED
      BY <1>1, <2>1, SavesKeptWhenSame
  <1> QED
    BY <1>1, <1>2, <1>3, <1>4 DEF KindOfStep, QuietStep, SaveStep, RestoreStep, RefreshStep

\* Receipts and revisions of checkpoints stay past.
LEMMA StepKeepsPast ==
  ASSUME TypedInv, TypedInv', CheckpointsArePast, KindOfStep
  PROVE  CheckpointsArePast'
  <1>1. Typed /\ Typed'
    BY DEF TypedInv
  <1>2. lastRev <= lastRev'
    <2>1. CASE [EditorNext]_editorVars
      BY <1>1, <2>1, EditorRevisions DEF Typed
    <2>2. CASE \E b \in backups : RestoreFile(b.asset, b.content, b.rev)
      BY <1>1, <2>2, EditorNumbers DEF RestoreFile, Typed
    <2> QED
      BY <2>1, <2>2, EditorPartOfStep
  <1>3. CASE SavesKept(server, server') /\ lastSave' = lastSave
    BY <1>1, <1>2, <1>3, PastStays
  <1>4. CASE \E a \in Assets : PreviewStep(a)
    <2>1. PICK a \in Assets : Previewed(server, server', a) /\ lastSave' = NextSave
      BY <1>4 DEF PreviewStep
    <2> QED
      BY <1>1, <1>2, <2>1, PastStays
  <1>5. ASSUME NEW c \in MaybeChangeSet, NEW a \in Assets, NEW auth \in server.auths, NEW cp \in server.cps,
               NEW w \in 0..NoRev, CommitStep(c, a, auth, cp, w)
        PROVE  CheckpointsArePast'
    <2>1. Committed(server, server', cp, a) /\ lastSave' = lastSave
      BY <1>5 DEF CommitStep
    <2>2. rev'[a] <= lastRev'
      BY DEF TypedInv, RevisionsArePast
    <2> QED
      BY <1>1, <1>2, <2>1, <2>2, PastStays
  <1>6. CASE \E b \in backups : PromoteStep(b)
    <2>1. server \in Servers /\ UNCHANGED <<server, lastSave>>
      BY <1>6 DEF PromoteStep, TypedInv, Typed, WorkflowTypeOK
    <2> QED
      BY <1>3, <2>1, SavesKeptWhenSame
  <1> QED
    BY <1>3, <1>4, <1>5, <1>6 DEF KindOfStep, QuietStep, SaveStep, RestoreStep, RefreshStep

\* A checkpoint is saved with what was in Editor memory, as a revision nobody has seen before.
LEMMA CommitIsHeld ==
  ASSUME HeldInv, KindOfStep,
         NEW c \in MaybeChangeSet, NEW a \in Assets, NEW auth \in server.auths, NEW cp \in server.cps,
         NEW w \in 0..NoRev, CommitStep(c, a, auth, cp, w),
         NEW k, SameCheckpoint(k, cp), k.afterRev = rev'[a]
  PROVE  /\ rev'[k.asset] = k.afterRev => HoldsIn(k, disk'[k.asset])
         /\ \A b \in backups' : b.asset = k.asset /\ b.rev = k.afterRev => HoldsIn(k, b.content)
  <1>1. /\ TypedInv /\ Typed /\ SaveAsset(a) /\ ResidentIn(a, cp.effective)
    BY DEF HeldInv, TypedInv, CommitStep, Prepared
  <1>2. k.asset = a /\ k.effective = cp.effective
    <2>1. cp.asset = auth.asset /\ auth.asset = a
      BY DEF HeldInv, CheckpointsArePast, CommitStep, Authorized
    <2> QED
      BY <2>1 DEF SameCheckpoint
  <1>3. rev'[a] = lastRev + 1 /\ disk'[a] = resident[a]
    BY <1>1, SavedRevision DEF SaveAsset
  <1>4. HoldsIn(k, disk'[a])
    BY <1>1, <1>2, <1>3 DEF HoldsIn, ResidentIn
  <1>5. ASSUME NEW b \in backups', b.asset = a PROVE b.rev # rev'[a]
    <2>1. \/ \E o \in backups : b.rev = o.rev
          \/ b.rev = rev[a]
      BY <1>1, <1>5, BackupsOfStep
    <2>2. lastRev \in Nat /\ rev[a] \in Nat /\ rev[a] <= lastRev
      BY <1>1, EditorNumbers DEF Typed, TypedInv, RevisionsArePast
    <2>3. \A o \in backups : o.rev \in Nat /\ o.rev <= lastRev
      BY <1>1, BackupParts DEF TypedInv, RevisionsArePast
    <2> QED
      BY <1>3, <2>1, <2>2, <2>3
  <1> QED
    BY <1>2, <1>4, <1>5

\* Every step keeps the checkpoints held.
LEMMA StepKeepsHeld ==
  ASSUME HeldInv, TypedInv', KindOfStep, "restore" \notin UserActions
  PROVE  HeldInv'
  <1>1. TypedInv /\ CheckpointsArePast
    BY DEF HeldInv
  <1>2. ASSUME NEW k \in server'.cps, k.state \in Persisted
        PROVE  /\ rev'[k.asset] = k.afterRev => HoldsIn(k, disk'[k.asset])
               /\ \A b \in backups' : b.asset = k.asset /\ b.rev = k.afterRev => HoldsIn(k, b.content)
    <2>1. CASE \E cp \in server.cps : BecameOf(k, cp)
      BY <1>1, <1>2, <2>1, HeldStays, PackagesOfStep, BackupsOfStep
    <2>2. ASSUME NEW c \in MaybeChangeSet, NEW a \in Assets, NEW auth \in server.auths, NEW cp \in server.cps,
                 NEW w \in 0..NoRev, CommitStep(c, a, auth, cp, w), SameCheckpoint(k, cp), k.afterRev = rev'[a]
          PROVE  /\ rev'[k.asset] = k.afterRev => HoldsIn(k, disk'[k.asset])
                 /\ \A b \in backups' : b.asset = k.asset /\ b.rev = k.afterRev => HoldsIn(k, b.content)
      BY <2>2, CommitIsHeld
    <2>3. k.state # "prepared"
      BY <1>2 DEF Persisted
    <2> QED
      BY <1>1, <2>1, <2>2, <2>3, CheckpointsOfStep
  <1>3. CheckpointsAreHeld'
    BY <1>2 DEF CheckpointsAreHeld, HoldsIn, Persisted
  <1>4. CheckpointsArePast'
    BY <1>1, StepKeepsPast
  <1> QED
    BY <1>3, <1>4 DEF HeldInv

\* What a checkpoint reports as saved is in the package for as long as the file is the revision
\* its save wrote: through every other save, verification, rollback, refresh, crash and lost
\* answer, as long as nobody but the tools puts old package files back.
THEOREM CheckpointsHoldTheirWrites ==
  ASSUME "restore" \notin UserActions
  PROVE  WorkflowSpec => []CheckpointHoldsItsWrites
  <1>1. WorkflowInit => CheckpointsAreHeld /\ CheckpointsArePast
    <2> SUFFICES ASSUME WorkflowInit PROVE CheckpointsAreHeld /\ CheckpointsArePast
      OBVIOUS
    <2>1. server.cps = {} /\ server.auths = {}
      BY DEF WorkflowInit
    <2> QED
      BY <2>1 DEF CheckpointsAreHeld, CheckpointsArePast
  <1>2. HeldInv /\ TypedInv' /\ [WorkflowNext]_vars => HeldInv'
    <2> SUFFICES ASSUME HeldInv, TypedInv', [WorkflowNext]_vars PROVE HeldInv'
      OBVIOUS
    <2>1. KindOfStep
      BY StepsHaveAKind DEF HeldInv, TypedInv
    <2> QED
      BY <2>1, StepKeepsHeld
  <1>3. HeldInv => CheckpointHoldsItsWrites
    BY DEF HeldInv, CheckpointsAreHeld, CheckpointHoldsItsWrites, HoldsIn, Persisted
  <1>4. WorkflowInit => HeldInv
    BY <1>1, InitIsTyped DEF HeldInv
  <1> QED
    BY <1>2, <1>3, <1>4, WorkflowTyped, PTL DEF WorkflowSpec

-----------------------------------------------------------------------------
(* Backups are of what the index describes                                 *)

\* Every backup is the revision of its asset that the active index describes.
BackupsAreOfTheIndex == \A b \in backups : b.rev = indexRev[b.asset]

\* Saves are only of fresh assets, and without a refresh the index stays what it was.
LEMMA StepKeepsBackups ==
  ASSUME TypedInv, KindOfStep, BackupsAreOfTheIndex, "refresh" \notin Tools
  PROVE  BackupsAreOfTheIndex'
  <1>1. Typed /\ (\A auth \in server.auths : auth.id \in SaveIds) /\ UNCHANGED indexRev
    <2>1. UNCHANGED indexRev
      BY DEF KindOfStep, QuietStep, PreviewStep, SaveStep, CommitStep, PromoteStep, RestoreStep, RefreshStep
    <2> QED
      BY <2>1, ServerParts DEF TypedInv, Typed, WorkflowTypeOK, Authorizations
  <1>2. CASE UNCHANGED backups
    BY <1>1, <1>2 DEF BackupsAreOfTheIndex
  <1>3. ASSUME NEW id \in SaveIds, NEW a \in Assets, NEW w \in 0..NoRev, NEW c,
               backups' = WithBackup(id, a, w), SaveCallable(c, a)
        PROVE  BackupsAreOfTheIndex'
    <2>1. rev[a] = indexRev[a]
      BY <1>3 DEF SaveCallable, Fresh
    <2>2. \A b \in WithBackup(id, a, w) : b \in backups \/ (b.asset = a /\ b.rev = rev[a])
      BY <1>1, WithBackupFacts
    <2> QED
      BY <1>1, <1>3, <2>1, <2>2 DEF BackupsAreOfTheIndex
  <1>4. CASE \E b \in backups : PromoteStep(b)
    <2>1. \A k \in backups' : \E o \in backups : k.asset = o.asset /\ k.rev = o.rev
      BY <1>1, <1>4, PromotedBackups
    <2> QED
      BY <1>1, <2>1 DEF BackupsAreOfTheIndex
  <1>5. CASE \E c \in MaybeChangeSet, a \in Assets, id \in SaveIds, w \in 0..NoRev : SaveStep(c, a, id, w)
    BY <1>3, <1>5 DEF SaveStep
  <1>6. CASE \E c \in MaybeChangeSet, a \in Assets, auth \in server.auths, cp \in server.cps, w \in 0..NoRev :
               CommitStep(c, a, auth, cp, w)
    BY <1>1, <1>3, <1>6 DEF CommitStep
  <1> QED
    BY <1>2, <1>4, <1>5, <1>6 DEF KindOfStep, QuietStep, PreviewStep, RestoreStep, RefreshStep

-----------------------------------------------------------------------------
(* A change set grows only on proven work                                  *)

\* Only a write or a patch adds an operation.
LEMMA OnlyWritesGrow ==
  ASSUME Typed, [WorkflowNext]_vars, NEW c \in ChangeSetIds, Len(server'.ops[c]) > Len(server.ops[c])
  PROVE  \/ \E d \in MaybeChangeSet, a \in Assets :
              (\E t \in Targets, v \in Values : Apply(d, a, t, v)) \/ ApplyNoChange(d, a)
         \/ CommitPatch(c)
  <1>1. server \in Servers /\ Len(server.ops[c]) \in Nat
    BY ServerParts DEF Typed, WorkflowTypeOK
  <1>2. ~ServerKept(server, server') /\ server' # server /\ ~SameOperations(server, server')
    <2>1. ASSUME Len(server'.ops[c]) \in {0, Len(server.ops[c])} PROVE FALSE
      BY <1>1, <2>1
    <2> QED
      BY <1>1, <2>1 DEF ServerKept, SameOperations
  <1>3. ~ChangeSetTools
    BY <1>2, ChangeSetToolsKeep DEF ChangeSetTools
  <1>4. ~SaveTools
    <2> SUFFICES ASSUME SaveTools PROVE FALSE
      OBVIOUS
    <2>1. PICK d \in MaybeChangeSet, a \in Assets :
            \/ ImmediatePreview(d, a)
            \/ d # NoChangeSet /\ CheckpointPreview(d, a)
            \/ \E auth \in server.auths :
                 \/ ImmediateCommit(d, a, auth)
                 \/ SaveFails(d, a, auth)
                 \/ \E cp \in server.cps : d # NoChangeSet /\ CheckpointCommit(d, a, auth, cp)
      BY DEF SaveTools, OptionalChangeSet, MaybeChangeSet
    <2>2. d # NoChangeSet => d \in ChangeSetIds
      BY DEF MaybeChangeSet
    <2>3. ~ImmediatePreview(d, a)
      BY <1>2, ImmediatePreviewKeeps DEF Previewed
    <2>4. ~(d # NoChangeSet /\ CheckpointPreview(d, a))
      BY <1>2, <2>2, CheckpointPreviewKeeps DEF Previewed
    <2>5. \A auth \in server.auths : ~ImmediateCommit(d, a, auth) /\ ~SaveFails(d, a, auth)
      BY <1>2, ImmediateCommitKeeps, SaveFailsKeeps
    <2>6. \A auth \in server.auths, cp \in server.cps : ~(d # NoChangeSet /\ CheckpointCommit(d, a, auth, cp))
      BY <1>2, <2>2, CheckpointCommitKeeps DEF Committed
    <2> QED
      BY <2>1, <2>3, <2>4, <2>5, <2>6
  <1>5. ~VerifyTools
    BY <1>2, VerifyLiveWriteKeeps, VerifyCheckpointKeeps, CheckpointTurnsStaleKeeps
       DEF VerifyTools, OptionalChangeSet, MaybeChangeSet
  <1>6. ~RollbackTools
    BY <1>2, RollbackCommitKeeps
       DEF RollbackTools, OptionalChangeSet, MaybeChangeSet, PromoteManifest, PrepareRollback, workflowVars
  <1>7. ~ServerCrash /\ \A a \in Assets : ~RefreshAndRestart(a)
    BY <1>2, LoadedKeeps DEF ServerCrash, RefreshAndRestart
  <1>8. ~(User /\ UNCHANGED workflowVars) /\ ~UNCHANGED vars
    BY <1>2 DEF workflowVars, vars
  <1>9. ASSUME NEW d, NEW a \in Assets, NEW r \in Receipts, NEW s \in RevertStatuses, d \in MaybeChangeSet
        PROVE  ~Revert(d, a, r, s)
    BY <1>2, <1>9, RevertKeeps
  <1>10. PatchTools => CommitPatch(c)
    <2>1. ASSUME NEW p, SameOperations(server, p), Survives(p, server') PROVE FALSE
      BY <1>2, <2>1, SameOperationsCarry DEF Survives
    <2>2. ~(CommitUnboundPatch \/ \E d \in ChangeSetIds, i \in 1..MaxOps : VerifyPatch(d, i))
      BY <2>1, OtherPatchToolsFacts
    <2>3. ASSUME NEW d \in ChangeSetIds, CommitPatch(d) PROVE d = c
      <3>1. PICK begun, base, p :
              /\ begun = Reconciled(server, d) /\ SameHistories(begun, base)
              /\ p = begun \/ GotPatch(base, p, d)
              /\ Survives(p, server')
        BY <2>3, CommitPatchFacts
      <3>2. SameOperations(server, begun)
        BY <1>1, <3>1, ReconciledFacts
      <3>3. GotPatch(base, p, d) /\ SameOperations(server, base)
        BY <2>1, <3>1, <3>2, SameOperationsCarry DEF SameHistories
      <3>4. d # c => Len(p.ops[c]) = Len(server.ops[c])
        BY <3>3 DEF GotPatch, SameOperations
      <3> QED
        BY <1>1, <3>1, <3>4 DEF Survives, SameOperations
    <2> QED
      BY <2>2, <2>3 DEF PatchTools
  <1>11. WriteTools \/ PatchTools
    BY <1>3, <1>4, <1>5, <1>6, <1>7, <1>8 DEF WorkflowNext
  <1> QED
    BY <1>9, <1>10, <1>11 DEF WriteTools, OptionalChangeSet, MaybeChangeSet

\* A write that adds to a change set was accepted by it, once its operations were up to date;
\* without a crash they stay as they were then.
LEMMA GrowthIsAccepted ==
  ASSUME Typed, "crash" \notin Tools,
         NEW d \in MaybeChangeSet, NEW a \in Assets,
         (\E t \in Targets, v \in Values : Apply(d, a, t, v)) \/ ApplyNoChange(d, a),
         NEW c \in ChangeSetIds, Len(server'.ops[c]) > Len(server.ops[c])
  PROVE  \E begun \in Servers :
           /\ begun = Begun(d) /\ d = c /\ d # NoChangeSet /\ Accepts(begun, d)
           /\ \E o \in Operations : o.status \in {"applied", "no-op"} /\ Grew(begun, server', c, o)
           /\ \A e \in ChangeSetIds \ {c} : server'.ops[e] = begun.ops[e]
           /\ server'.phase = begun.phase
  <1>1. PICK begun : begun = Begun(d)
    OBVIOUS
  <1>2. /\ server \in Servers /\ EditorInv /\ WorkflowTypeOK
        /\ begun \in Servers /\ SameOperations(server, begun)
        /\ Len(server.ops[c]) \in Nat /\ Len(begun.ops[c]) = Len(server.ops[c])
    <2>1. server \in Servers /\ EditorInv /\ WorkflowTypeOK
      BY DEF Typed, WorkflowTypeOK
    <2>2. begun \in Servers /\ SameOperations(server, begun)
      BY <1>1, <2>1, BegunFacts
    <2>3. Len(server.ops[c]) \in Nat
      BY <2>1, ServerParts
    <2> QED
      BY <2>1, <2>2, <2>3 DEF SameOperations
  <1>3. server' # begun
    BY <1>2
  <1>4. ASSUME NEW m \in Servers, server'.ops = m.ops, server'.phase = m.phase, d # NoChangeSet, Accepts(begun, d),
               NEW j \in Servers, j.ops = begun.ops, j.phase = begun.phase,
               NEW r, r \in Receipts \/ r = NoReceipt, NEW s \in {"applied", "no-op"},
               m = AppendOperation(j, d, a, r, s)
        PROVE  /\ d = c
               /\ \E o \in Operations : o.status \in {"applied", "no-op"} /\ Grew(begun, server', c, o)
               /\ \A e \in ChangeSetIds \ {c} : server'.ops[e] = begun.ops[e]
               /\ server'.phase = begun.phase
    <2>1. d \in ChangeSetIds /\ s \in OperationStatuses
      BY <1>4 DEF MaybeChangeSet, OperationStatuses
    <2>2. /\ m.phase = j.phase
          /\ \A e \in ChangeSetIds \ {d} : m.ops[e] = j.ops[e]
          /\ \E o \in Operations : o.status = s /\ Grew(j, m, d, o)
      <3>1. /\ EditorInv /\ j \in Servers /\ d \in ChangeSetIds /\ a \in Assets /\ (r \in Receipts \/ r = NoReceipt)
            /\ s \in OperationStatuses /\ m = AppendOperation(j, d, a, r, s)
        BY <1>2, <1>4, <2>1
      <3>2. m.phase = j.phase /\ \A e \in ChangeSetIds \ {d} : m.ops[e] = j.ops[e]
        BY <3>1, AppendOperationFacts
      <3>3. \E o \in Operations : o.receipt = r /\ o.asset = a /\ o.status = s /\ Grew(j, m, d, o)
        BY <3>1, AppendOperationFacts
      <3> QED
        BY <3>2, <3>3
    <2>3. d = c
      BY <1>2, <1>4, <2>2
    <2> QED
      BY <1>4, <2>2, <2>3 DEF Grew
  <1>5. CASE \E t \in Targets, v \in Values : Apply(d, a, t, v)
    <2>1. PICK t \in Targets, v \in Values : Apply(d, a, t, v)
      BY <1>5
    <2>2. PICK journal, bound :
            /\ journal = WithWrite(begun, a, t, v)
            /\ bound = IF d = NoChangeSet THEN journal ELSE AppendOperation(journal, d, a, NextReceipt, "applied")
            /\ ApplyChanged(a, t, v, PreviousTransaction(begun, d, a))
            /\ Accepts(begun, d)
            /\ \/ \E kept \in Prunings(bound.live) : Finish(Pruned(bound, kept), {begun, journal, bound})
               \/ server' = begun
      BY <1>1, <2>1 DEF Apply, NextReceipt
    <2>3. /\ NextReceipt \in Receipts /\ session \in 0..MaxSessions
      BY <1>2, <2>2, EditorNumbers, NewReceipt DEF ApplyChanged, RecordTransaction
    <2>4. journal \in Servers /\ journal.ops = begun.ops /\ journal.phase = begun.phase
      BY <1>2, <2>2, <2>3, WithWriteFacts
    <2>5. bound \in Servers
      <3>1. CASE d = NoChangeSet
        BY <2>2, <2>4, <3>1
      <3>2. CASE d # NoChangeSet
        <4>1. d \in ChangeSetIds /\ "applied" \in OperationStatuses
          BY <3>2 DEF MaybeChangeSet, OperationStatuses
        <4>2. bound = AppendOperation(journal, d, a, NextReceipt, "applied")
          BY <2>2, <3>2
        <4> QED
          BY <1>2, <2>3, <2>4, <4>1, <4>2, AppendOperationFacts
      <3> QED
        BY <3>1, <3>2
    <2>6. server'.ops = bound.ops /\ server'.phase = bound.phase
      <3>1. PICK kept \in Prunings(bound.live) : server' = Pruned(bound, kept)
        BY <1>3, <2>2 DEF Finish
      <3> QED
        BY <2>5, <3>1, PrunedFacts
    <2>7. d # NoChangeSet
      BY <1>2, <2>2, <2>4, <2>6
    <2>8. bound = AppendOperation(journal, d, a, NextReceipt, "applied")
      BY <2>2, <2>7
    <2>9. Accepts(begun, d)
      BY <2>2
    <2>10. /\ d = c
           /\ \E o \in Operations : o.status \in {"applied", "no-op"} /\ Grew(begun, server', c, o)
           /\ \A e \in ChangeSetIds \ {c} : server'.ops[e] = begun.ops[e]
           /\ server'.phase = begun.phase
      <3>1. PICK r, s : r = NextReceipt /\ s = "applied"
        OBVIOUS
      <3>2. s \in {"applied", "no-op"} /\ r \in Receipts /\ bound = AppendOperation(journal, d, a, r, s)
        BY <2>3, <2>8, <3>1
      <3> QED
        BY <1>4, <2>4, <2>5, <2>6, <2>7, <2>9, <3>2
    <2> QED
      BY <1>1, <1>2, <2>7, <2>9, <2>10
  <1>6. CASE ApplyNoChange(d, a)
    <2>1. PICK m : /\ m = AppendOperation(begun, d, a, NoReceipt, "no-op")
                   /\ Accepts(begun, d)
                   /\ (d # NoChangeSet /\ Finish(m, {begun})) \/ server' = begun
      BY <1>1, <1>6 DEF ApplyNoChange
    <2>2. d # NoChangeSet /\ server' = m /\ Accepts(begun, d)
      BY <1>3, <2>1 DEF Finish
    <2>3. PICK r, s : r = NoReceipt /\ s = "no-op"
      OBVIOUS
    <2>4. m = AppendOperation(begun, d, a, r, s) /\ s \in {"applied", "no-op"} /\ r = NoReceipt
      BY <2>1, <2>3
    <2>5. m \in Servers
      <3>1. d \in ChangeSetIds /\ s \in OperationStatuses
        BY <2>2, <2>4 DEF MaybeChangeSet, OperationStatuses
      <3> QED
        BY <1>2, <2>4, <3>1, AppendOperationFacts
    <2> QED
      BY <1>1, <1>2, <1>4, <2>2, <2>4, <2>5
  <1> QED
    BY <1>5, <1>6

\* So is a patch.
LEMMA BoundPatchIsAccepted ==
  ASSUME Typed, "crash" \notin Tools,
         NEW c \in ChangeSetIds, CommitPatch(c), Len(server'.ops[c]) > Len(server.ops[c])
  PROVE  \E begun : /\ begun = Reconciled(server, c) /\ ~IsClosed(Statuses(begun, c))
                    /\ \A i \in DOMAIN server.ops[c] : server'.ops[c][i].status = begun.ops[c][i].status
  <1>1. server \in Servers /\ Len(server.ops[c]) \in Nat
    BY ServerParts DEF Typed, WorkflowTypeOK
  <1>2. PICK begun, base :
          /\ begun = Reconciled(server, c) /\ SameHistories(begun, base) /\ ~IsClosed(Statuses(begun, c))
          /\ SameButLists(begun, base)
          /\ server' = begun \/ GotPatch(base, server', c)
    BY CommitPatchFacts
  <1>3. SameOperations(server, begun)
    BY <1>1, <1>2, ReconciledFacts
  <1>4. PICK o \in Operations : Grew(base, server', c, o)
    BY <1>1, <1>2, <1>3 DEF GotPatch, SameOperations
  <1>5. base.ops[c] \in Seq(Operations)
    BY <1>2, ServerParts DEF SameButLists
  <1>6. ASSUME NEW i \in DOMAIN server.ops[c] PROVE server'.ops[c][i].status = begun.ops[c][i].status
    <2>1. i \in DOMAIN begun.ops[c] /\ i \in DOMAIN base.ops[c]
      BY <1>2, <1>3 DEF SameHistories, SameOperations
    <2>2. server'.ops[c][i] = base.ops[c][i]
      BY <1>4, <1>5, <2>1, OperationAdded DEF Grew
    <2> QED
      BY <1>2, <2>1, <2>2 DEF SameHistories
  <1> QED
    BY <1>2, <1>6

\* A status that is up to date is applied only where a live record of this session says so.
LEMMA AppliedIsProven ==
  ASSUME NEW op, ReconciledStatus(server, op) = "applied"
  PROVE  \E l \in server.live : l.receipt = op.receipt /\ l.sess = session
  <1>1. ReconciledStatus_SupersededToo(server, op) = "applied"
    BY DEF ReconciledStatus
  <1>2. op.apply = "none" /\ IsLive(server, op.receipt)
    BY <1>1 DEF ReconciledStatus_SupersededToo
  <1>3. PICK l : l = LiveApply(server, op.receipt)
    OBVIOUS
  <1>4. l \in server.live /\ l.receipt = op.receipt
    BY <1>2, <1>3 DEF LiveApply, IsLive
  <1>5. l.sess = session
    BY <1>1, <1>2, <1>3 DEF ReconciledStatus_SupersededToo
  <1> QED
    BY <1>4, <1>5

\* A change set takes a further write or patch only while each earlier operation it counts as
\* applied is proven by a live record of the running Editor session, and none is unknown.  After a crash all
\* applied operations have to be proven again, so this is about servers that stay up.
THEOREM WritesFollowProvenWrites ==
  ASSUME "crash" \notin Tools
  PROVE  WorkflowSpec => AppliedWritesAreProven
  <1> DEFINE Proven(c) ==
        Len(server'.ops[c]) > Len(server.ops[c]) =>
          \A i \in DOMAIN server.ops[c] :
            /\ server'.ops[c][i].status # "unknown"
            /\ server'.ops[c][i].status = "applied" =>
                 \E l \in server.live : l.receipt = server.ops[c][i].receipt /\ l.sess = session
  <1>4. ASSUME Typed, NEW c \in ChangeSetIds, NEW i \in DOMAIN server.ops[c],
               NEW begun, begun = Reconciled(server, c), ~IsClosed(Statuses(begun, c)),
               server'.ops[c][i].status = begun.ops[c][i].status
        PROVE  /\ server'.ops[c][i].status # "unknown"
               /\ server'.ops[c][i].status = "applied" =>
                    \E l \in server.live : l.receipt = server.ops[c][i].receipt /\ l.sess = session
    <2>1. /\ SameOperations(server, begun)
          /\ begun.ops[c][i].status = ReconciledStatus(server, server.ops[c][i])
      BY <1>4, ReconciledFacts DEF Typed, WorkflowTypeOK
    <2>2. begun.ops[c][i].status \in Statuses(begun, c)
      BY <2>1 DEF Statuses, SameOperations
    <2>3. begun.ops[c][i].status # "unknown"
      BY <1>4, <2>2 DEF IsClosed, DeriveStatus, ClosedStatuses
    <2> QED
      BY <1>4, <2>1, <2>3, AppliedIsProven
  <1>1. ASSUME Typed, [WorkflowNext]_vars, NEW c \in ChangeSetIds, Len(server'.ops[c]) > Len(server.ops[c]),
               NEW i \in DOMAIN server.ops[c]
        PROVE  /\ server'.ops[c][i].status # "unknown"
               /\ server'.ops[c][i].status = "applied" =>
                    \E l \in server.live : l.receipt = server.ops[c][i].receipt /\ l.sess = session
    <2>1. CASE \E d \in MaybeChangeSet, a \in Assets :
                 (\E t \in Targets, v \in Values : Apply(d, a, t, v)) \/ ApplyNoChange(d, a)
      <3>1. PICK begun \in Servers :
              /\ begun = Begun(c) /\ c # NoChangeSet /\ Accepts(begun, c)
              /\ \E o \in Operations : Grew(begun, server', c, o)
        BY <1>1, <2>1, GrowthIsAccepted
      <3>2. PICK o \in Operations : Grew(begun, server', c, o)
        BY <3>1
      <3>3. SameOperations(server, begun) /\ begun = Reconciled(server, c) /\ ~IsClosed(Statuses(begun, c))
        <4>1. begun = Reconciled(server, c) /\ ~IsClosed(Statuses(begun, c))
          BY <3>1 DEF Begun, Accepts
        <4> QED
          BY <1>1, <4>1, ReconciledFacts DEF Typed, WorkflowTypeOK
      <3>4. begun.ops[c] \in Seq(Operations) /\ i \in DOMAIN begun.ops[c]
        BY <1>1, <3>1, <3>3, ServerParts DEF SameOperations
      <3>5. server'.ops[c][i] = begun.ops[c][i]
        BY <3>2, <3>4, OperationAdded DEF Grew
      <3>6. server'.ops[c][i].status = begun.ops[c][i].status
        BY <3>5
      <3> QED
        BY <1>1, <1>4, <3>3, <3>6
    <2>2. CASE CommitPatch(c)
      BY <1>1, <1>4, <2>2, BoundPatchIsAccepted
    <2> QED
      BY <1>1, <2>1, <2>2, OnlyWritesGrow
  <1>2. Typed /\ [WorkflowNext]_vars => [\A c \in ChangeSetIds : Proven(c)]_vars
    BY <1>1
  <1>3. TypedInv => Typed
    BY DEF TypedInv
  <1> QED
    BY <1>2, <1>3, WorkflowTyped, PTL DEF WorkflowSpec, AppliedWritesAreProven
=============================================================================
