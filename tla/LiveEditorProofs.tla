-------------------------- MODULE LiveEditorProofs --------------------------
(***************************************************************************)
(* Theorems about LiveEditor for every set of assets, targets and values   *)
(* and every bound.                                                        *)
(***************************************************************************)
EXTENDS LiveEditor, SequenceTheorems, TLAPS

-----------------------------------------------------------------------------
(* The inductive invariant                                                 *)

\* The Undo buffer is in the order of its transactions, the redo entries on
\* top of it in the order in which they would be redone.
BufferOrder ==
  /\ \A i, j \in 1..Len(undo) : i < j => undo[i].id < undo[j].id
  /\ \A i, j \in 1..Len(redo) : i < j => redo[j].id < redo[i].id
  /\ \A i \in 1..Len(undo), j \in 1..Len(redo) : undo[i].id < redo[j].id

\* Everything the Undo buffer holds, done or undone.
Entries == {undo[i] : i \in 1..Len(undo)} \cup {redo[i] : i \in 1..Len(redo)}

\* Identifiers in use have been given out.
IdsBounded ==
  /\ \A tx \in Entries : tx.id <= lastTx
  /\ \A a \in Assets : \A r \in records[a] : r.id <= lastTx

\* Undoing the unsaved agent write that made its package dirty leads back to
\* the content on disk.
FirstWriteRestoresDisk ==
  \A a \in Assets : \A r \in records[a] :
    ~r.dirtyBefore /\ r.id > savedTx[a] /\ ~tainted[a] =>
      \A tx \in Entries : tx.id = r.id => tx.before = disk[a]

\* A user edit does not lie between two retained agent writes of its asset.
NoUserEditInsideChain ==
  \A a \in Assets : \A r, s \in records[a] : \A tx \in Entries :
    tx.asset = a /\ ~tx.agent /\ r.id < tx.id => s.id < tx.id

EditorInv ==
  /\ EditorTypeOK
  /\ IdsBounded
  /\ BufferOrder
  /\ CleanMeansSaved
  /\ FirstWriteRestoresDisk
  /\ NoUserEditInsideChain

\* An asset out of memory has no write to undo.
UnloadedHasNoRecords == \A a \in Assets : ~loaded[a] => records[a] = {}

-----------------------------------------------------------------------------
(* Sequences                                                               *)

\* Removing the newest entry keeps the others in place.
LEMMA PopFacts ==
  ASSUME NEW S, NEW s \in Seq(S), s # <<>>
  PROVE  /\ Pop(s) \in Seq(S)
         /\ Len(s) \in Nat \ {0}
         /\ Len(Pop(s)) = Len(s) - 1
         /\ \A i \in 1..(Len(s) - 1) : Pop(s)[i] = s[i]
         /\ Top(s) \in S
         /\ Len(s) \in 1..Len(s)
<1>1. Len(s) \in Nat /\ Len(s) # 0
  OBVIOUS
<1>2. PICK k \in Nat : Len(s) = k + 1
  <2>1. Len(s) - 1 \in Nat /\ Len(s) = (Len(s) - 1) + 1
    BY <1>1
  <2> QED
    BY <2>1
<1>3. Len(s) \in 1..Len(s) /\ Top(s) \in S
  BY <1>1 DEF Top
<1>4. Len(s) - 1 = k /\ k - 1 + 1 = k /\ k \in Int /\ (~(1 <= k) => k = 0)
  BY <1>2
<1>5. \A i \in 1..k : s[i] \in S /\ 1 + i - 1 = i
  BY <1>2
<1>6. /\ SubSeq(s, 1, k) \in Seq(S)
      /\ Len(SubSeq(s, 1, k)) = IF 1 <= k THEN k - 1 + 1 ELSE 0
      /\ \A i \in 1..(k - 1 + 1) : SubSeq(s, 1, k)[i] = s[1 + i - 1]
  BY <1>4, <1>5, SubSeqProperties
<1>7. Pop(s) = SubSeq(s, 1, k)
  BY <1>4 DEF Pop
<1> QED
  BY <1>1, <1>3, <1>4, <1>5, <1>6, <1>7

\* Adding an entry keeps the others in place.
LEMMA AppendFacts ==
  ASSUME NEW S, NEW s \in Seq(S), NEW e \in S
  PROVE  /\ Append(s, e) \in Seq(S)
         /\ Len(s) \in Nat
         /\ Len(Append(s, e)) = Len(s) + 1
         /\ \A i \in 1..Len(s) : Append(s, e)[i] = s[i]
         /\ Append(s, e)[Len(s) + 1] = e
  OBVIOUS

\* Nothing is in an empty buffer.
LEMMA EmptyFacts ==
  ASSUME NEW S
  PROVE  /\ <<>> \in Seq(S)
         /\ Len(<<>>) = 0
         /\ 1..Len(<<>>) = {}
  OBVIOUS

-----------------------------------------------------------------------------
(* The four ways the Undo buffer changes                                   *)

BufferTypeOK == undo \in Seq(Transactions) /\ redo \in Seq(Transactions)

\* A new transaction is appended and the redo entries are dropped.
LEMMA BufferAfterRecord ==
  ASSUME BufferTypeOK, BufferOrder, \A tx \in Entries : tx.id <= lastTx,
         lastTx \in Nat,
         NEW e \in Transactions, e.id = lastTx + 1,
         undo' = Append(undo, e), redo' = <<>>
  PROVE  /\ BufferTypeOK' /\ BufferOrder'
         /\ \A tx \in Entries' : tx \in Entries \/ tx = e
<1>1. /\ undo' \in Seq(Transactions)
      /\ Len(undo) \in Nat
      /\ Len(undo') = Len(undo) + 1
      /\ \A i \in 1..Len(undo) : undo'[i] = undo[i]
      /\ undo'[Len(undo) + 1] = e
  BY AppendFacts DEF BufferTypeOK
<1>2. redo' \in Seq(Transactions) /\ Len(redo') = 0 /\ 1..Len(redo') = {}
  BY EmptyFacts
<1>3. \A i \in 1..Len(undo') : i \in 1..Len(undo) \/ i = Len(undo) + 1
  BY <1>1
<1>4. \A i \in 1..Len(undo) : undo[i] \in Entries /\ undo[i].id \in Nat /\ undo[i].id <= lastTx
  <2> SUFFICES ASSUME NEW i \in 1..Len(undo)
               PROVE  undo[i] \in Entries /\ undo[i].id \in Nat /\ undo[i].id <= lastTx
    OBVIOUS
  <2>1. undo[i] \in Entries
    BY DEF Entries
  <2>2. undo[i] \in Transactions
    BY DEF BufferTypeOK
  <2> QED
    BY <2>1, <2>2, BoundsAssumption DEF Transactions, TxIds
<1>5. \A i, j \in 1..Len(undo') : i < j => undo'[i].id < undo'[j].id
  <2> SUFFICES ASSUME NEW i \in 1..Len(undo'), NEW j \in 1..Len(undo'), i < j
               PROVE  undo'[i].id < undo'[j].id
    OBVIOUS
  <2>1. i \in 1..Len(undo)
    BY <1>1
  <2>2. CASE j \in 1..Len(undo)
    BY <2>1, <2>2, <1>1 DEF BufferOrder
  <2>3. CASE j = Len(undo) + 1
    BY <2>1, <2>3, <1>1, <1>4
  <2> QED
    BY <1>3, <2>2, <2>3
<1>6. \A tx \in Entries' : tx \in Entries \/ tx = e
  BY <1>1, <1>2, <1>3 DEF Entries
<1> QED
  BY <1>1, <1>2, <1>5, <1>6 DEF BufferTypeOK, BufferOrder

\* The newest transaction is undone; it may or may not become redoable.
LEMMA BufferAfterUndo ==
  ASSUME BufferTypeOK, BufferOrder, undo # <<>>, undo' = Pop(undo),
         redo' = Append(redo, Top(undo)) \/ redo' = <<>>
  PROVE  /\ BufferTypeOK' /\ BufferOrder'
         /\ \A tx \in Entries' : tx \in Entries
         /\ Top(undo) \in Transactions /\ Top(undo) \in Entries
<1>1. /\ undo' \in Seq(Transactions)
      /\ Len(undo) \in Nat \ {0}
      /\ Len(undo') = Len(undo) - 1
      /\ \A i \in 1..Len(undo') : undo'[i] = undo[i]
      /\ Top(undo) \in Transactions
      /\ Len(undo) \in 1..Len(undo)
  BY PopFacts DEF BufferTypeOK
<1>2. \A i \in 1..Len(undo') : i \in 1..Len(undo) /\ i < Len(undo)
  BY <1>1
<1>3. Top(undo) \in Entries
  BY <1>1 DEF Entries, Top
<1>4. \A i, j \in 1..Len(undo') : i < j => undo'[i].id < undo'[j].id
  BY <1>1, <1>2 DEF BufferOrder
<1>5. CASE redo' = <<>>
  <2>1. redo' \in Seq(Transactions) /\ Len(redo') = 0 /\ 1..Len(redo') = {}
    BY <1>5, EmptyFacts
  <2>2. \A tx \in Entries' : tx \in Entries
    BY <1>1, <1>2, <2>1 DEF Entries
  <2> QED
    BY <1>1, <1>3, <1>4, <2>1, <2>2 DEF BufferTypeOK, BufferOrder
<1>6. CASE redo' = Append(redo, Top(undo))
  <2>1. /\ redo' \in Seq(Transactions)
        /\ Len(redo) \in Nat
        /\ Len(redo') = Len(redo) + 1
        /\ \A i \in 1..Len(redo) : redo'[i] = redo[i]
        /\ redo'[Len(redo) + 1] = Top(undo)
    BY <1>1, <1>6, AppendFacts DEF BufferTypeOK
  <2>2. \A i \in 1..Len(redo') : i \in 1..Len(redo) \/ i = Len(redo) + 1
    BY <2>1
  <2>3. \A i, j \in 1..Len(redo') : i < j => redo'[j].id < redo'[i].id
    <3> SUFFICES ASSUME NEW i \in 1..Len(redo'), NEW j \in 1..Len(redo'), i < j
                 PROVE  redo'[j].id < redo'[i].id
      OBVIOUS
    <3>1. i \in 1..Len(redo)
      BY <2>1
    <3>2. CASE j \in 1..Len(redo)
      BY <3>1, <3>2, <2>1 DEF BufferOrder
    <3>3. CASE j = Len(redo) + 1
      BY <3>1, <3>3, <2>1, <1>1 DEF BufferOrder, Top
    <3> QED
      BY <2>2, <3>2, <3>3
  <2>4. \A i \in 1..Len(undo'), j \in 1..Len(redo') : undo'[i].id < redo'[j].id
    <3> SUFFICES ASSUME NEW i \in 1..Len(undo'), NEW j \in 1..Len(redo')
                 PROVE  undo'[i].id < redo'[j].id
      OBVIOUS
    <3>1. CASE j \in 1..Len(redo)
      BY <3>1, <2>1, <1>1, <1>2 DEF BufferOrder
    <3>2. CASE j = Len(redo) + 1
      BY <3>2, <2>1, <1>1, <1>2 DEF BufferOrder, Top
    <3> QED
      BY <2>2, <3>1, <3>2
  <2>5. \A tx \in Entries' : tx \in Entries
    <3>1. \A i \in 1..Len(undo') : undo'[i] \in Entries
      BY <1>1, <1>2 DEF Entries
    <3>2. \A i \in 1..Len(redo') : redo'[i] \in Entries
      <4>1. \A i \in 1..Len(redo) : redo'[i] \in Entries
        BY <2>1 DEF Entries
      <4> QED
        BY <1>3, <2>1, <2>2, <4>1
    <3>3. \A tx \in Entries' : \/ \E i \in 1..Len(undo') : tx = undo'[i]
                             \/ \E i \in 1..Len(redo') : tx = redo'[i]
      BY DEF Entries
    <3> QED
      BY <3>1, <3>2, <3>3
  <2> QED
    BY <1>1, <1>3, <1>4, <2>1, <2>3, <2>4, <2>5 DEF BufferTypeOK, BufferOrder
<1> QED
  BY <1>5, <1>6

\* The newest undone transaction is redone.
LEMMA BufferAfterRedo ==
  ASSUME BufferTypeOK, BufferOrder, redo # <<>>, redo' = Pop(redo),
         undo' = Append(undo, Top(redo))
  PROVE  /\ BufferTypeOK' /\ BufferOrder'
         /\ \A tx \in Entries' : tx \in Entries
         /\ Top(redo) \in Transactions /\ Top(redo) \in Entries
<1>1. /\ redo' \in Seq(Transactions)
      /\ Len(redo) \in Nat \ {0}
      /\ Len(redo') = Len(redo) - 1
      /\ \A i \in 1..Len(redo') : redo'[i] = redo[i]
      /\ Top(redo) \in Transactions
      /\ Len(redo) \in 1..Len(redo)
  BY PopFacts DEF BufferTypeOK
<1>2. \A i \in 1..Len(redo') : i \in 1..Len(redo) /\ i < Len(redo)
  BY <1>1
<1>3. Top(redo) \in Entries
  BY <1>1 DEF Entries, Top
<1>4. /\ undo' \in Seq(Transactions)
      /\ Len(undo) \in Nat
      /\ Len(undo') = Len(undo) + 1
      /\ \A i \in 1..Len(undo) : undo'[i] = undo[i]
      /\ undo'[Len(undo) + 1] = Top(redo)
  BY <1>1, AppendFacts DEF BufferTypeOK
<1>5. \A i \in 1..Len(undo') : i \in 1..Len(undo) \/ i = Len(undo) + 1
  BY <1>4
<1>6. \A i, j \in 1..Len(undo') : i < j => undo'[i].id < undo'[j].id
  <2> SUFFICES ASSUME NEW i \in 1..Len(undo'), NEW j \in 1..Len(undo'), i < j
               PROVE  undo'[i].id < undo'[j].id
    OBVIOUS
  <2>1. i \in 1..Len(undo)
    BY <1>4
  <2>2. CASE j \in 1..Len(undo)
    BY <2>1, <2>2, <1>4 DEF BufferOrder
  <2>3. CASE j = Len(undo) + 1
    BY <2>1, <2>3, <1>4, <1>1 DEF BufferOrder, Top
  <2> QED
    BY <1>5, <2>2, <2>3
<1>7. \A i, j \in 1..Len(redo') : i < j => redo'[j].id < redo'[i].id
  BY <1>1, <1>2 DEF BufferOrder
<1>8. \A i \in 1..Len(undo'), j \in 1..Len(redo') : undo'[i].id < redo'[j].id
  <2> SUFFICES ASSUME NEW i \in 1..Len(undo'), NEW j \in 1..Len(redo')
               PROVE  undo'[i].id < redo'[j].id
    OBVIOUS
  <2>1. CASE i \in 1..Len(undo)
    BY <2>1, <1>4, <1>1, <1>2 DEF BufferOrder
  <2>2. CASE i = Len(undo) + 1
    BY <2>2, <1>4, <1>1, <1>2 DEF BufferOrder, Top
  <2> QED
    BY <1>5, <2>1, <2>2
<1>9. \A tx \in Entries' : tx \in Entries
  BY <1>1, <1>2, <1>3, <1>4, <1>5 DEF Entries
<1> QED
  BY <1>1, <1>3, <1>4, <1>6, <1>7, <1>8, <1>9 DEF BufferTypeOK, BufferOrder

\* The buffer is reset.
LEMMA BufferAfterReset ==
  ASSUME undo' = <<>>, redo' = <<>>
  PROVE  BufferTypeOK' /\ BufferOrder' /\ Entries' = {}
<1>1. /\ undo' \in Seq(Transactions) /\ 1..Len(undo') = {}
      /\ redo' \in Seq(Transactions) /\ 1..Len(redo') = {}
  BY EmptyFacts
<1> QED
  BY <1>1 DEF BufferTypeOK, BufferOrder, Entries

-----------------------------------------------------------------------------
(* The invariant holds in every reachable state                            *)

\* EditorInv holds when the first Editor process has started.
LEMMA InitEstablishesInv == EditorInit => EditorInv /\ UnloadedHasNoRecords
<1> SUFFICES ASSUME EditorInit PROVE EditorInv /\ UnloadedHasNoRecords
  OBVIOUS
<1>1. EditorTypeOK
  BY BoundsAssumption, EmptyFacts DEF EditorInit, EditorTypeOK, Contents
<1>2. Entries = {} /\ 1..Len(undo) = {} /\ 1..Len(redo) = {}
  BY EmptyFacts DEF EditorInit, Entries
<1>3. \A a \in Assets : records[a] = {} /\ resident[a] = disk[a]
  BY DEF EditorInit
<1> QED
  BY <1>1, <1>2, <1>3 DEF EditorInv, IdsBounded, BufferOrder, CleanMeansSaved,
                          FirstWriteRestoresDisk, NoUserEditInsideChain, UnloadedHasNoRecords

\* The numbers the invariant compares are numbers.
LEMMA IdsAreNumbers ==
  ASSUME EditorInv
  PROVE  /\ lastTx \in Nat
         /\ \A tx \in Entries : tx \in Transactions /\ tx.id \in Nat /\ tx.id <= lastTx
         /\ \A a \in Assets : \A r \in records[a] :
              r \in Records /\ r.id \in Nat /\ r.id <= lastTx
<1>1. lastTx \in Nat
  BY DEF EditorInv, EditorTypeOK
<1>2. /\ \A i \in 1..Len(undo) : undo[i] \in Transactions
      /\ \A i \in 1..Len(redo) : redo[i] \in Transactions
  BY DEF EditorInv, EditorTypeOK
<1>3. \A tx \in Entries : tx \in Transactions
  BY <1>2 DEF Entries
<1>4. \A tx \in Transactions : tx.id \in Nat
  BY BoundsAssumption DEF Transactions, TxIds
<1>5. \A a \in Assets : \A r \in records[a] : r \in Records
  BY DEF EditorInv, EditorTypeOK
<1>6. \A r \in Records : r.id \in Nat
  BY BoundsAssumption DEF Records, TxIds
<1> QED
  BY <1>1, <1>3, <1>4, <1>5, <1>6 DEF EditorInv, IdsBounded

\* A transaction recorded for asset a, by an agent write or a user edit.
LEMMA RecordStep ==
  ASSUME EditorInv, NEW a \in Assets, NEW c \in Contents, NEW byAgent \in BOOLEAN,
         RecordTransaction(a, c, byAgent)
  PROVE  /\ BufferTypeOK' /\ BufferOrder'
         /\ lastTx' \in 0..MaxTx /\ lastTx' = lastTx + 1 /\ lastTx' \in TxIds
         /\ resident' \in [Assets -> Contents] /\ dirty' \in [Assets -> BOOLEAN]
         /\ dirty'[a] /\ (\A b \in Assets \ {a} : resident'[b] = resident[b] /\ dirty'[b] = dirty[b])
         /\ \A tx \in Entries' : \/ tx \in Entries
                                \/ /\ tx.id = lastTx + 1 /\ tx.asset = a
                                   /\ tx.agent = byAgent /\ tx.before = resident[a]
<1> DEFINE e == [id |-> lastTx + 1, asset |-> a, agent |-> byAgent,
                 before |-> resident[a], after |-> c]
<1>1. lastTx \in Nat /\ lastTx' = lastTx + 1 /\ lastTx' \in 0..MaxTx /\ lastTx' \in TxIds
  BY BoundsAssumption DEF EditorInv, EditorTypeOK, RecordTransaction, TxIds
<1>2. e \in Transactions /\ e.id = lastTx + 1
  BY <1>1 DEF EditorInv, EditorTypeOK, Transactions
<1>3. undo' = Append(undo, e) /\ redo' = <<>>
  BY DEF RecordTransaction
<1>4. BufferTypeOK /\ BufferOrder /\ (\A tx \in Entries : tx.id <= lastTx)
  BY DEF EditorInv, EditorTypeOK, BufferTypeOK, IdsBounded
<1> HIDE DEF e
<1>5. /\ BufferTypeOK' /\ BufferOrder'
      /\ \A tx \in Entries' : tx \in Entries \/ tx = e
  BY <1>1, <1>2, <1>3, <1>4, BufferAfterRecord
<1>6. /\ resident' \in [Assets -> Contents] /\ dirty' \in [Assets -> BOOLEAN]
      /\ dirty'[a] /\ (\A b \in Assets \ {a} : resident'[b] = resident[b] /\ dirty'[b] = dirty[b])
  BY DEF EditorInv, EditorTypeOK, RecordTransaction
<1> QED
  BY <1>1, <1>5, <1>6 DEF e

\* A step that records no transaction and no agent write, and that leaves the
\* disk and the history of an asset alone as long as one of its unsaved agent
\* writes can still be undone, keeps what EditorInv says of the records.
LEMMA NoNewWriteStep ==
  ASSUME EditorInv, lastTx' = lastTx,
         \A a \in Assets : records'[a] \subseteq records[a],
         \A tx \in Entries' : tx \in Entries,
         \A a \in Assets : \A r \in records'[a] :
           ~r.dirtyBefore /\ r.id > savedTx'[a] /\ ~tainted'[a] =>
             r.id > savedTx[a] /\ ~tainted[a] /\ disk'[a] = disk[a]
  PROVE  IdsBounded' /\ FirstWriteRestoresDisk' /\ NoUserEditInsideChain'
<1>1. IdsBounded'
  BY DEF EditorInv, IdsBounded
<1>2. FirstWriteRestoresDisk'
  <2> SUFFICES ASSUME NEW a \in Assets, NEW r \in records'[a],
                      ~r.dirtyBefore, r.id > savedTx'[a], ~tainted'[a],
                      NEW tx \in Entries', tx.id = r.id
               PROVE  tx.before = disk'[a]
    BY DEF FirstWriteRestoresDisk
  <2>1. r \in records[a] /\ tx \in Entries
    OBVIOUS
  <2>2. r.id > savedTx[a] /\ ~tainted[a] /\ disk'[a] = disk[a]
    OBVIOUS
  <2> QED
    BY <2>1, <2>2 DEF EditorInv, FirstWriteRestoresDisk
<1>3. NoUserEditInsideChain'
  <2> SUFFICES ASSUME NEW a \in Assets, NEW r \in records'[a], NEW s \in records'[a],
                      NEW tx \in Entries', tx.asset = a, ~tx.agent, r.id < tx.id
               PROVE  s.id < tx.id
    BY DEF NoUserEditInsideChain
  <2>1. r \in records[a] /\ s \in records[a] /\ tx \in Entries
    OBVIOUS
  <2> QED
    BY <2>1 DEF EditorInv, NoUserEditInsideChain
<1> QED
  BY <1>1, <1>2, <1>3

\* The chain test finds the previous write on top of the Undo buffer, so no
\* user edit of the asset is above any retained write of that asset.
LEMMA ChainHasNoUserEditAbove ==
  ASSUME EditorInv, NEW a \in Assets, NEW p, ContinuesChain(a, p),
         NEW i \in 1..Len(undo), NEW r \in records[a],
         undo[i].asset = a, undo[i].id > r.id
  PROVE  undo[i].agent
<1> SUFFICES ASSUME ~undo[i].agent PROVE FALSE
  OBVIOUS
<1>1. PICK s \in records[a] : s.id = p /\ IsTop(p)
  BY DEF ContinuesChain
<1>2. undo \in Seq(Transactions) /\ undo # <<>>
  BY <1>1 DEF EditorInv, EditorTypeOK, IsTop
<1>3. Len(undo) \in Nat /\ Len(undo) \in 1..Len(undo) /\ undo[Len(undo)].id = s.id
  BY <1>1, <1>2, PopFacts DEF IsTop
<1>4. undo[i] \in Transactions /\ undo[Len(undo)] \in Transactions /\ undo[i] \in Entries
  BY <1>2, <1>3 DEF Entries
<1>5. undo[i].id \in Nat /\ s.id \in Nat
  BY <1>3, <1>4, BoundsAssumption DEF Transactions, TxIds
<1>6. r \in Records
  BY DEF EditorInv, EditorTypeOK
<1>7. r.id \in Nat /\ r.id < undo[i].id
  BY <1>5, <1>6, BoundsAssumption DEF Records, TxIds
<1>8. s.id < undo[i].id
  BY <1>4, <1>7 DEF EditorInv, NoUserEditInsideChain
<1>9. undo[i].id <= s.id
  <2>1. CASE i = Len(undo)
    BY <2>1, <1>3, <1>5
  <2>2. CASE i < Len(undo)
    BY <2>2, <1>3, <1>5 DEF EditorInv, BufferOrder
  <2> QED
    BY <2>1, <2>2, <1>3
<1> QED
  BY <1>5, <1>8, <1>9

\* A confirmed agent write keeps the invariant.
LEMMA ApplyChangedKeepsInv ==
  ASSUME EditorInv, NEW a \in Assets, NEW t \in Targets, NEW v \in Values, NEW p \in Nat,
         ApplyChanged(a, t, v, p)
  PROVE  EditorInv'
<1> DEFINE c == [resident[a] EXCEPT ![t] = v]
           new == NewRecord(a, t, v)
<1>1. RecordTransaction(a, c, TRUE) /\ c \in Contents
  BY DEF ApplyChanged, EditorInv, EditorTypeOK, Contents
<1>2. /\ BufferTypeOK' /\ BufferOrder'
      /\ lastTx' \in 0..MaxTx /\ lastTx' = lastTx + 1 /\ lastTx' \in TxIds
      /\ resident' \in [Assets -> Contents] /\ dirty' \in [Assets -> BOOLEAN]
      /\ dirty'[a] /\ (\A b \in Assets \ {a} : resident'[b] = resident[b] /\ dirty'[b] = dirty[b])
      /\ \A tx \in Entries' : \/ tx \in Entries
                             \/ /\ tx.id = lastTx + 1 /\ tx.asset = a
                                /\ tx.agent = TRUE /\ tx.before = resident[a]
  <2> HIDE DEF c
  <2> QED
    BY <1>1, RecordStep
<1>3. UNCHANGED <<loaded, disk, rev, lastRev, savedTx, session, link, tainted>>
  BY DEF ApplyChanged, diskVars, linkVars
<1>4. new \in Records
  BY <1>2 DEF EditorInv, EditorTypeOK, NewRecord, Records
<1>5. /\ records' \in [Assets -> SUBSET Records]
      /\ records'[a] = RetainedRecords(a) \cup {new}
      /\ RetainedRecords(a) \subseteq records[a]
      /\ \A b \in Assets \ {a} : records'[b] = records[b]
  BY <1>4 DEF ApplyChanged, EditorInv, EditorTypeOK, RetainedRecords
<1>6. lastTx \in Nat /\ new.id = lastTx + 1 /\ new.dirtyBefore = dirty[a]
  BY DEF EditorInv, EditorTypeOK, NewRecord
<1> HIDE DEF new, c
<1>7. EditorTypeOK'
  BY <1>2, <1>3, <1>5 DEF EditorInv, EditorTypeOK, BufferTypeOK
<1>8. \A b \in Assets : \A r \in records'[b] :
        r \in records[b] \/ (b = a /\ r = new)
  BY <1>5
<1>9. IdsBounded'
  <2>1. \A tx \in Entries : tx.id \in Nat /\ tx.id <= lastTx
    BY IdsAreNumbers
  <2>2. \A b \in Assets : \A r \in records[b] : r.id \in Nat /\ r.id <= lastTx
    BY IdsAreNumbers
  <2>3. \A tx \in Entries' : tx.id <= lastTx'
    BY <1>2, <1>6, <2>1
  <2>4. \A b \in Assets : \A r \in records'[b] : r.id <= lastTx'
    BY <1>2, <1>6, <1>8, <2>2
  <2> QED
    BY <2>3, <2>4 DEF IdsBounded
<1>10. CleanMeansSaved'
  BY <1>2, <1>3 DEF EditorInv, CleanMeansSaved
<1>11. FirstWriteRestoresDisk'
  <2> SUFFICES ASSUME NEW b \in Assets, NEW r \in records'[b],
                      ~r.dirtyBefore, r.id > savedTx'[b], ~tainted'[b],
                      NEW tx \in Entries', tx.id = r.id
               PROVE  tx.before = disk'[b]
    BY DEF FirstWriteRestoresDisk
  <2>1. CASE r \in records[b] /\ tx \in Entries
    BY <2>1, <1>3 DEF EditorInv, FirstWriteRestoresDisk
  <2>2. CASE r \in records[b] /\ tx \notin Entries
    <3>1. r.id <= lastTx /\ r.id \in Nat
      BY <2>2, IdsAreNumbers
    <3> QED
      BY <2>2, <3>1, <1>2, <1>6
  <2>3. CASE b = a /\ r = new /\ tx \notin Entries
    <3>1. ~dirty[a] /\ ~tainted[a] /\ tx.before = resident[a] /\ disk'[a] = disk[a]
      BY <2>3, <1>2, <1>3, <1>6
    <3> QED
      BY <2>3, <3>1 DEF EditorInv, CleanMeansSaved
  <2>4. CASE r = new /\ tx \in Entries
    <3>1. tx.id <= lastTx /\ tx.id = lastTx + 1
      BY <2>4, <1>6 DEF EditorInv, IdsBounded
    <3> QED
      BY <3>1, <1>6
  <2> QED
    BY <1>8, <2>1, <2>2, <2>3, <2>4
<1>12. NoUserEditInsideChain'
  <2> SUFFICES ASSUME NEW b \in Assets, NEW r \in records'[b], NEW s \in records'[b],
                      NEW tx \in Entries', tx.asset = b, ~tx.agent, r.id < tx.id
               PROVE  s.id < tx.id
    BY DEF NoUserEditInsideChain
  <2>1. tx \in Entries
    BY <1>2
  <2>2. CASE r \in records[b] /\ s \in records[b]
    BY <2>1, <2>2 DEF EditorInv, NoUserEditInsideChain
  <2>3. CASE r = new
    <3>1. tx.id <= lastTx /\ tx.id \in Nat
      BY <2>1, IdsAreNumbers
    <3> QED
      BY <2>3, <3>1, <1>6
  <2>4. CASE b = a /\ r \in RetainedRecords(a) /\ r \in records[a]
    <3>1. dirty[a]
      BY <2>4 DEF RetainedRecords
    <3>2. ContinuesChain(a, p)
      BY <3>1 DEF ApplyChanged, ApplyAllowed
    \* The new write dropped the redo entries, so tx is in the Undo buffer.
    <3>3. redo' = <<>> /\ undo \in Seq(Transactions)
      BY <1>1 DEF RecordTransaction, EditorInv, EditorTypeOK
    <3>4. \E i \in 1..Len(undo') : tx = undo'[i]
      BY <3>3, EmptyFacts DEF Entries
    <3>5. PICK e \in Transactions : undo' = Append(undo, e) /\ e.agent = TRUE
      <4>1. [id |-> lastTx + 1, asset |-> a, agent |-> TRUE,
             before |-> resident[a], after |-> c] \in Transactions
        BY <1>1, <1>2 DEF EditorInv, EditorTypeOK, Transactions
      <4> QED
        BY <1>1, <4>1 DEF RecordTransaction
    <3>6. \E i \in 1..Len(undo) : tx = undo[i]
      BY <3>3, <3>4, <3>5, AppendFacts
    <3>7. r.id \in Nat /\ tx.id \in Nat
      BY <2>1, <2>4, IdsAreNumbers
    <3>8. tx.agent
      BY <2>4, <3>2, <3>6, <3>7, ChainHasNoUserEditAbove
    <3> QED
      BY <3>8
  <2> QED
    BY <1>5, <1>8, <2>2, <2>3, <2>4
<1> QED
  BY <1>2, <1>7, <1>9, <1>10, <1>11, <1>12 DEF EditorInv

\* A user edit keeps the invariant: it is newer than every retained write.
LEMMA UserEditKeepsInv ==
  ASSUME EditorInv, NEW a \in Assets, NEW t \in Targets, NEW v \in Values,
         UserEdit(a, t, v)
  PROVE  EditorInv'
<1> DEFINE c == [resident[a] EXCEPT ![t] = v]
<1>1. RecordTransaction(a, c, FALSE) /\ c \in Contents
  BY DEF UserEdit, EditorInv, EditorTypeOK, Contents
<1> HIDE DEF c
<1>2. /\ BufferTypeOK' /\ BufferOrder'
      /\ lastTx' \in 0..MaxTx /\ lastTx' = lastTx + 1
      /\ resident' \in [Assets -> Contents] /\ dirty' \in [Assets -> BOOLEAN]
      /\ dirty'[a] /\ (\A b \in Assets \ {a} : resident'[b] = resident[b] /\ dirty'[b] = dirty[b])
      /\ \A tx \in Entries' : tx \in Entries \/ tx.id = lastTx + 1
  BY <1>1, RecordStep
<1>3. UNCHANGED <<loaded, disk, rev, lastRev, savedTx, session, link, records, tainted>>
  BY DEF UserEdit, diskVars, linkVars
<1>4. EditorTypeOK'
  BY <1>2, <1>3 DEF EditorInv, EditorTypeOK, BufferTypeOK
<1>5. IdsBounded'
  BY <1>2, <1>3, IdsAreNumbers DEF IdsBounded
<1>6. CleanMeansSaved'
  BY <1>2, <1>3 DEF EditorInv, CleanMeansSaved
<1>7. FirstWriteRestoresDisk'
  <2> SUFFICES ASSUME NEW b \in Assets, NEW r \in records[b],
                      ~r.dirtyBefore, r.id > savedTx[b], ~tainted[b],
                      NEW tx \in Entries', tx.id = r.id
               PROVE  tx.before = disk[b]
    BY <1>3 DEF FirstWriteRestoresDisk
  <2>1. tx \in Entries
    BY <1>2, IdsAreNumbers
  <2> QED
    BY <2>1 DEF EditorInv, FirstWriteRestoresDisk
<1>8. NoUserEditInsideChain'
  <2> SUFFICES ASSUME NEW b \in Assets, NEW r \in records[b], NEW s \in records[b],
                      NEW tx \in Entries', tx.asset = b, ~tx.agent, r.id < tx.id
               PROVE  s.id < tx.id
    BY <1>3 DEF NoUserEditInsideChain
  <2>1. CASE tx \in Entries
    BY <2>1 DEF EditorInv, NoUserEditInsideChain
  <2>2. CASE tx.id = lastTx + 1
    BY <2>2, IdsAreNumbers
  <2> QED
    BY <1>2, <2>1, <2>2
<1> QED
  BY <1>2, <1>4, <1>5, <1>6, <1>7, <1>8 DEF EditorInv

\* Undo and Discard keep the invariant: the restored content is the one on
\* disk whenever the restored Dirty flag says so.
LEMMA RevertKeepsInv ==
  ASSUME EditorInv, NEW a \in Assets, NEW id \in Nat, NEW sess, NEW redoable \in BOOLEAN,
         RevertWrite(a, id, sess, redoable)
  PROVE  EditorInv'
<1>1. PICK r \in records[a] :
        /\ r.id = id
        /\ dirty' = [dirty EXCEPT ![a] = r.dirtyBefore]
        /\ records' = [records EXCEPT ![a] = @ \ {r}]
  BY DEF RevertWrite, RestoredDirty
<1>2. /\ undo # <<>> /\ Top(undo).id = id /\ undo' = Pop(undo)
      /\ redo' = Append(redo, Top(undo)) \/ redo' = <<>>
      /\ resident' = [resident EXCEPT ![a] = Top(undo).before]
      /\ tainted' = [tainted EXCEPT ![a] = @ \/ id <= savedTx[a]]
      /\ UNCHANGED <<loaded, disk, rev, lastRev, savedTx, session, link, lastTx>>
  BY DEF RevertWrite, RevertAllowed, IsTop, Top, diskVars, linkVars
<1>3. BufferTypeOK /\ BufferOrder
  BY DEF EditorInv, EditorTypeOK, BufferTypeOK
<1>4. /\ BufferTypeOK' /\ BufferOrder'
      /\ \A tx \in Entries' : tx \in Entries
      /\ Top(undo) \in Transactions /\ Top(undo) \in Entries
  BY <1>2, <1>3, BufferAfterUndo
<1>5. r \in Records /\ r.dirtyBefore \in BOOLEAN /\ Top(undo).before \in Contents
  BY <1>4, IdsAreNumbers DEF Records, Transactions
<1>6. /\ records' \in [Assets -> SUBSET Records]
      /\ \A b \in Assets : records'[b] \subseteq records[b]
  BY <1>1 DEF EditorInv, EditorTypeOK
<1>7. /\ tainted' \in [Assets -> BOOLEAN]
      /\ tainted'[a] = (tainted[a] \/ id <= savedTx[a])
      /\ \A b \in Assets \ {a} : tainted'[b] = tainted[b]
  BY <1>2 DEF EditorInv, EditorTypeOK
<1>8. EditorTypeOK'
  BY <1>1, <1>2, <1>4, <1>5, <1>6, <1>7 DEF EditorInv, EditorTypeOK, BufferTypeOK
<1>9. IdsBounded' /\ FirstWriteRestoresDisk' /\ NoUserEditInsideChain'
  <2>1. \A b \in Assets : \A s \in records'[b] :
          ~s.dirtyBefore /\ s.id > savedTx'[b] /\ ~tainted'[b] =>
            s.id > savedTx[b] /\ ~tainted[b] /\ disk'[b] = disk[b]
    BY <1>2, <1>7
  <2> QED
    BY <1>2, <1>4, <1>6, <2>1, NoNewWriteStep
<1>10. CleanMeansSaved'
  <2> SUFFICES ASSUME NEW b \in Assets, ~dirty'[b], ~tainted'[b]
               PROVE  resident'[b] = disk'[b]
    BY DEF CleanMeansSaved
  <2>1. CASE b = a
    <3>1. ~r.dirtyBefore /\ ~tainted[a] /\ ~(id <= savedTx[a])
      BY <2>1, <1>1, <1>7 DEF EditorInv, EditorTypeOK
    <3>2. savedTx[a] \in Nat
      BY DEF EditorInv, EditorTypeOK
    <3>3. r.id > savedTx[a]
      BY <1>1, <3>1, <3>2
    <3>4. Top(undo).before = disk[a]
      BY <1>1, <1>2, <1>4, <3>1, <3>3 DEF EditorInv, FirstWriteRestoresDisk
    <3> QED
      BY <2>1, <3>4, <1>2 DEF EditorInv, EditorTypeOK
  <2>2. CASE b # a
    BY <2>2, <1>1, <1>2, <1>7 DEF EditorInv, EditorTypeOK, CleanMeansSaved
  <2> QED
    BY <2>1, <2>2
<1> QED
  BY <1>4, <1>8, <1>9, <1>10 DEF EditorInv

\* A save keeps the invariant: what can still be undone is then on disk, and
\* nothing is claimed of it any more.
LEMMA WriteToDiskKeepsInv ==
  ASSUME EditorInv, NEW a \in Assets, WriteToDisk(a),
         UNCHANGED <<loaded, resident, undo, redo, session, link, records, lastTx>>
  PROVE  EditorInv'
<1>1. /\ disk' = [disk EXCEPT ![a] = resident[a]]
      /\ dirty' = [dirty EXCEPT ![a] = FALSE]
      /\ savedTx' = [savedTx EXCEPT ![a] = lastTx]
      /\ tainted' = [tainted EXCEPT ![a] = FALSE]
  BY DEF WriteToDisk
<1>2. rev' \in [Assets -> 0..MaxRev] /\ lastRev' \in 0..MaxRev
  BY BoundsAssumption DEF WriteToDisk, EditorInv, EditorTypeOK
<1>3. EditorTypeOK'
  BY <1>1, <1>2 DEF EditorInv, EditorTypeOK
<1>4. Entries' = Entries
  BY DEF Entries
<1>5. BufferOrder'
  BY DEF EditorInv, BufferOrder
<1>6. CleanMeansSaved'
  BY <1>1 DEF EditorInv, EditorTypeOK, CleanMeansSaved
<1>7. IdsBounded' /\ FirstWriteRestoresDisk' /\ NoUserEditInsideChain'
  <2>1. \A b \in Assets : \A r \in records'[b] :
          ~r.dirtyBefore /\ r.id > savedTx'[b] /\ ~tainted'[b] =>
            r.id > savedTx[b] /\ ~tainted[b] /\ disk'[b] = disk[b]
    <3> SUFFICES ASSUME NEW b \in Assets, NEW r \in records'[b],
                        r.id > savedTx'[b], ~tainted'[b]
                 PROVE  r.id > savedTx[b] /\ ~tainted[b] /\ disk'[b] = disk[b]
      OBVIOUS
    <3>1. CASE b = a
      <4>1. savedTx'[a] = lastTx /\ r.id <= lastTx /\ r.id \in Nat /\ lastTx \in Nat
        BY <1>1, <3>1, IdsAreNumbers DEF EditorInv, EditorTypeOK
      <4> QED
        BY <3>1, <4>1
    <3>2. CASE b # a
      BY <3>2, <1>1 DEF EditorInv, EditorTypeOK
    <3> QED
      BY <3>1, <3>2
  <2> QED
    BY <1>4, <2>1, NoNewWriteStep
<1> QED
  BY <1>3, <1>5, <1>6, <1>7 DEF EditorInv

\* The user's Ctrl+Z keeps the invariant.
LEMMA UserUndoKeepsInv ==
  ASSUME EditorInv, UserUndo
  PROVE  EditorInv'
<1> DEFINE tx == Top(undo)
<1>1. PICK d \in BOOLEAN :
        /\ d \/ tx.before = disk[tx.asset]
        /\ dirty' = [dirty EXCEPT ![tx.asset] = d]
  BY DEF UserUndo, DirtyAfterHistoryStep
<1>2. /\ undo # <<>> /\ undo' = Pop(undo) /\ redo' = Append(redo, tx)
      /\ resident' = [resident EXCEPT ![tx.asset] = tx.before]
      /\ UNCHANGED <<loaded, disk, rev, lastRev, savedTx, session, link, records, lastTx, tainted>>
  BY DEF UserUndo, diskVars, linkVars, historyVars
<1>3. BufferTypeOK /\ BufferOrder
  BY DEF EditorInv, EditorTypeOK, BufferTypeOK
<1>4. /\ BufferTypeOK' /\ BufferOrder'
      /\ \A e \in Entries' : e \in Entries
      /\ tx \in Transactions
  BY <1>2, <1>3, BufferAfterUndo
<1> HIDE DEF tx
<1>5. tx.asset \in Assets /\ tx.before \in Contents
  BY <1>4 DEF Transactions
<1>6. EditorTypeOK'
  BY <1>1, <1>2, <1>4, <1>5 DEF EditorInv, EditorTypeOK, BufferTypeOK
<1>7. IdsBounded' /\ FirstWriteRestoresDisk' /\ NoUserEditInsideChain'
  <2>1. \A a \in Assets : \A r \in records'[a] :
          ~r.dirtyBefore /\ r.id > savedTx'[a] /\ ~tainted'[a] =>
            r.id > savedTx[a] /\ ~tainted[a] /\ disk'[a] = disk[a]
    BY <1>2
  <2> QED
    BY <1>2, <1>4, <2>1, NoNewWriteStep
<1>8. CleanMeansSaved'
  BY <1>1, <1>2, <1>5 DEF EditorInv, EditorTypeOK, CleanMeansSaved
<1> QED
  BY <1>4, <1>6, <1>7, <1>8 DEF EditorInv

\* The user's Ctrl+Y keeps the invariant.
LEMMA UserRedoKeepsInv ==
  ASSUME EditorInv, UserRedo
  PROVE  EditorInv'
<1> DEFINE tx == Top(redo)
<1>1. PICK d \in BOOLEAN :
        /\ d \/ tx.after = disk[tx.asset]
        /\ dirty' = [dirty EXCEPT ![tx.asset] = d]
  BY DEF UserRedo, DirtyAfterHistoryStep
<1>2. /\ redo # <<>> /\ redo' = Pop(redo) /\ undo' = Append(undo, tx)
      /\ resident' = [resident EXCEPT ![tx.asset] = tx.after]
      /\ UNCHANGED <<loaded, disk, rev, lastRev, savedTx, session, link, records, lastTx, tainted>>
  BY DEF UserRedo, diskVars, linkVars, historyVars
<1>3. BufferTypeOK /\ BufferOrder
  BY DEF EditorInv, EditorTypeOK, BufferTypeOK
<1>4. /\ BufferTypeOK' /\ BufferOrder'
      /\ \A e \in Entries' : e \in Entries
      /\ tx \in Transactions
  BY <1>2, <1>3, BufferAfterRedo
<1> HIDE DEF tx
<1>5. tx.asset \in Assets /\ tx.after \in Contents
  BY <1>4 DEF Transactions
<1>6. EditorTypeOK'
  BY <1>1, <1>2, <1>4, <1>5 DEF EditorInv, EditorTypeOK, BufferTypeOK
<1>7. IdsBounded' /\ FirstWriteRestoresDisk' /\ NoUserEditInsideChain'
  <2>1. \A a \in Assets : \A r \in records'[a] :
          ~r.dirtyBefore /\ r.id > savedTx'[a] /\ ~tainted'[a] =>
            r.id > savedTx[a] /\ ~tainted[a] /\ disk'[a] = disk[a]
    BY <1>2
  <2> QED
    BY <1>2, <1>4, <2>1, NoNewWriteStep
<1>8. CleanMeansSaved'
  BY <1>1, <1>2, <1>5 DEF EditorInv, EditorTypeOK, CleanMeansSaved
<1> QED
  BY <1>4, <1>6, <1>7, <1>8 DEF EditorInv

\* Preparing a disk rollback and the end of an Editor process empty the Undo
\* buffer and keep the invariant.
LEMMA ResetKeepsInv ==
  ASSUME EditorInv,
         (\E a \in Assets : PrepareDiskRollback(a)) \/ EditorExit
  PROVE  EditorInv'
<1>1. /\ undo' = <<>> /\ redo' = <<>>
      /\ UNCHANGED <<disk, rev, lastRev, savedTx, session, lastTx>>
  BY DEF PrepareDiskRollback, EditorExit, diskVars, linkVars
<1>2. BufferTypeOK' /\ BufferOrder' /\ Entries' = {}
  BY <1>1, BufferAfterReset
<1>3. /\ link' \in {"available", "playing", "closed"}
      /\ loaded' \in [Assets -> BOOLEAN]
      /\ resident' \in [Assets -> Contents]
      /\ dirty' \in [Assets -> BOOLEAN]
      /\ records' \in [Assets -> SUBSET Records]
      /\ tainted' \in [Assets -> BOOLEAN]
      /\ \A a \in Assets : records'[a] \subseteq records[a]
  BY DEF EditorInv, EditorTypeOK, PrepareDiskRollback, EditorExit, linkVars
<1>4. EditorTypeOK'
  BY <1>1, <1>2, <1>3 DEF EditorInv, EditorTypeOK, BufferTypeOK
<1>5. CleanMeansSaved'
  <2>1. ASSUME NEW a \in Assets, PrepareDiskRollback(a) PROVE CleanMeansSaved'
    BY <2>1 DEF PrepareDiskRollback, EditorInv, EditorTypeOK, CleanMeansSaved, diskVars
  <2>2. ASSUME EditorExit PROVE CleanMeansSaved'
    BY <2>2 DEF EditorExit, CleanMeansSaved, diskVars
  <2> QED
    BY <2>1, <2>2
<1>6. IdsBounded' /\ FirstWriteRestoresDisk' /\ NoUserEditInsideChain'
  <2>1. IdsBounded'
    BY <1>1, <1>2, <1>3 DEF EditorInv, IdsBounded
  <2> QED
    BY <1>2, <2>1 DEF FirstWriteRestoresDisk, NoUserEditInsideChain
<1> QED
  BY <1>2, <1>4, <1>5, <1>6 DEF EditorInv

\* A failed preparation forgets the records of the asset, and perhaps the
\* whole Undo buffer.
LEMMA FailedPreparationKeepsInv ==
  ASSUME EditorInv, NEW a \in Assets, PrepareDiskRollbackFails(a)
  PROVE  EditorInv'
<1>1. /\ UNCHANGED <<loaded, resident, dirty, disk, rev, lastRev, savedTx, session, link,
                     lastTx, tainted>>
      /\ records' \in [Assets -> SUBSET Records]
      /\ \A b \in Assets : records'[b] \subseteq records[b]
  BY DEF PrepareDiskRollbackFails, EditorInv, EditorTypeOK, memoryVars, diskVars, linkVars,
         historyVars
<1>2. BufferTypeOK' /\ BufferOrder' /\ \A tx \in Entries' : tx \in Entries
  <2>1. CASE UNCHANGED bufferVars
    BY <2>1 DEF EditorInv, EditorTypeOK, BufferTypeOK, BufferOrder, Entries, bufferVars
  <2>2. CASE undo' = <<>> /\ redo' = <<>>
    BY <2>2, BufferAfterReset
  <2> QED
    BY <2>1, <2>2 DEF PrepareDiskRollbackFails
<1>3. EditorTypeOK' /\ CleanMeansSaved'
  BY <1>1, <1>2 DEF EditorInv, EditorTypeOK, BufferTypeOK, CleanMeansSaved
<1>4. IdsBounded' /\ FirstWriteRestoresDisk' /\ NoUserEditInsideChain'
  BY <1>1, <1>2, NoNewWriteStep
<1> QED
  BY <1>2, <1>3, <1>4 DEF EditorInv

\* A rollback script changes the file of an asset that has no record.
LEMMA RestoreKeepsInv ==
  ASSUME EditorInv, UnloadedHasNoRecords, NEW a \in Assets, NEW c \in Contents,
         NEW r \in 0..lastRev, RestoreFile(a, c, r)
  PROVE  EditorInv'
<1>1. /\ ~loaded[a] /\ records[a] = {}
      /\ disk' = [disk EXCEPT ![a] = c] /\ resident' = [resident EXCEPT ![a] = c]
      /\ rev' = [rev EXCEPT ![a] = r]
      /\ UNCHANGED <<loaded, dirty, lastRev, savedTx, undo, redo, session, link, records,
                     lastTx, tainted>>
  BY DEF RestoreFile, UnloadedHasNoRecords, bufferVars, linkVars, historyVars
<1>2. r \in 0..MaxRev
  BY BoundsAssumption DEF EditorInv, EditorTypeOK
<1>3. EditorTypeOK' /\ BufferOrder' /\ CleanMeansSaved' /\ Entries' = Entries
  BY <1>1, <1>2 DEF EditorInv, EditorTypeOK, BufferOrder, CleanMeansSaved, Entries
<1>4. \A b \in Assets : \A s \in records'[b] : disk'[b] = disk[b]
  BY <1>1 DEF EditorInv, EditorTypeOK
<1>5. IdsBounded' /\ FirstWriteRestoresDisk' /\ NoUserEditInsideChain'
  BY <1>1, <1>3, <1>4, NoNewWriteStep
<1> QED
  BY <1>3, <1>5 DEF EditorInv

\* No step leaves records of an asset that is not in memory.
LEMMA StepKeepsUnloaded ==
  EditorInv /\ UnloadedHasNoRecords /\ [EditorNext]_editorVars => UnloadedHasNoRecords'
<1> SUFFICES ASSUME EditorInv, UnloadedHasNoRecords, [EditorNext]_editorVars,
                    NEW b \in Assets, ~loaded'[b]
             PROVE  records'[b] = {}
  BY DEF UnloadedHasNoRecords
<1> USE DEF EditorInv, EditorTypeOK, UnloadedHasNoRecords
<1>1. ASSUME NEW a \in Assets, NEW t \in Targets, NEW v \in Values, NEW p \in 0..lastTx,
             BridgeApply(a, t, v, p)
      PROVE  records'[b] = {}
  BY <1>1 DEF BridgeApply, ApplyChanged, ApplyUnchanged, ApplyAllowed, memoryVars
<1>2. ASSUME NEW a \in Assets, NEW id \in 1..lastTx, NEW redoable \in BOOLEAN,
             RevertWrite(a, id, session, redoable)
      PROVE  records'[b] = {}
  BY <1>2 DEF RevertWrite, RevertAllowed
<1>3. ASSUME NEW a \in Assets,
             SaveAsset(a) \/ UserSave(a) \/ UserOpen(a) \/ PrepareDiskRollback(a)
               \/ PrepareDiskRollbackFails(a)
      PROVE  records'[b] = {}
  BY <1>3 DEF SaveAsset, UserSave, UserOpen, PrepareDiskRollback, PrepareDiskRollbackFails,
              memoryVars
<1>4. ASSUME \/ \E a \in Assets, t \in Targets, v \in Values : UserEdit(a, t, v)
             \/ UserUndo \/ UserRedo \/ UserPlay \/ EditorStart
             \/ \E a \in Assets, c \in Contents, r \in 0..lastRev : RestoreFile(a, c, r)
             \/ UNCHANGED editorVars
      PROVE  records'[b] = {}
  BY <1>4 DEF UserEdit, UserUndo, UserRedo, UserPlay, EditorStart, RestoreFile, editorVars,
              memoryVars
<1>5. ASSUME EditorExit PROVE records'[b] = {}
  BY <1>5 DEF EditorExit
<1> QED
  BY <1>1, <1>2, <1>3, <1>4, <1>5 DEF EditorNext, Bridge, User

\* Every step of the bridge, of the user and of the Editor process keeps it.
LEMMA StepKeepsInv ==
  EditorInv /\ UnloadedHasNoRecords /\ [EditorNext]_editorVars => EditorInv'
<1> SUFFICES ASSUME EditorInv, UnloadedHasNoRecords, [EditorNext]_editorVars PROVE EditorInv'
  OBVIOUS
<1> USE DEF memoryVars, diskVars, bufferVars, linkVars, historyVars
<1>1. ASSUME NEW a \in Assets, NEW t \in Targets, NEW v \in Values, NEW p \in 0..lastTx,
             BridgeApply(a, t, v, p)
      PROVE  EditorInv'
  <2>1. CASE ApplyChanged(a, t, v, p)
    <3>1. p \in Nat
      BY IdsAreNumbers
    <3> QED
      BY <2>1, <3>1, ApplyChangedKeepsInv
  <2>2. CASE ApplyUnchanged(a, p)
    <3>1. /\ UNCHANGED <<loaded, resident, dirty, disk, rev, lastRev, savedTx, undo, redo, session,
                         link, lastTx, tainted>>
          /\ records' \in [Assets -> SUBSET Records]
          /\ \A b \in Assets : records'[b] \subseteq records[b]
      BY <2>2 DEF ApplyUnchanged, RetainedRecords, EditorInv, EditorTypeOK
    <3>2. EditorTypeOK' /\ BufferOrder' /\ CleanMeansSaved' /\ Entries' = Entries
      BY <3>1 DEF EditorInv, EditorTypeOK, BufferOrder, CleanMeansSaved, Entries
    <3>3. IdsBounded' /\ FirstWriteRestoresDisk' /\ NoUserEditInsideChain'
      BY <3>1, <3>2, NoNewWriteStep
    <3> QED
      BY <3>2, <3>3 DEF EditorInv
  <2> QED
    BY <1>1, <2>1, <2>2 DEF BridgeApply
<1>2. ASSUME NEW a \in Assets, NEW id \in 1..lastTx, NEW redoable \in BOOLEAN,
             RevertWrite(a, id, session, redoable)
      PROVE  EditorInv'
  BY <1>2, RevertKeepsInv
<1>3. ASSUME NEW a \in Assets, SaveAsset(a) \/ UserSave(a)
      PROVE  EditorInv'
  BY <1>3, WriteToDiskKeepsInv DEF SaveAsset, UserSave
<1>4. ASSUME NEW a \in Assets, PrepareDiskRollback(a)
      PROVE  EditorInv'
  BY <1>4, ResetKeepsInv
<1>5. ASSUME NEW a \in Assets, PrepareDiskRollbackFails(a)
       PROVE  EditorInv'
  BY <1>5, FailedPreparationKeepsInv
<1>6. ASSUME NEW a \in Assets, NEW c \in Contents, NEW r \in 0..lastRev, RestoreFile(a, c, r)
       PROVE  EditorInv'
  BY <1>6, RestoreKeepsInv
<1>7. ASSUME NEW a \in Assets, NEW t \in Targets, NEW v \in Values, UserEdit(a, t, v)
      PROVE  EditorInv'
  BY <1>7, UserEditKeepsInv
<1>8. ASSUME UserUndo PROVE EditorInv'
  BY <1>8, UserUndoKeepsInv
<1>9. ASSUME UserRedo PROVE EditorInv'
  BY <1>9, UserRedoKeepsInv
<1>10. ASSUME \/ \E a \in Assets : UserOpen(a)
             \/ UserPlay \/ EditorStart
             \/ UNCHANGED editorVars
      PROVE  EditorInv'
  <2>1. /\ UNCHANGED <<resident, dirty, disk, rev, lastRev, savedTx, undo, redo, records, lastTx, tainted>>
        /\ loaded' \in [Assets -> BOOLEAN]
        /\ session' \in 1..MaxSessions
        /\ link' \in {"available", "playing", "closed"}
    <3>1. CASE \E a \in Assets : UserOpen(a)
      BY <3>1 DEF UserOpen, EditorInv, EditorTypeOK
    <3>2. CASE UserPlay
      BY <3>2 DEF UserPlay, EditorInv, EditorTypeOK
    <3>3. CASE EditorStart
      BY <3>3, BoundsAssumption DEF EditorStart, EditorInv, EditorTypeOK
    <3>4. CASE UNCHANGED editorVars
      BY <3>4 DEF editorVars, EditorInv, EditorTypeOK
    <3> QED
      BY <1>10, <3>1, <3>2, <3>3, <3>4
  <2>2. EditorTypeOK' /\ BufferOrder' /\ CleanMeansSaved' /\ Entries' = Entries
    BY <2>1 DEF EditorInv, EditorTypeOK, BufferOrder, CleanMeansSaved, Entries
  <2>3. IdsBounded' /\ FirstWriteRestoresDisk' /\ NoUserEditInsideChain'
    BY <2>1, <2>2, NoNewWriteStep
  <2> QED
    BY <2>2, <2>3 DEF EditorInv
<1>11. ASSUME EditorExit PROVE EditorInv'
  BY <1>11, ResetKeepsInv
<1> QED
  BY <1>1, <1>2, <1>3, <1>4, <1>7, <1>8, <1>9, <1>10, <1>11, <1>5, <1>6
     DEF EditorNext, Bridge, User

\* The invariant holds in every reachable state.
THEOREM EditorInvariant == EditorSpec => []EditorInv
<1>1. EditorInit => EditorInv /\ UnloadedHasNoRecords
  BY InitEstablishesInv
<1>2. EditorInv /\ UnloadedHasNoRecords /\ [EditorNext]_editorVars
        => (EditorInv /\ UnloadedHasNoRecords)'
  BY StepKeepsInv, StepKeepsUnloaded
<1> QED
  BY <1>1, <1>2, PTL DEF EditorSpec

-----------------------------------------------------------------------------
(* What it is for                                                          *)

\* Every variable of the Editor and the bridge keeps its type.
THEOREM EditorTypeCorrect == EditorSpec => []EditorTypeOK
<1>1. EditorInv => EditorTypeOK
  BY DEF EditorInv
<1> QED
  BY <1>1, EditorInvariant, PTL

\* A clean package is a saved package, whatever agent writes, user edits,
\* undos and saves led to it, as long as no saved write was undone by the
\* bridge (SetDirtyFlag in RevertLiveWriteTransaction).
THEOREM CleanPackagesAreSaved == EditorSpec => []CleanMeansSaved
<1>1. EditorInv => CleanMeansSaved
  BY DEF EditorInv
<1> QED
  BY <1>1, EditorInvariant, PTL

\* A write accepted now continues its chain over nothing but agent work.
WritesSpareUserEdits ==
  \A a \in Assets, t \in Targets, v \in Values, p \in TxIds :
    ApplyChanged(a, t, v, p) =>
      \A i \in 1..Len(undo), r \in records[a] :
        dirty[a] /\ undo[i].asset = a /\ undo[i].id > r.id => undo[i].agent

LEMMA InvSparesUserEdits == EditorInv => WritesSpareUserEdits
<1> SUFFICES ASSUME EditorInv, NEW a \in Assets, NEW t \in Targets, NEW v \in Values,
                    NEW p \in TxIds, ApplyChanged(a, t, v, p),
                    NEW i \in 1..Len(undo), NEW r \in records[a],
                    dirty[a], undo[i].asset = a, undo[i].id > r.id
             PROVE  undo[i].agent
  BY DEF WritesSpareUserEdits
<1>1. ContinuesChain(a, p)
  BY DEF ApplyChanged, ApplyAllowed
<1> QED
  BY <1>1, ChainHasNoUserEditAbove

\* The chain test of TryApplyAssetPropertyLiveResult never accepts a write on
\* top of the user's unfinished edits.
THEOREM ChainsSpareUserEdits == EditorSpec => ChainSparesUserEdits
<1>1. EditorInv /\ [EditorNext]_editorVars => [WritesSpareUserEdits]_editorVars
  BY InvSparesUserEdits
<1> QED
  BY <1>1, EditorInvariant, PTL DEF EditorSpec, ChainSparesUserEdits, WritesSpareUserEdits

-----------------------------------------------------------------------------
(* As long as the user leaves Ctrl+Z and Ctrl+Y alone                      *)

\* The transactions that can be undone.
Done == {undo[i] : i \in 1..Len(undo)}

\* A transaction of asset a that no save has put on disk yet, before the transaction id.
RecentBefore(a, id) == \E k \in Done : k.asset = a /\ k.id > savedTx[a] /\ k.id < id

\* A dirty package whose transactions are still in the buffer has an unsaved one there.
DirtyIsRecent ==
  \A a \in Assets : dirty[a] =>
    \A tx \in Done : tx.asset = a => \E k \in Done : k.asset = a /\ k.id > savedTx[a]

\* So it was when a retained write continued a chain.
ChainIsRecent ==
  \A a \in Assets : \A r \in records[a] :
    r.dirtyBefore /\ r.id > savedTx[a] => \A tx \in Done : tx.id = r.id => RecentBefore(a, r.id)

\* A retained write is a transaction of its asset, and saves are past.
RecordsAreOfTheirAsset ==
  \A a \in Assets : \A r \in records[a] : \A tx \in Done : tx.id = r.id => tx.asset = a
SavedIsPast == \A a \in Assets : savedTx[a] <= lastTx

RecentInv == /\ EditorInv /\ UnloadedHasNoRecords
             /\ DirtyIsRecent /\ ChainIsRecent /\ RecordsAreOfTheirAsset /\ SavedIsPast

\* Numbers and order of what can be undone.
LEMMA DoneFacts ==
  ASSUME EditorInv
  PROVE  /\ lastTx \in Nat /\ undo \in Seq(Transactions) /\ BufferTypeOK /\ BufferOrder
         /\ \A tx \in Done : tx \in Transactions /\ tx.id \in Nat /\ tx.id <= lastTx
         /\ \A a \in Assets : savedTx[a] \in Nat
         /\ undo # <<>> => Top(undo) \in Done /\ \A tx \in Done : tx.id <= Top(undo).id
<1>1. undo \in Seq(Transactions) /\ BufferTypeOK /\ BufferOrder /\ \A a \in Assets : savedTx[a] \in Nat
  BY BoundsAssumption DEF EditorInv, EditorTypeOK, BufferTypeOK
<1>2. Done \subseteq Entries
  BY DEF Done, Entries
<1>3. lastTx \in Nat /\ \A tx \in Done : tx \in Transactions /\ tx.id \in Nat /\ tx.id <= lastTx
  BY <1>2, IdsAreNumbers
<1>4. ASSUME undo # <<>> PROVE Top(undo) \in Done /\ \A tx \in Done : tx.id <= Top(undo).id
  <2>1. Len(undo) \in Nat /\ Len(undo) \in 1..Len(undo)
    BY <1>1, <1>4, PopFacts
  <2>2. Top(undo) \in Done
    BY <2>1 DEF Top, Done
  <2>3. \A i \in 1..Len(undo) : undo[i].id <= Top(undo).id
    <3> SUFFICES ASSUME NEW i \in 1..Len(undo) PROVE undo[i].id <= Top(undo).id
      OBVIOUS
    <3>1. undo[i] \in Done
      BY DEF Done
    <3>2. CASE i = Len(undo)
      BY <1>3, <3>1, <3>2 DEF Top
    <3>3. CASE i < Len(undo)
      BY <1>1, <1>3, <2>1, <2>2, <3>1, <3>3 DEF BufferOrder, Top
    <3> QED
      BY <2>1, <3>2, <3>3
  <2> QED
    BY <2>2, <2>3 DEF Done
<1> QED
  BY <1>1, <1>3, <1>4

\* What the bridge may undo or continue is not on disk.
LEMMA TopIsRecent ==
  ASSUME RecentInv, NEW a \in Assets, dirty[a], NEW r \in records[a], IsTop(r.id)
  PROVE  /\ undo # <<>> /\ Top(undo) \in Done /\ Top(undo).id = r.id /\ Top(undo).asset = a
         /\ r.id > savedTx[a]
<1>1. undo # <<>> /\ Top(undo).id = r.id
  BY DEF IsTop, Top
<1>2. /\ Top(undo) \in Done /\ (\A tx \in Done : tx.id \in Nat /\ tx.id <= Top(undo).id)
      /\ savedTx[a] \in Nat
  BY <1>1, DoneFacts DEF RecentInv
<1>3. Top(undo).asset = a
  BY <1>1, <1>2 DEF RecentInv, RecordsAreOfTheirAsset
<1>4. PICK k \in Done : k.asset = a /\ k.id > savedTx[a]
  BY <1>2, <1>3 DEF RecentInv, DirtyIsRecent
<1> QED
  BY <1>1, <1>2, <1>3, <1>4

\* A step that neither changes the buffer nor saves.
LEMMA SameBufferStep ==
  ASSUME RecentInv, UNCHANGED <<undo, savedTx, lastTx>>,
         \A a \in Assets : records'[a] \subseteq records[a] /\ (dirty'[a] => dirty[a])
  PROVE  DirtyIsRecent' /\ ChainIsRecent' /\ RecordsAreOfTheirAsset' /\ SavedIsPast'
<1>1. Done' = Done
  BY DEF Done
<1> QED
  BY <1>1 DEF RecentInv, DirtyIsRecent, ChainIsRecent, RecentBefore, RecordsAreOfTheirAsset, SavedIsPast

\* A step that empties the buffer.
LEMMA EmptyBufferStep ==
  ASSUME RecentInv, undo' = <<>>, UNCHANGED <<savedTx, lastTx>>
  PROVE  DirtyIsRecent' /\ ChainIsRecent' /\ RecordsAreOfTheirAsset' /\ SavedIsPast'
<1>1. Done' = {}
  BY EmptyFacts DEF Done
<1> QED
  BY <1>1 DEF RecentInv, DirtyIsRecent, ChainIsRecent, RecordsAreOfTheirAsset, SavedIsPast

\* A save.
LEMMA SaveStepIsRecent ==
  ASSUME RecentInv, NEW a \in Assets, WriteToDisk(a), UNCHANGED <<undo, records, lastTx>>
  PROVE  DirtyIsRecent' /\ ChainIsRecent' /\ RecordsAreOfTheirAsset' /\ SavedIsPast'
<1>1. /\ Done' = Done /\ ~dirty'[a] /\ savedTx'[a] = lastTx
      /\ \A b \in Assets \ {a} : dirty'[b] = dirty[b] /\ savedTx'[b] = savedTx[b]
      /\ lastTx \in Nat
  BY IdsAreNumbers DEF Done, WriteToDisk, RecentInv, EditorInv, EditorTypeOK
<1>2. DirtyIsRecent'
  BY <1>1 DEF RecentInv, DirtyIsRecent
<1>3. \A r \in records[a] : r.id \in Nat /\ r.id <= lastTx
  BY IdsAreNumbers DEF RecentInv
<1>4. ChainIsRecent'
  BY <1>1, <1>3 DEF RecentInv, ChainIsRecent, RecentBefore
<1> QED
  BY <1>1, <1>2, <1>4 DEF RecentInv, RecordsAreOfTheirAsset, SavedIsPast

\* A transaction of asset a enters the buffer; a write is retained only if it continues a chain.
LEMMA RecordIsRecent ==
  ASSUME RecentInv, NEW a \in Assets, NEW c \in Contents, NEW byAgent \in BOOLEAN,
         RecordTransaction(a, c, byAgent), UNCHANGED savedTx,
         \A b \in Assets \ {a} : records'[b] = records[b],
         \A r \in records'[a] : r \in records[a] \/ (r.id = lastTx + 1 /\ r.dirtyBefore = dirty[a]),
         \A r \in records'[a] : r \in records[a] \/ ~dirty[a] \/ \E p : ContinuesChain(a, p)
  PROVE  DirtyIsRecent' /\ ChainIsRecent' /\ RecordsAreOfTheirAsset' /\ SavedIsPast'
<1>1. PICK e : /\ e = [id |-> lastTx + 1, asset |-> a, agent |-> byAgent, before |-> resident[a], after |-> c]
               /\ undo' = Append(undo, e)
  BY DEF RecordTransaction
<1>2. lastTx \in Nat /\ lastTx' = lastTx + 1 /\ undo \in Seq(Transactions)
      /\ (\A tx \in Done : tx.id \in Nat /\ tx.id <= lastTx) /\ (\A b \in Assets : savedTx[b] \in Nat)
  BY DoneFacts DEF RecentInv, RecordTransaction
<1>3. e.id = lastTx + 1 /\ e.asset = a
  BY <1>1
<1>4. Done' = Done \cup {e}
  <2>1. /\ Len(undo) \in Nat /\ Len(undo') = Len(undo) + 1
        /\ \A i \in 1..Len(undo) : undo'[i] = undo[i]
        /\ undo'[Len(undo) + 1] = e
    <3>1. lastTx + 1 \in TxIds
      BY RecordStep DEF RecentInv, RecordTransaction
    <3>2. e \in Transactions
      BY <1>1, <3>1 DEF Transactions, RecentInv, EditorInv, EditorTypeOK
    <3> QED
      BY <1>1, <1>2, <3>2, AppendFacts
  <2>2. \A i \in 1..(Len(undo) + 1) : i \in 1..Len(undo) \/ i = Len(undo) + 1
    BY <2>1
  <2>3. Len(undo) + 1 \in 1..(Len(undo) + 1) /\ \A i \in 1..Len(undo) : i \in 1..(Len(undo) + 1)
    BY <2>1
  <2>4. \A x : x \in Done' => x \in Done \cup {e}
    BY <2>1, <2>2 DEF Done
  <2>5. \A x : x \in Done \cup {e} => x \in Done'
    BY <2>1, <2>3 DEF Done
  <2> QED
    BY <2>4, <2>5
<1>5. dirty'[a] /\ \A b \in Assets \ {a} : dirty'[b] = dirty[b]
  BY RecordStep DEF RecentInv
<1>6. \A b \in Assets : \A r \in records[b] : r.id \in Nat /\ r.id <= lastTx
  BY IdsAreNumbers DEF RecentInv
<1>7. e.id > savedTx[a]
  BY <1>2, <1>3 DEF RecentInv, SavedIsPast
<1>8. DirtyIsRecent'
  <2> SUFFICES ASSUME NEW b \in Assets, dirty'[b], NEW tx \in Done', tx.asset = b
               PROVE  \E k \in Done' : k.asset = b /\ k.id > savedTx'[b]
    BY DEF DirtyIsRecent
  <2>1. CASE b = a
    BY <1>3, <1>4, <1>7, <2>1
  <2>2. CASE b # a
    <3>1. tx \in Done /\ dirty[b]
      BY <1>3, <1>4, <1>5, <2>2
    <3> QED
      BY <1>4, <3>1 DEF RecentInv, DirtyIsRecent
  <2> QED
    BY <2>1, <2>2
<1>9. ChainIsRecent'
  <2> SUFFICES ASSUME NEW b \in Assets, NEW r \in records'[b], r.dirtyBefore, r.id > savedTx[b],
                      NEW tx \in Done', tx.id = r.id
               PROVE  RecentBefore(b, r.id)'
    BY DEF ChainIsRecent, RecentBefore
  <2>1. CASE r \in records[b]
    <3>1. tx \in Done
      BY <1>2, <1>3, <1>4, <1>6, <2>1
    <3>2. RecentBefore(b, r.id)
      BY <2>1, <3>1 DEF RecentInv, ChainIsRecent
    <3> QED
      BY <1>4, <3>2 DEF RecentBefore
  <2>2. CASE r \notin records[b]
    <3>1. b = a /\ r.id = lastTx + 1 /\ dirty[a] /\ \E p : ContinuesChain(a, p)
      BY <2>2
    <3>2. PICK s \in records[a] : IsTop(s.id)
      BY <3>1 DEF ContinuesChain
    <3>3. Top(undo) \in Done /\ Top(undo).asset = a /\ Top(undo).id > savedTx[a]
      BY <3>1, <3>2, TopIsRecent
    <3>4. Top(undo).id < r.id
      BY <1>2, <3>1, <3>3
    <3> QED
      BY <1>4, <3>1, <3>3, <3>4 DEF RecentBefore
  <2> QED
    BY <2>1, <2>2
<1>10. RecordsAreOfTheirAsset'
  <2> SUFFICES ASSUME NEW b \in Assets, NEW r \in records'[b], NEW tx \in Done', tx.id = r.id
               PROVE  tx.asset = b
    BY DEF RecordsAreOfTheirAsset
  <2>1. CASE r \in records[b]
    <3>1. tx \in Done
      BY <1>2, <1>3, <1>4, <1>6, <2>1
    <3> QED
      BY <2>1, <3>1 DEF RecentInv, RecordsAreOfTheirAsset
  <2>2. CASE r \notin records[b]
    BY <1>2, <1>3, <1>4, <2>2
  <2> QED
    BY <2>1, <2>2
<1>11. SavedIsPast'
  BY <1>2 DEF RecentInv, SavedIsPast
<1> QED
  BY <1>8, <1>9, <1>10, <1>11

\* The bridge takes back the newest transaction, which is one of its asset and not on disk.
LEMMA RevertIsRecent ==
  ASSUME RecentInv, NEW a \in Assets, NEW id, NEW sess, NEW redoable, RevertWrite(a, id, sess, redoable)
  PROVE  /\ DirtyIsRecent' /\ ChainIsRecent' /\ RecordsAreOfTheirAsset' /\ SavedIsPast'
         /\ id > savedTx[a]
<1>1. PICK r \in records[a] :
        /\ r.id = id
        /\ dirty' = [dirty EXCEPT ![a] = r.dirtyBefore]
        /\ records' = [records EXCEPT ![a] = @ \ {r}]
  BY DEF RevertWrite, RestoredDirty
<1>2. dirty[a] /\ IsTop(r.id) /\ undo' = Pop(undo) /\ UNCHANGED <<savedTx, lastTx>>
  BY <1>1 DEF RevertWrite, RevertAllowed, diskVars
<1>3. undo # <<>> /\ Top(undo) \in Done /\ Top(undo).id = r.id /\ Top(undo).asset = a /\ r.id > savedTx[a]
  BY <1>2, TopIsRecent
<1>4. /\ \A tx \in Done : tx.id \in Nat /\ tx.id <= Top(undo).id
      /\ undo \in Seq(Transactions)
  BY <1>3, DoneFacts DEF RecentInv
<1>5. /\ \A tx \in Done' : tx \in Done
      /\ \A tx \in Done : tx \in Done' \/ tx = Top(undo)
  <2>1. /\ Len(undo) \in Nat \ {0} /\ Len(Pop(undo)) = Len(undo) - 1
        /\ \A i \in 1..(Len(undo) - 1) : Pop(undo)[i] = undo[i]
    BY <1>3, <1>4, PopFacts
  <2>2. \A i \in 1..Len(undo) : i \in 1..(Len(undo) - 1) \/ i = Len(undo)
    BY <2>1
  <2>3. \A i \in 1..(Len(undo) - 1) : i \in 1..Len(undo)
    BY <2>1
  <2> QED
    BY <1>2, <2>1, <2>2, <2>3 DEF Done, Top
<1>6. /\ dirty'[a] = r.dirtyBefore /\ \A b \in Assets \ {a} : dirty'[b] = dirty[b]
      /\ \A b \in Assets : records'[b] \subseteq records[b]
  BY <1>1 DEF RecentInv, EditorInv, EditorTypeOK
<1>7. DirtyIsRecent'
  <2> SUFFICES ASSUME NEW b \in Assets, dirty'[b], NEW tx \in Done', tx.asset = b
               PROVE  \E k \in Done' : k.asset = b /\ k.id > savedTx'[b]
    BY DEF DirtyIsRecent
  <2>1. CASE b = a
    <3>1. RecentBefore(a, r.id)
      BY <1>3, <1>6, <2>1 DEF RecentInv, ChainIsRecent
    <3>2. PICK k \in Done : k.asset = a /\ k.id > savedTx[a] /\ k.id < r.id
      BY <3>1 DEF RecentBefore
    <3>3. k \in Done'
      BY <1>3, <1>4, <1>5, <3>2
    <3> QED
      BY <1>2, <2>1, <3>2, <3>3
  <2>2. CASE b # a
    <3>1. PICK k \in Done : k.asset = b /\ k.id > savedTx[b]
      BY <1>5, <1>6, <2>2 DEF RecentInv, DirtyIsRecent
    <3> QED
      BY <1>2, <1>3, <1>5, <2>2, <3>1
  <2> QED
    BY <2>1, <2>2
<1>8. ChainIsRecent'
  <2> SUFFICES ASSUME NEW b \in Assets, NEW s \in records'[b], s.dirtyBefore, s.id > savedTx[b],
                      NEW tx \in Done', tx.id = s.id
               PROVE  RecentBefore(b, s.id)'
    BY <1>2 DEF ChainIsRecent, RecentBefore
  <2>1. s \in records[b] /\ tx \in Done
    BY <1>5, <1>6
  <2>2. PICK k \in Done : k.asset = b /\ k.id > savedTx[b] /\ k.id < s.id
    BY <2>1 DEF RecentInv, ChainIsRecent, RecentBefore
  <2>3. k \in Done'
    BY <1>4, <1>5, <2>1, <2>2
  <2> QED
    BY <1>2, <2>2, <2>3 DEF RecentBefore
<1>9. RecordsAreOfTheirAsset' /\ SavedIsPast'
  BY <1>2, <1>5, <1>6 DEF RecentInv, RecordsAreOfTheirAsset, SavedIsPast
<1> QED
  BY <1>1, <1>3, <1>7, <1>8, <1>9

\* Every other step keeps it as well.
LEMMA StepKeepsRecent ==
  ASSUME RecentInv, EditorInv', UnloadedHasNoRecords', [EditorNext]_editorVars,
         "undo" \notin UserActions, "redo" \notin UserActions
  PROVE  RecentInv'
<1> USE DEF memoryVars, diskVars, bufferVars, linkVars, historyVars
<1> DEFINE Rest == DirtyIsRecent' /\ ChainIsRecent' /\ RecordsAreOfTheirAsset' /\ SavedIsPast'
<1>1. /\ records \in [Assets -> SUBSET Records] /\ dirty \in [Assets -> BOOLEAN]
      /\ resident \in [Assets -> Contents]
  BY DEF RecentInv, EditorInv, EditorTypeOK
<1>2. ASSUME NEW a \in Assets, NEW t \in Targets, NEW v \in Values, NEW p \in 0..lastTx,
             BridgeApply(a, t, v, p)
      PROVE  Rest
  <2>1. CASE ApplyChanged(a, t, v, p)
    <3>1. PICK c : c = [resident[a] EXCEPT ![t] = v]
      OBVIOUS
    <3>2. c \in Contents /\ RecordTransaction(a, c, TRUE) /\ UNCHANGED savedTx
      BY <1>1, <2>1, <3>1 DEF ApplyChanged, Contents
    <3>3. records'[a] = RetainedRecords(a) \cup {NewRecord(a, t, v)} /\ \A b \in Assets \ {a} : records'[b] = records[b]
      BY <1>1, <2>1 DEF ApplyChanged
    <3>4. PICK n : n = NewRecord(a, t, v)
      OBVIOUS
    <3>5. n.id = lastTx + 1 /\ n.dirtyBefore = dirty[a]
      BY <3>4 DEF NewRecord
    <3>6. \A r \in records'[a] : r \in records[a] \/ r = n
      BY <3>3, <3>4 DEF RetainedRecords
    <3>7. ~dirty[a] \/ \E q : ContinuesChain(a, q)
      BY <2>1 DEF ApplyChanged, ApplyAllowed
    <3> QED
      BY <3>2, <3>3, <3>5, <3>6, <3>7, RecordIsRecent
  <2>2. CASE ApplyUnchanged(a, p)
    <3>1. /\ UNCHANGED <<undo, savedTx, lastTx, dirty>>
          /\ \A b \in Assets : records'[b] \subseteq records[b]
      BY <1>1, <2>2 DEF ApplyUnchanged, RetainedRecords
    <3> QED
      BY <3>1, SameBufferStep
  <2> QED
    BY <1>2, <2>1, <2>2 DEF BridgeApply
<1>3. ASSUME NEW a \in Assets, NEW id \in 1..lastTx, NEW redoable \in BOOLEAN,
             RevertWrite(a, id, session, redoable)
      PROVE  Rest
  BY <1>3, RevertIsRecent
<1>4. ASSUME NEW a \in Assets, SaveAsset(a) \/ UserSave(a) PROVE Rest
  BY <1>4, SaveStepIsRecent DEF SaveAsset, UserSave
<1>5. ASSUME NEW a \in Assets, PrepareDiskRollback(a) PROVE Rest
  BY <1>5, EmptyBufferStep DEF PrepareDiskRollback
<1>6. ASSUME NEW a \in Assets, PrepareDiskRollbackFails(a) PROVE Rest
  <2>1. /\ UNCHANGED <<savedTx, lastTx, dirty>> /\ (UNCHANGED undo \/ undo' = <<>>)
        /\ \A b \in Assets : records'[b] \subseteq records[b]
    BY <1>1, <1>6 DEF PrepareDiskRollbackFails
  <2> QED
    BY <2>1, SameBufferStep, EmptyBufferStep
<1>7. ASSUME NEW a \in Assets, NEW t \in Targets, NEW v \in Values, UserEdit(a, t, v) PROVE Rest
  <2>1. PICK c : c = [resident[a] EXCEPT ![t] = v]
    OBVIOUS
  <2>2. c \in Contents /\ RecordTransaction(a, c, FALSE) /\ UNCHANGED <<savedTx, records>>
    BY <1>1, <1>7, <2>1 DEF UserEdit, Contents
  <2> QED
    BY <2>2, RecordIsRecent
<1>8. ASSUME \/ \E a \in Assets, c \in Contents, r \in 0..lastRev : RestoreFile(a, c, r)
             \/ \E a \in Assets : UserOpen(a)
             \/ UserPlay \/ EditorStart \/ UNCHANGED editorVars
      PROVE  Rest
  <2>1. UNCHANGED <<undo, savedTx, lastTx, records, dirty>>
    BY <1>8 DEF RestoreFile, UserOpen, UserPlay, EditorStart, editorVars
  <2> QED
    BY <2>1, SameBufferStep
<1>9. ~UserUndo /\ ~UserRedo
  BY DEF UserUndo, UserRedo
<1>10. ASSUME EditorExit PROVE Rest
  BY <1>10, EmptyBufferStep DEF EditorExit
<1>11. Rest
  BY <1>2, <1>3, <1>4, <1>5, <1>6, <1>7, <1>8, <1>9, <1>10 DEF EditorNext, Bridge, User
<1> QED
  BY <1>11 DEF RecentInv

\* It holds when the first Editor process has started.
LEMMA InitIsRecent == EditorInit => RecentInv
<1>1. EditorInit => EditorInv /\ UnloadedHasNoRecords
  BY InitEstablishesInv
<1> QED
  BY <1>1, BoundsAssumption DEF EditorInit, RecentInv, DirtyIsRecent, ChainIsRecent, RecordsAreOfTheirAsset, SavedIsPast

\* "The target package was saved after the live write; the write can no longer be undone": the
\* bridge keeps that promise for every client as long as the user leaves Ctrl+Z and Ctrl+Y alone.
\* With them it does not, which a run shows.
THEOREM SavedWritesStayWithoutHistorySteps ==
  ASSUME "undo" \notin UserActions, "redo" \notin UserActions
  PROVE  EditorSpec => []SavedWritesAreNotUndone
<1>1. RecentInv /\ SavedWritesAreNotUndone /\ [EditorNext]_editorVars
        => RecentInv' /\ SavedWritesAreNotUndone'
  <2> SUFFICES ASSUME RecentInv, SavedWritesAreNotUndone, [EditorNext]_editorVars
               PROVE  RecentInv' /\ SavedWritesAreNotUndone'
    OBVIOUS
  <2>1. RecentInv'
    BY StepKeepsRecent, StepKeepsInv, StepKeepsUnloaded DEF RecentInv
  <2>2. /\ tainted \in [Assets -> BOOLEAN] /\ (\A a \in Assets : ~tainted[a])
        /\ tainted' \in [Assets -> BOOLEAN]
    BY <2>1 DEF RecentInv, EditorInv, EditorTypeOK, SavedWritesAreNotUndone
  <2>3. ASSUME NEW a \in Assets, NEW id \in 1..lastTx, NEW redoable \in BOOLEAN,
               RevertWrite(a, id, session, redoable)
        PROVE  tainted' = tainted
    <3>1. id > savedTx[a] /\ id \in Nat /\ savedTx[a] \in Nat
      BY <2>3, RevertIsRecent, DoneFacts DEF RecentInv
    <3>2. ~(id <= savedTx[a])
      BY <3>1
    <3>3. tainted' = [tainted EXCEPT ![a] = @ \/ id <= savedTx[a]]
      BY <2>3 DEF RevertWrite
    <3> QED
      BY <2>2, <3>2, <3>3
  <2>4. ASSUME NEW a \in Assets, SaveAsset(a) \/ UserSave(a) \/ PrepareDiskRollback(a)
        PROVE  tainted' = [tainted EXCEPT ![a] = FALSE]
    BY <2>4 DEF SaveAsset, UserSave, WriteToDisk, PrepareDiskRollback
  <2>5. ASSUME EditorExit PROVE SavedWritesAreNotUndone'
    BY <2>5 DEF EditorExit, SavedWritesAreNotUndone
  <2>6. ASSUME UNCHANGED tainted PROVE SavedWritesAreNotUndone'
    BY <2>2, <2>6 DEF SavedWritesAreNotUndone
  <2>7. ASSUME NEW a \in Assets, tainted' = [tainted EXCEPT ![a] = FALSE] PROVE SavedWritesAreNotUndone'
    BY <2>2, <2>7 DEF SavedWritesAreNotUndone
  <2>8. ASSUME [EditorNext]_editorVars,
               \A a \in Assets, id \in 1..lastTx, redoable \in BOOLEAN : ~RevertWrite(a, id, session, redoable),
               \A a \in Assets : ~SaveAsset(a) /\ ~UserSave(a) /\ ~PrepareDiskRollback(a),
               ~EditorExit
        PROVE  UNCHANGED tainted
    BY <2>8 DEF EditorNext, Bridge, User, BridgeApply, ApplyChanged, ApplyUnchanged, PrepareDiskRollbackFails,
                UserEdit, UserUndo, UserRedo, UserOpen, RestoreFile, UserPlay, EditorStart, editorVars, historyVars
  <2> QED
    BY <2>1, <2>3, <2>4, <2>5, <2>6, <2>7, <2>8
<1>2. EditorInit => SavedWritesAreNotUndone
  BY DEF EditorInit, SavedWritesAreNotUndone
<1> QED
  BY <1>1, <1>2, InitIsRecent, PTL DEF EditorSpec

-----------------------------------------------------------------------------
(* What only grows                                                         *)

\* Transactions are numbered upwards, and a new record is of a new one.
LEMMA EditorGrows ==
  ASSUME EditorInv, SavedIsPast, [EditorNext]_editorVars
  PROVE  /\ lastTx \in Nat /\ lastTx' \in Nat /\ lastTx <= lastTx'
         /\ \A a \in Assets : savedTx[a] \in Nat /\ savedTx'[a] \in Nat /\ savedTx[a] <= savedTx'[a]
         /\ \A a \in Assets : \A r \in records[a] : r.id \in Nat /\ r.id <= lastTx
         /\ \A a \in Assets : \A r \in records'[a] : r \in records[a] \/ ~(r.id <= lastTx)
  <1> USE DEF memoryVars, diskVars, bufferVars, linkVars, historyVars
  <1>1. /\ lastTx \in Nat /\ lastTx + 1 \in Nat /\ ~(lastTx + 1 <= lastTx)
        /\ savedTx \in [Assets -> Nat] /\ records \in [Assets -> SUBSET Records]
        /\ \A a \in Assets : savedTx[a] <= lastTx
    BY BoundsAssumption DEF EditorInv, EditorTypeOK, SavedIsPast
  <1>2. \A a \in Assets : \A r \in records[a] : r.id \in Nat /\ r.id <= lastTx
    BY IdsAreNumbers
  <1> DEFINE Grows == /\ lastTx' \in Nat /\ lastTx <= lastTx'
                      /\ \A a \in Assets : savedTx'[a] \in Nat /\ savedTx[a] <= savedTx'[a]
                      /\ \A a \in Assets : \A r \in records'[a] : r \in records[a] \/ ~(r.id <= lastTx)
  <1>3. ASSUME lastTx' = lastTx \/ lastTx' = lastTx + 1, UNCHANGED savedTx,
               \A a \in Assets : records'[a] \subseteq records[a]
        PROVE  Grows
    BY <1>1, <1>3
  <1>4. ASSUME NEW a \in Assets, WriteToDisk(a), UNCHANGED <<lastTx, records>>
        PROVE  Grows
    BY <1>1, <1>4 DEF WriteToDisk
  <1>5. ASSUME NEW a \in Assets, NEW t \in Targets, NEW v \in Values, NEW p \in 0..lastTx, ApplyChanged(a, t, v, p)
        PROVE  Grows
    <2>1. PICK x : x = NewRecord(a, t, v)
      OBVIOUS
    <2>2. PICK R : R = RetainedRecords(a) \cup {x}
      OBVIOUS
    <2>3. /\ records' = [records EXCEPT ![a] = R] /\ lastTx' = lastTx + 1 /\ UNCHANGED savedTx
      BY <1>5, <2>1, <2>2 DEF ApplyChanged, RecordTransaction
    <2>4. x.id = lastTx + 1
      BY <2>1 DEF NewRecord
    <2>5. \A r \in R : r \in records[a] \/ r = x
      BY <2>2 DEF RetainedRecords
    <2>6. \A d \in Assets : \A r \in records'[d] : r \in records[d] \/ ~(r.id <= lastTx)
      BY <1>1, <2>3, <2>4, <2>5
    <2> QED
      BY <1>1, <2>3, <2>6
  <1>6. ASSUME NEW a \in Assets, NEW p \in 0..lastTx, ApplyUnchanged(a, p)
        PROVE  Grows
    BY <1>1, <1>3, <1>6 DEF ApplyUnchanged, RetainedRecords
  <1>7. ASSUME NEW a \in Assets, NEW id, NEW redoable, RevertWrite(a, id, session, redoable)
        PROVE  Grows
    <2>1. PICK r : records' = [records EXCEPT ![a] = @ \ {r}]
      BY <1>7 DEF RevertWrite
    <2>2. \A d \in Assets : records'[d] \subseteq records[d]
      BY <1>1, <2>1
    <2> QED
      BY <1>3, <1>7, <2>2 DEF RevertWrite
  <1>8. ASSUME NEW a \in Assets, SaveAsset(a) \/ PrepareDiskRollback(a) \/ PrepareDiskRollbackFails(a)
        PROVE  Grows
    <2>1. CASE SaveAsset(a)
      BY <1>4, <2>1 DEF SaveAsset
    <2>2. CASE PrepareDiskRollback(a) \/ PrepareDiskRollbackFails(a)
      <3>1. /\ \A d \in Assets : records'[d] \subseteq records[d]
            /\ lastTx' = lastTx /\ UNCHANGED savedTx
        BY <1>1, <2>2 DEF PrepareDiskRollback, PrepareDiskRollbackFails
      <3> QED
        BY <1>3, <3>1
    <2> QED
      BY <1>8, <2>1, <2>2
  <1>9. ASSUME Bridge PROVE Grows
    BY <1>5, <1>6, <1>7, <1>8, <1>9 DEF Bridge, BridgeApply
  <1>10. ASSUME User PROVE Grows
    <2>1. ASSUME NEW a \in Assets, UserSave(a) PROVE Grows
      BY <1>4, <2>1 DEF UserSave
    <2>2. CASE EditorExit
      BY <1>1, <1>3, <2>2 DEF EditorExit
    <2>3. ASSUME \/ \E a \in Assets, t \in Targets, v \in Values : UserEdit(a, t, v)
                 \/ UserUndo \/ UserRedo \/ UserPlay \/ EditorStart
                 \/ \E a \in Assets : UserOpen(a)
                 \/ \E a \in Assets, c \in Contents, r \in 0..lastRev : RestoreFile(a, c, r)
          PROVE  Grows
      <3>1. UNCHANGED <<savedTx, records>> /\ (lastTx' = lastTx \/ lastTx' = lastTx + 1)
        BY <2>3 DEF UserEdit, RecordTransaction, UserUndo, UserRedo, UserPlay, EditorStart, UserOpen, RestoreFile
      <3> QED
        BY <1>3, <3>1
    <2> QED
      BY <1>10, <2>1, <2>2, <2>3 DEF User
  <1>11. ASSUME UNCHANGED editorVars PROVE Grows
    BY <1>3, <1>11 DEF editorVars
  <1>12. Grows
    BY <1>9, <1>10, <1>11 DEF EditorNext
  <1> QED
    BY <1>1, <1>2, <1>12

\* What a step of the Editor does to the package files.
LEMMA EditorRevisions ==
  ASSUME EditorInv, [EditorNext]_editorVars
  PROVE  /\ lastRev <= lastRev'
         /\ \A a \in Assets :
              \/ rev'[a] = rev[a] /\ disk'[a] = disk[a]
              \/ rev'[a] = lastRev + 1 /\ lastRev' = lastRev + 1
              \/ "restore" \in UserActions /\ rev'[a] <= lastRev /\ lastRev' = lastRev
  <1>1. /\ lastRev \in Nat /\ rev \in [Assets -> 0..MaxRev] /\ disk \in [Assets -> Contents]
    BY BoundsAssumption DEF EditorInv, EditorTypeOK
  <1>2. CASE UNCHANGED <<disk, rev, lastRev>>
    BY <1>1, <1>2
  <1>3. CASE \E a \in Assets : WriteToDisk(a)
    BY <1>1, <1>3 DEF WriteToDisk
  <1>4. CASE \E a \in Assets, c \in Contents, r \in 0..lastRev : "restore" \in UserActions /\ RestoreFile(a, c, r)
    BY <1>1, <1>4 DEF RestoreFile
  <1>5. ASSUME NEW a \in Assets, NEW t \in Targets, NEW v \in Values, NEW p \in 0..lastTx, BridgeApply(a, t, v, p)
        PROVE  UNCHANGED <<disk, rev, lastRev>>
    BY <1>5 DEF BridgeApply, ApplyChanged, ApplyUnchanged, diskVars
  <1>6. ASSUME NEW a \in Assets, NEW id \in 1..lastTx, NEW redoable \in BOOLEAN, RevertWrite(a, id, session, redoable)
        PROVE  UNCHANGED <<disk, rev, lastRev>>
    BY <1>6 DEF RevertWrite, diskVars
  <1>7. ASSUME NEW a \in Assets, SaveAsset(a) \/ UserSave(a)
        PROVE  WriteToDisk(a)
    BY <1>7 DEF SaveAsset, UserSave
  <1>8. ASSUME NEW a \in Assets, PrepareDiskRollback(a) \/ PrepareDiskRollbackFails(a) \/ UserOpen(a)
        PROVE  UNCHANGED <<disk, rev, lastRev>>
    BY <1>8 DEF PrepareDiskRollback, PrepareDiskRollbackFails, UserOpen, diskVars
  <1>9. ASSUME NEW a \in Assets, NEW t \in Targets, NEW v \in Values, UserEdit(a, t, v)
        PROVE  UNCHANGED <<disk, rev, lastRev>>
    BY <1>9 DEF UserEdit, diskVars
  <1>10. ASSUME UserUndo \/ UserRedo \/ UserPlay \/ EditorExit \/ EditorStart \/ UNCHANGED editorVars
         PROVE  UNCHANGED <<disk, rev, lastRev>>
    BY <1>10 DEF UserUndo, UserRedo, UserPlay, EditorExit, EditorStart, editorVars, diskVars
  <1> QED
    BY <1>2, <1>3, <1>4, <1>5, <1>6, <1>7, <1>8, <1>9, <1>10 DEF EditorNext, Bridge, User

-----------------------------------------------------------------------------
(* As long as only the agent writes                                        *)

\* The writes of an asset no save has put on disk.
Pending(a) == {r \in records[a] : r.id > savedTx[a]}

\* A package is dirty by its pending writes alone, and a write knows whether it was dirty before.
DirtyIsPending == \A a \in Assets : dirty[a] <=> Pending(a) # {}
DirtyBeforeFits ==
  \A a \in Assets : \A r \in Pending(a) : r.dirtyBefore <=> \E q \in Pending(a) : q.id < r.id

\* Each pending write is a transaction of its own, which can still be undone.
PendingCanBeUndone == \A a \in Assets : \A r \in Pending(a) : \E tx \in Done : tx.id = r.id
RecordsAreDistinct == \A a \in Assets : \A q, r \in records[a] : q.id = r.id => q = r

\* Content differs from the file only where a pending write went, before each transaction too.
OnlyPendingDiffers ==
  \A a \in Assets, t \in Targets : resident[a][t] # disk[a][t] => \E r \in Pending(a) : r.target = t
OnlyPendingDiffered ==
  \A tx \in Done : tx.id > savedTx[tx.asset] => \A t \in Targets :
    tx.before[t] # disk[tx.asset][t] => \E r \in Pending(tx.asset) : r.id < tx.id /\ r.target = t

AgentEditorParts ==
  /\ DirtyIsPending /\ DirtyBeforeFits /\ PendingCanBeUndone /\ RecordsAreDistinct
  /\ OnlyPendingDiffers /\ OnlyPendingDiffered
AgentEditorInv == RecentInv /\ AgentEditorParts

\* Types of what the agent's steps change.
LEMMA AgentTypes ==
  ASSUME RecentInv
  PROVE  /\ records \in [Assets -> SUBSET Records] /\ dirty \in [Assets -> BOOLEAN]
         /\ resident \in [Assets -> Contents] /\ disk \in [Assets -> Contents]
         /\ lastTx \in Nat /\ savedTx \in [Assets -> Nat]
         /\ \A a \in Assets : savedTx[a] <= lastTx
         /\ \A a \in Assets : \A r \in records[a] : r \in Records /\ r.id \in Nat /\ r.id <= lastTx
         /\ \A tx \in Done : tx \in Transactions /\ tx.id \in Nat /\ tx.id <= lastTx
                             /\ tx.asset \in Assets /\ tx.before \in Contents
<1>1. /\ records \in [Assets -> SUBSET Records] /\ dirty \in [Assets -> BOOLEAN]
      /\ resident \in [Assets -> Contents] /\ disk \in [Assets -> Contents]
      /\ lastTx \in Nat /\ savedTx \in [Assets -> Nat]
      /\ \A a \in Assets : savedTx[a] <= lastTx
  BY BoundsAssumption DEF RecentInv, EditorInv, EditorTypeOK, SavedIsPast
<1>2. \A a \in Assets : \A r \in records[a] : r \in Records /\ r.id \in Nat /\ r.id <= lastTx
  BY <1>1, IdsAreNumbers DEF RecentInv
<1>3. \A tx \in Done : tx \in Transactions /\ tx.id \in Nat /\ tx.id <= lastTx
  BY DoneFacts DEF RecentInv
<1>4. \A tx \in Transactions : tx.asset \in Assets /\ tx.before \in Contents
  BY DEF Transactions
<1> QED
  BY <1>1, <1>2, <1>3, <1>4

\* The parts depend on these variables alone.
LEMMA AgentUnchanged ==
  ASSUME AgentEditorInv, UNCHANGED <<records, savedTx, dirty, resident, disk, undo>>
  PROVE  AgentEditorParts' /\ \A a \in Assets : Pending(a)' = Pending(a)
<1>1. \A a \in Assets : Pending(a)' = Pending(a)
  BY DEF Pending
<1>2. Done' = Done
  BY DEF Done
<1>3. DirtyIsPending' /\ DirtyBeforeFits' /\ PendingCanBeUndone' /\ RecordsAreDistinct' /\ OnlyPendingDiffers'
  BY <1>1, <1>2 DEF PendingCanBeUndone, AgentEditorInv, AgentEditorParts, DirtyIsPending, DirtyBeforeFits, RecordsAreDistinct, OnlyPendingDiffers
<1>4. OnlyPendingDiffered'
  BY <1>1, <1>2, AgentTypes DEF AgentEditorInv, AgentEditorParts, OnlyPendingDiffered
<1> QED
  BY <1>1, <1>3, <1>4 DEF AgentEditorParts

\* A failed write leaves a clean package without records.
LEMMA AgentApplyUnchanged ==
  ASSUME AgentEditorInv, NEW a \in Assets, NEW p, ApplyUnchanged(a, p)
  PROVE  AgentEditorParts' /\ \A b \in Assets : Pending(b)' = Pending(b)
<1>1. /\ records' = [records EXCEPT ![a] = RetainedRecords(a)]
      /\ UNCHANGED <<savedTx, dirty, resident, disk, undo>>
  BY DEF ApplyUnchanged, memoryVars, diskVars, bufferVars, historyVars
<1>2. \A b \in Assets : records'[b] \subseteq records[b] /\ (b # a \/ dirty[a] => records'[b] = records[b])
  BY <1>1, AgentTypes DEF AgentEditorInv, RetainedRecords
<1>3. ASSUME NEW b \in Assets PROVE Pending(b)' = Pending(b)
  <2>1. CASE b # a \/ dirty[a]
    BY <1>1, <1>2, <2>1 DEF Pending
  <2>2. CASE b = a /\ ~dirty[a]
    <3>1. Pending(a) = {}
      BY <2>2 DEF AgentEditorInv, AgentEditorParts, DirtyIsPending
    <3> QED
      BY <1>1, <1>2, <2>2, <3>1 DEF Pending
  <2> QED
    BY <2>1, <2>2
<1>4. Done' = Done
  BY <1>1 DEF Done
<1>5. DirtyIsPending' /\ DirtyBeforeFits' /\ PendingCanBeUndone' /\ OnlyPendingDiffers'
  BY <1>1, <1>3, <1>4 DEF PendingCanBeUndone, AgentEditorInv, AgentEditorParts, DirtyIsPending, DirtyBeforeFits, OnlyPendingDiffers
<1>6. RecordsAreDistinct'
  BY <1>2 DEF AgentEditorInv, AgentEditorParts, RecordsAreDistinct
<1>7. OnlyPendingDiffered'
  BY <1>1, <1>3, <1>4, AgentTypes DEF AgentEditorInv, AgentEditorParts, OnlyPendingDiffered
<1> QED
  BY <1>3, <1>5, <1>6, <1>7 DEF AgentEditorParts

\* A save leaves nothing of its package pending.
LEMMA AgentSave ==
  ASSUME AgentEditorInv, NEW a \in Assets, SaveAsset(a)
  PROVE  /\ AgentEditorParts'
         /\ Pending(a)' = {} /\ \A b \in Assets \ {a} : Pending(b)' = Pending(b)
<1>1. /\ savedTx' = [savedTx EXCEPT ![a] = lastTx] /\ dirty' = [dirty EXCEPT ![a] = FALSE]
      /\ disk' = [disk EXCEPT ![a] = resident[a]] /\ UNCHANGED <<resident, undo, records>>
  BY DEF SaveAsset, WriteToDisk, bufferVars
<1>2. /\ savedTx'[a] = lastTx /\ ~dirty'[a] /\ disk'[a] = resident[a]
      /\ \A b \in Assets \ {a} : savedTx'[b] = savedTx[b] /\ dirty'[b] = dirty[b] /\ disk'[b] = disk[b]
  BY <1>1, AgentTypes DEF AgentEditorInv
<1>3. Pending(a)' = {}
  BY <1>1, <1>2, AgentTypes DEF Pending, AgentEditorInv
<1>4. \A b \in Assets \ {a} : Pending(b)' = Pending(b)
  BY <1>1, <1>2 DEF Pending
<1>5. Done' = Done
  BY <1>1 DEF Done
<1>6. /\ DirtyIsPending' /\ DirtyBeforeFits' /\ PendingCanBeUndone'
      /\ OnlyPendingDiffers' /\ RecordsAreDistinct'
  BY <1>1, <1>2, <1>3, <1>4, <1>5
     DEF PendingCanBeUndone, AgentEditorInv, AgentEditorParts, DirtyIsPending, DirtyBeforeFits, OnlyPendingDiffers, RecordsAreDistinct
<1>7. OnlyPendingDiffered'
  <2> SUFFICES ASSUME NEW tx \in Done, tx.id > savedTx'[tx.asset], NEW t \in Targets,
                      tx.before[t] # disk'[tx.asset][t]
               PROVE  \E r \in Pending(tx.asset)' : r.id < tx.id /\ r.target = t
    BY <1>5 DEF OnlyPendingDiffered
  <2>1. tx.id \in Nat /\ tx.id <= lastTx /\ tx.asset \in Assets /\ lastTx \in Nat
    BY AgentTypes DEF AgentEditorInv
  <2>2. tx.asset # a
    BY <1>2, <2>1
  <2> QED
    BY <1>2, <1>4, <2>1, <2>2 DEF AgentEditorInv, AgentEditorParts, OnlyPendingDiffered
<1> QED
  BY <1>3, <1>4, <1>6, <1>7 DEF AgentEditorParts

\* When the Editor exits, nothing is pending.
LEMMA AgentExit ==
  ASSUME AgentEditorInv, EditorExit
  PROVE  AgentEditorParts' /\ \A a \in Assets : Pending(a)' = {}
<1>1. /\ undo' = <<>> /\ resident' = disk /\ UNCHANGED disk
      /\ \A a \in Assets : ~dirty'[a] /\ records'[a] = {}
  BY DEF EditorExit, diskVars
<1>2. \A a \in Assets : Pending(a)' = {}
  BY <1>1 DEF Pending
<1>3. Done' = {}
  BY <1>1, EmptyFacts DEF Done
<1> QED
  BY <1>1, <1>2, <1>3 DEF AgentEditorParts, DirtyIsPending, DirtyBeforeFits, PendingCanBeUndone, RecordsAreDistinct,
                              OnlyPendingDiffers, OnlyPendingDiffered

\* What the bridge takes back is the newest pending write of its asset.
LEMMA AgentRevert ==
  ASSUME AgentEditorInv, NEW a \in Assets, NEW id, NEW sess, NEW redoable, RevertWrite(a, id, sess, redoable)
  PROVE  /\ AgentEditorParts'
         /\ \E r \in Pending(a) : r.id = id
         /\ Pending(a)' = {q \in Pending(a) : q.id # id} /\ \A b \in Assets \ {a} : Pending(b)' = Pending(b)
<1>1. PICK r \in records[a] :
        /\ r.id = id
        /\ dirty' = [dirty EXCEPT ![a] = r.dirtyBefore]
        /\ records' = [records EXCEPT ![a] = @ \ {r}]
  BY DEF RevertWrite, RestoredDirty
<1>2. /\ dirty[a] /\ IsTop(r.id) /\ undo' = Pop(undo) /\ UNCHANGED <<savedTx, disk>>
      /\ resident' = [resident EXCEPT ![a] = Top(undo).before]
  BY <1>1 DEF RevertWrite, RevertAllowed, diskVars
<1>3. undo # <<>> /\ Top(undo) \in Done /\ Top(undo).id = r.id /\ Top(undo).asset = a /\ r.id > savedTx[a]
  BY <1>2, TopIsRecent DEF AgentEditorInv
<1>4. /\ \A tx \in Done : tx.id \in Nat /\ tx.id <= r.id
      /\ undo \in Seq(Transactions)
  BY <1>3, DoneFacts DEF AgentEditorInv, RecentInv
<1>5. /\ \A tx \in Done' : tx \in Done /\ tx.id < r.id
      /\ \A tx \in Done : tx \in Done' \/ tx = Top(undo)
  <2>1. /\ Len(undo) \in Nat \ {0} /\ Len(Pop(undo)) = Len(undo) - 1
        /\ \A i \in 1..(Len(undo) - 1) : Pop(undo)[i] = undo[i]
    BY <1>3, <1>4, PopFacts
  <2>2. \A i \in 1..Len(undo) : i \in 1..(Len(undo) - 1) \/ i = Len(undo)
    BY <2>1
  <2>3. \A i \in 1..(Len(undo) - 1) : i \in 1..Len(undo) /\ Len(undo) \in 1..Len(undo) /\ i < Len(undo)
    BY <2>1
  <2>4. \A i, j \in 1..Len(undo) : i < j => undo[i].id < undo[j].id
    BY DEF AgentEditorInv, RecentInv, EditorInv, BufferOrder
  <2>5. \A i \in 1..(Len(undo) - 1) : undo[i].id < r.id
    BY <1>3, <2>3, <2>4 DEF Top
  <2>6. Done' = {Pop(undo)[i] : i \in 1..(Len(undo) - 1)}
    BY <1>2, <2>1 DEF Done
  <2> QED
    BY <2>1, <2>2, <2>3, <2>5, <2>6 DEF Done, Top
<1>6. /\ dirty'[a] = r.dirtyBefore /\ records'[a] = records[a] \ {r} /\ resident'[a] = Top(undo).before
      /\ \A b \in Assets \ {a} : dirty'[b] = dirty[b] /\ records'[b] = records[b] /\ resident'[b] = resident[b]
  BY <1>1, <1>2, AgentTypes DEF AgentEditorInv
<1>7. r \in Pending(a)
  BY <1>3 DEF Pending
<1>8. \A q \in records[a] : q.id = r.id => q = r
  BY DEF AgentEditorInv, AgentEditorParts, RecordsAreDistinct
<1>9. /\ Pending(a)' = {q \in Pending(a) : q.id # id} /\ \A b \in Assets \ {a} : Pending(b)' = Pending(b)
      /\ \A q : q \in Pending(a)' <=> q \in Pending(a) /\ q # r
  BY <1>1, <1>2, <1>6, <1>8 DEF Pending
<1>10. \A q \in Pending(a) : q.id \in Nat /\ r.id \in Nat
  BY <1>7, AgentTypes DEF Pending, AgentEditorInv
<1>11. \A q \in Pending(a)' : q.id < r.id
  <2> SUFFICES ASSUME NEW q \in Pending(a), q # r PROVE q.id < r.id
    BY <1>9
  <2>1. q \in records[a] /\ q.id > savedTx[a]
    BY DEF Pending
  <2>2. q.id # r.id
    BY <1>8, <2>1
  <2>3. q.id <= r.id
    BY <1>4 DEF AgentEditorInv, AgentEditorParts, PendingCanBeUndone
  <2> QED
    BY <1>7, <1>10, <2>2, <2>3
<1>12. DirtyIsPending'
  <2>1. r.dirtyBefore <=> \E q \in Pending(a) : q.id < r.id
    BY <1>7 DEF AgentEditorInv, AgentEditorParts, DirtyBeforeFits
  <2>2. r.dirtyBefore <=> Pending(a)' # {}
    <3>1. ASSUME NEW q \in Pending(a), q.id < r.id PROVE q \in Pending(a)'
      BY <1>9, <1>10, <3>1
    <3> QED
      BY <1>9, <1>11, <2>1, <3>1
  <2> QED
    BY <1>6, <1>9, <2>2 DEF AgentEditorInv, AgentEditorParts, DirtyIsPending
<1>13. DirtyBeforeFits'
  <2> SUFFICES ASSUME NEW b \in Assets, NEW s \in Pending(b)'
               PROVE  s.dirtyBefore <=> \E q \in Pending(b)' : q.id < s.id
    BY DEF DirtyBeforeFits
  <2>1. s \in Pending(b) /\ (s.dirtyBefore <=> \E q \in Pending(b) : q.id < s.id)
    BY <1>9 DEF AgentEditorInv, AgentEditorParts, DirtyBeforeFits
  <2>2. CASE b = a
    <3>1. s.id < r.id
      BY <1>11, <2>2
    <3>2. \A q \in Pending(a) : q.id < s.id => q \in Pending(a)'
      BY <1>7, <1>9, <1>10, <2>1, <2>2, <3>1
    <3> QED
      BY <1>9, <2>1, <2>2, <3>2
  <2> QED
    BY <1>9, <2>1, <2>2
<1>14. RecordsAreDistinct' /\ PendingCanBeUndone'
  <2>1. RecordsAreDistinct'
    BY <1>6 DEF AgentEditorInv, AgentEditorParts, RecordsAreDistinct
  <2> SUFFICES ASSUME NEW b \in Assets, NEW s \in Pending(b)' PROVE \E tx \in Done' : tx.id = s.id
    BY <2>1 DEF PendingCanBeUndone
  <2>2. PICK tx \in Done : tx.id = s.id
    BY <1>9 DEF AgentEditorInv, AgentEditorParts, PendingCanBeUndone
  <2>3. CASE tx = Top(undo)
    <3>1. b # a
      BY <1>3, <1>7, <1>9, <1>10, <1>11, <2>2, <2>3
    <3>2. s \in records[b]
      BY <1>9, <3>1 DEF Pending
    <3> QED
      BY <1>3, <2>2, <2>3, <3>1, <3>2 DEF AgentEditorInv, RecentInv, RecordsAreOfTheirAsset
  <2> QED
    BY <1>5, <2>2, <2>3
<1>15. OnlyPendingDiffers'
  <2> SUFFICES ASSUME NEW b \in Assets, NEW t \in Targets, resident'[b][t] # disk[b][t]
               PROVE  \E q \in Pending(b)' : q.target = t
    BY <1>2 DEF OnlyPendingDiffers
  <2>1. CASE b = a
    <3>1. PICK q \in Pending(a) : q.id < r.id /\ q.target = t
      BY <1>3, <1>6, <2>1 DEF AgentEditorInv, AgentEditorParts, OnlyPendingDiffered
    <3> QED
      BY <1>9, <1>10, <2>1, <3>1
  <2> QED
    BY <1>6, <1>9, <2>1 DEF AgentEditorInv, AgentEditorParts, OnlyPendingDiffers
<1>16. OnlyPendingDiffered'
  <2> SUFFICES ASSUME NEW tx \in Done', tx.id > savedTx[tx.asset], NEW t \in Targets,
                      tx.before[t] # disk[tx.asset][t]
               PROVE  \E q \in Pending(tx.asset)' : q.id < tx.id /\ q.target = t
    BY <1>2 DEF OnlyPendingDiffered
  <2>1. tx \in Done /\ tx.id < r.id /\ tx.asset \in Assets /\ tx.id \in Nat
    BY <1>5, AgentTypes DEF AgentEditorInv
  <2>2. PICK q \in Pending(tx.asset) : q.id < tx.id /\ q.target = t
    BY <2>1 DEF AgentEditorInv, AgentEditorParts, OnlyPendingDiffered
  <2>3. CASE tx.asset = a
    <3>1. q # r
      BY <1>7, <1>10, <2>1, <2>2
    <3> QED
      BY <1>9, <2>2, <2>3, <3>1
  <2> QED
    BY <1>9, <2>1, <2>2, <2>3
<1> QED
  BY <1>1, <1>7, <1>9, <1>12, <1>13, <1>14, <1>15, <1>16 DEF AgentEditorParts

\* A write is pending from now on; a clean package has no other pending ones.
LEMMA AgentApply ==
  ASSUME AgentEditorInv, NEW a \in Assets, NEW t \in Targets, NEW v \in Values, NEW p, ApplyChanged(a, t, v, p)
  PROVE  /\ AgentEditorParts'
         /\ \E r : /\ r.id = lastTx + 1 /\ r.target = t /\ r.after = v
                   /\ Pending(a)' = Pending(a) \cup {r}
         /\ \A b \in Assets \ {a} : Pending(b)' = Pending(b)
         /\ Pending(a) = {} \/ \E r \in Pending(a) : r.id = p
<1>1. PICK r : r = NewRecord(a, t, v)
  OBVIOUS
<1>2. PICK c : c = [resident[a] EXCEPT ![t] = v]
  OBVIOUS
<1>3. PICK e : /\ e = [id |-> lastTx + 1, asset |-> a, agent |-> TRUE, before |-> resident[a], after |-> c]
               /\ undo' = Append(undo, e)
  BY <1>2 DEF ApplyChanged, RecordTransaction
<1>4. r.id = lastTx + 1 /\ r.target = t /\ r.after = v /\ r.dirtyBefore = dirty[a]
  BY <1>1 DEF NewRecord
<1>5. e.id = lastTx + 1 /\ e.asset = a /\ e.before = resident[a]
  BY <1>3
<1>6. /\ UNCHANGED <<savedTx, disk>> /\ records' = [records EXCEPT ![a] = RetainedRecords(a) \cup {r}]
      /\ resident' = [resident EXCEPT ![a] = c] /\ dirty' = [dirty EXCEPT ![a] = TRUE]
      /\ RecordTransaction(a, c, TRUE)
  BY <1>1, <1>2 DEF ApplyChanged, RecordTransaction, diskVars
<1>7. /\ records'[a] = RetainedRecords(a) \cup {r} /\ resident'[a] = c /\ dirty'[a]
      /\ \A b \in Assets \ {a} : records'[b] = records[b] /\ resident'[b] = resident[b] /\ dirty'[b] = dirty[b]
  BY <1>6, AgentTypes DEF AgentEditorInv
<1>8. Pending(a)' = Pending(a) \cup {r}
  <2>1. lastTx + 1 > savedTx[a]
    BY AgentTypes DEF AgentEditorInv
  <2>2. ~dirty[a] => Pending(a) = {}
    BY DEF AgentEditorInv, AgentEditorParts, DirtyIsPending
  <2> QED
    BY <1>4, <1>6, <1>7, <2>1, <2>2 DEF Pending, RetainedRecords
<1>9. \A b \in Assets \ {a} : Pending(b)' = Pending(b)
  BY <1>6, <1>7 DEF Pending
<1>10. Pending(a) = {} \/ \E q \in Pending(a) : q.id = p
  <2>1. CASE dirty[a]
    <3>1. PICK q \in records[a] : q.id = p /\ IsTop(p)
      BY <2>1 DEF ApplyChanged, ApplyAllowed, ContinuesChain
    <3>2. q.id > savedTx[a]
      BY <2>1, <3>1, TopIsRecent DEF AgentEditorInv
    <3> QED
      BY <3>1, <3>2 DEF Pending
  <2> QED
    BY <2>1 DEF AgentEditorInv, AgentEditorParts, DirtyIsPending
<1>11. Done' = Done \cup {e}
  <2>1. c \in Contents
    <3>1. resident[a] \in [Targets -> Values]
      BY AgentTypes DEF AgentEditorInv, Contents
    <3> QED
      BY <1>2, <3>1 DEF Contents
  <2>2. lastTx + 1 \in TxIds
    <3>1. EditorInv
      BY DEF AgentEditorInv, RecentInv
    <3> QED
      BY <1>6, <2>1, <3>1, RecordStep
  <2>3. e \in Transactions /\ undo \in Seq(Transactions)
    BY <1>3, <2>1, <2>2, AgentTypes, DoneFacts DEF Transactions, AgentEditorInv, RecentInv
  <2>4. /\ Len(undo) \in Nat /\ Len(undo') = Len(undo) + 1
        /\ \A i \in 1..Len(undo) : undo'[i] = undo[i]
        /\ undo'[Len(undo) + 1] = e
    BY <1>3, <2>3, AppendFacts
  <2>5. \A i \in 1..(Len(undo) + 1) : i \in 1..Len(undo) \/ i = Len(undo) + 1
    BY <2>4
  <2>6. Len(undo) + 1 \in 1..(Len(undo) + 1) /\ \A i \in 1..Len(undo) : i \in 1..(Len(undo) + 1)
    BY <2>4
  <2>7. \A x : x \in Done' => x \in Done \cup {e}
    BY <2>4, <2>5 DEF Done
  <2>8. \A x : x \in Done \cup {e} => x \in Done'
    BY <2>4, <2>6 DEF Done
  <2> QED
    BY <2>7, <2>8
<1>12. \A b \in Assets : \A q \in Pending(b) : q \in records[b] /\ q.id \in Nat /\ q.id <= lastTx /\ lastTx \in Nat
  BY AgentTypes DEF Pending, AgentEditorInv
<1>13. DirtyIsPending'
  BY <1>7, <1>8, <1>9 DEF AgentEditorInv, AgentEditorParts, DirtyIsPending
<1>14. DirtyBeforeFits'
  <2> SUFFICES ASSUME NEW b \in Assets, NEW s \in Pending(b)'
               PROVE  s.dirtyBefore <=> \E q \in Pending(b)' : q.id < s.id
    BY DEF DirtyBeforeFits
  <2>1. CASE s \in Pending(b)
    <3>1. s.dirtyBefore <=> \E q \in Pending(b) : q.id < s.id
      BY <2>1 DEF AgentEditorInv, AgentEditorParts, DirtyBeforeFits
    <3>2. \A q \in Pending(b)' : q.id < s.id => q \in Pending(b)
      BY <1>4, <1>8, <1>9, <1>12, <2>1
    <3> QED
      BY <1>8, <1>9, <3>1, <3>2
  <2>2. CASE s \notin Pending(b)
    <3>1. b = a /\ s = r
      BY <1>8, <1>9, <2>2
    <3>2. dirty[a] <=> Pending(a) # {}
      BY DEF AgentEditorInv, AgentEditorParts, DirtyIsPending
    <3>3. \A q \in Pending(a) : q.id < r.id
      BY <1>4, <1>12
    <3>4. ~(r.id < r.id)
      BY <1>4, AgentTypes DEF AgentEditorInv
    <3> QED
      BY <1>4, <1>8, <3>1, <3>2, <3>3, <3>4
  <2> QED
    BY <2>1, <2>2
<1>15. RecordsAreDistinct' /\ PendingCanBeUndone'
  <2>1. \A q \in records[a] : q.id # r.id
    BY <1>4, AgentTypes DEF AgentEditorInv
  <2>2. RecordsAreDistinct'
    BY <1>7, <2>1 DEF AgentEditorInv, AgentEditorParts, RecordsAreDistinct, RetainedRecords
  <2>3. PendingCanBeUndone'
    BY <1>4, <1>5, <1>8, <1>9, <1>11 DEF AgentEditorInv, AgentEditorParts, PendingCanBeUndone
  <2> QED
    BY <2>2, <2>3
<1>16. OnlyPendingDiffers'
  <2> SUFFICES ASSUME NEW b \in Assets, NEW u \in Targets, resident'[b][u] # disk[b][u]
               PROVE  \E q \in Pending(b)' : q.target = u
    BY <1>6 DEF OnlyPendingDiffers
  <2>1. CASE b = a /\ u = t
    BY <1>4, <1>8, <2>1
  <2>2. CASE ~(b = a /\ u = t)
    <3>1. resident'[b][u] = resident[b][u]
      <4>1. resident[a] \in [Targets -> Values]
        BY AgentTypes DEF AgentEditorInv, Contents
      <4>2. u # t => c[u] = resident[a][u]
        BY <1>2, <4>1
      <4> QED
        BY <1>7, <2>2, <4>2
    <3> QED
      BY <1>8, <1>9, <3>1 DEF AgentEditorInv, AgentEditorParts, OnlyPendingDiffers
  <2> QED
    BY <2>1, <2>2
<1>17. OnlyPendingDiffered'
  <2> SUFFICES ASSUME NEW tx \in Done', tx.id > savedTx[tx.asset], NEW u \in Targets,
                      tx.before[u] # disk[tx.asset][u]
               PROVE  \E q \in Pending(tx.asset)' : q.id < tx.id /\ q.target = u
    BY <1>6 DEF OnlyPendingDiffered
  <2>1. CASE tx \in Done
    <3>1. tx.asset \in Assets
      BY <2>1, AgentTypes DEF AgentEditorInv
    <3>2. PICK q \in Pending(tx.asset) : q.id < tx.id /\ q.target = u
      BY <2>1 DEF AgentEditorInv, AgentEditorParts, OnlyPendingDiffered
    <3> QED
      BY <1>8, <1>9, <3>1, <3>2
  <2>2. CASE tx = e
    <3>1. PICK q \in Pending(a) : q.target = u
      BY <1>5, <2>2 DEF AgentEditorInv, AgentEditorParts, OnlyPendingDiffers
    <3>2. q.id < e.id
      BY <1>5, <1>12, <3>1
    <3> QED
      BY <1>5, <1>8, <2>2, <3>1, <3>2
  <2> QED
    BY <1>11, <2>1, <2>2
<1> QED
  BY <1>4, <1>8, <1>9, <1>10, <1>13, <1>14, <1>15, <1>16, <1>17 DEF AgentEditorParts

\* It holds when the first Editor process has started.
LEMMA InitIsAgents == EditorInit => AgentEditorInv
<1>1. EditorInit => RecentInv
  BY InitIsRecent
<1>2. EditorInit => Done = {} /\ \A a \in Assets : Pending(a) = {} /\ records[a] = {} /\ ~dirty[a]
  BY EmptyFacts DEF EditorInit, Done, Pending
<1>3. EditorInit => resident = disk
  BY DEF EditorInit
<1> QED
  BY <1>1, <1>2, <1>3
     DEF AgentEditorInv, AgentEditorParts, DirtyIsPending, DirtyBeforeFits, PendingCanBeUndone, RecordsAreDistinct,
         OnlyPendingDiffers, OnlyPendingDiffered
=============================================================================
