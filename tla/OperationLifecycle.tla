------------------------- MODULE OperationLifecycle -------------------------
(***************************************************************************)
(* What a change set promises its reader: an append-only list of           *)
(* operations, live writes and committed patches, each moving forward      *)
(* through its life.                                                       *)
(*                                                                         *)
(* LiveWorkflow implements this specification as long as the server does   *)
(* not crash inside a call, no disk rollback is recorded and the user does *)
(* not reach below a save with Ctrl+Z.                                     *)
(***************************************************************************)
EXTENDS Naturals, Sequences, ChangeSets

CONSTANTS
  ChangeSetIds,
  MaxOps   \* MAX_CHANGE_SET_RECEIPTS

ASSUME MaxOpsAssumption == MaxOps \in Nat

VARIABLE history   \* the statuses of each change set's operations, oldest first

Histories == UNION {[1..n -> OperationStatuses] : n \in 0..MaxOps}

LifecycleTypeOK == history \in [ChangeSetIds -> Histories]

Moves_SavedMayBePending(status) ==
  IF status \in {"applied", "unknown", "saved"}
  THEN {"applied", "unknown", "saved", "verified", "undone", "discarded", "superseded"}
  ELSE IF status = "verified" THEN {"undone"} ELSE {}

\* An applied or unknown operation is still open: it may turn out lost, saved,
\* undone or replaced.  A saved one can only be closed.  A terminal one is final.
Moves(status) ==
  CASE status = "applied" -> {"unknown", "saved", "verified", "undone", "discarded", "superseded"}
    [] status = "unknown" -> {"applied", "saved", "verified", "undone", "discarded"}
    [] status = "saved"   -> {"verified", "undone", "discarded"}
    [] OTHER              -> {}

StatusesIn(h) == {h[i] : i \in DOMAIN h}

MovesOn(old, new, length) ==
  \A i \in 1..length : new[i] = old[i] \/ new[i] \in Moves(old[i])

Kept(old, new) == Len(new) = Len(old) /\ MovesOn(old, new, Len(old))

\* A new operation, a write or a patch already on disk, comes last, and only into
\* a change set that is not closed once its earlier operations are up to date.
Grown(old, new) ==
  /\ Len(new) = Len(old) + 1
  /\ MovesOn(old, new, Len(old))
  /\ new[Len(new)] \in {"applied", "no-op", "saved"}
  /\ ~IsClosed({new[i] : i \in 1..Len(old)})

LifecycleInit == history = [c \in ChangeSetIds |-> <<>>]

\* A call, a restart or a look at the Editor may move any operation; one call
\* adds at most one.
Evolve ==
  /\ history' \in [ChangeSetIds -> Histories]
  /\ \A c \in ChangeSetIds : Kept(history[c], history'[c]) \/ Grown(history[c], history'[c])
  /\ \A c, d \in ChangeSetIds :
       Grown(history[c], history'[c]) /\ Grown(history[d], history'[d]) => c = d

\* Only a finished change set makes room for another one.
Forget(c) ==
  /\ IsTerminal(StatusesIn(history[c]))
  /\ history' = [history EXCEPT ![c] = <<>>]

LifecycleNext == Evolve \/ \E c \in ChangeSetIds : Forget(c)

LifecycleSpec == LifecycleInit /\ [][LifecycleNext]_history

-----------------------------------------------------------------------------
(* Properties                                                              *)

FinalReports == {"undone", "discarded", "verified", "no-op"}

\* A change set once reported as undone, discarded, verified or no-op is reported
\* so until it is forgotten: no status its operations can still take, and no
\* operation it can still get, changes what derive_change_set_status answers.
\* "saved", "applied" and "unknown" reports carry no such promise, and neither
\* does "partially_applied" for a change set that is terminal.
FinalReportsStay ==
  [][\A c \in ChangeSetIds :
       LET before == DeriveStatus(StatusesIn(history[c]))
           after  == DeriveStatus(StatusesIn(history'[c]))
       IN before \in FinalReports => after = before \/ history'[c] = <<>>]_history
=============================================================================
