----------------------------- MODULE ChangeSets -----------------------------
(***************************************************************************)
(* Change sets (change_sets.py): a task's ordered list of operations, each *)
(* with a status, and the status the whole list is reported under.  The    *)
(* status of a change set depends only on the set of its operations'       *)
(* statuses, so the operators below take that set.                         *)
(***************************************************************************)

OperationStatuses == {"applied", "undone", "discarded", "saved", "verified",
                      "no-op", "superseded", "failed", "unknown"}

TerminalStatuses == {"undone", "discarded", "verified", "no-op", "superseded", "failed"}

\* The statuses under which a change set refuses another live write.
ClosedStatuses == {"undone", "discarded", "verified", "no-op", "failed", "unknown"}

\* Every operation accounted for: the tests in the order the code makes them.
DeriveKnownStatus(statuses) ==
  IF statuses = {} THEN "planned"
  ELSE IF "failed" \in statuses THEN "failed"
  ELSE IF statuses \subseteq {"no-op", "superseded"} THEN "no-op"
  ELSE IF statuses \subseteq {"verified", "no-op", "superseded"} THEN "verified"
  ELSE IF statuses \subseteq {"saved", "verified", "superseded"} THEN "saved"
  ELSE IF statuses \in {{"undone"}, {"discarded"}, {"applied"}}
       THEN CHOOSE s \in statuses : TRUE
  ELSE "partially_applied"

DeriveStatus(statuses) ==
  IF "unknown" \in statuses THEN "unknown" ELSE DeriveKnownStatus(statuses)

\* is_terminal_change_set: only such a change set may be pruned.
IsTerminal(statuses) == statuses # {} /\ statuses \subseteq TerminalStatuses

IsClosed(statuses) == DeriveStatus(statuses) \in ClosedStatuses
=============================================================================
