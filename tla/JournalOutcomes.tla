-------------------------- MODULE JournalOutcomes --------------------------
(***************************************************************************)
(* What the patch journal promises about one file write: the intent is     *)
(* opened once, decided once, and a decision is never revised, except that *)
(* a write that was verified can be undone once (or be found impossible to *)
(* undo).                                                                  *)
(*                                                                         *)
(* PatchRewind implements this module.                                     *)
(***************************************************************************)

CONSTANT Call         \* tool calls that write a file

VARIABLE fate         \* what the journal says of the call

Decision == {"verified", "aborted", "conflict"}

Init == fate = [c \in Call |-> "none"]

Open(c) ==
  /\ fate[c] = "none"
  /\ fate' = [fate EXCEPT ![c] = "open"]

Decide(c, decision) ==
  /\ fate[c] = "open"
  /\ fate' = [fate EXCEPT ![c] = decision]

Undo(c, end) ==
  /\ fate[c] = "verified"
  /\ fate' = [fate EXCEPT ![c] = end]

Next ==
  \E c \in Call :
    \/ Open(c)
    \/ \E decision \in Decision : Decide(c, decision)
    \/ \E end \in {"rewound", "conflict"} : Undo(c, end)

Spec == Init /\ [][Next]_fate
=============================================================================
