----------------------------- MODULE SpendOnce ------------------------------
(***************************************************************************)
(* What the keeper promises about ONE thing it may send only once: the SOL *)
(* of an allocation, the tokens of a transfer.  It leaves the vault at     *)
(* most once, and the ledger's answer about it is never wrong.             *)
(* "unresolved" is the only answer that may be given before the truth is   *)
(* known, and it is final for the machine: a person settles it.            *)
(***************************************************************************)

CONSTANT Tx              \* the transactions that could carry it

VARIABLES spent,         \* those that did
          answer         \* what the ledger says of it

vars == <<spent, answer>>

Answers == {"open", "done", "kept", "unresolved"}

Init == spent = {} /\ answer = "open"

\* It leaves the vault, once.
Spend ==
  /\ spent = {}
  /\ answer \in {"open", "unresolved"}
  /\ \E t \in Tx : spent' = {t}
  /\ UNCHANGED answer

\* The row is called DONE only when it really left ...
AnswerDone ==
  /\ answer = "open" /\ spent # {}
  /\ answer' = "done"
  /\ UNCHANGED spent

\* ... FAILED only when it is still in the vault (and, Spend being disabled
\* from then on, cannot leave it without a new attempt) ...
AnswerKept ==
  /\ answer = "open" /\ spent = {}
  /\ answer' = "kept"
  /\ UNCHANGED spent

\* ... and UNRESOLVED at any time before it was called DONE.
AnswerUnresolved ==
  /\ answer \in {"open", "kept"}
  /\ answer' = "unresolved"
  /\ UNCHANGED spent

\* An operator's retry of a FAILED row opens the question again.
Reopen ==
  /\ answer = "kept"
  /\ answer' = "open"
  /\ UNCHANGED spent

Next == Spend \/ AnswerDone \/ AnswerKept \/ AnswerUnresolved \/ Reopen

Spec == Init /\ [][Next]_vars
=============================================================================
