----------------------------- MODULE AtomicFile -----------------------------
(***************************************************************************)
(* What reconcile.py:49-51 promises of _atomic_write_text: a write takes   *)
(* effect at one instant between its call and its return, or, when it      *)
(* fails or its process dies, not at all; a reader sees the text of some   *)
(* write, whole.  It does not promise that a write survives a power loss   *)
(* as soon as it returns: recent ones may be taken back, whole.            *)
(***************************************************************************)
CONSTANTS
  File,    \* the files
  Text,    \* what is written to them
  Writer,  \* names for the writes under way at once
  None     \* absent

VARIABLES
  content,  \* the text of each file, None when missing
  earlier,  \* texts that a power loss may bring back
  op        \* the writes under way

vars == <<content, earlier, op>>

Idle == [pc |-> "idle", file |-> None, text |-> None]

Init ==
  /\ content = [f \in File |-> None]
  /\ earlier = [f \in File |-> {}]
  /\ op = [w \in Writer |-> Idle]

Call(w, f, t) ==
  /\ op[w] = Idle
  /\ op' = [op EXCEPT ![w] = [pc |-> "called", file |-> f, text |-> t]]
  /\ UNCHANGED <<content, earlier>>

TakeEffect(w) ==
  /\ op[w].pc = "called"
  /\ content' = [content EXCEPT ![op[w].file] = op[w].text]
  /\ earlier' = [earlier EXCEPT ![op[w].file] = @ \cup {content[op[w].file]}]
  /\ op' = [op EXCEPT ![w].pc = "done"]

Return(w) ==
  /\ op[w].pc = "done"
  /\ op' = [op EXCEPT ![w] = Idle]
  /\ UNCHANGED <<content, earlier>>

Fail(w) ==
  /\ op[w].pc = "called"
  /\ op' = [op EXCEPT ![w] = Idle]
  /\ UNCHANGED <<content, earlier>>

\* Writers die, whether their writes have taken effect or not.
Die(W) ==
  /\ op' = [w \in Writer |-> IF w \in W THEN Idle ELSE op[w]]
  /\ UNCHANGED <<content, earlier>>

\* What a file holds is safe from now on.
Settle(f) ==
  /\ earlier' = [earlier EXCEPT ![f] = {}]
  /\ UNCHANGED <<content, op>>

LosePower ==
  /\ op' = [w \in Writer |-> Idle]
  /\ content' \in [File -> Text \cup {None}]
  /\ \A f \in File : content'[f] \in earlier[f] \cup {content[f]}
  /\ earlier' = [f \in File |-> {}]

Next ==
  \/ \E w \in Writer :
       \/ \E f \in File, t \in Text : Call(w, f, t)
       \/ TakeEffect(w)
       \/ Return(w)
       \/ Fail(w)
  \/ \E f \in File : Settle(f)
  \/ \E W \in SUBSET Writer : Die(W)
  \/ LosePower

Spec == Init /\ [][Next]_vars

=============================================================================
