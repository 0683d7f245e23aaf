-------------------------- MODULE SignedTxBuilder --------------------------
(***************************************************************************)
(* What the builders of signed transactions promise a caller, without      *)
(* caches and failing calls: a content with a number of slots, a witness   *)
(* or none in each slot, edits that empty every slot, and an export that   *)
(* is possible only when no slot is empty and returns the content as it is *)
(* with the witnesses as they are.                                         *)
(*                                                                         *)
(* The content after an edit is left open: it is whatever content'[b] is.  *)
(***************************************************************************)
EXTENDS Naturals

CONSTANTS
    Builder,            \* variables that hold a builder
    None,               \* no witness, nothing exported
    Slots(_),           \* the number of witnesses a content asks for
    Accepts(_, _, _)    \* Accepts(c, i, w): witness w may be put at slot i of c

VARIABLES
    content,            \* [Builder -> contents]
    witnesses,          \* [Builder -> sequences of witnesses or None]
    out                 \* what the last call exported, else None

vars == <<content, witnesses, out>>

Empty(c) == [i \in 1..Slots(c) |-> None]

Init ==
    /\ witnesses = [b \in Builder |-> Empty(content[b])]
    /\ out = None

Others(b) ==
    \A d \in Builder \ {b} :
        content'[d] = content[d] /\ witnesses'[d] = witnesses[d]

\* A new object, or a change of the content: all signatures are cleared.
Edit(b) ==
    /\ Others(b)
    /\ witnesses'[b] = Empty(content'[b])
    /\ out' = None

\* One slot receives a witness; the others are as they were.
Attach(b, i) ==
    /\ Others(b)
    /\ content'[b] = content[b]
    /\ \A j \in (1..Slots(content[b])) \ {i} : witnesses'[b][j] = witnesses[b][j]
    /\ Accepts(content[b], i, witnesses'[b][i])
    /\ out' = None

\* b becomes an independent copy of c.
Copy(b, c) ==
    /\ Others(b)
    /\ content'[b] = content[c]
    /\ witnesses'[b] = witnesses[c]
    /\ out' = None

Export(b) ==
    /\ \A i \in 1..Slots(content[b]) : witnesses[b][i] # None
    /\ out' = [content |-> content[b], witnesses |-> witnesses[b]]
    /\ UNCHANGED <<content, witnesses>>

\* A call without a visible effect
Idle ==
    /\ out' = None
    /\ UNCHANGED <<content, witnesses>>

Next ==
    \/ \E b \in Builder :
          \/ Edit(b)
          \/ \E i \in 1..Slots(content[b]) : Attach(b, i)
          \/ \E c \in Builder : Copy(b, c)
          \/ Export(b)
    \/ Idle

Spec == Init /\ [][Next]_vars
=============================================================================
