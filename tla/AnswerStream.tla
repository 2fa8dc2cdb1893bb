---------------------------- MODULE AnswerStream ----------------------------
(***************************************************************************)
(* What the chat endpoint promises its client about one turn: text may      *)
(* arrive in parts, a finished turn leaves a whole answer on the screen, an *)
(* error never leaves half of one, and an ended turn says nothing more.     *)
(* AssistantTurn implements it.                                            *)
(***************************************************************************)
CONSTANT Turn

VARIABLE view   \* view[t]: how t stands, and how much of an answer it shows

Phase == {"idle", "open", "done", "error", "gone"}
Extent == {"none", "part", "whole"}

Init == view = [t \in Turn |-> [phase |-> "idle", text |-> "none"]]

Become(t, phase, text) == view' = [view EXCEPT ![t] = [phase |-> phase, text |-> text]]

(* A request on a connection that carries no turn.                           *)
Ask(t) == view[t].phase # "open" /\ Become(t, "open", "none")

Write(t) == view[t].phase = "open" /\ Become(t, "open", "part")

Finish(t) == view[t].phase = "open" /\ Become(t, "done", "whole")

Fail(t) == view[t].phase = "open" /\ view[t].text = "none" /\ Become(t, "error", "none")

(* The client leaves; what it shows then is its own affair.                  *)
Leave(t) == view[t].phase = "open" /\ Become(t, "gone", "none")

Next == \E t \in Turn : Ask(t) \/ Write(t) \/ Finish(t) \/ Fail(t) \/ Leave(t)

Spec == Init /\ [][Next]_view
=============================================================================
