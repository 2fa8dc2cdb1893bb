----------------------------- MODULE PanelTurn -----------------------------
(***************************************************************************)
(* useAssistantTurn (frontend/src/lib/useAssistantTurn.ts): the panel's     *)
(* turns.  A new turn aborts the one in flight, whose events, end or        *)
(* rejection may still arrive.                                              *)
(***************************************************************************)
EXTENDS Naturals, Sequences

CONSTANT MaxTurns   \* bound on the turns of a conversation
ASSUME PanelAssumption == MaxTurns \in Nat

VARIABLES
    turnSeq,    \* turnSeq
    streams,    \* turns whose promise is pending, with the locals of runTurn
    busy,
    draft,      \* the turn whose text the draft shows; 0: none
    offline,
    thread      \* what was appended: by which turn, and what

panelVars == <<turnSeq, streams, busy, draft, offline, thread>>

(* Fault: a superseded turn goes on writing.                                 *)
LiveAlways(t) == TRUE

LiveTurn(t) == t.turn = turnSeq

Said(n, what) == thread' = Append(thread, [turn |-> n, what |-> what])

(* sendChat or runCommand; a retry of the chat appends no text of the user.  *)
SendTurn(kind, retry) ==
    /\ turnSeq < MaxTurns
    /\ turnSeq' = turnSeq + 1
    /\ streams' = streams \cup {[turn |-> turnSeq', kind |-> kind, text |-> FALSE,
                                 errored |-> FALSE, unreachable |-> FALSE, tool |-> "none"]}
    /\ draft' = 0 /\ busy' = TRUE
    /\ IF retry THEN UNCHANGED thread ELSE Said(turnSeq', "user")
    /\ UNCHANGED offline

(* An event of the stream, as the callback of runTurn applies it.            *)
Event(t, new, shows) ==
    /\ IF LiveTurn(t)
       THEN /\ streams' = (streams \ {t}) \cup {new}
            /\ draft' = IF shows THEN t.turn ELSE draft
       ELSE UNCHANGED <<streams, draft>>
    /\ UNCHANGED <<turnSeq, busy, offline, thread>>

StreamEvent(t) ==
    \/ Event(t, [t EXCEPT !.text = TRUE], TRUE)
    \/ \E tool \in {"settings", "other"} :
         Event(t, [t EXCEPT !.tool = IF @ = "other" THEN @ ELSE tool], FALSE)
    \/ \E code \in BOOLEAN :
         Event(t, [t EXCEPT !.errored = TRUE,
                            !.unreachable = IF t.errored THEN @ ELSE code], FALSE)

Outcome(t) ==
    /\ IF t.errored THEN Said(t.turn, "notice")
       ELSE IF t.text /\ t.tool # "settings" THEN Said(t.turn, "tabby") ELSE UNCHANGED thread
    /\ offline' = IF t.kind = "command" THEN offline
                  ELSE IF t.errored THEN offline \/ t.unreachable ELSE FALSE

(* The stream ends, or is rejected; temporary: a session that expired or a   *)
(* rate limit.                                                               *)
StreamEnds(t) ==
    /\ streams' = streams \ {t}
    /\ IF LiveTurn(t) THEN Outcome(t) /\ draft' = 0 /\ busy' = FALSE
       ELSE UNCHANGED <<thread, offline, draft, busy>>
    /\ UNCHANGED turnSeq

StreamRejected(t, temporary) ==
    /\ streams' = streams \ {t}
    /\ IF LiveTurn(t)
       THEN /\ Said(t.turn, "notice") /\ draft' = 0 /\ busy' = FALSE
            /\ offline' = (offline \/ (t.kind = "chat" /\ ~temporary))
       ELSE UNCHANGED <<thread, offline, draft, busy>>
    /\ UNCHANGED turnSeq

PanelInit ==
    /\ turnSeq = 0 /\ streams = {} /\ busy = FALSE /\ draft = 0 /\ offline = FALSE
    /\ thread = <<>>

PanelNext ==
    \/ \E kind \in {"chat", "command"}, retry \in BOOLEAN :
         (retry => kind = "chat") /\ SendTurn(kind, retry)
    \/ \E t \in streams :
         \/ StreamEvent(t) \/ StreamEnds(t)
         \/ \E temporary \in BOOLEAN : StreamRejected(t, temporary)

PanelSpec == PanelInit /\ [][PanelNext]_panelVars

-----------------------------------------------------------------------------
(* Whatever a superseded turn still delivers, the panel is busy exactly      *)
(* while the newest turn runs and drafts only its text, the thread is in the *)
(* order in which the turns were started, and no turn answers twice.         *)
PanelIsNewest ==
    /\ busy <=> \E t \in streams : LiveTurn(t)
    /\ draft # 0 => draft = turnSeq /\ busy
    /\ \A i, j \in DOMAIN thread :
         i < j => \/ thread[i].turn < thread[j].turn
                  \/ thread[i].turn = thread[j].turn /\ thread[i].what = "user"
                                                     /\ thread[j].what # "user"
=============================================================================
