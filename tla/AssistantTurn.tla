---------------------------- MODULE AssistantTurn ----------------------------
(***************************************************************************)
(* The assistant: POST /assistant/chat and /assistant/commands              *)
(* (app/api/routes_assistant.py), the turn they drive                       *)
(* (app/assistant/agent.py), the chain of model backends with failover      *)
(* (app/assistant/llm_client.py), the hold-back of narrated text            *)
(* (app/assistant/stream_guard.py) and the day's token budget               *)
(* (app/ratelimit.py).                                                      *)
(*                                                                          *)
(* Turns run on one event loop and interleave at their awaits and yields.   *)
(* A turn plans with the model, may run a tool, and narrates the result     *)
(* with the model again; the budget is looked at before each of the two     *)
(* calls and charged by what a call turns out to cost.                      *)
(***************************************************************************)
EXTENDS Integers, Sequences, FiniteSets

CONSTANTS
    Turn,       \* chat connections that may be open at once
    Chain,      \* length of the failover chain
    Budget,     \* MCA_ASSISTANT_TOKEN_BUDGET_PER_DAY; 0 sets none
    MaxCost,    \* the most one model call is charged, in units of tokens
    MaxWords,   \* the longest narration (_NARRATION_MAX_TOKENS, max_stream_seconds)
    Holdback,   \* HOLDBACK_WORDS
    MaxTurns,   \* bound on the turns of a behaviour
    MaxDay      \* bound on the UTC days of a behaviour

ASSUME AssistantAssumption ==
    /\ IsFiniteSet(Turn)
    /\ Chain \in Nat \ {0} /\ MaxCost \in Nat \ {0} /\ Holdback \in Nat \ {0}
    /\ Budget \in Nat /\ MaxWords \in Nat /\ MaxTurns \in Nat /\ MaxDay \in Nat

VARIABLES
    narrate,    \* MCA_ASSISTANT_NARRATION_ENABLED, fixed when the process starts
    turn,       \* turn[t]: the turn connection t carries
    tokenDay,   \* _token_day_key
    tokens,     \* _token_count
    day,        \* the UTC date
    spent,      \* spent[d]: tokens charged on day d
    opened      \* turns opened so far

budget == <<tokenDay, tokens, spent>>
vars == <<narrate, turn, budget, day, opened>>

Backend == 1 .. Chain

(* A word of a narration: who wrote it (0: the application itself), and how  *)
(* the output guard reads it: as the end of a forbidden phrase, as one only  *)
(* while it is cut short ("Safe" of "Safeway"), or as neither.               *)
Word == [by : Backend \cup {0}, reads : {"fine", "cut", "forbidden", "redirect"}]
AppText == <<[by |-> 0, reads |-> "fine"]>>
Redirect == <<[by |-> 0, reads |-> "redirect"]>>

Stage == {"closed", "context", "guard", "plan", "tool", "checkpoint", "narrate", "command"}
Ending == {"none", "done", "error", "gone"}

(* A turn: its stage, whether its session is in a transaction, the backend   *)
(* that is asked, whether that backend has begun to answer, what it has said,*)
(* what the client shows, and how the turn has ended.                        *)
Closed == [at |-> "closed", txn |-> FALSE, backend |-> 1, reached |-> FALSE,
           said |-> <<>>, shown |-> <<>>, ended |-> "none"]

At(t, stage) == turn[t].at = stage
Put(t, record) == turn' = [turn EXCEPT ![t] = record]
Live(t) == ~At(t, "closed")

-----------------------------------------------------------------------------
(* The token budget: one counter, reset by the first call of a day.          *)

Counted == IF tokenDay = day THEN tokens ELSE 0

(* Fault: the budget refuses one call late.                                  *)
ExhaustedLate == Budget > 0 /\ Counted > Budget

(* budget_exceeded.                                                          *)
Exhausted == Budget > 0 /\ Counted >= Budget

Charge(cost) ==
    /\ tokenDay' = day
    /\ tokens' = Counted + cost
    /\ spent' = [spent EXCEPT ![day] = @ + cost]

(* One model call is recorded: what the provider reports, else an estimate.  *)
Billed == \E cost \in 1 .. MaxCost : Charge(cost)

-----------------------------------------------------------------------------
(* Endings.  The session is closed with the response.                        *)

Ended(record, how, text) ==
    [record EXCEPT !.at = "closed", !.txn = FALSE, !.reached = FALSE,
                   !.ended = how, !.shown = text]

(* A token or replace event with a text of the application, then done.       *)
Answer(t) == Put(t, Ended(turn[t], "done", AppText))

(* An error event.  What is shown stays as it is.                            *)
Error(t) == Put(t, Ended(turn[t], "error", turn[t].shown))

(* The client is gone, and what it showed with it.                           *)
Abandon(t) == Put(t, [Closed EXCEPT !.ended = "gone"])

Idle == UNCHANGED <<narrate, day, opened>>
Unbilled == UNCHANGED budget

-----------------------------------------------------------------------------
(* The beginning of a turn.                                                  *)

Open(t, stage) ==
    /\ ~Live(t) /\ opened < MaxTurns
    /\ opened' = opened + 1
    /\ Put(t, [Closed EXCEPT !.at = stage])
    /\ UNCHANGED <<narrate, day, budget>>

Chat(t) == Open(t, "context")
Command(t) == Open(t, "command")

(* build_semantic_context reads the database and leaves its transaction open.*)
Context(t) ==
    /\ At(t, "context")
    /\ \/ Put(t, [turn[t] EXCEPT !.at = "guard", !.txn = TRUE])
       \/ Error(t)
    /\ Idle /\ Unbilled

(* The input guard, the product-scope answer and the missing selection need  *)
(* no model.                                                                 *)
Preflight(t) == At(t, "guard") /\ Answer(t) /\ Idle /\ Unbilled

(* Fault: the transaction of the context is kept through the planning call.  *)
FirstCheckpointInTransaction(t) ==
    /\ At(t, "guard")
    /\ IF Exhausted THEN Error(t)
       ELSE \E next \in {"plan", "tool"} : Put(t, [turn[t] EXCEPT !.at = next])
    /\ Idle /\ Unbilled

(* Budget checkpoint 1 of 2.  A follow-up on the latest result skips the     *)
(* planning call.                                                            *)
FirstCheckpoint(t) ==
    /\ At(t, "guard")
    /\ IF Exhausted THEN Error(t)
       ELSE \E next \in {"plan", "tool"} :
              Put(t, [turn[t] EXCEPT !.at = next, !.txn = FALSE])
    /\ Idle /\ Unbilled

-----------------------------------------------------------------------------
(* Planning: one call per backend until one answers.                         *)

(* LlmUnavailable: unreachable, refused at a limit, truncated or empty.  The *)
(* last two are charged.  The chain ends in an error.                        *)
PlanFails(t) ==
    /\ At(t, "plan")
    /\ IF turn[t].backend < Chain
       THEN Put(t, [turn[t] EXCEPT !.backend = @ + 1])
       ELSE Error(t)
    /\ Unbilled \/ Billed
    /\ Idle

(* A body that is no JSON raises a ValueError, which is neither charged nor  *)
(* failed over.                                                              *)
BodyUnreadable(t) == At(t, "plan") /\ Error(t) /\ Idle /\ Unbilled

(* Neither is an answer that is no plan failed over; it is charged.          *)
PlanUnreadable(t) ==
    /\ At(t, "plan") /\ Error(t)
    /\ Billed
    /\ Idle

(* A final message goes to the narrator unless the guard objects to it or    *)
(* narration is off; a plan of no known type is answered with a request to   *)
(* rephrase.                                                                 *)
PlanAnswers(t) ==
    /\ At(t, "plan")
    /\ Billed
    /\ \/ Put(t, [turn[t] EXCEPT !.at = "tool"])
       \/ Answer(t)
       \/ narrate /\ Put(t, [turn[t] EXCEPT !.at = "checkpoint"])
    /\ Idle

(* execute_tool: a clarification is an answer, a failure an error, and a     *)
(* result is narrated unless its summary is a redirect.                      *)
Tool(t) ==
    /\ At(t, "tool")
    /\ \/ Answer(t) \/ Error(t)
       \/ narrate /\ Put(t, [turn[t] EXCEPT !.at = "checkpoint", !.txn = TRUE])
    /\ Idle /\ Unbilled

(* /assistant/commands runs the tool and no model.                           *)
CommandTool(t) == At(t, "command") /\ (Answer(t) \/ Error(t)) /\ Idle /\ Unbilled

(* Budget checkpoint 2 of 2.                                                 *)
SecondCheckpoint(t) ==
    /\ At(t, "checkpoint")
    /\ IF Exhausted THEN Error(t)
       ELSE Put(t, [turn[t] EXCEPT !.at = "narrate", !.txn = FALSE, !.backend = 1])
    /\ Idle /\ Unbilled

-----------------------------------------------------------------------------
(* Narration.                                                                *)

Streaming(t) == At(t, "narrate") /\ turn[t].reached

(* The provider accepts the request.                                         *)
Reach(t) ==
    /\ At(t, "narrate") /\ ~turn[t].reached
    /\ Put(t, [turn[t] EXCEPT !.reached = TRUE])
    /\ Idle /\ Unbilled

(* Fault: the last backend is followed by the first.                         *)
FailOverInCircles(t) ==
    Put(t, [turn[t] EXCEPT !.backend = IF @ < Chain THEN @ + 1 ELSE 1, !.reached = FALSE])

(* Fault: the last backend is followed by one that is not there.             *)
FailOverPastEnd(t) ==
    Put(t, [turn[t] EXCEPT !.backend = @ + 1, !.reached = FALSE])

(* The next backend, or the deterministic text when there is none.           *)
FailOver(t) ==
    IF turn[t].backend < Chain
    THEN Put(t, [turn[t] EXCEPT !.backend = @ + 1, !.reached = FALSE])
    ELSE Answer(t)

Unreachable(t) ==
    /\ At(t, "narrate") /\ ~turn[t].reached
    /\ FailOver(t)
    /\ Idle /\ Unbilled

(* The guard trips on a forbidden word.                                      *)
Forbidden(words) == \E i \in DOMAIN words : words[i].reads = "forbidden"

(* It reads whole words only: a trailing partial word waits.                 *)
Trips(words, finished) ==
    Forbidden(SubSeq(words, 1, IF finished THEN Len(words) ELSE Len(words) - 1))

(* Fault: text is released as it arrives, before the guard has read it.      *)
ReleasedAtOnce(words) == words

(* _release_boundary: what lies before the held-back words.                  *)
Released(words) ==
    SubSeq(words, 1, IF Len(words) > Holdback THEN Len(words) - Holdback ELSE 0)

(* The shorter of what was shown before and what may be shown now is kept:   *)
(* released text is never taken back.                                        *)
Longer(a, b) == IF Len(a) >= Len(b) THEN a ELSE b

(* One delta: the guard reads the accumulated text, trips or lets go of what *)
(* lies before the held-back words.                                          *)
Delta(t) ==
    /\ Streaming(t) /\ Len(turn[t].said) < MaxWords
    /\ \E reads \in {"fine", "cut", "forbidden"}, finished \in BOOLEAN :
         LET words == Append(turn[t].said, [by |-> turn[t].backend, reads |-> reads])
             heard == [turn[t] EXCEPT !.said = words]
         IN  IF Trips(words, finished)
             THEN Put(t, Ended(heard, "done", Redirect)) /\ Billed
             ELSE /\ Put(t, [heard EXCEPT !.shown = Longer(@, Released(words))])
                  /\ Unbilled
    /\ Idle

(* Fault: what is held back when a stream dies is taken for the whole.       *)
StreamFailsDone(t) ==
    /\ Streaming(t)
    /\ IF turn[t].said = <<>> THEN FailOver(t)
       ELSE Put(t, Ended(turn[t], "done", turn[t].shown))
    /\ Billed
    /\ Idle

(* The stream dies, is truncated or runs out of time.  Before the first word *)
(* that is LlmUnavailable and fails over, after it LlmStreamInterrupted and  *)
(* the fallback text replaces what is shown.                                 *)
StreamFails(t) ==
    /\ Streaming(t)
    /\ IF turn[t].said = <<>> THEN FailOver(t) ELSE Answer(t)
    /\ Billed
    /\ Idle

(* The stream ends: an empty one fails over; else the guard reads all of it, *)
(* the last word included, and the rest is released.                         *)
StreamEnds(t) ==
    /\ Streaming(t)
    /\ \/ turn[t].said = <<>> /\ FailOver(t)
       \/ /\ turn[t].said # <<>> /\ Forbidden(turn[t].said)
          /\ Put(t, Ended(turn[t], "done", Redirect))
       \/ /\ turn[t].said # <<>> /\ ~Forbidden(turn[t].said)
          /\ Put(t, Ended(turn[t], "done", turn[t].said))
    /\ Billed
    /\ Idle

(* Fault: an abandoned narration is not charged.                             *)
DisconnectFree(t) ==
    /\ Live(t)
    /\ Abandon(t)
    /\ Idle /\ Unbilled

(* The client leaves.  The generators are closed from the outside in, and a  *)
(* stream the provider had begun is charged; a planning call is not.         *)
Disconnect(t) ==
    /\ Live(t)
    /\ Abandon(t)
    /\ IF Streaming(t) THEN Billed ELSE Unbilled
    /\ Idle

NextDay ==
    /\ day < MaxDay
    /\ day' = day + 1
    /\ UNCHANGED <<narrate, turn, budget, opened>>

Init ==
    /\ narrate \in BOOLEAN
    /\ turn = [t \in Turn |-> Closed]
    /\ tokenDay = -1 /\ tokens = 0
    /\ day = 0 /\ spent = [d \in 0 .. MaxDay |-> 0]
    /\ opened = 0

(* What the server does for a turn by itself, or the provider's answer makes *)
(* it do.                                                                    *)
Serve(t) ==
    \/ Context(t) \/ Preflight(t) \/ FirstCheckpoint(t)
    \/ PlanFails(t) \/ BodyUnreadable(t) \/ PlanUnreadable(t) \/ PlanAnswers(t) \/ Tool(t)
    \/ CommandTool(t) \/ SecondCheckpoint(t)
    \/ Reach(t) \/ Unreachable(t) \/ Delta(t) \/ StreamFails(t) \/ StreamEnds(t)

Next ==
    \/ \E t \in Turn : Chat(t) \/ Command(t) \/ Serve(t) \/ Disconnect(t)
    \/ NextDay

Spec == Init /\ [][Next]_vars

(* The event loop runs every turn, and every model call answers or times out *)
(* (timeout_s between two chunks, max_stream_seconds in all).                *)
FairSpec == Spec /\ \A t \in Turn : WF_vars(Serve(t))

-----------------------------------------------------------------------------
(* Properties.                                                               *)

(* Every variable has its type: no call goes past the end of the chain.      *)
TypeOK ==
    /\ narrate \in BOOLEAN
    /\ turn \in [Turn -> [at : Stage, txn : BOOLEAN, backend : Backend, reached : BOOLEAN,
                         said : Seq(Word), shown : Seq(Word), ended : Ending]]
    /\ tokenDay \in -1 .. MaxDay /\ day \in 0 .. MaxDay
    /\ tokens \in Nat /\ spent \in [0 .. MaxDay -> Nat]
    /\ opened \in 0 .. MaxTurns

(* However turns interleave, and across midnight, a day is overspent by at   *)
(* most one run through the chain per open connection.                       *)
BudgetBound ==
    Budget > 0 =>
      \A d \in 0 .. MaxDay :
        spent[d] <= Budget - 1 + Cardinality(Turn) * Chain * MaxCost

(* No pooled connection is held in a transaction while the model is awaited. *)
NoTransactionWhileWaiting ==
    \A t \in Turn : turn[t].at \in {"plan", "narrate"} => ~turn[t].txn

(* What a provider has begun to generate is charged, however the stream is   *)
(* left: at its end, on a trip of the guard, on a failure, on a disconnect.  *)
GenerationIsCharged ==
    [][\A t \in Turn :
         Streaming(t) /\ <<turn'[t].at, turn'[t].backend>> # <<"narrate", turn[t].backend>>
           => spent' # spent]_vars

(* No forbidden phrase is ever whole on the screen, narrated words are a     *)
(* prefix of what one backend said (a failover never continues another's     *)
(* sentence), and only a phrase that was said brings the redirect: a word    *)
(* cut by a chunk boundary does not.                                         *)
ShownIsGuarded ==
    \A t \in Turn :
      LET shown == turn[t].shown
      IN  /\ ~Forbidden(shown)
          /\ \/ shown = AppText
             \/ shown = Redirect /\ Forbidden(turn[t].said)
             \/ /\ Len(shown) <= Len(turn[t].said)
                /\ shown = SubSeq(turn[t].said, 1, Len(shown))
                /\ \A i \in DOMAIN shown : shown[i].by = turn[t].backend

(* A turn as its client sees it.                                             *)
View == [t \in Turn |->
           [phase |-> IF Live(t) THEN "open"
                      ELSE IF turn[t].ended = "none" THEN "idle" ELSE turn[t].ended,
            text |-> IF turn[t].shown = <<>> THEN "none"
                     ELSE IF turn[t].ended = "done"
                             /\ turn[t].shown \in {AppText, Redirect, turn[t].said} THEN "whole"
                     ELSE "part"]]

Promise == INSTANCE AnswerStream WITH view <- View

(* The turn implements the promise of AnswerStream.                          *)
KeepsPromise == Promise!Spec

(* Planning is given up without a charged answer only when every backend of  *)
(* the chain has failed.                                                     *)
GivesUpLast ==
    [][\A t \in Turn :
         At(t, "plan") /\ turn'[t].ended = "error" /\ spent' = spent
           => turn[t].backend = Chain]_vars

(* Every turn ends.                                                          *)
TurnEnds == \A t \in Turn : Live(t) ~> ~Live(t)
=============================================================================
