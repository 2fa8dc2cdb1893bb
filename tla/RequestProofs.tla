--------------------------- MODULE RequestProofs ---------------------------
(*****************************************************************************)
(* Both ends of a request, for any number of requests, searches, turns and   *)
(* runs, answered in any order.                                              *)
(*                                                                           *)
(* What the hooks of the workspace show: the dots are of the view, the       *)
(* thread and the draft of the newest turn, the suggestions of the text in   *)
(* the box, the page of the drawn area, and the report of the newest run.    *)
(* These arguments have one shape.  An answer may change what is shown only  *)
(* if it is still awaited, and the invariant says of whatever is still       *)
(* awaited that it asks for what is in view.                                 *)
(*                                                                           *)
(* What a request is charged and given on its way in: the limits of          *)
(* RequestCharging and the spooled body of RequestBody.                      *)
(*****************************************************************************)
EXTENDS IncidentPoints, PanelTurn, AddressSearch, AreaPaging, Workspace,
        RequestCharging, RequestBody, SequenceTheorems, FiniteSetTheorems,
        WellFoundedInduction, TLAPS

-----------------------------------------------------------------------------
(* IncidentPoints.                                                           *)

(* What the hook keeps.                                                      *)
PointsType ==
    /\ generation \in Nat /\ scope \in Scope /\ bounds \in Bounds \cup {None}
    /\ lastScope \in Scope \cup {None}
    /\ due \in BOOLEAN /\ loadedOnce \in BOOLEAN /\ refreshing \in BOOLEAN /\ stale \in BOOLEAN
    /\ pointRequests \subseteq Captured /\ timer \in Captured \cup {None}
    /\ dots \in View \cup {None}

(* Neither aborted nor of a generation that has passed.                      *)
Awaited(r) == ~r.aborted /\ r.of = generation

(* What is asked for is what the last effect saw.                            *)
AsksForView(r) ==
    r.scope = lastScope /\ r.scope \in Loadable /\ (~due => r.bounds = bounds)

(* One answer is to come: from the timer, or from one request.               *)
AwaitInv ==
    /\ \A r \in pointRequests : r.of <= generation
    /\ timer # None => Awaited(timer) /\ AsksForView(timer)
    /\ \A r \in pointRequests : Awaited(r) => timer = None /\ AsksForView(r)
    /\ \A r, q \in pointRequests : Awaited(r) /\ Awaited(q) => r = q
    /\ refreshing <=> (timer # None \/ \E r \in pointRequests : Awaited(r))

(* The dots are of the scope of the last effect.                             *)
DotsInv ==
    /\ lastScope = None => ~loadedOnce
    /\ dots # None => dots.scope = lastScope /\ lastScope \in Loadable
    /\ ~due => /\ lastScope = scope
               /\ dots # None => dots.bounds = bounds \/ refreshing \/ stale

PointsInv == PointsType /\ AwaitInv /\ DotsInv

LEMMA PointsInvHolds == PointsInv => DotsBelongToView
  BY DEF PointsInv, AwaitInv, DotsInv, DotsBelongToView, Awaited, Superseded

LEMMA PointsInvInit == PointsInit => PointsInv
  <1> SUFFICES ASSUME PointsInit PROVE PointsInv
    OBVIOUS
  <1>1. PointsType
    BY PointsAssumption DEF PointsInit, PointsType
  <1>2. AwaitInv /\ DotsInv
    BY DEF PointsInit, AwaitInv, DotsInv
  <1> QED BY <1>1, <1>2 DEF PointsInv

LEMMA PointsChange ==
  ASSUME PointsInv, \/ \E b \in Bounds : Pan(b)
                    \/ \E s \in Scope : Rescope(s)
  PROVE  PointsInv'
  <1>1. /\ due' = TRUE /\ scope' \in Scope /\ bounds' \in Bounds \cup {None}
        /\ UNCHANGED <<lastScope, generation, timer, pointRequests, dots, loadedOnce,
                       refreshing, stale>>
    BY DEF Pan, Rescope, Changed, PointsInv, PointsType
  <1>2. PointsType'
    BY <1>1 DEF PointsInv, PointsType
  <1>3. AwaitInv'
    BY <1>1 DEF PointsInv, AwaitInv, Awaited, AsksForView
  <1>4. DotsInv'
    BY <1>1 DEF PointsInv, DotsInv
  <1> QED BY <1>2, <1>3, <1>4 DEF PointsInv

LEMMA PointsEffectStep ==
  ASSUME PointsInv, PointsEffect
  PROVE  PointsInv'
  <1> USE DEF PointsInv
  <1>1. /\ due' = FALSE /\ scope' = scope /\ bounds' = bounds
        /\ lastScope' = scope /\ generation' = generation + 1 /\ generation' \in Nat
        /\ scope \in Scope
    BY DEF PointsEffect, PointsType
  <1>2. /\ pointRequests' \subseteq Captured
        /\ \A r \in pointRequests' : r.aborted /\ r.of <= generation'
    <2>1. ASSUME NEW r \in pointRequests
          PROVE  /\ [r EXCEPT !.aborted = TRUE] \in Captured
                 /\ [r EXCEPT !.aborted = TRUE].aborted
                 /\ [r EXCEPT !.aborted = TRUE].of <= generation'
      <3>1. r \in Captured /\ r.of <= generation
        BY DEF PointsType, AwaitInv
      <3>2. [r EXCEPT !.aborted = TRUE] \in Captured /\ r.of \in Nat /\ generation \in Nat
        BY <3>1 DEF Captured, PointsType
      <3>3. /\ [r EXCEPT !.aborted = TRUE].aborted = TRUE
            /\ [r EXCEPT !.aborted = TRUE].of = r.of
        BY <3>1 DEF Captured
      <3>4. r.of <= generation'
        BY <1>1, <3>1, <3>2
      <3> QED BY <3>2, <3>3, <3>4
    <2>2. pointRequests' = {[r EXCEPT !.aborted = TRUE] : r \in pointRequests}
      BY DEF PointsEffect
    <2> QED BY <2>1, <2>2
  <1>3. CASE bounds = None \/ scope \notin Loadable
    <2>1. /\ timer' = None /\ dots' = None
          /\ loadedOnce' = FALSE /\ refreshing' = FALSE /\ stale' = FALSE
      BY <1>3 DEF PointsEffect
    <2>2. PointsType'
      BY <1>1, <1>2, <2>1 DEF PointsType
    <2>3. AwaitInv'
      BY <1>1, <1>2, <2>1 DEF AwaitInv, Awaited
    <2>4. DotsInv'
      BY <1>1, <2>1 DEF DotsInv
    <2> QED BY <2>2, <2>3, <2>4
  <1>4. CASE bounds # None /\ scope \in Loadable
    <2>1. /\ timer' = [of |-> generation', scope |-> scope, bounds |-> bounds,
                       preserve |-> Preserve(scope), aborted |-> FALSE]
          /\ dots' = IF Preserve(scope) THEN dots ELSE None
          /\ loadedOnce' = Preserve(scope)
          /\ stale' = (stale /\ Preserve(scope))
          /\ refreshing' = TRUE
      BY <1>4 DEF PointsEffect
    <2>2. timer' \in Captured
      BY <1>1, <1>4, <2>1 DEF PointsType, Captured, Preserve
    <2>3. Awaited(timer)' /\ AsksForView(timer)'
      BY <1>1, <1>4, <2>1 DEF Awaited, AsksForView
    <2>4. PointsType'
      BY <1>1, <1>2, <2>1, <2>2 DEF PointsType, Preserve
    <2>5. AwaitInv'
      BY <1>1, <1>2, <2>1, <2>2, <2>3, PointsAssumption DEF AwaitInv, Awaited
    <2>6. dots' # None => dots'.scope = lastScope' /\ lastScope' \in Loadable
      BY <1>1, <1>4, <2>1 DEF DotsInv, Preserve
    <2>7. DotsInv'
      BY <1>1, <2>1, <2>6, PointsAssumption DEF DotsInv
    <2> QED BY <2>4, <2>5, <2>7
  <1> QED BY <1>3, <1>4

LEMMA PointsDebounced ==
  ASSUME PointsInv, DebounceEnds
  PROVE  PointsInv'
  <1> USE DEF PointsInv
  <1>1. /\ timer # None /\ timer \in Captured /\ timer' = None
        /\ pointRequests' = pointRequests \cup {timer}
        /\ UNCHANGED <<scope, bounds, due, lastScope, generation, dots, loadedOnce, refreshing,
                       stale>>
    BY DEF DebounceEnds, PointsType
  <1>2. PointsType'
    BY <1>1 DEF PointsType
  <1>3. Awaited(timer) /\ AsksForView(timer) /\ refreshing
    BY <1>1 DEF AwaitInv
  <1>4. \A r \in pointRequests : ~Awaited(r)
    BY <1>1 DEF AwaitInv
  <1>5. AwaitInv'
    <2>1. \A r \in pointRequests' : r.of <= generation'
      BY <1>1, <1>3 DEF AwaitInv, Awaited, PointsType
    <2>2. \A r \in pointRequests' : Awaited(r)' => AsksForView(r)' /\ r = timer
      BY <1>1, <1>3, <1>4 DEF AsksForView, Awaited
    <2>3. refreshing' /\ timer \in pointRequests' /\ ~timer.aborted /\ timer.of = generation'
      BY <1>1, <1>3 DEF Awaited
    <2> QED BY <1>1, <2>1, <2>2, <2>3 DEF AwaitInv, Awaited, AsksForView
  <1>6. DotsInv'
    BY <1>1 DEF DotsInv
  <1> QED BY <1>2, <1>5, <1>6

(* An answer, or a failure, of a request nobody awaits changes nothing.      *)
LEMMA PointsSuperseded ==
  ASSUME PointsInv, NEW r \in pointRequests, Superseded(r), pointRequests' = pointRequests \ {r},
         UNCHANGED <<scope, bounds, due, lastScope, generation, timer, dots, loadedOnce,
                     refreshing, stale>>
  PROVE  PointsInv'
  <1> USE DEF PointsInv
  <1>1. ~Awaited(r)
    BY DEF Superseded, Awaited
  <1>2. PointsType'
    BY DEF PointsType
  <1>3. AwaitInv'
    BY <1>1 DEF AwaitInv, Awaited, AsksForView
  <1>4. DotsInv'
    BY DEF DotsInv
  <1> QED BY <1>2, <1>3, <1>4

LEMMA PointsSettled ==
  ASSUME PointsInv, NEW r \in pointRequests, ~Superseded(r),
         pointRequests' = pointRequests \ {r}, refreshing' = FALSE,
         UNCHANGED <<scope, bounds, due, lastScope, generation, timer>>
  PROVE  AwaitInv' /\ AsksForView(r) /\ lastScope # None
  <1> USE DEF PointsInv
  <1>1. Awaited(r)
    BY DEF Superseded, Awaited
  <1>2. timer = None /\ AsksForView(r) /\ \A q \in pointRequests' : ~Awaited(q)
    BY <1>1 DEF AwaitInv
  <1>3. AwaitInv'
    BY <1>2 DEF AwaitInv, Awaited
  <1> QED BY <1>2, <1>3, PointsAssumption DEF AsksForView

LEMMA PointsArrival ==
  ASSUME PointsInv, NEW r \in pointRequests, PointsArrive(r)
  PROVE  PointsInv'
  <1>1. CASE Superseded(r)
    BY <1>1, PointsSuperseded DEF PointsArrive
  <1>2. CASE ~Superseded(r)
    <2>1. /\ dots' = [scope |-> r.scope, bounds |-> r.bounds]
          /\ loadedOnce' = TRUE /\ refreshing' = FALSE /\ stale' = FALSE
          /\ pointRequests' = pointRequests \ {r}
          /\ UNCHANGED <<scope, bounds, due, lastScope, generation, timer>>
      BY <1>2 DEF PointsArrive
    <2>2. AwaitInv' /\ AsksForView(r) /\ lastScope # None
      BY <1>2, <2>1, PointsSettled
    <2>3. dots' \in View
      BY <2>1 DEF View, PointsInv, PointsType, Captured
    <2>4. PointsType'
      BY <2>1, <2>3 DEF PointsInv, PointsType
    <2>5. DotsInv'
      BY <2>1, <2>2 DEF PointsInv, DotsInv, AsksForView
    <2> QED BY <2>2, <2>4, <2>5 DEF PointsInv
  <1> QED BY <1>1, <1>2

LEMMA PointsFailure ==
  ASSUME PointsInv, NEW r \in pointRequests, PointsFail(r)
  PROVE  PointsInv'
  <1>1. CASE Superseded(r)
    BY <1>1, PointsSuperseded DEF PointsFail
  <1>2. CASE ~Superseded(r)
    <2>1. /\ refreshing' = FALSE /\ stale' = r.preserve
          /\ dots' = IF r.preserve THEN dots ELSE None
          /\ loadedOnce' = (loadedOnce /\ r.preserve)
          /\ pointRequests' = pointRequests \ {r}
          /\ UNCHANGED <<scope, bounds, due, lastScope, generation, timer>>
      BY <1>2 DEF PointsFail
    <2>2. AwaitInv' /\ AsksForView(r) /\ lastScope # None
      BY <1>2, <2>1, PointsSettled
    <2>3. r.preserve \in BOOLEAN
      BY DEF PointsInv, PointsType, Captured
    <2>4. PointsType'
      BY <2>1, <2>3 DEF PointsInv, PointsType
    <2>5. dots' # None => dots' = dots /\ stale'
      BY <2>1
    <2>6. DotsInv'
      BY <2>1, <2>2, <2>5 DEF PointsInv, DotsInv
    <2> QED BY <2>2, <2>4, <2>6 DEF PointsInv
  <1> QED BY <1>1, <1>2

LEMMA PointsInvStep == PointsInv /\ [PointsNext]_pointVars => PointsInv'
  <1>1. PointsInv /\ UNCHANGED pointVars => PointsInv'
    BY DEF pointVars, PointsInv, PointsType, AwaitInv, DotsInv, Awaited, AsksForView
  <1> QED BY <1>1, PointsChange, PointsEffectStep, PointsDebounced, PointsArrival, PointsFailure
          DEF PointsNext

(* The dots never answer another scope than the one in view, and answer      *)
(* other bounds only while their successor is awaited or they are marked     *)
(* stale.                                                                    *)
THEOREM DotsOfTheView == PointsSpec => []DotsBelongToView
  BY PointsInvInit, PointsInvStep, PointsInvHolds, PTL DEF PointsSpec

-----------------------------------------------------------------------------
(* PanelTurn.                                                                *)

(* The locals of a turn whose promise is pending.                            *)
PendingTurn ==
    [turn : Nat, kind : {"chat", "command"}, text : BOOLEAN, errored : BOOLEAN,
     unreachable : BOOLEAN, tool : {"none", "settings", "other"}]

Entry == [turn : Nat, what : {"user", "notice", "tabby"}]

(* The last conjunct of PanelIsNewest.                                       *)
InOrder(s) ==
  \A i, j \in DOMAIN s :
     i < j => \/ s[i].turn < s[j].turn
              \/ s[i].turn = s[j].turn /\ s[i].what = "user" /\ s[j].what # "user"

(* And the first two.                                                        *)
Shows ==
    /\ busy <=> \E t \in streams : LiveTurn(t)
    /\ draft # 0 => draft = turnSeq /\ busy

(* A turn has at most one promise, and one not yet answered by the newest.   *)
PanelInv ==
    /\ turnSeq \in Nat /\ busy \in BOOLEAN /\ streams \subseteq PendingTurn
    /\ \A t \in streams : t.turn <= turnSeq /\ t.turn > 0
    /\ \A t, u \in streams : t.turn = u.turn => t = u
    /\ thread \in Seq(Entry)
    /\ \A i \in DOMAIN thread :
         /\ thread[i].turn <= turnSeq
         /\ busy /\ thread[i].turn = turnSeq => thread[i].what = "user"
    /\ Shows /\ InOrder(thread)

(* An entry of turn n may be appended: nothing of a later turn is in the     *)
(* thread, and nothing but the user has spoken in this one.                  *)
Speaks(n, what) ==
  \A i \in DOMAIN thread :
     \/ thread[i].turn < n
     \/ thread[i].turn = n /\ thread[i].what = "user" /\ what # "user"

LEMMA Entries ==
  PanelInv =>
    \A i \in DOMAIN thread :
           /\ thread[i].turn \in Nat /\ thread[i].turn <= turnSeq
           /\ busy = TRUE /\ thread[i].turn = turnSeq => thread[i].what = "user"
  <1> SUFFICES ASSUME PanelInv
               PROVE  \A i \in DOMAIN thread :
                        /\ thread[i].turn \in Nat /\ thread[i].turn <= turnSeq
                        /\ busy = TRUE /\ thread[i].turn = turnSeq => thread[i].what = "user"
    OBVIOUS
  <1>1. \A i \in DOMAIN thread : thread[i].turn \in Nat
    <2>1. thread \in Seq(Entry)
      BY DEF PanelInv
    <2>2. \A i \in DOMAIN thread : thread[i] \in Entry
      BY <2>1
    <2> QED BY <2>2 DEF Entry
  <1>2. \A i \in DOMAIN thread : thread[i].turn <= turnSeq
    BY DEF PanelInv
  <1>3. ASSUME NEW i \in DOMAIN thread, busy = TRUE, thread[i].turn = turnSeq
        PROVE  thread[i].what = "user"
    <2>1. busy
      BY <1>3
    <2> QED BY <2>1, <1>3, Zenon DEF PanelInv
  <1> QED BY <1>1, <1>2, <1>3

LEMMA SaidKeepsOrder ==
  ASSUME PanelInv, NEW n \in Nat, NEW what \in {"user", "notice", "tabby"}, Said(n, what), Speaks(n, what)
  PROVE  /\ thread' \in Seq(Entry)
         /\ \A i \in DOMAIN thread' :
              \/ i \in DOMAIN thread /\ thread'[i] = thread[i]
              \/ i = Len(thread) + 1 /\ thread'[i] = [turn |-> n, what |-> what]
         /\ InOrder(thread')
  <1>1. thread \in Seq(Entry)
    BY DEF PanelInv
  <1>2. /\ thread' = Append(thread, [turn |-> n, what |-> what])
        /\ [turn |-> n, what |-> what] \in Entry
    BY DEF Said, Entry
  <1>3. \A i \in DOMAIN thread' :
              \/ i \in DOMAIN thread /\ thread'[i] = thread[i]
              \/ i = Len(thread) + 1 /\ thread'[i] = [turn |-> n, what |-> what]
    BY <1>1, <1>2
  <1>4. thread' \in Seq(Entry)
    BY <1>1, <1>2
  <1>5. ASSUME NEW i \in DOMAIN thread', NEW j \in DOMAIN thread', i < j
        PROVE  \/ thread'[i].turn < thread'[j].turn
               \/ thread'[i].turn = thread'[j].turn /\ thread'[i].what = "user"
                                                    /\ thread'[j].what # "user"
    <2>1. i \in DOMAIN thread /\ thread'[i] = thread[i]
      BY <1>1, <1>2, <1>5
    <2>2. CASE j \in DOMAIN thread /\ thread'[j] = thread[j]
      BY <2>1, <2>2, <1>5 DEF PanelInv, InOrder
    <2>3. CASE thread'[j] = [turn |-> n, what |-> what]
      BY <2>1, <2>3 DEF Speaks
    <2> QED BY <2>2, <2>3, <1>3
  <1> QED BY <1>3, <1>4, <1>5 DEF InOrder

LEMMA PanelInvInit == PanelInit => PanelInv
  <1>1. <<>> \in Seq(Entry) /\ DOMAIN <<>> = {}
    OBVIOUS
  <1> SUFFICES ASSUME PanelInit PROVE PanelInv
    OBVIOUS
  <1>2. /\ turnSeq = 0 /\ draft = 0 /\ streams = {} /\ busy = FALSE
        /\ thread \in Seq(Entry) /\ DOMAIN thread = {}
    BY <1>1 DEF PanelInit
  <1>3. Shows /\ InOrder(thread)
    BY <1>2 DEF Shows, InOrder
  <1> QED BY <1>2, <1>3 DEF PanelInv

LEMMA PanelSend ==
  ASSUME PanelInv, NEW kind \in {"chat", "command"}, NEW retry \in BOOLEAN, SendTurn(kind, retry)
  PROVE  PanelInv'
  <1>0. turnSeq \in Nat /\ streams \subseteq PendingTurn
    BY DEF PanelInv
  <1> DEFINE new == [turn |-> turnSeq', kind |-> kind, text |-> FALSE, errored |-> FALSE,
                     unreachable |-> FALSE, tool |-> "none"]
  <1>1. turnSeq' = turnSeq + 1 /\ turnSeq' \in Nat /\ busy' = TRUE /\ draft' = 0
    BY DEF SendTurn, PanelInv
  <1>2. new \in PendingTurn
    BY <1>1 DEF PendingTurn
  <1>3. streams' = streams \cup {new}
    BY DEF SendTurn
  <1>4. streams' \subseteq PendingTurn
    BY <1>2, <1>3 DEF PanelInv
  <1>5. new.turn = turnSeq' /\ new \in streams'
    BY <1>3
  <1> HIDE DEF new
  <1>6. \A t \in streams' : t.turn <= turnSeq' /\ t.turn > 0
    BY <1>1, <1>3, <1>5 DEF PanelInv, PendingTurn
  <1>7. \A t, u \in streams' : t.turn = u.turn => t = u
    BY <1>1, <1>3, <1>5 DEF PanelInv, PendingTurn
  <1>8. /\ thread' \in Seq(Entry)
        /\ \A i \in DOMAIN thread' :
             /\ thread'[i].turn <= turnSeq'
             /\ thread'[i].turn = turnSeq' => thread'[i].what = "user"
        /\ InOrder(thread')
    <2>1. \A i \in DOMAIN thread : thread[i].turn \in Nat /\ thread[i].turn < turnSeq'
      BY <1>0, <1>1, Entries
    <2>2. CASE retry
      BY <1>1, <2>1, <2>2 DEF SendTurn, PanelInv, Shows
    <2>3. CASE ~retry
      <3>1. PICK n \in Nat : n = turnSeq'
        BY <1>1
      <3>2. Said(n, "user")
        BY <2>3, <3>1 DEF SendTurn, Said
      <3>3. Speaks(n, "user")
        BY <2>1, <3>1 DEF Speaks
      <3>4. /\ thread' \in Seq(Entry)
            /\ \A i \in DOMAIN thread' :
                 \/ i \in DOMAIN thread /\ thread'[i] = thread[i]
                 \/ i = Len(thread) + 1 /\ thread'[i] = [turn |-> n, what |-> "user"]
            /\ InOrder(thread')
        BY <3>2, <3>3, SaidKeepsOrder
      <3> QED BY <1>1, <2>1, <3>1, <3>4
    <2> QED BY <2>2, <2>3
  <1>9. Shows'
    BY <1>1, <1>5, <1>8 DEF Shows, LiveTurn
  <1> QED BY <1>1, <1>4, <1>6, <1>7, <1>8, <1>9 DEF PanelInv

LEMMA PanelEvent ==
  ASSUME PanelInv, NEW t \in streams, NEW new \in PendingTurn, NEW shows \in BOOLEAN,
         new.turn = t.turn, Event(t, new, shows)
  PROVE  PanelInv'
  <1>1. CASE LiveTurn(t)
    <2>1. streams' = (streams \ {t}) \cup {new} /\ UNCHANGED <<turnSeq, busy, thread>>
      BY <1>1 DEF Event
    <2>2. busy
      BY <1>1 DEF PanelInv, Shows
    <2>3. draft' = IF shows THEN turnSeq ELSE draft
      BY <1>1 DEF Event, LiveTurn
    <2>4. \E u \in streams' : u.turn = turnSeq'
      BY <1>1, <2>1 DEF LiveTurn
    <2>5. Shows'
      <3>1. busy'
        BY <2>1, <2>2
      <3>2. draft' # 0 => draft' = turnSeq'
        BY <2>1, <2>3 DEF PanelInv, Shows
      <3>3. InOrder(thread')
        BY <2>1 DEF PanelInv, Shows
      <3> QED BY <3>1, <3>2, <3>3, <2>4 DEF Shows, LiveTurn
    <2>6. streams' \subseteq PendingTurn
      BY <2>1 DEF PanelInv
    <2>7. \A u \in streams' : u.turn <= turnSeq' /\ u.turn > 0
      BY <2>1 DEF PanelInv
    <2>8. \A u, v \in streams' : u.turn = v.turn => u = v
      BY <2>1 DEF PanelInv
    <2> QED BY <2>1, <2>5, <2>6, <2>7, <2>8 DEF PanelInv
  <1>2. CASE ~LiveTurn(t)
    BY <1>2 DEF Event, PanelInv, Shows, LiveTurn
  <1> QED BY <1>1, <1>2

LEMMA PanelEnd ==
  ASSUME PanelInv, NEW t \in streams,
         streams' = streams \ {t}, turnSeq' = turnSeq,
         IF LiveTurn(t)
         THEN /\ draft' = 0 /\ busy' = FALSE
              /\ \/ UNCHANGED thread
                 \/ \E what \in {"notice", "tabby"} : Said(t.turn, what)
         ELSE UNCHANGED <<thread, draft, busy>>
  PROVE  PanelInv'
  <1>1. /\ streams' \subseteq PendingTurn
        /\ \A u \in streams' : u.turn <= turnSeq' /\ u.turn > 0
        /\ \A u, v \in streams' : u.turn = v.turn => u = v
    BY DEF PanelInv
  <1>2. CASE LiveTurn(t)
    <2>1. \A u \in streams' : u.turn # turnSeq'
      BY <1>2 DEF PanelInv, LiveTurn
    <2>2. /\ thread' \in Seq(Entry)
          /\ \A i \in DOMAIN thread' : thread'[i].turn <= turnSeq'
          /\ InOrder(thread')
      <3>1. CASE UNCHANGED thread
        BY <3>1 DEF PanelInv, Shows
      <3>2. CASE \E what \in {"notice", "tabby"} : Said(t.turn, what)
        <4>1. PICK what \in {"notice", "tabby"} : Said(t.turn, what)
          BY <3>2
        <4>2. busy /\ t.turn = turnSeq /\ turnSeq \in Nat
          BY <1>2 DEF PanelInv, Shows, LiveTurn
        <4>3. Speaks(t.turn, what)
          <5>1. busy = TRUE
            BY <4>2 DEF PanelInv
          <5> QED BY <4>1, <4>2, <5>1, Entries DEF Speaks
        <4>4. \A i \in DOMAIN thread : thread[i].turn <= turnSeq
          BY DEF PanelInv
        <4>5. /\ thread' \in Seq(Entry)
              /\ \A i \in DOMAIN thread' :
                   \/ i \in DOMAIN thread /\ thread'[i] = thread[i]
                   \/ i = Len(thread) + 1 /\ thread'[i] = [turn |-> t.turn, what |-> what]
              /\ InOrder(thread')
          <5>1. what \in {"user", "notice", "tabby"}
            OBVIOUS
          <5> QED BY <4>1, <4>2, <4>3, <5>1, SaidKeepsOrder
        <4> QED BY <1>2, <4>2, <4>4, <4>5
      <3> QED BY <1>2, <3>1, <3>2
    <2>3. busy' = FALSE /\ draft' = 0
      BY <1>2
    <2>4. Shows'
      BY <2>1, <2>2, <2>3 DEF Shows, LiveTurn
    <2> QED BY <1>1, <2>2, <2>3, <2>4 DEF PanelInv
  <1>3. CASE ~LiveTurn(t)
    <2>1. UNCHANGED <<thread, draft, busy>>
      BY <1>3
    <2>2. (\E u \in streams' : u.turn = turnSeq') <=> (\E u \in streams : u.turn = turnSeq)
      BY <1>3 DEF LiveTurn
    <2>3. Shows'
      BY <2>1, <2>2 DEF PanelInv, Shows, LiveTurn
    <2> QED BY <1>1, <2>1, <2>3 DEF PanelInv
  <1> QED BY <1>2, <1>3

LEMMA PanelInvStep == PanelInv /\ [PanelNext]_panelVars => PanelInv'
  <1> SUFFICES ASSUME PanelInv, [PanelNext]_panelVars PROVE PanelInv'
    OBVIOUS
  <1>1. ASSUME NEW kind \in {"chat", "command"}, NEW retry \in BOOLEAN, SendTurn(kind, retry)
        PROVE  PanelInv'
    BY <1>1, PanelSend
  <1>2. ASSUME NEW t \in streams, StreamEvent(t)
        PROVE  PanelInv'
    <2>0. t \in PendingTurn
      BY DEF PanelInv
    <2>1. CASE Event(t, [t EXCEPT !.text = TRUE], TRUE)
      <3> DEFINE new == [t EXCEPT !.text = TRUE]
      <3>1. new \in PendingTurn /\ new.turn = t.turn
        BY <2>0 DEF PendingTurn
      <3> QED BY <2>1, <3>1, PanelEvent
    <2>2. ASSUME NEW tool \in {"settings", "other"},
                 Event(t, [t EXCEPT !.tool = IF @ = "other" THEN @ ELSE tool], FALSE)
          PROVE  PanelInv'
      <3> DEFINE new == [t EXCEPT !.tool = IF @ = "other" THEN @ ELSE tool]
      <3>1. new \in PendingTurn /\ new.turn = t.turn
        BY <2>0 DEF PendingTurn
      <3> QED BY <2>2, <3>1, PanelEvent
    <2>3. ASSUME NEW code \in BOOLEAN,
                 Event(t, [t EXCEPT !.errored = TRUE,
                                    !.unreachable = IF t.errored THEN @ ELSE code], FALSE)
          PROVE  PanelInv'
      <3> DEFINE new == [t EXCEPT !.errored = TRUE,
                                  !.unreachable = IF t.errored THEN @ ELSE code]
      <3>1. new \in PendingTurn /\ new.turn = t.turn
        BY <2>0 DEF PendingTurn
      <3> QED BY <2>3, <3>1, PanelEvent
    <2> QED BY <1>2, <2>1, <2>2, <2>3 DEF StreamEvent
  <1>3. ASSUME NEW t \in streams, StreamEnds(t)
        PROVE  PanelInv'
    <2>1. Outcome(t) => UNCHANGED thread \/ \E what \in {"notice", "tabby"} : Said(t.turn, what)
      BY DEF Outcome
    <2> QED BY <1>3, <2>1, PanelEnd DEF StreamEnds
  <1>4. ASSUME NEW t \in streams, NEW temporary \in BOOLEAN, StreamRejected(t, temporary)
        PROVE  PanelInv'
    BY <1>4, PanelEnd DEF StreamRejected
  <1>5. CASE UNCHANGED panelVars
    BY <1>5 DEF panelVars, PanelInv, Shows, LiveTurn
  <1> QED BY <1>1, <1>2, <1>3, <1>4, <1>5 DEF PanelNext

(* The draft is of the newest turn, the panel is busy exactly while that     *)
(* turn is pending, and the thread is in the order the turns were sent in,   *)
(* one answer to each, whatever order the streams end in.                    *)
THEOREM NewestTurnSpeaks == PanelSpec => []PanelIsNewest
  <1>1. PanelInv => PanelIsNewest
    BY DEF PanelInv, Shows, InOrder, PanelIsNewest
  <1> QED BY <1>1, PanelInvInit, PanelInvStep, PTL DEF PanelSpec

-----------------------------------------------------------------------------
(* AddressSearch.                                                            *)

(* A search in flight.                                                       *)
LookedUp == [by : Nat, query : Query]
Settled == {"idle", "loading", "done", "empty", "error"}

(* AnswersAreCurrent, case by case.                                          *)
Current ==
    /\ status \in {"done", "empty"} => found = query /\ query # Blank
    /\ status = "loading" => \E l \in lookups : l.by \notin aborted /\ l.query = query
    /\ status = "error" => query # Blank /\ found = Blank
    /\ status = "idle" => query = Blank /\ found = Blank

(* Whatever is not aborted asks for the text in the box, by the controller   *)
(* in abortRef, whose timer is over.                                         *)
SearchInv ==
    /\ query \in Query /\ fetches \in Nat /\ lookups \subseteq LookedUp
    /\ status \in Settled
    /\ \A c \in aborted : c \in Nat /\ c <= fetches
    /\ abortRef \in Nat /\ abortRef <= fetches /\ ownFetch \in Nat /\ ownFetch <= fetches
    /\ abortRef = 0 <=> query = Blank
    /\ abortRef # 0 => abortRef \notin aborted
    /\ debounce # 0 => debounce = abortRef
    /\ \A l \in lookups :
         \/ l.by \in aborted
         \/ l.by = abortRef /\ l.query = query /\ debounce = 0 /\ abortRef # 0
    /\ debounce = 0 => Current

LEMMA CurrentAnswers == SearchInv => AnswersAreCurrent
  <1> SUFFICES ASSUME SearchInv, debounce = 0 PROVE AnswersAreCurrent
    BY DEF AnswersAreCurrent
  <1>1. Current /\ status \in Settled
    BY DEF SearchInv
  <1>2. CASE status = "idle"
    BY <1>1, <1>2 DEF Current, AnswersAreCurrent
  <1>3. CASE status = "loading"
    BY <1>1, <1>3 DEF Current, AnswersAreCurrent
  <1>4. CASE status \in {"done", "empty"}
    BY <1>1, <1>4 DEF Current, AnswersAreCurrent
  <1>5. CASE status = "error"
    BY <1>1, <1>5 DEF Current, AnswersAreCurrent
  <1> QED BY <1>1, <1>2, <1>3, <1>4, <1>5 DEF Settled

LEMMA SearchInvInit == SearchInit => SearchInv
  BY SearchAssumption DEF SearchInit, SearchInv, Current, Settled

LEMMA SearchType ==
  ASSUME SearchInv, NEW q \in Query, Type(q)
  PROVE  SearchInv'
  <1>1. query' = q /\ lookups' = lookups /\ aborted' = Cancelled
    BY DEF Type
  <1>2. \A c \in aborted' : c \in Nat /\ c <= fetches
    BY <1>1 DEF Cancelled, SearchInv
  <1>3. \A l \in lookups : l.by \in aborted'
    BY <1>1 DEF Cancelled, SearchInv
  <1>4. CASE q = Blank
    <2>1. /\ debounce' = 0 /\ abortRef' = 0 /\ ownFetch' = 0
          /\ found' = Blank /\ status' = "idle" /\ fetches' = fetches
      BY <1>4 DEF Type
    <2>2. Current' /\ status' \in Settled
      BY <1>1, <1>4, <2>1 DEF Current, Settled
    <2> QED BY <1>1, <1>2, <1>3, <1>4, <2>1, <2>2 DEF SearchInv
  <1>5. CASE q # Blank
    <2>1. /\ fetches' = fetches + 1 /\ abortRef' = fetches' /\ ownFetch' = fetches'
          /\ debounce' = fetches' /\ status' = status
      BY <1>5 DEF Type, NewController
    <2>2. fetches' \in Nat /\ fetches' # 0 /\ fetches' \notin aborted'
      BY <1>2, <2>1 DEF SearchInv
    <2>3. \A c \in aborted' : c \in Nat /\ c <= fetches'
      BY <1>2, <2>1 DEF SearchInv
    <2> QED BY <1>1, <1>3, <1>5, <2>1, <2>2, <2>3 DEF SearchInv
  <1> QED BY <1>4, <1>5

LEMMA SearchDebounced ==
  ASSUME SearchInv, Debounced
  PROVE  SearchInv'
  <1>1. PICK l \in LookedUp : l.by = debounce /\ l.query = query /\ lookups' = lookups \cup {l}
    <2>1. debounce \in Nat /\ query \in Query
      BY DEF Debounced, SearchInv
    <2> QED BY <2>1 DEF Debounced, RunFetch, LookedUp
  <1>2. /\ debounce # 0 /\ debounce' = 0 /\ status' = "loading"
        /\ UNCHANGED <<query, fetches, aborted, abortRef, ownFetch, found>>
    BY DEF Debounced, RunFetch
  <1> QED BY <1>1, <1>2 DEF SearchInv, Current, Settled

LEMMA SearchRun ==
  ASSUME SearchInv, RunSearch
  PROVE  SearchInv'
  <1>1. /\ query # Blank /\ fetches' = fetches + 1 /\ debounce' = 0 /\ status' = "loading"
        /\ aborted' = aborted \cup ({abortRef} \ {0}) /\ abortRef' = fetches'
        /\ UNCHANGED <<query, ownFetch, found>>
    BY DEF RunSearch, NewController, RunFetch
  <1>2. PICK l \in LookedUp : l.by = fetches' /\ l.query = query /\ lookups' = lookups \cup {l}
    <2>1. fetches' \in Nat /\ query \in Query
      BY <1>1 DEF SearchInv
    <2> QED BY <2>1 DEF RunSearch, RunFetch, LookedUp
  <1> QED BY <1>1, <1>2 DEF SearchInv, Current, Settled

LEMMA SearchArrival ==
  ASSUME SearchInv, NEW l \in lookups, NEW outcome \in {"done", "empty", "error"},
         SearchAnswers(l, outcome)
  PROVE  SearchInv'
  <1>1. /\ lookups' = lookups \ {l}
        /\ UNCHANGED <<query, fetches, aborted, abortRef, ownFetch, debounce>>
    BY DEF SearchAnswers
  <1>2. CASE l.by \in aborted
    BY <1>1, <1>2 DEF SearchAnswers, SearchInv, Current
  <1>3. CASE l.by \notin aborted
    <2>1. l.query = query /\ query # Blank
      BY <1>3 DEF SearchInv
    <2>2. status' = outcome /\ found' = IF outcome = "error" THEN Blank ELSE query
      BY <1>3, <2>1 DEF SearchAnswers
    <2>3. Current'
      BY <1>1, <2>1, <2>2 DEF Current
    <2> QED BY <1>1, <2>2, <2>3 DEF SearchInv, Settled
  <1> QED BY <1>2, <1>3

LEMMA SearchInvStep == SearchInv /\ [SearchNext]_searchVars => SearchInv'
  <1>1. SearchInv /\ UNCHANGED searchVars => SearchInv'
    BY DEF searchVars, SearchInv, Current
  <1> QED BY <1>1, SearchType, SearchDebounced, SearchRun, SearchArrival DEF SearchNext

(* Once the debounce is over, suggestions, the empty notice and the error    *)
(* are for the text in the box, and "searching" is shown only while a search *)
(* for it is in flight.                                                      *)
THEOREM CurrentSearch == SearchSpec => []AnswersAreCurrent
  BY SearchInvInit, SearchInvStep, CurrentAnswers, PTL DEF SearchSpec

-----------------------------------------------------------------------------
(* AreaPaging.                                                               *)

(* A request is never null.                                                  *)
NullIsNoPage == \A p, n, c : NoAnswer # [payload |-> p, size |-> n, cursor |-> c]

(* A cursor stack is never empty.                                            *)
Stack(s) == s \in Seq({s[i] : i \in DOMAIN s}) /\ Len(s) > 0

(* Each cursor was handed out with the page of the one below it.             *)
Chained(s) == \A i \in 2 .. Len(s) : s[i] = <<Payload, s[i - 1]>>

(* The effects a change of a payload leaves to run come in this order.       *)
Pending == {{}, {"records"}, {"payload", "records"}, {"base", "payload", "records"}}

(* What the effects still to run leave alone is that of what is in view.     *)
PagingInv ==
    /\ effects \in Pending /\ Stack(cursors)
    /\ "base" \notin effects =>
         /\ baseSummary # NoAnswer => baseSummary = base
         /\ summaryRequest # NoAnswer => summaryRequest[1] = base
    /\ "payload" \notin effects =>
         /\ summary # NoAnswer => summary = Payload
         /\ summaryRequest # NoAnswer => summaryRequest = Payload
         /\ Chained(cursors)
    /\ effects = {} =>
         /\ recordsRequest # NoAnswer => recordsRequest = Page
         /\ recordsRequest = NoAnswer /\ records # NoAnswer => records = Page

LEMMA PagingInvHolds == PagingInv => PageIsItsOwn
  BY DEF PagingInv, PageIsItsOwn, Chained, Loading

LEMMA OnePage == Stack(FirstPage) /\ Last(FirstPage) = Start
  BY DEF Stack, FirstPage, Last, Start

LEMMA Pushed ==
  ASSUME NEW s, NEW e, Stack(s)
  PROVE  /\ Stack(Append(s, e)) /\ Len(Append(s, e)) = Len(s) + 1 /\ Len(s) \in Nat
         /\ \A i \in 1 .. Len(s) : Append(s, e)[i] = s[i]
         /\ Append(s, e)[Len(s) + 1] = e
  <1> DEFINE S == {s[i] : i \in DOMAIN s} \cup {e}
             t == Append(s, e)
             T == {t[i] : i \in DOMAIN t}
  <1>1. s \in Seq(S) /\ e \in S /\ Len(s) \in Nat /\ Len(s) > 0
    BY DEF Stack
  <1>2. /\ t \in Seq(S) /\ Len(t) = Len(s) + 1
        /\ \A i \in 1 .. Len(s) : t[i] = s[i]
        /\ t[Len(s) + 1] = e
    BY <1>1
  <1>3. t \in Seq(T)
    <2> HIDE DEF t
    <2>1. t \in [1 .. Len(t) -> T] /\ Len(t) \in Nat
      BY <1>1, <1>2
    <2> QED BY <2>1
  <1> QED BY <1>1, <1>2, <1>3 DEF Stack

LEMMA Popped ==
  ASSUME NEW s, Stack(s), Len(s) > 1
  PROVE  /\ Stack(Front(s)) /\ Len(Front(s)) = Len(s) - 1 /\ Len(s) \in Nat
         /\ \A i \in 1 .. Len(s) - 1 : Front(s)[i] = s[i]
  <1> DEFINE S == {s[i] : i \in DOMAIN s}
             t == Front(s)
             T == {t[i] : i \in DOMAIN t}
  <1>1. s \in Seq(S) /\ Len(s) \in Nat
    BY DEF Stack
  <1>2. /\ t \in Seq(S) /\ Len(t) = Len(s) - 1
        /\ \A i \in 1 .. Len(s) - 1 : t[i] = s[i]
    <2> HIDE DEF S
    <2> QED BY <1>1, SubSeqProperties DEF Front
  <1>3. t \in Seq(T)
    <2> HIDE DEF t, S
    <2>1. t \in [1 .. Len(t) -> T] /\ Len(t) \in Nat
      BY <1>1, <1>2
    <2> QED BY <2>1
  <1> QED BY <1>1, <1>2, <1>3 DEF Stack

LEMMA PagingInvInit == PagingInit => PagingInv
  BY OnePage DEF PagingInit, PagingInv, FirstPage, Pending

LEMMA PagingDraw ==
  ASSUME PagingInv, NEW a, Draw(a)
  PROVE  PagingInv'
  BY DEF Draw, PagingInv, Pending, Answers

LEMMA PagingNarrow ==
  ASSUME PagingInv, NEW f, Narrow(f)
  PROVE  PagingInv'
  BY DEF Narrow, Click, PagingInv, Pending, Answers

LEMMA PagingSize ==
  ASSUME PagingInv, NEW n, SetPageSize(n)
  PROVE  PagingInv'
  <1>1. Stack(cursors') /\ Chained(cursors')
    BY OnePage DEF SetPageSize, FirstPage, Chained
  <1> QED BY <1>1 DEF SetPageSize, Click, PagingInv, Pending, Answers, Payload, Chained

LEMMA PagingForward ==
  ASSUME PagingInv, NextPage
  PROVE  PagingInv'
  <1>1. records = Page /\ Chained(cursors) /\ Stack(cursors)
    BY DEF PagingInv, NextPage, Click, Loading
  <1>2. cursors' = Append(cursors, <<Payload, Last(cursors)>>)
    BY <1>1 DEF NextPage, Page
  <1>3. Stack(cursors') /\ Chained(cursors')
    BY <1>1, <1>2, Pushed DEF Chained, Last, NextPage, Payload
  <1> QED BY <1>3 DEF NextPage, Click, PagingInv, Pending, Answers, Payload, Chained

LEMMA PagingBack ==
  ASSUME PagingInv, PreviousPage
  PROVE  PagingInv'
  <1>1. Chained(cursors) /\ Stack(cursors)
    BY DEF PagingInv, PreviousPage, Click
  <1>2. Stack(cursors') /\ Chained(cursors')
    BY <1>1, Popped DEF Chained, PreviousPage, Payload
  <1> QED BY <1>2 DEF PreviousPage, Click, PagingInv, Pending, Answers, Payload, Chained

LEMMA PagingEffects ==
  ASSUME NullIsNoPage, PagingInv, RunEffects
  PROVE  PagingInv'
  <1>1. effects # {} /\ effects \in Pending /\ "records" \in effects
    BY DEF RunEffects, PagingInv, Pending
  <1>2. CASE effects = {"records"}
    <2>1. /\ filters' = filters /\ cursors' = cursors /\ summary' = summary
          /\ summaryRequest' = summaryRequest /\ baseSummary' = baseSummary
          /\ records' = IF base = NoArea THEN NoAnswer ELSE records
          /\ recordsRequest' = IF base = NoArea THEN NoAnswer ELSE Page
          /\ UNCHANGED <<base, pageSize>> /\ effects' = {}
      BY <1>2 DEF RunEffects
    <2>2. Page # NoAnswer
      BY DEF Page, NullIsNoPage
    <2>3. Payload' = Payload /\ Page' = Page
      BY <2>1 DEF Page, Payload, Last
    <2> QED BY <1>2, <2>1, <2>2, <2>3 DEF PagingInv, Pending, Chained
  <1>3. CASE "payload" \in effects
    <2>1. /\ cursors' = FirstPage /\ summary' = NoAnswer /\ records' = NoAnswer
          /\ summaryRequest' = IF base = NoArea THEN NoAnswer ELSE Payload
          /\ recordsRequest' = IF base = NoArea THEN NoAnswer ELSE Page
          /\ UNCHANGED <<base, pageSize>>
          /\ effects' = (IF filters' # filters THEN {"payload", "records"} ELSE {})
                        \cup (IF Last(cursors') # Last(cursors) THEN {"records"} ELSE {})
          /\ baseSummary' = IF "base" \in effects THEN NoAnswer ELSE baseSummary
      BY <1>1, <1>3 DEF RunEffects
    <2>2. effects' \in Pending
      BY <2>1 DEF Pending
    <2>3. Stack(cursors') /\ Chained(cursors)'
      BY <2>1, OnePage DEF FirstPage, Chained
    <2>4. baseSummary' # NoAnswer => baseSummary' = base'
      BY <2>1 DEF PagingInv
    <2>5. summaryRequest' # NoAnswer => summaryRequest'[1] = base'
      BY <2>1 DEF Payload
    <2>6. "payload" \notin effects' => filters' = filters /\ Payload' = Payload
      BY <2>1 DEF Payload
    <2>7. effects' = {} => Page' = Page
      BY <2>1, <2>6 DEF Page
    <2> QED BY <2>1, <2>2, <2>3, <2>4, <2>5, <2>6, <2>7 DEF PagingInv
  <1> QED BY <1>1, <1>2, <1>3 DEF Pending

LEMMA PagingAnswers ==
  ASSUME PagingInv, NEW ok \in BOOLEAN, SummaryAnswers(ok) \/ RecordsAnswer(ok)
  PROVE  PagingInv'
  <1>1. /\ UNCHANGED <<base, filters, pageSize, cursors, effects>>
        /\ Payload' = Payload /\ Page' = Page /\ Chained(cursors)' = Chained(cursors)
    BY DEF SummaryAnswers, RecordsAnswer, Payload, Page, Chained, Last
  <1>2. CASE SummaryAnswers(ok)
    BY <1>1, <1>2 DEF SummaryAnswers, Loading, PagingInv
  <1>3. CASE RecordsAnswer(ok)
    BY <1>1, <1>3 DEF RecordsAnswer, Loading, PagingInv
  <1> QED BY <1>2, <1>3

LEMMA PagingInvStep ==
  ASSUME NullIsNoPage
  PROVE  PagingInv /\ [PagingNext]_pagingVars => PagingInv'
  <1>1. PagingInv /\ UNCHANGED pagingVars => PagingInv'
    BY DEF pagingVars, PagingInv, Chained, Payload, Page, Last
  <1> QED BY <1>1, PagingDraw, PagingNarrow, PagingSize, PagingForward, PagingBack,
             PagingEffects, PagingAnswers DEF PagingNext

(* The rows shown are the page of the drawn area, its filters and the cursor *)
(* in view, and the totals beside them are of the same area.                 *)
THEOREM PageOfTheArea == ASSUME NullIsNoPage PROVE PagingSpec => []PageIsItsOwn
  BY PagingInvInit, PagingInvStep, PagingInvHolds, PTL DEF PagingSpec

-----------------------------------------------------------------------------
(* Workspace.                                                                *)

(* Each version was run at most once, and no card is current during a run.   *)
RunInv ==
    /\ version \in Nat /\ running \in BOOLEAN
    /\ \A r \in runs : r.version \in Nat /\ r.version <= version
    /\ \A r, q \in runs : Newest(r) /\ Newest(q) => r = q
    /\ running => card = NoReport
    /\ RunsAreNewest

LEMMA RunInvInit == WorkspaceInit => RunInv
  <1> SUFFICES ASSUME WorkspaceInit PROVE RunInv
    OBVIOUS
  <1>1. version = 0 /\ running = FALSE /\ runs = {} /\ report = NoReport /\ card = NoReport
    BY DEF WorkspaceInit
  <1> QED BY <1>1 DEF RunInv, RunsAreNewest

LEMMA InvalidateStep ==
  ASSUME RunInv, Invalidate
  PROVE  RunInv'
  <1>1. /\ version' = version + 1 /\ version' \in Nat /\ running' = FALSE /\ runs' = runs
        /\ report' = NoReport /\ card' = NoReport
    BY DEF Invalidate, NextVersion, RunInv
  <1>2. \A r \in runs' : r.version \in Nat /\ r.version <= version' /\ r.version # version'
    BY <1>1 DEF RunInv
  <1> QED BY <1>1, <1>2 DEF RunInv, RunsAreNewest, Newest

LEMMA RunsStay ==
  ASSUME RunInv, UNCHANGED runVars
  PROVE  RunInv'
  BY DEF runVars, RunInv, RunsAreNewest, Newest

LEMMA RunStep ==
  ASSUME RunInv, Run
  PROVE  RunInv'
  <1> DEFINE new == [version |-> version', snapshot |-> list]
  <1>1. /\ version' = version + 1 /\ version' \in Nat /\ running' = TRUE
        /\ runs' = runs \cup {new} /\ report' = report /\ runPoints' = runPoints
        /\ card = NoReport /\ card' = NoReport
    BY DEF Run, RunInv
  <1>2. new.version = version' /\ new \in runs'
    BY <1>1
  <1> HIDE DEF new
  <1>3. \A r \in runs' : r.version \in Nat /\ r.version <= version' /\ (r.version = version' => r = new)
    BY <1>1, <1>2 DEF RunInv
  <1>4. \E r \in runs' : r.version = version'
    BY <1>2
  <1>5. report' # NoReport => runPoints'
    BY <1>1 DEF RunInv, RunsAreNewest
  <1> QED BY <1>1, <1>3, <1>4, <1>5 DEF RunInv, RunsAreNewest, Newest

LEMMA SettledStep ==
  ASSUME RunInv, NEW r \in runs, NEW ok \in BOOLEAN, RunSettles(r, ok)
  PROVE  RunInv'
  <1>1. runs' = runs \ {r} /\ version' = version
    BY DEF RunSettles
  <1>2. /\ \A q \in runs' : q.version \in Nat /\ q.version <= version'
        /\ \A q, p \in runs' : q.version = version' /\ p.version = version' => q = p
    BY <1>1 DEF RunInv, Newest
  <1>3. CASE Newest(r)
    <2>1. running /\ card = NoReport
      BY <1>3 DEF RunInv, RunsAreNewest
    <2>2. \A q \in runs' : q.version # version'
      BY <1>1, <1>3 DEF RunInv, Newest
    <2>3. /\ report' = IF ok THEN [run |-> r.version, spots |-> Spots(r.snapshot)] ELSE NoReport
          /\ runPoints' = TRUE /\ running' = FALSE
          /\ FreezeCard
      BY <1>3 DEF RunSettles
    <2>4. report' # NoReport => report'.run = version'
      BY <1>1, <1>3, <2>3 DEF Newest
    <2>5. card' # NoReport => card'.report = report'
      BY <2>1, <2>3 DEF FreezeCard
    <2> QED BY <1>1, <1>2, <2>2, <2>3, <2>4, <2>5 DEF RunInv, RunsAreNewest, Newest
  <1>4. CASE ~Newest(r)
    <2>1. UNCHANGED <<report, runPoints, running, armed, card>>
      BY <1>4 DEF RunSettles
    <2>2. (\E q \in runs' : q.version = version') <=> \E q \in runs : Newest(q)
      BY <1>1, <1>4 DEF Newest
    <2> QED BY <1>1, <1>2, <2>1, <2>2 DEF RunInv, RunsAreNewest, Newest
  <1> QED BY <1>3, <1>4

LEMMA AssistantStep ==
  ASSUME RunInv, NEW mode, NEW ids, NEW payload \in BOOLEAN, AssistantResult(mode, ids, payload)
  PROVE  RunInv'
  <1>1. CASE TakenOver
    <2>1. /\ version' = version + 1 /\ version' \in Nat /\ running' = FALSE /\ runs' = runs
          /\ report' = NoReport /\ card' = NoReport
      BY <1>1 DEF TakenOver, NextVersion, AssistantResult, RunInv
    <2>2. \A r \in runs' : r.version \in Nat /\ r.version <= version' /\ r.version # version'
      BY <2>1 DEF RunInv
    <2> QED BY <2>1, <2>2 DEF RunInv, RunsAreNewest, Newest
  <1>2. CASE UNCHANGED <<version, running, report, runPoints, card>>
    BY <1>2 DEF AssistantResult, RunInv, RunsAreNewest, Newest
  <1> QED BY <1>1, <1>2 DEF AssistantResult

LEMMA RunInvStep == RunInv /\ [WorkspaceNext]_workspaceVars => RunInv'
  <1> SUFFICES ASSUME RunInv, [WorkspaceNext]_workspaceVars PROVE RunInv'
    OBVIOUS
  <1>1. CASE Run
    BY <1>1, RunStep
  <1>2. CASE ChangeAnalysis
    BY <1>2, InvalidateStep DEF ChangeAnalysis
  <1>3. CASE BeginTurn
    BY <1>3, RunsStay DEF BeginTurn
  <1>4. ASSUME NEW r \in runs, NEW ok \in BOOLEAN, RunSettles(r, ok)
        PROVE  RunInv'
    BY <1>4, SettledStep
  <1>5. ASSUME NEW s \in Spot, Lookup(s) \/ Toggle(s) \/ BeginDelete(s)
        PROVE  RunInv'
    BY <1>5, InvalidateStep DEF Lookup, Toggle, BeginDelete
  <1>6. ASSUME NEW i \in DOMAIN list, RemoveEntry(i)
        PROVE  RunInv'
    BY <1>6, InvalidateStep DEF RemoveEntry
  <1>7. ASSUME NEW s \in Spot, NEW entry \in BOOLEAN, BeginSave(s, entry)
        PROVE  RunInv'
    BY <1>7, RunsStay DEF BeginSave
  <1>8. ASSUME NEW c \in creating, SaveAnswers(c) \/ SaveFails(c)
        PROVE  RunInv'
    BY <1>8, RunsStay, InvalidateStep DEF SaveAnswers, SaveFails
  <1>9. ASSUME NEW d \in deleting, DeleteAnswers(d) \/ DeleteFails(d)
        PROVE  RunInv'
    BY <1>9, RunsStay DEF DeleteAnswers, DeleteFails
  <1>10. ASSUME NEW i \in DOMAIN summaries, SummaryArrives(i) \/ SummaryFails(i)
         PROVE  RunInv'
    BY <1>10, RunsStay, InvalidateStep DEF SummaryArrives, SummaryFails
  <1>11. ASSUME NEW mode, NEW ids, NEW payload \in BOOLEAN, AssistantResult(mode, ids, payload)
         PROVE  RunInv'
    BY <1>11, AssistantStep
  <1>12. CASE UNCHANGED workspaceVars
    BY <1>12, RunsStay DEF workspaceVars, runVars
  <1> QED BY <1>1, <1>2, <1>3, <1>4, <1>5, <1>6, <1>7, <1>8, <1>9, <1>10, <1>11, <1>12
          DEF WorkspaceNext

-----------------------------------------------------------------------------
(* The list of the workspace.  A loop that adds one place after the other is *)
(* a recursive function, and recursion up to a bound defines one.            *)
(* Induction up to a bound.                                                  *)
LEMMA StepByStep ==
  ASSUME NEW D, NEW L \in Nat, 0 \in D, \A n \in 1 .. L : n - 1 \in D => n \in D
  PROVE  \A n \in 0 .. L : n \in D
  <1> DEFINE T == (0 .. L) \ D
             R == OpToRel(<, Nat)
  <1> SUFFICES ASSUME T # {} PROVE FALSE
    OBVIOUS
  <1>1. PICK x \in T : \A y \in T : ~ (<<y, x>> \in R)
    <2>1. IsWellFoundedOn(R, Nat)
      BY NatLessThanWellFounded
    <2>2. T \subseteq Nat /\ T # {}
      OBVIOUS
    <2> HIDE DEF T, R
    <2> QED BY <2>1, <2>2, WFMin
  <1> HIDE DEF R
  <1>2. x \in 1 .. L /\ x - 1 \in 0 .. L /\ x - 1 \in Nat
    BY <1>1
  <1>3. x - 1 \in T
    BY <1>1, <1>2
  <1>4. <<x - 1, x>> \in R
    BY <1>2 DEF OpToRel, R
  <1> QED BY <1>1, <1>3, <1>4

LEMMA LeastOf ==
  ASSUME NEW S, S \subseteq Nat, S # {}
  PROVE  \E x \in S : \A y \in S : x <= y
  <1> DEFINE R == OpToRel(<, Nat)
  <1>1. PICK x \in S : \A y \in S : ~ (<<y, x>> \in R)
    <2>1. IsWellFoundedOn(R, Nat)
      BY NatLessThanWellFounded
    <2> HIDE DEF R
    <2> QED BY <2>1, WFMin
  <1>2. \A y \in S : x \in Nat /\ y \in Nat /\ ~(y < x)
    BY <1>1 DEF OpToRel
  <1> QED BY <1>2

Follows(f, first, L, step) ==
    f = [n \in 0 .. L |-> IF n = 0 THEN first ELSE step[<<n, f[n - 1]>>]]

(* Such a recursion is a function.                                           *)
LEMMA RecursionExists ==
  ASSUME NEW V, NEW L \in Nat, NEW v0 \in V, NEW step \in [(1 .. L) \X V -> V]
  PROVE  \E f : Follows(f, v0, L, step) /\ \A n \in 0 .. L : f[n] \in V
  <1> USE DEF Follows
  <1> DEFINE Is(f, m) == Follows(f, v0, m, step)
             D == {m \in Nat : m <= L => \E f : Is(f, m) /\ \A n \in 0 .. m : f[n] \in V}
  <1>1. 0 \in D
    <2> DEFINE f == [n \in 0 .. 0 |-> v0]
    <2>1. Is(f, 0) /\ f[0] \in V /\ \A n \in 0 .. 0 : f[n] \in V
      OBVIOUS
    <2>2. 0 \in Nat
      OBVIOUS
    <2> HIDE DEF f, Is
    <2> QED BY <2>1, <2>2
  <1>2. ASSUME NEW m \in 1 .. L, m - 1 \in D PROVE m \in D
    <2>1. m \in Nat /\ m - 1 \in Nat /\ m <= L /\ m - 1 <= L /\ m # 0
      OBVIOUS
    <2>2. PICK f : Is(f, m - 1) /\ \A n \in 0 .. (m - 1) : f[n] \in V
      BY <1>2, <2>1
    <2> DEFINE g == [n \in 0 .. m |-> IF n = m THEN step[<<m, f[m - 1]>>] ELSE f[n]]
    <2>3. f[m - 1] \in V
      BY <2>1, <2>2
    <2>4. step[<<m, f[m - 1]>>] \in V
      BY <2>1, <2>3
    <2>5. \A n \in 0 .. m : g[n] \in V
      BY <2>1, <2>2, <2>4
    <2>6. g[m] = step[<<m, g[m - 1]>>]
      <3>1. m \in 0 .. m /\ m - 1 \in 0 .. m /\ m - 1 # m
        BY <2>1
      <3> QED BY <3>1
    <2>7. ASSUME NEW n \in 0 .. m, n # m
          PROVE  g[n] = IF n = 0 THEN v0 ELSE step[<<n, g[n - 1]>>]
      <3>1. n \in 0 .. (m - 1) /\ g[n] = f[n]
        BY <2>1, <2>7
      <3>2. n # 0 => n - 1 \in 0 .. m /\ n - 1 # m /\ g[n - 1] = f[n - 1]
        BY <2>1, <2>7
      <3>3. f[n] = IF n = 0 THEN v0 ELSE step[<<n, f[n - 1]>>]
        BY <2>2, <3>1
      <3> QED BY <3>1, <3>2, <3>3
    <2>8. \A n \in 0 .. m : g[n] = IF n = 0 THEN v0 ELSE step[<<n, g[n - 1]>>]
      BY <2>1, <2>6, <2>7
    <2>9. Is(g, m)
      <3>1. g = [n \in 0 .. m |-> g[n]]
        OBVIOUS
      <3> HIDE DEF g
      <3> QED BY <2>8, <3>1
    <2> HIDE DEF g, Is
    <2> QED BY <2>1, <2>5, <2>9
  <1>3. L \in D
    <2> HIDE DEF D
    <2> QED BY <1>1, <1>2, StepByStep
  <1> QED BY <1>3

-----------------------------------------------------------------------------
SpotEntry == [at : Spot, saved : BOOLEAN]

LEMMA EntryIs ==
  ASSUME NEW s \in Spot, NEW b \in BOOLEAN
  PROVE  [at |-> s, saved |-> b] \in SpotEntry /\ [at |-> s, saved |-> b].at = s
  BY DEF SpotEntry

LEMMA EntrySaved ==
  ASSUME NEW e \in SpotEntry
  PROVE  [e EXCEPT !.saved = TRUE] \in SpotEntry /\ [e EXCEPT !.saved = TRUE].at = e.at /\ e.at \in Spot
  BY DEF SpotEntry

(* A list of entries that names no spot twice.                               *)
Listed == {es \in Seq(SpotEntry) : \A m, n \in 1 .. Len(es) : es[m].at = es[n].at => m = n}

LEMMA AddedIs ==
  ASSUME NEW es \in Listed, NEW new \in SpotEntry
  PROVE  Added(es, new) \in Listed
  <1>1. es \in Seq(SpotEntry) /\ \A m, n \in 1 .. Len(es) : es[m].at = es[n].at => m = n
    BY DEF Listed
  <1>2. CASE IndexOf(es, new.at) # 0 \/ Len(es) >= MaxEntries
    BY <1>2 DEF Added
  <1>3. CASE ~(IndexOf(es, new.at) # 0 \/ Len(es) >= MaxEntries)
    <2>1. \A m \in 1 .. Len(es) : es[m].at # new.at
      <3> DEFINE I == {i \in 1 .. Len(es) : es[i].at = new.at}
      <3>1. IndexOf(es, new.at) = IF I # {} THEN Min(I) ELSE 0
        BY DEF IndexOf, SelectInSeq
      <3>2. SUFFICES ASSUME I # {} PROVE FALSE
        OBVIOUS
      <3>3. PICK x \in I : \A y \in I : x <= y
        <4>1. I \subseteq Nat
          BY <1>1
        <4> HIDE DEF I
        <4> QED BY <3>2, <4>1, LeastOf
      <3>4. Min(I) \in I
        <4> HIDE DEF I
        <4> QED BY <3>3 DEF Min
      <3> QED BY <1>1, <1>3, <3>1, <3>2, <3>4
    <2>2. Added(es, new) = Append(es, new)
      BY <1>3 DEF Added
    <2>3. /\ Append(es, new) \in Seq(SpotEntry) /\ Len(Append(es, new)) = Len(es) + 1
          /\ \A m \in 1 .. Len(es) : Append(es, new)[m] = es[m]
          /\ Append(es, new)[Len(es) + 1] = new
      BY <1>1, AppendProperties
    <2>4. \A m, n \in 1 .. Len(es) + 1 :
            Append(es, new)[m].at = Append(es, new)[n].at => m = n
      BY <1>1, <2>1, <2>3
    <2> QED BY <2>2, <2>3, <2>4 DEF Listed
  <1> QED BY <1>2, <1>3

LEMMA AddAllIs ==
  ASSUME NEW es \in Listed, NEW spots \in Seq(Spot)
  PROVE  AddAll(es, spots) \in Listed
  <1> DEFINE L == Len(spots)
             new(n) == [at |-> spots[n], saved |-> TRUE]
             step == [p \in (1 .. L) \X Listed |-> Added(p[2], new(p[1]))]
             Body(f) == [n \in 0 .. L |-> IF n = 0 THEN es ELSE Added(f[n - 1], new(n))]
             after == CHOOSE f : f = Body(f)
  <1>1. L \in Nat /\ \A n \in 1 .. L : spots[n] \in Spot
    BY LenProperties, ElementOfSeq
  <1>2. \A n \in 1 .. L : new(n) \in SpotEntry
    BY <1>1, EntryIs
  <1>3. step \in [(1 .. L) \X Listed -> Listed]
    BY <1>2, AddedIs
  <1>4. \A n \in 1 .. L : \A fs \in Listed : step[<<n, fs>>] = Added(fs, new(n))
    OBVIOUS
  <1>5. AddAll(es, spots) = after[L]
    BY DEF AddAll
  <1> HIDE DEF step, new, L
  <1>6. PICK f : Follows(f, es, L, step) /\ \A n \in 0 .. L : f[n] \in Listed
    BY <1>1, <1>3, RecursionExists
  <1>7. f = Body(f)
    <2>1. ASSUME NEW n \in 1 .. L PROVE f[n - 1] \in Listed
      BY <1>1, <1>6
    <2>2. \A n \in 1 .. L : step[<<n, f[n - 1]>>] = Added(f[n - 1], new(n))
      BY <1>4, <2>1
    <2>3. \A n \in 0 .. L : n # 0 => n \in 1 .. L
      BY <1>1
    <2> QED BY <1>6, <2>2, <2>3 DEF Follows
  <1>8. after = Body(after)
    <2> HIDE DEF Body
    <2> QED BY <1>7
  <1>9. /\ after[0] = es
        /\ \A n \in 1 .. L : after[n] = Added(after[n - 1], new(n))
    <2>1. 0 \in 0 .. L /\ \A n \in 1 .. L : n \in 0 .. L /\ n # 0
      BY <1>1
    <2> HIDE DEF after
    <2> QED BY <1>8, <2>1
  <1> DEFINE D == {n \in 0 .. L : after[n] \in Listed}
  <1>10. \A n \in 0 .. L : n \in D
    <2> HIDE DEF after
    <2>1. 0 \in D
      BY <1>1, <1>9
    <2>2. ASSUME NEW n \in 1 .. L, n - 1 \in D PROVE n \in D
      BY <1>1, <1>2, <1>9, <2>2, AddedIs
    <2> HIDE DEF D
    <2> QED BY <1>1, <2>1, <2>2, StepByStep
  <1> QED BY <1>1, <1>5, <1>10

LEMMA AmongIs ==
  ASSUME NEW queue \in Seq(Spot), NEW places
  PROVE  Among(queue, places) \in Seq(Spot)
  <1> DEFINE L == Len(queue)
             step == [p \in (1 .. L) \X Seq(Spot) |->
                        IF queue[p[1]] \in places THEN Append(p[2], queue[p[1]]) ELSE p[2]]
             Body(f) == [n \in 0 .. L |->
                           IF n = 0 THEN <<>>
                           ELSE IF queue[n] \in places THEN Append(f[n - 1], queue[n])
                           ELSE f[n - 1]]
             kept == CHOOSE f : f = Body(f)
  <1>1. L \in Nat /\ (\A n \in 1 .. L : queue[n] \in Spot) /\ <<>> \in Seq(Spot)
    BY LenProperties, ElementOfSeq
  <1>2. step \in [(1 .. L) \X Seq(Spot) -> Seq(Spot)]
    BY <1>1, AppendProperties
  <1>3. \A n \in 1 .. L : \A s \in Seq(Spot) :
          step[<<n, s>>] = IF queue[n] \in places THEN Append(s, queue[n]) ELSE s
    OBVIOUS
  <1>4. Among(queue, places) = kept[L]
    BY DEF Among
  <1> HIDE DEF step, L
  <1>5. PICK f : Follows(f, <<>>, L, step) /\ \A n \in 0 .. L : f[n] \in Seq(Spot)
    BY <1>1, <1>2, RecursionExists
  <1>6. f = Body(f)
    <2>1. ASSUME NEW n \in 1 .. L PROVE f[n - 1] \in Seq(Spot)
      BY <1>1, <1>5
    <2>2. \A n \in 1 .. L : step[<<n, f[n - 1]>>]
             = IF queue[n] \in places THEN Append(f[n - 1], queue[n]) ELSE f[n - 1]
      BY <1>3, <2>1
    <2>3. \A n \in 0 .. L : n # 0 => n \in 1 .. L
      BY <1>1
    <2> QED BY <1>5, <2>2, <2>3 DEF Follows
  <1>7. kept = Body(kept)
    <2> HIDE DEF Body
    <2> QED BY <1>6
  <1>8. /\ kept[0] = <<>>
        /\ \A n \in 1 .. L : kept[n] = IF queue[n] \in places THEN Append(kept[n - 1], queue[n])
                                        ELSE kept[n - 1]
    <2>1. 0 \in 0 .. L /\ \A n \in 1 .. L : n \in 0 .. L /\ n # 0
      BY <1>1
    <2> HIDE DEF kept
    <2> QED BY <1>7, <2>1
  <1> DEFINE D == {n \in 0 .. L : kept[n] \in Seq(Spot)}
  <1>9. \A n \in 0 .. L : n \in D
    <2> HIDE DEF kept
    <2>1. 0 \in D
      <3>1. 0 \in 0 .. L /\ kept[0] \in Seq(Spot)
        BY <1>1, <1>8
      <3> QED BY <3>1
    <2>2. ASSUME NEW n \in 1 .. L, n - 1 \in D PROVE n \in D
      <3>1. kept[n - 1] \in Seq(Spot) /\ queue[n] \in Spot /\ n \in 0 .. L
        BY <1>1, <2>2
      <3>2. Append(kept[n - 1], queue[n]) \in Seq(Spot)
        BY <3>1, AppendProperties
      <3> QED BY <1>8, <3>1, <3>2
    <2> HIDE DEF D
    <2> QED BY <1>1, <2>1, <2>2, StepByStep
  <1> QED BY <1>1, <1>4, <1>9

LEMMA RemovedIs ==
  ASSUME NEW es \in Listed, NEW i \in 1 .. Len(es)
  PROVE  RemoveAt(es, i) \in Listed
  <1> DEFINE front == SubSeq(es, 1, i - 1)
             back == SubSeq(es, i + 1, Len(es))
             rest == front \o back
  <1>1. /\ es \in Seq(SpotEntry) /\ Len(es) \in Nat /\ i \in Int /\ 1 \in Int
        /\ i - 1 \in Int /\ i + 1 \in Int /\ Len(es) \in Int
        /\ \A m \in 1 .. Len(es) : es[m] \in SpotEntry
        /\ \A m, n \in 1 .. Len(es) : es[m].at = es[n].at => m = n
    BY LenProperties, ElementOfSeq DEF Listed
  <1>2. /\ front \in Seq(SpotEntry) /\ Len(front) = i - 1
        /\ \A m \in 1 .. i - 1 : front[m] = es[m]
    <2>1. \A m \in 1 .. i - 1 : es[m] \in SpotEntry
      BY <1>1
    <2>2. /\ front \in Seq(SpotEntry)
          /\ Len(front) = IF 1 <= i - 1 THEN (i - 1) - 1 + 1 ELSE 0
          /\ \A m \in 1 .. (i - 1) - 1 + 1 : front[m] = es[1 + m - 1]
      BY <1>1, <2>1, SubSeqProperties
    <2> HIDE DEF front
    <2>3. \A m \in 1 .. i - 1 : 1 + m - 1 = m /\ m \in 1 .. (i - 1) - 1 + 1
      BY <1>1
    <2> QED BY <1>1, <2>2, <2>3
  <1>3. /\ back \in Seq(SpotEntry) /\ Len(back) = Len(es) - i
        /\ \A m \in 1 .. Len(es) - i : back[m] = es[m + i]
    <2>1. \A m \in i + 1 .. Len(es) : es[m] \in SpotEntry
      BY <1>1
    <2>2. /\ back \in Seq(SpotEntry)
          /\ Len(back) = IF i + 1 <= Len(es) THEN Len(es) - (i + 1) + 1 ELSE 0
          /\ \A m \in 1 .. Len(es) - (i + 1) + 1 : back[m] = es[i + 1 + m - 1]
      BY <1>1, <2>1, SubSeqProperties
    <2> HIDE DEF back
    <2>3. \A m \in 1 .. Len(es) - i : i + 1 + m - 1 = m + i /\ m \in 1 .. Len(es) - (i + 1) + 1
      BY <1>1
    <2> QED BY <1>1, <2>2, <2>3
  <1> HIDE DEF front, back
  <1>4. /\ rest \in Seq(SpotEntry) /\ Len(rest) = Len(es) - 1
        /\ \A m \in 1 .. Len(es) - 1 :
             rest[m] = IF m <= i - 1 THEN front[m] ELSE back[m - (i - 1)]
    <2>1. /\ rest \in Seq(SpotEntry) /\ Len(rest) = Len(front) + Len(back)
          /\ \A m \in 1 .. Len(front) + Len(back) :
               rest[m] = IF m <= Len(front) THEN front[m] ELSE back[m - Len(front)]
      BY <1>2, <1>3, ConcatProperties
    <2> HIDE DEF rest
    <2> QED BY <1>1, <1>2, <1>3, <2>1
  <1> DEFINE was(m) == IF m <= i - 1 THEN m ELSE m + 1
  <1> HIDE DEF rest
  <1>5. \A m \in 1 .. Len(es) - 1 : rest[m] = es[was(m)] /\ was(m) \in 1 .. Len(es)
    <2>1. ASSUME NEW m \in 1 .. Len(es) - 1, m <= i - 1 PROVE rest[m] = es[was(m)]
      BY <1>1, <1>2, <1>4, <2>1
    <2>2. ASSUME NEW m \in 1 .. Len(es) - 1, ~(m <= i - 1) PROVE rest[m] = es[was(m)]
      <3>1. rest[m] = back[m - (i - 1)]
        BY <1>4, <2>2
      <3>2. m - (i - 1) \in 1 .. Len(es) - i /\ (m - (i - 1)) + i = m + 1
        BY <1>1, <2>2
      <3>3. back[m - (i - 1)] = es[m + 1]
        BY <1>3, <3>2
      <3> QED BY <2>2, <3>1, <3>3
    <2>3. \A m \in 1 .. Len(es) - 1 : was(m) \in 1 .. Len(es)
      BY <1>1
    <2> HIDE DEF was
    <2> QED BY <2>1, <2>2, <2>3
  <1>6. \A m, n \in 1 .. Len(es) - 1 : was(m) = was(n) => m = n
    BY <1>1
  <1> HIDE DEF was
  <1>7. \A m, n \in 1 .. Len(rest) : rest[m].at = rest[n].at => m = n
    BY <1>1, <1>4, <1>5, <1>6
  <1>8. rest = RemoveAt(es, i)
    BY DEF RemoveAt, rest, front, back
  <1> QED BY <1>4, <1>7, <1>8 DEF Listed

LEMMA CutIs ==
  ASSUME NEW es \in Listed, NEW s
  PROVE  Cut(es, IndexOfSaved(es, s)) \in Listed
  <1> DEFINE I == {i \in 1 .. Len(es) : es[i].saved /\ es[i].at = s}
  <1>1. IndexOfSaved(es, s) = IF I # {} THEN Min(I) ELSE 0
    BY DEF IndexOfSaved, SelectInSeq
  <1>2. CASE I = {}
    BY <1>1, <1>2 DEF Cut
  <1>3. CASE I # {}
    <2>1. I \subseteq Nat
      OBVIOUS
    <2>2. Min(I) \in I
      <3> HIDE DEF I
      <3> QED BY <1>3, <2>1, LeastOf DEF Min
    <2>3. Min(I) \in 1 .. Len(es) /\ Min(I) # 0
      BY <2>2
    <2>4. Cut(es, IndexOfSaved(es, s)) = RemoveAt(es, Min(I))
      BY <1>1, <1>3, <2>3 DEF Cut
    <2> HIDE DEF I
    <2> QED BY <2>3, <2>4, RemovedIs
  <1> QED BY <1>2, <1>3

LEMMA MarkedIs ==
  ASSUME NEW es \in Listed, NEW s
  PROVE  MarkSaved(es, s) \in Listed
  <1> DEFINE marked(i) == IF es[i].at = s THEN [es[i] EXCEPT !.saved = TRUE] ELSE es[i]
  <1>1. /\ es \in Seq(SpotEntry) /\ Len(es) \in Nat /\ DOMAIN es = 1 .. Len(es)
        /\ \A m \in 1 .. Len(es) : es[m] \in SpotEntry
        /\ \A m, n \in 1 .. Len(es) : es[m].at = es[n].at => m = n
    BY LenProperties, ElementOfSeq DEF Listed
  <1>2. \A m \in 1 .. Len(es) : marked(m) \in SpotEntry /\ marked(m).at = es[m].at
    BY <1>1, EntrySaved
  <1>3. MarkSaved(es, s) = [i \in 1 .. Len(es) |-> marked(i)]
    BY <1>1 DEF MarkSaved
  <1> HIDE DEF marked
  <1>4. MarkSaved(es, s) \in Seq(SpotEntry)
    BY <1>1, <1>2, <1>3, IsASeq
  <1>5. Len(MarkSaved(es, s)) = Len(es)
    BY <1>1, <1>3, <1>4, LenProperties
  <1>6. \A m \in 1 .. Len(es) : MarkSaved(es, s)[m].at = es[m].at
    BY <1>2, <1>3
  <1> QED BY <1>1, <1>4, <1>5, <1>6 DEF Listed

LEMMA OneIs ==
  ASSUME NEW e \in SpotEntry
  PROVE  <<e>> \in Listed
  <1>1. <<e>> \in Seq(SpotEntry) /\ Len(<<e>>) = 1
    OBVIOUS
  <1> QED BY <1>1 DEF Listed

LEMMA NoneIs == <<>> \in Listed
  BY EmptySeq DEF Listed

-----------------------------------------------------------------------------
(* What is added to the list are spots, and the list names none twice.       *)
ListInv ==
    /\ list \in Listed /\ pending \in Seq(Spot)
    /\ \A c \in creating : c.at \in Spot

LEMMA ListInvInit == WorkspaceInit => ListInv
  <1> SUFFICES ASSUME WorkspaceInit PROVE ListInv
    OBVIOUS
  <1>1. list = AddAll(<<>>, AtFirstSaved) /\ pending = <<>> /\ creating = {}
    BY DEF WorkspaceInit
  <1>2. list \in Listed
    BY <1>1, NoneIs, AddAllIs, WorkspaceAssumption
  <1> QED BY <1>1, <1>2, EmptySeq DEF ListInv

LEMMA ListStays ==
  ASSUME ListInv, UNCHANGED <<list, pending, creating>>
  PROVE  ListInv'
  BY DEF ListInv

LEMMA ToggleList ==
  ASSUME ListInv, NEW s \in Spot, Toggle(s)
  PROVE  ListInv'
  <1>1. /\ list' = IF IndexOfSaved(list, s) # 0 THEN Cut(list, IndexOfSaved(list, s))
                   ELSE IF IndexOf(list, s) # 0 THEN MarkSaved(list, s)
                   ELSE Added(list, [at |-> s, saved |-> TRUE])
        /\ pending' = pending /\ creating' = creating
    BY DEF Toggle, placeVars
  <1>2. Cut(list, IndexOfSaved(list, s)) \in Listed /\ MarkSaved(list, s) \in Listed
    BY CutIs, MarkedIs DEF ListInv
  <1>3. Added(list, [at |-> s, saved |-> TRUE]) \in Listed
    BY EntryIs, AddedIs DEF ListInv
  <1>4. list' \in Listed
    BY <1>1, <1>2, <1>3
  <1> QED BY <1>1, <1>4 DEF ListInv

LEMMA SavedList ==
  ASSUME ListInv, NEW c \in creating, SaveAnswers(c)
  PROVE  ListInv'
  <1>1. creating' = creating \ {c} /\ c.at \in Spot
    BY DEF SaveAnswers, ListInv
  <1>2. \/ list' = MarkSaved(list, c.at) /\ pending' = pending
        \/ pending' = Append(pending, c.at) /\ list' = list
    BY DEF SaveAnswers
  <1>3. list' \in Listed
    BY <1>2, MarkedIs DEF ListInv
  <1>4. pending' \in Seq(Spot)
    BY <1>1, <1>2, AppendProperties DEF ListInv
  <1> QED BY <1>1, <1>3, <1>4 DEF ListInv

LEMMA DeletedList ==
  ASSUME ListInv, NEW d \in deleting, DeleteAnswers(d)
  PROVE  ListInv'
  <1>1. /\ creating' = creating /\ pending' = pending
        /\ \/ list' = list
           \/ \E i \in DOMAIN list : list' = RemoveAt(list, i)
    BY DEF DeleteAnswers
  <1>2. DOMAIN list = 1 .. Len(list)
    BY LenProperties DEF ListInv, Listed
  <1>3. list' \in Listed
    BY <1>1, <1>2, RemovedIs DEF ListInv
  <1> QED BY <1>1, <1>3 DEF ListInv

LEMMA ArrivedList ==
  ASSUME ListInv, NEW i \in DOMAIN summaries, SummaryArrives(i)
  PROVE  ListInv'
  <1>1. /\ creating' = creating /\ pending' = Among(pending, Spot \ summaries[i])
        /\ list' = AddAll(list, Among(pending, summaries[i]))
    BY DEF SummaryArrives
  <1> QED BY <1>1, AmongIs, AddAllIs DEF ListInv

LEMMA SelectedList ==
  ASSUME ListInv, NEW mode \in {"clear", "replace", "add", "none"}, NEW ids \in Seq(Spot), NEW payload,
         AssistantResult(mode, ids, payload)
  PROVE  ListInv'
  <1>1. creating' = creating /\ Selected(mode, ids)
    BY DEF AssistantResult
  <1>2. /\ list' \in {<<>>, AddAll(<<>>, Among(ids, turnKnown)), AddAll(list, Among(ids, turnKnown)), list}
        /\ pending' \in {pending \o Among(ids, Spot \ turnKnown), pending}
    BY <1>1 DEF Selected
  <1>3. Among(ids, turnKnown) \in Seq(Spot) /\ Among(ids, Spot \ turnKnown) \in Seq(Spot)
    BY AmongIs
  <1>4. list' \in Listed
    BY <1>2, <1>3, AddAllIs, NoneIs DEF ListInv
  <1>5. pending' \in Seq(Spot)
    BY <1>2, <1>3, ConcatProperties DEF ListInv
  <1> QED BY <1>1, <1>4, <1>5 DEF ListInv

LEMMA ListInvStep == ListInv /\ [WorkspaceNext]_workspaceVars => ListInv'
  <1> SUFFICES ASSUME ListInv, [WorkspaceNext]_workspaceVars PROVE ListInv'
    OBVIOUS
  <1>1. CASE Run \/ ChangeAnalysis \/ BeginTurn \/ UNCHANGED workspaceVars
    BY <1>1, ListStays DEF Run, ChangeAnalysis, BeginTurn, workspaceVars, placeVars
  <1>2. ASSUME NEW r \in runs, NEW ok \in BOOLEAN, RunSettles(r, ok)
        PROVE  ListInv'
    BY <1>2, ListStays DEF RunSettles
  <1>3. ASSUME NEW s \in Spot, Lookup(s)
        PROVE  ListInv'
    <2>1. list' = <<[at |-> s, saved |-> FALSE]>> /\ pending' = pending /\ creating' = creating
      BY <1>3 DEF Lookup, placeVars
    <2> QED BY <2>1, EntryIs, OneIs DEF ListInv
  <1>4. ASSUME NEW s \in Spot, Toggle(s)
        PROVE  ListInv'
    BY <1>4, ToggleList
  <1>5. ASSUME NEW s \in Spot, BeginDelete(s)
        PROVE  ListInv'
    BY <1>5, ListStays DEF BeginDelete
  <1>6. ASSUME NEW i \in DOMAIN list, RemoveEntry(i)
        PROVE  ListInv'
    <2>1. list' = RemoveAt(list, i) /\ pending' = pending /\ creating' = creating
      BY <1>6 DEF RemoveEntry, placeVars
    <2>2. i \in 1 .. Len(list)
      BY LenProperties DEF ListInv, Listed
    <2> QED BY <2>1, <2>2, RemovedIs DEF ListInv
  <1>7. ASSUME NEW s \in Spot, NEW entry \in BOOLEAN, BeginSave(s, entry)
        PROVE  ListInv'
    <2>1. /\ creating' = creating \cup {[at |-> s, entry |-> entry, list |-> list]}
          /\ list' = list /\ pending' = pending
      BY <1>7 DEF BeginSave
    <2>2. \A c \in creating' : c.at \in Spot
      BY <2>1 DEF ListInv
    <2> QED BY <2>1, <2>2 DEF ListInv
  <1>8. ASSUME NEW c \in creating, SaveAnswers(c) \/ SaveFails(c)
        PROVE  ListInv'
    BY <1>8, SavedList DEF SaveFails, ListInv
  <1>9. ASSUME NEW d \in deleting, DeleteAnswers(d) \/ DeleteFails(d)
        PROVE  ListInv'
    BY <1>9, DeletedList, ListStays DEF DeleteFails
  <1>10. ASSUME NEW i \in DOMAIN summaries, SummaryArrives(i) \/ SummaryFails(i)
         PROVE  ListInv'
    BY <1>10, ArrivedList, ListStays DEF SummaryFails
  <1>11. ASSUME NEW mode \in {"clear", "none"}, NEW payload \in BOOLEAN,
                AssistantResult(mode, <<>>, payload)
         PROVE  ListInv'
    <2>1. mode \in {"clear", "replace", "add", "none"} /\ <<>> \in Seq(Spot)
      BY EmptySeq
    <2> QED BY <1>11, <2>1, SelectedList
  <1>12. ASSUME NEW mode \in {"add", "replace"}, NEW s \in Spot, NEW payload \in BOOLEAN,
                AssistantResult(mode, <<s>>, payload)
         PROVE  ListInv'
    <2>1. mode \in {"clear", "replace", "add", "none"} /\ <<s>> \in Seq(Spot)
      OBVIOUS
    <2> QED BY <1>12, <2>1, SelectedList
  <1> QED BY <1>1, <1>2, <1>3, <1>4, <1>5, <1>6, <1>7, <1>8, <1>9, <1>10, <1>11, <1>12
          DEF WorkspaceNext

LEMMA ListNamesOnce == ListInv => IsInjective(Spots(list))
  <1> SUFFICES ASSUME ListInv PROVE IsInjective(Spots(list))
    OBVIOUS
  <1>1. DOMAIN list = 1 .. Len(list)
    BY LenProperties DEF ListInv, Listed
  <1> QED BY <1>1 DEF ListInv, Listed, IsInjective, Spots

(* However runs, edits, assistant results and late answers interleave,       *)
(* "running" is shown exactly while the newest run is awaited, a report only *)
(* while it is the newest or its successor is awaited, a current card only   *)
(* with its report; and whatever is added twice, by a save, a delayed answer *)
(* or the assistant, the list names no spot twice.                           *)
THEOREM RunsStayNewest == WorkspaceSpec => []NewestRunOnly
  <1>1. RunInv /\ ListInv => NewestRunOnly
    BY ListNamesOnce DEF RunInv, NewestRunOnly
  <1> QED BY <1>1, RunInvInit, RunInvStep, ListInvInit, ListInvStep, PTL DEF WorkspaceSpec
-----------------------------------------------------------------------------
(* RequestCharging.  The sum of what an address was counted for today, its   *)
(* requests past their own buckets, and what its bucket has left grows only  *)
(* by what the bucket regains: a request moves from one summand to the next. *)

(* A chat in the order of its limits.                                        *)
ChatAhead == {<<"burst", "assistant", "assistant_ip", "day">>, <<"assistant", "assistant_ip", "day">>,
           <<"assistant_ip", "day">>, <<"day">>}
(* What may still be ahead of a request.                                     *)
Aheads ==
    ChatAhead \cup {<<>>, <<"health">>, <<"tiles">>, <<"burst">>, <<"assistant_commands">>,
                 <<"burst", "assistant_commands">>}
(* A request, or a free place for one.                                       *)
Charged ==
    [ahead : Aheads, path : Path, ip : Ip, user : User] \cup {Nobody}

(* Past the caller's own buckets, the day's counter ahead.                   *)
Counting(ip) == {r \in Request : request[r].ahead = <<"day">> /\ request[r].ip = ip}

(* Probes past their bucket.                                                 *)
Probing(ip) ==
    {r \in Request : /\ request[r].path = "health" /\ request[r].ahead = <<>>
                     /\ request[r].ip = ip}

(* Those that may have met midnight between two of their limits.             *)
Midnights == IF hour < DayTicks THEN 0 ELSE Cardinality(Request)

ChargingType ==
    /\ hour \in Nat /\ level \in [Buckets -> Nat]
    /\ \A b \in Buckets : level[b] <= Full[b[1]]
    /\ request \in [Request -> Charged]
    /\ counted \in [Ip -> Nat] /\ probes \in [Ip -> Nat]
    /\ \A r \in Request : request[r].path = "health" => request[r].ahead \in {<<>>, <<"health">>}

(* What a caller has used of the day, may be about to use, and has left in   *)
(* its bucket.                                                               *)
ShareInv ==
    \A ip \in Ip :
      counted[ip] + Cardinality(Counting(ip)) + level[<<"assistant_ip", ip>>]
        <= Full["assistant_ip"] + PerTick["assistant_ip"] * (hour % DayTicks) + Midnights

(* The same of the probes an address was served since the last tick.         *)
ProbeInv ==
    \A ip \in Ip :
      probes[ip] + Cardinality(Probing(ip)) + level[<<"health", ip>>]
        <= Full["health"] + Cardinality(Request)

ChargingInv == ChargingType /\ ShareInv /\ ProbeInv

LEMMA SomeRequests ==
  ASSUME NEW R \in SUBSET Request
  PROVE  /\ IsFiniteSet(R) /\ Cardinality(R) \in Nat
         /\ Cardinality(R) <= Cardinality(Request) /\ Cardinality(Request) \in Nat
  BY ChargingAssumption, FS_Subset, FS_CardinalityType

LEMMA ChargingInvHolds == ChargingInv => LimitsHold
  <1> SUFFICES ASSUME ChargingInv, NEW ip \in Ip
               PROVE  /\ counted[ip] <= Full["assistant_ip"] + PerTick["assistant_ip"] * (hour % DayTicks)
                                         + Midnights
                      /\ probes[ip] <= Full["health"] + Cardinality(Request)
    BY DEF LimitsHold, DailyShare, ProbesFinite, Midnights
  <1>1. Cardinality(Counting(ip)) \in Nat /\ Cardinality(Probing(ip)) \in Nat
        /\ Cardinality(Request) \in Nat
    BY SomeRequests DEF Counting, Probing
  <1>2. /\ <<"assistant_ip", ip>> \in Buckets /\ <<"health", ip>> \in Buckets
        /\ "assistant_ip" \in PerIp \cup PerUser /\ "health" \in PerIp \cup PerUser
    BY DEF Buckets, PerIp
  <1>3. /\ level[<<"assistant_ip", ip>>] \in Nat /\ level[<<"health", ip>>] \in Nat
        /\ counted[ip] \in Nat /\ probes[ip] \in Nat
    BY <1>2 DEF ChargingInv, ChargingType
  <1> DEFINE share == Full["assistant_ip"] + PerTick["assistant_ip"] * (hour % DayTicks) + Midnights
             probe == Full["health"] + Cardinality(Request)
  <1>4. share \in Nat /\ probe \in Nat
    <2>1. /\ Full["assistant_ip"] \in Nat /\ PerTick["assistant_ip"] \in Nat /\ Full["health"] \in Nat
          /\ hour % DayTicks \in Nat
      BY <1>2, ChargingAssumption DEF ChargingInv, ChargingType
    <2>2. PerTick["assistant_ip"] * (hour % DayTicks) \in Nat
      BY <2>1
    <2> QED BY <1>1, <2>1, <2>2 DEF Midnights
  <1>5. /\ counted[ip] + Cardinality(Counting(ip)) + level[<<"assistant_ip", ip>>] <= share
        /\ probes[ip] + Cardinality(Probing(ip)) + level[<<"health", ip>>] <= probe
    BY DEF ChargingInv, ShareInv, ProbeInv
  <1> HIDE DEF share, probe
  <1>6. counted[ip] <= share /\ probes[ip] <= probe
    BY <1>1, <1>3, <1>4, <1>5
  <1> QED BY <1>6 DEF share, probe

LEMMA ChargingInvInit == ChargingInit => ChargingInv
  <1> SUFFICES ASSUME ChargingInit PROVE ChargingInv
    OBVIOUS
  <1>1. /\ Full \in [PerIp \cup PerUser -> Nat] /\ PerTick \in [PerIp \cup PerUser -> Nat]
        /\ DayTicks \in Nat \ {0}
    BY ChargingAssumption
  <1>2. \A b \in Buckets : b[1] \in PerIp \cup PerUser
    BY DEF Buckets
  <1>3. /\ Nobody.ahead = <<>> /\ Nobody.path = "none" /\ Nobody \in Charged
    BY DEF Nobody, Charged
  <1>4. ChargingType
    BY <1>1, <1>2, <1>3 DEF ChargingInit, ChargingType
  <1>5. ASSUME NEW ip \in Ip
        PROVE  Counting(ip) = {} /\ Probing(ip) = {}
    BY <1>3 DEF ChargingInit, Counting, Probing
  <1>6. Cardinality({}) = 0 /\ Cardinality(Request) \in Nat
    BY FS_EmptySet, SomeRequests
  <1>7. ASSUME NEW ip \in Ip
        PROVE  /\ level[<<"assistant_ip", ip>>] = Full["assistant_ip"]
               /\ level[<<"health", ip>>] = Full["health"]
               /\ Full["assistant_ip"] \in Nat /\ Full["health"] \in Nat
               /\ PerTick["assistant_ip"] \in Nat
    BY <1>1 DEF ChargingInit, Buckets, PerIp
  <1>8. hour = 0 /\ hour % DayTicks = 0 /\ Midnights = 0
    BY <1>1 DEF ChargingInit, Midnights
  <1>9. ASSUME NEW ip \in Ip
        PROVE  counted[ip] = 0 /\ probes[ip] = 0
    BY DEF ChargingInit
  <1>10. ShareInv
    <2> SUFFICES ASSUME NEW ip \in Ip
                 PROVE  0 + 0 + Full["assistant_ip"]
                          <= Full["assistant_ip"] + PerTick["assistant_ip"] * 0 + 0
      BY <1>5, <1>6, <1>7, <1>8, <1>9 DEF ShareInv
    <2>1. Full["assistant_ip"] \in Nat /\ PerTick["assistant_ip"] \in Nat
      BY <1>7
    <2> QED BY <2>1
  <1>11. ProbeInv
    <2> SUFFICES ASSUME NEW ip \in Ip
                 PROVE  0 + 0 + Full["health"] <= Full["health"] + Cardinality(Request)
      BY <1>5, <1>6, <1>7, <1>9 DEF ProbeInv
    <2>1. Full["health"] \in Nat
      BY <1>7
    <2> QED BY <1>6, <2>1
  <1> QED BY <1>4, <1>10, <1>11 DEF ChargingInv

(* One request goes on to what is given.                                     *)
Goes(r, q) == request' = [request EXCEPT ![r] = q]

LEMMA GoesEffect ==
  ASSUME ChargingType, NEW r \in Request, NEW q \in Charged, Goes(r, q),
         q.path = "health" => q.ahead \in {<<>>, <<"health">>}
  PROVE  /\ request' \in [Request -> Charged]
         /\ \A u \in Request : request'[u].path = "health"
                                 => request'[u].ahead \in {<<>>, <<"health">>}
         /\ request'[r] = q /\ \A u \in Request : u # r => request'[u] = request[u]
  BY DEF ChargingType, Goes

LEMMA CountingGoes ==
  ASSUME ChargingType, NEW r \in Request, NEW q \in Charged, Goes(r, q), NEW ip \in Ip
  PROVE  /\ Cardinality(Counting(ip)) \in Nat /\ Cardinality(Counting(ip)') \in Nat
         /\ Cardinality(Counting(ip)') <= Cardinality(Counting(ip)) + 1
         /\ ~(q.ahead = <<"day">> /\ q.ip = ip) =>
              /\ Cardinality(Counting(ip)') <= Cardinality(Counting(ip))
              /\ r \in Counting(ip) =>
                   Cardinality(Counting(ip)') = Cardinality(Counting(ip)) - 1
  <1>1. request'[r] = q /\ \A u \in Request : u # r => request'[u] = request[u]
    BY DEF ChargingType, Goes
  <1>2. /\ IsFiniteSet(Counting(ip)) /\ Cardinality(Counting(ip)) \in Nat
        /\ IsFiniteSet(Counting(ip)') /\ Cardinality(Counting(ip)') \in Nat
    BY SomeRequests DEF Counting
  <1>3. CASE q.ahead = <<"day">> /\ q.ip = ip
    <2>1. Counting(ip)' = Counting(ip) \cup {r}
      BY <1>1, <1>3 DEF Counting
    <2>2. CASE r \in Counting(ip)
      <3>1. Counting(ip)' = Counting(ip)
        BY <2>1, <2>2
      <3> QED BY <1>2, <1>3, <3>1
    <2>3. CASE r \notin Counting(ip)
      <3>1. Cardinality(Counting(ip)') = Cardinality(Counting(ip)) + 1
        BY <1>2, <2>1, <2>3, FS_AddElement
      <3> QED BY <1>2, <1>3, <3>1
    <2> QED BY <2>2, <2>3
  <1>4. CASE ~(q.ahead = <<"day">> /\ q.ip = ip)
    <2>1. Counting(ip)' = Counting(ip) \ {r}
      BY <1>1, <1>4 DEF Counting
    <2>2. CASE r \in Counting(ip)
      <3>1. Cardinality(Counting(ip)') = Cardinality(Counting(ip)) - 1
        BY <1>2, <2>1, <2>2, FS_RemoveElement
      <3> QED BY <1>2, <3>1
    <2>3. CASE r \notin Counting(ip)
      <3>1. Counting(ip)' = Counting(ip)
        BY <2>1, <2>3
      <3> QED BY <1>2, <2>3, <3>1
    <2> QED BY <2>2, <2>3
  <1> QED BY <1>3, <1>4

LEMMA ProbingGoes ==
  ASSUME ChargingType, NEW r \in Request, NEW q \in Charged, Goes(r, q), NEW ip \in Ip
  PROVE  /\ Cardinality(Probing(ip)) \in Nat /\ Cardinality(Probing(ip)') \in Nat
         /\ Cardinality(Probing(ip)') <= Cardinality(Probing(ip)) + 1
         /\ ~(q.path = "health" /\ q.ahead = <<>> /\ q.ip = ip) =>
              /\ Cardinality(Probing(ip)') <= Cardinality(Probing(ip))
              /\ r \in Probing(ip) =>
                   Cardinality(Probing(ip)') = Cardinality(Probing(ip)) - 1
  <1>1. request'[r] = q /\ \A u \in Request : u # r => request'[u] = request[u]
    BY DEF ChargingType, Goes
  <1>2. /\ IsFiniteSet(Probing(ip)) /\ Cardinality(Probing(ip)) \in Nat
        /\ IsFiniteSet(Probing(ip)') /\ Cardinality(Probing(ip)') \in Nat
    BY SomeRequests DEF Probing
  <1>3. CASE q.path = "health" /\ q.ahead = <<>> /\ q.ip = ip
    <2>1. Probing(ip)' = Probing(ip) \cup {r}
      BY <1>1, <1>3 DEF Probing
    <2>2. CASE r \in Probing(ip)
      <3>1. Probing(ip)' = Probing(ip)
        BY <2>1, <2>2
      <3> QED BY <1>2, <1>3, <3>1
    <2>3. CASE r \notin Probing(ip)
      <3>1. Cardinality(Probing(ip)') = Cardinality(Probing(ip)) + 1
        BY <1>2, <2>1, <2>3, FS_AddElement
      <3> QED BY <1>2, <1>3, <3>1
    <2> QED BY <2>2, <2>3
  <1>4. CASE ~(q.path = "health" /\ q.ahead = <<>> /\ q.ip = ip)
    <2>1. Probing(ip)' = Probing(ip) \ {r}
      BY <1>1, <1>4 DEF Probing
    <2>2. CASE r \in Probing(ip)
      <3>1. Cardinality(Probing(ip)') = Cardinality(Probing(ip)) - 1
        BY <1>2, <2>1, <2>2, FS_RemoveElement
      <3> QED BY <1>2, <3>1
    <2>3. CASE r \notin Probing(ip)
      <3>1. Probing(ip)' = Probing(ip)
        BY <2>1, <2>3
      <3> QED BY <1>2, <2>3, <3>1
    <2> QED BY <2>2, <2>3
  <1> QED BY <1>3, <1>4

(* The two buckets that are counted with them.                               *)
LEMMA Levels ==
  ASSUME ChargingType, NEW ip \in Ip
  PROVE  /\ <<"assistant_ip", ip>> \in Buckets /\ <<"health", ip>> \in Buckets
         /\ level[<<"assistant_ip", ip>>] \in Nat /\ level[<<"health", ip>>] \in Nat
         /\ counted[ip] \in Nat /\ probes[ip] \in Nat
  BY DEF ChargingType, Buckets, PerIp

LEMMA LimitTypes ==
  ASSUME ChargingType
  PROVE  /\ Full["assistant_ip"] + PerTick["assistant_ip"] * (hour % DayTicks) + Midnights \in Nat
         /\ Full["health"] + Cardinality(Request) \in Nat
  <1>1. Cardinality(Request) \in Nat
    BY SomeRequests
  <1>2. /\ Full["assistant_ip"] \in Nat /\ PerTick["assistant_ip"] \in Nat /\ Full["health"] \in Nat
        /\ hour % DayTicks \in Nat
    BY ChargingAssumption DEF ChargingType, PerIp
  <1>3. PerTick["assistant_ip"] * (hour % DayTicks) \in Nat
    BY <1>2
  <1> QED BY <1>1, <1>2, <1>3 DEF Midnights

(* A step of a request that keeps both sums.                                 *)
LEMMA RequestStep ==
  ASSUME ChargingInv, NEW r \in Request, NEW q \in Charged, Goes(r, q),
         q.path = "health" => q.ahead \in {<<>>, <<"health">>},
         UNCHANGED hour, level' \in [Buckets -> Nat], \A b \in Buckets : level'[b] <= level[b],
         counted' \in [Ip -> Nat], probes' \in [Ip -> Nat],
         \A ip \in Ip :
           /\ counted'[ip] + Cardinality(Counting(ip)') + level'[<<"assistant_ip", ip>>]
                <= counted[ip] + Cardinality(Counting(ip)) + level[<<"assistant_ip", ip>>]
           /\ probes'[ip] + Cardinality(Probing(ip)') + level'[<<"health", ip>>]
                <= probes[ip] + Cardinality(Probing(ip)) + level[<<"health", ip>>]
  PROVE  ChargingInv'
  <1> USE DEF ChargingInv
  <1>1. ASSUME NEW b \in Buckets
        PROVE  level'[b] <= Full[b[1]]
    <2>1. b[1] \in PerIp \cup PerUser
      BY DEF Buckets
    <2>2. level'[b] \in Nat /\ level[b] \in Nat /\ Full[b[1]] \in Nat /\ level[b] <= Full[b[1]]
      BY <2>1, ChargingAssumption DEF ChargingType
    <2> QED BY <2>2
  <1>2. ChargingType'
    BY <1>1, GoesEffect DEF ChargingType
  <1>3. Midnights' = Midnights
    BY DEF Midnights
  <1>4. ASSUME NEW ip \in Ip
        PROVE  /\ Cardinality(Counting(ip)) \in Nat /\ Cardinality(Counting(ip)') \in Nat
               /\ Cardinality(Probing(ip)) \in Nat /\ Cardinality(Probing(ip)') \in Nat
    BY CountingGoes, ProbingGoes
  <1>5. ASSUME NEW ip \in Ip
        PROVE  /\ level'[<<"assistant_ip", ip>>] \in Nat /\ level'[<<"health", ip>>] \in Nat
               /\ counted'[ip] \in Nat /\ probes'[ip] \in Nat
    BY Levels
  <1>6. ShareInv'
    <2> DEFINE share == Full["assistant_ip"] + PerTick["assistant_ip"] * (hour % DayTicks) + Midnights
    <2>1. share' = share /\ share \in Nat
      BY <1>3, LimitTypes
    <2>2. \A ip \in Ip :
            counted[ip] + Cardinality(Counting(ip)) + level[<<"assistant_ip", ip>>] <= share
      BY DEF ShareInv
    <2> HIDE DEF share
    <2>3. ASSUME NEW ip \in Ip
          PROVE  counted'[ip] + Cardinality(Counting(ip)') + level'[<<"assistant_ip", ip>>] <= share
      <3>1. /\ counted[ip] \in Nat /\ level[<<"assistant_ip", ip>>] \in Nat
            /\ counted[ip] + Cardinality(Counting(ip)) + level[<<"assistant_ip", ip>>] <= share
        BY <2>2, Levels
      <3>2. counted'[ip] + Cardinality(Counting(ip)') + level'[<<"assistant_ip", ip>>]
              <= counted[ip] + Cardinality(Counting(ip)) + level[<<"assistant_ip", ip>>]
        OBVIOUS
      <3>3. /\ Cardinality(Counting(ip)) \in Nat /\ Cardinality(Counting(ip)') \in Nat
            /\ level'[<<"assistant_ip", ip>>] \in Nat /\ counted'[ip] \in Nat
        BY <1>4, <1>5
      <3> QED BY <2>1, <3>1, <3>2, <3>3
    <2> QED BY <2>1, <2>3 DEF ShareInv, share
  <1>7. ProbeInv'
    <2> DEFINE probe == Full["health"] + Cardinality(Request)
    <2>1. probe \in Nat
      BY LimitTypes
    <2>2. \A ip \in Ip :
            probes[ip] + Cardinality(Probing(ip)) + level[<<"health", ip>>] <= probe
      BY DEF ProbeInv
    <2> HIDE DEF probe
    <2>3. ASSUME NEW ip \in Ip
          PROVE  probes'[ip] + Cardinality(Probing(ip)') + level'[<<"health", ip>>] <= probe
      <3>1. /\ probes[ip] \in Nat /\ level[<<"health", ip>>] \in Nat
            /\ probes[ip] + Cardinality(Probing(ip)) + level[<<"health", ip>>] <= probe
        BY <2>2, Levels
      <3>2. probes'[ip] + Cardinality(Probing(ip)') + level'[<<"health", ip>>]
              <= probes[ip] + Cardinality(Probing(ip)) + level[<<"health", ip>>]
        OBVIOUS
      <3>3. /\ Cardinality(Probing(ip)) \in Nat /\ Cardinality(Probing(ip)') \in Nat
            /\ level'[<<"health", ip>>] \in Nat /\ probes'[ip] \in Nat
        BY <1>4, <1>5
      <3> QED BY <2>1, <3>1, <3>2, <3>3
    <2> QED BY <2>3 DEF ProbeInv, probe
  <1> QED BY <1>2, <1>6, <1>7

(* The limits a path brings to the door.                                     *)
LEMMA DoorLimits ==
  ASSUME NEW path \in Path
  PROVE  /\ EdgeLimits(path) \o HandlerLimits(path) \in Aheads \ {<<"day">>}
         /\ path = "health" => EdgeLimits(path) \o HandlerLimits(path) = <<"health">>
  <1>1. /\ <<"burst">> \o <<"assistant", "assistant_ip", "day">>
             = <<"burst", "assistant", "assistant_ip", "day">>
        /\ <<"burst">> \o <<"assistant_commands">> = <<"burst", "assistant_commands">>
        /\ <<"burst">> \o <<>> = <<"burst">> /\ <<"tiles">> \o <<>> = <<"tiles">>
        /\ <<"health">> \o <<>> = <<"health">>
        /\ <<>> \o <<>> = <<>>
    <2> DEFINE S == {"burst", "assistant", "assistant_ip", "assistant_commands", "day"}
               chat == <<"burst">> \o <<"assistant", "assistant_ip", "day">>
               command == <<"burst">> \o <<"assistant_commands">>
    <2>1. /\ chat \in Seq(S) /\ Len(chat) = 4 /\ chat[1] = "burst" /\ chat[2] = "assistant"
          /\ chat[3] = "assistant_ip" /\ chat[4] = "day"
      OBVIOUS
    <2>2. /\ command \in Seq(S) /\ Len(command) = 2 /\ command[1] = "burst"
          /\ command[2] = "assistant_commands"
      OBVIOUS
    <2>3. chat = <<"burst", "assistant", "assistant_ip", "day">>
      <3> HIDE DEF chat
      <3> QED BY <2>1
    <2>4. command = <<"burst", "assistant_commands">>
      <3> HIDE DEF command
      <3> QED BY <2>2
    <2>5. /\ <<"burst">> \o <<>> = <<"burst">> /\ <<"tiles">> \o <<>> = <<"tiles">>
          /\ <<"health">> \o <<>> = <<"health">>
          /\ <<>> \o <<>> = <<>>
      OBVIOUS
    <2> QED BY <2>3, <2>4, <2>5
  <1>2. /\ ~enabled => HandlerLimits(path) = <<>>
        /\ enabled /\ path = "chat" => HandlerLimits(path) = <<"assistant", "assistant_ip", "day">>
        /\ enabled /\ path = "command" => HandlerLimits(path) = <<"assistant_commands">>
        /\ path \notin {"chat", "command"} => HandlerLimits(path) = <<>>
    <2>1. CASE enabled
      <3>1. path = "chat" => HandlerLimits(path) = <<"assistant", "assistant_ip", "day">>
        BY <2>1 DEF HandlerLimits, ChatLimits
      <3>2. path = "command" => HandlerLimits(path) = <<"assistant_commands">>
        BY <2>1 DEF HandlerLimits
      <3>3. path \notin {"chat", "command"} => HandlerLimits(path) = <<>>
        BY <2>1 DEF HandlerLimits
      <3> QED BY <2>1, <3>1, <3>2, <3>3
    <2>2. CASE ~enabled
      <3>1. HandlerLimits(path) = <<>>
        BY <2>2 DEF HandlerLimits
      <3> QED BY <2>2, <3>1
    <2> QED BY <2>1, <2>2
  <1>3. /\ path = "health" => EdgeLimits(path) = <<"health">>
        /\ path # "health" /\ (~enabled \/ path = "asset") => EdgeLimits(path) = <<>>
        /\ enabled /\ path = "tiles" => EdgeLimits(path) = <<"tiles">>
        /\ enabled /\ path \notin {"health", "asset", "tiles"} => EdgeLimits(path) = <<"burst">>
    <2>1. CASE path = "health"
      <3>1. EdgeLimits(path) = <<"health">>
        BY <2>1 DEF EdgeLimits
      <3> QED BY <2>1, <3>1
    <2>2. CASE path # "health" /\ ~enabled
      <3>1. EdgeLimits(path) = <<>>
        BY <2>2 DEF EdgeLimits
      <3> QED BY <2>2, <3>1
    <2>3. CASE path # "health" /\ enabled
      <3>1. path = "asset" => EdgeLimits(path) = <<>>
        BY <2>3 DEF EdgeLimits
      <3>2. path = "tiles" => EdgeLimits(path) = <<"tiles">>
        BY <2>3 DEF EdgeLimits
      <3>3. path \notin {"health", "asset", "tiles"} => EdgeLimits(path) = <<"burst">>
        BY <2>3 DEF EdgeLimits
      <3> QED BY <2>3, <3>1, <3>2, <3>3
    <2> QED BY <2>1, <2>2, <2>3
  <1> DEFINE door == EdgeLimits(path) \o HandlerLimits(path)
  <1>4. \/ door = <<>> \/ door = <<"tiles">> \/ door = <<"burst">> \/ door = <<"health">>
        \/ door = <<"burst", "assistant_commands">>
        \/ door = <<"burst", "assistant", "assistant_ip", "day">>
    <2>1. CASE path = "health"
      BY <1>1, <1>2, <1>3, <2>1
    <2>2. CASE path # "health" /\ ~enabled
      BY <1>1, <1>2, <1>3, <2>2
    <2>3. CASE path = "chat" /\ enabled
      BY <1>1, <1>2, <1>3, <2>3
    <2>4. CASE path = "command" /\ enabled
      BY <1>1, <1>2, <1>3, <2>4
    <2>5. CASE path \in {"tiles", "asset", "wholeArchive", "internal", "other"} /\ enabled
      BY <1>1, <1>2, <1>3, <2>5
    <2> QED BY <2>1, <2>2, <2>3, <2>4, <2>5 DEF Path
  <1>5. path = "health" => door = <<"health">>
    BY <1>1, <1>2, <1>3
  <1>6. /\ <<>> # <<"day">> /\ <<"tiles">> # <<"day">> /\ <<"burst">> # <<"day">>
        /\ <<"health">> # <<"day">> /\ <<"burst", "assistant_commands">> # <<"day">>
        /\ <<"burst", "assistant", "assistant_ip", "day">> # <<"day">>
    OBVIOUS
  <1> HIDE DEF door
  <1>7. door \in Aheads \ {<<"day">>}
    BY <1>4, <1>6 DEF Aheads, ChatAhead
  <1> QED BY <1>5, <1>7 DEF door

LEMMA NobodyGoes ==
  /\ Nobody \in Charged /\ Nobody.path # "health" /\ Nobody.ahead # <<"day">>
  BY DEF Nobody, Charged

LEMMA ArriveStep ==
  ASSUME ChargingInv, NEW r \in Request, NEW ip \in Ip, NEW user \in User, NEW path \in Path,
         Arrive(r, ip, user, path)
  PROVE  ChargingInv'
  <1>1. PICK q \in Charged :
          /\ Goes(r, q) /\ q.ahead # <<"day">>
          /\ q.path = "health" => q.ahead = <<"health">>
    <2>1. CASE Turned(path)
      BY <2>1, NobodyGoes DEF Arrive, Goes
    <2>2. CASE ~Turned(path)
      <3> DEFINE q == [ahead |-> EdgeLimits(path) \o HandlerLimits(path), path |-> path,
                       ip |-> ip, user |-> user]
      <3>1. q \in Charged
        BY DoorLimits DEF Charged
      <3>2. q.ahead # <<"day">> /\ (q.path = "health" => q.ahead = <<"health">>)
        BY DoorLimits
      <3>3. Goes(r, q)
        BY <2>2 DEF Arrive, Goes
      <3> QED BY <3>1, <3>2, <3>3
    <2> QED BY <2>1, <2>2
  <1>2. UNCHANGED <<hour, level, counted, probes>> /\ ChargingType
    BY DEF Arrive, ChargingInv
  <1>3. ASSUME NEW i \in Ip
        PROVE  /\ Cardinality(Counting(i)') <= Cardinality(Counting(i))
               /\ Cardinality(Probing(i)') <= Cardinality(Probing(i))
               /\ Cardinality(Counting(i)') \in Nat /\ Cardinality(Counting(i)) \in Nat
               /\ Cardinality(Probing(i)') \in Nat /\ Cardinality(Probing(i)) \in Nat
    <2>1. q.ahead # <<"day">> /\ ~(q.path = "health" /\ q.ahead = <<>>)
      <3>1. <<"health">> # <<>>
        OBVIOUS
      <3> QED BY <1>1, <3>1
    <2> QED BY <1>1, <1>2, <2>1, CountingGoes, ProbingGoes
  <1>4. ASSUME NEW i \in Ip
        PROVE  /\ counted'[i] + Cardinality(Counting(i)') + level'[<<"assistant_ip", i>>]
                    <= counted[i] + Cardinality(Counting(i)) + level[<<"assistant_ip", i>>]
               /\ probes'[i] + Cardinality(Probing(i)') + level'[<<"health", i>>]
                    <= probes[i] + Cardinality(Probing(i)) + level[<<"health", i>>]
    BY <1>2, <1>3, Levels
  <1>5. /\ level' \in [Buckets -> Nat] /\ \A b \in Buckets : level'[b] <= level[b]
        /\ counted' \in [Ip -> Nat] /\ probes' \in [Ip -> Nat] /\ hour' = hour
    BY <1>2 DEF ChargingType
  <1> QED BY <1>1, <1>4, <1>5, RequestStep

LEMMA AheadTails ==
  \A limits \in Aheads \ {<<>>} :
       /\ Tail(limits) \in Aheads
       /\ Head(limits) \in {"burst", "assistant", "assistant_ip", "day", "health", "tiles", "assistant_commands"}
       /\ Head(limits) = "day" => limits = <<"day">>
       /\ Tail(limits) = <<"day">> => limits = <<"assistant_ip", "day">>
  <1>1. /\ Tail(<<"burst", "assistant", "assistant_ip", "day">>) = <<"assistant", "assistant_ip", "day">>
        /\ Tail(<<"assistant", "assistant_ip", "day">>) = <<"assistant_ip", "day">>
        /\ Tail(<<"assistant_ip", "day">>) = <<"day">>
        /\ Tail(<<"burst", "assistant_commands">>) = <<"assistant_commands">>
    OBVIOUS
  <1>2. /\ Tail(<<"day">>) = <<>> /\ Tail(<<"health">>) = <<>> /\ Tail(<<"tiles">>) = <<>>
        /\ Tail(<<"burst">>) = <<>> /\ Tail(<<"assistant_commands">>) = <<>>
    OBVIOUS
  <1>3. /\ Head(<<"burst", "assistant", "assistant_ip", "day">>) = "burst"
        /\ Head(<<"assistant", "assistant_ip", "day">>) = "assistant"
        /\ Head(<<"assistant_ip", "day">>) = "assistant_ip"
        /\ Head(<<"burst", "assistant_commands">>) = "burst"
        /\ Head(<<"day">>) = "day" /\ Head(<<"health">>) = "health" /\ Head(<<"tiles">>) = "tiles"
        /\ Head(<<"burst">>) = "burst" /\ Head(<<"assistant_commands">>) = "assistant_commands"
    OBVIOUS
  <1>4. /\ <<"assistant", "assistant_ip", "day">> # <<"day">> /\ <<"assistant_ip", "day">> # <<"day">>
        /\ <<"assistant_commands">> # <<"day">> /\ <<>> # <<"day">>
    OBVIOUS
  <1>5. ASSUME NEW limits \in Aheads \ {<<>>}
        PROVE  /\ Tail(limits) \in Aheads /\ Head(limits) \in {"burst", "assistant", "assistant_ip", "day", "health", "tiles", "assistant_commands"}
               /\ Head(limits) = "day" => limits = <<"day">>
               /\ Tail(limits) = <<"day">> => limits = <<"assistant_ip", "day">>
    <2>1. CASE limits = <<"burst", "assistant", "assistant_ip", "day">>
      BY <1>1, <1>3, <1>4, <2>1 DEF Aheads, ChatAhead
    <2>2. CASE limits = <<"assistant", "assistant_ip", "day">>
      BY <1>1, <1>3, <1>4, <2>2 DEF Aheads, ChatAhead
    <2>3. CASE limits = <<"assistant_ip", "day">>
      BY <1>1, <1>3, <2>3 DEF Aheads, ChatAhead
    <2>4. CASE limits = <<"burst", "assistant_commands">>
      BY <1>1, <1>3, <1>4, <2>4 DEF Aheads
    <2>5. CASE limits = <<"day">>
      BY <1>2, <1>3, <1>4, <2>5 DEF Aheads
    <2>6. CASE limits = <<"health">>
      BY <1>2, <1>3, <1>4, <2>6 DEF Aheads
    <2>7. CASE limits = <<"tiles">>
      BY <1>2, <1>3, <1>4, <2>7 DEF Aheads
    <2>8. CASE limits = <<"burst">>
      BY <1>2, <1>3, <1>4, <2>8 DEF Aheads
    <2>9. CASE limits = <<"assistant_commands">>
      BY <1>2, <1>3, <1>4, <2>9 DEF Aheads
    <2> QED
      BY <2>1, <2>2, <2>3, <2>4, <2>5, <2>6, <2>7, <2>8, <2>9 DEF Aheads, ChatAhead
  <1> QED BY <1>5

LEMMA InFlightRecord ==
  ASSUME ChargingType, NEW r \in Request, InFlight(r)
  PROVE  request[r] \in [ahead : Aheads, path : Path, ip : Ip, user : User]
  <1>1. request[r] \in Charged /\ request[r] # Nobody
    BY DEF ChargingType, InFlight, Nobody
  <1> QED BY <1>1 DEF Charged

(* A limit passed leaves the next ones ahead.                                *)
LEMMA PassedGoes ==
  ASSUME ChargingType, NEW r \in Request, InFlight(r), request[r].ahead # <<>>,
         request' = Passed(r)
  PROVE  \E q \in Charged :
           /\ Goes(r, q) /\ q.ahead = Tail(request[r].ahead)
           /\ q.path = request[r].path /\ q.ip = request[r].ip
           /\ q.path = "health" => q.ahead = <<>>
  <1> DEFINE q == [request[r] EXCEPT !.ahead = Tail(@)]
  <1>1. request[r] \in [ahead : Aheads, path : Path, ip : Ip, user : User]
    BY InFlightRecord
  <1>2. Tail(request[r].ahead) \in Aheads
    BY <1>1, AheadTails
  <1>3. /\ q \in Charged /\ q.ahead = Tail(request[r].ahead)
        /\ q.path = request[r].path /\ q.ip = request[r].ip
    BY <1>1, <1>2 DEF Charged
  <1>4. q.path = "health" => q.ahead = <<>>
    <2> HIDE DEF q
    <2>1. request[r].path = "health" => request[r].ahead = <<"health">>
      BY DEF ChargingType
    <2>2. Tail(<<"health">>) = <<>>
      OBVIOUS
    <2> QED BY <1>3, <2>1, <2>2
  <1>5. Goes(r, q)
    BY DEF Passed, Goes
  <1> QED BY <1>3, <1>4, <1>5

LEMMA HeadsDiffer ==
  ASSUME NEW limits \in Aheads \ {<<>>}
  PROVE  /\ Tail(limits) = <<"day">> => Head(limits) = "assistant_ip"
         /\ Head(limits) = "day" => Tail(limits) = <<>>
         /\ limits = <<"health">> => Head(limits) = "health"
  <1>1. /\ Head(<<"assistant_ip", "day">>) = "assistant_ip" /\ Tail(<<"day">>) = <<>>
        /\ Head(<<"health">>) = "health"
    OBVIOUS
  <1> QED BY <1>1, AheadTails

(* try_take lets the request past a bucket that had a call left.             *)
LEMMA TokenTaken ==
  ASSUME ChargingInv, NEW r \in Request, TakeToken(r), request' = Passed(r),
         NEW b \in Buckets, b = BucketOf(r), level[b] > 0,
         level' = [level EXCEPT ![b] = @ - 1]
  PROVE  ChargingInv'
  <1> DEFINE limits == request[r].ahead
  <1>1. /\ ChargingType /\ InFlight(r) /\ limits # <<>> /\ Head(limits) # "day"
        /\ UNCHANGED <<hour, counted, probes>>
    BY DEF ChargingInv, TakeToken, Ahead
  <1>2. request[r] \in [ahead : Aheads, path : Path, ip : Ip, user : User]
    BY <1>1, InFlightRecord
  <1>3. /\ limits \in Aheads \ {<<>>} /\ request[r].ip \in Ip
    BY <1>1, <1>2
  <1>4. PICK q \in Charged :
          /\ Goes(r, q) /\ q.ahead = Tail(limits)
          /\ q.path = request[r].path /\ q.ip = request[r].ip
          /\ q.path = "health" => q.ahead = <<>>
    BY <1>1, PassedGoes
  <1>5. /\ q.ahead = <<"day">> => b = <<"assistant_ip", q.ip>>
        /\ q.path = "health" => b = <<"health", q.ip>>
    <2>1. Head(limits) \in PerIp => b = <<Head(limits), request[r].ip>>
      BY DEF BucketOf, Ahead
    <2>2. q.ahead = <<"day">> => Head(limits) = "assistant_ip"
      BY <1>3, <1>4, HeadsDiffer
    <2>3. request[r].path = "health" => limits = <<"health">>
      BY <1>1 DEF ChargingType
    <2>4. q.path = "health" => Head(limits) = "health"
      BY <1>3, <1>4, <2>3, HeadsDiffer
    <2> QED BY <1>4, <2>1, <2>2, <2>4 DEF PerIp
  <1> HIDE DEF limits
  <1>6. /\ level' \in [Buckets -> Nat] /\ level'[b] = level[b] - 1 /\ level[b] \in Nat
        /\ \A d \in Buckets : d # b => level'[d] = level[d]
    BY <1>1 DEF ChargingType
  <1>7. \A d \in Buckets : level'[d] <= level[d] /\ level[d] \in Nat /\ level'[d] \in Nat
    BY <1>1, <1>6 DEF ChargingType
  <1>8. ASSUME NEW i \in Ip
        PROVE  Cardinality(Counting(i)') + level'[<<"assistant_ip", i>>]
                 <= Cardinality(Counting(i)) + level[<<"assistant_ip", i>>]
    <2> DEFINE a == <<"assistant_ip", i>>
    <2>1. /\ a \in Buckets /\ level[a] \in Nat /\ level'[a] \in Nat /\ level'[a] <= level[a]
      BY <1>1, <1>7, Levels
    <2>2. /\ Cardinality(Counting(i)) \in Nat /\ Cardinality(Counting(i)') \in Nat
          /\ Cardinality(Counting(i)') <= Cardinality(Counting(i)) + 1
          /\ ~(q.ahead = <<"day">> /\ q.ip = i) =>
               Cardinality(Counting(i)') <= Cardinality(Counting(i))
      BY <1>1, <1>4, CountingGoes
    <2>3. q.ahead = <<"day">> /\ q.ip = i => level'[a] = level[a] - 1
      BY <1>5, <1>6
    <2> HIDE DEF a
    <2>4. CASE q.ahead = <<"day">> /\ q.ip = i
      BY <2>1, <2>2, <2>3, <2>4 DEF a
    <2>5. CASE ~(q.ahead = <<"day">> /\ q.ip = i)
      BY <2>1, <2>2, <2>5 DEF a
    <2> QED BY <2>4, <2>5
  <1>9. ASSUME NEW i \in Ip
        PROVE  Cardinality(Probing(i)') + level'[<<"health", i>>]
                 <= Cardinality(Probing(i)) + level[<<"health", i>>]
    <2> DEFINE a == <<"health", i>>
    <2>1. /\ a \in Buckets /\ level[a] \in Nat /\ level'[a] \in Nat /\ level'[a] <= level[a]
      BY <1>1, <1>7, Levels
    <2>2. /\ Cardinality(Probing(i)) \in Nat /\ Cardinality(Probing(i)') \in Nat
          /\ Cardinality(Probing(i)') <= Cardinality(Probing(i)) + 1
          /\ ~(q.path = "health" /\ q.ahead = <<>> /\ q.ip = i) =>
               Cardinality(Probing(i)') <= Cardinality(Probing(i))
      BY <1>1, <1>4, ProbingGoes
    <2>3. q.path = "health" /\ q.ip = i => level'[a] = level[a] - 1
      BY <1>5, <1>6
    <2> HIDE DEF a
    <2>4. CASE q.path = "health" /\ q.ip = i
      BY <2>1, <2>2, <2>3, <2>4 DEF a
    <2>5. CASE ~(q.path = "health" /\ q.ip = i)
      BY <2>1, <2>2, <2>5 DEF a
    <2> QED BY <2>4, <2>5
  <1>10. ASSUME NEW i \in Ip
         PROVE  /\ counted'[i] + Cardinality(Counting(i)') + level'[<<"assistant_ip", i>>]
                     <= counted[i] + Cardinality(Counting(i)) + level[<<"assistant_ip", i>>]
                /\ probes'[i] + Cardinality(Probing(i)') + level'[<<"health", i>>]
                     <= probes[i] + Cardinality(Probing(i)) + level[<<"health", i>>]
    <2>1. /\ counted'[i] = counted[i] /\ probes'[i] = probes[i]
          /\ counted[i] \in Nat /\ probes[i] \in Nat
      BY <1>1, Levels
    <2>2. /\ <<"assistant_ip", i>> \in Buckets /\ <<"health", i>> \in Buckets
      BY <1>1, Levels
    <2>3. /\ level[<<"assistant_ip", i>>] \in Nat /\ level'[<<"assistant_ip", i>>] \in Nat
          /\ level[<<"health", i>>] \in Nat /\ level'[<<"health", i>>] \in Nat
      BY <1>7, <2>2
    <2>4. /\ Cardinality(Counting(i)) \in Nat /\ Cardinality(Counting(i)') \in Nat
          /\ Cardinality(Probing(i)) \in Nat /\ Cardinality(Probing(i)') \in Nat
      BY <1>1, <1>4, CountingGoes, ProbingGoes
    <2> QED BY <1>8, <1>9, <2>1, <2>3, <2>4
  <1>11. counted' \in [Ip -> Nat] /\ probes' \in [Ip -> Nat] /\ hour' = hour
    BY <1>1 DEF ChargingType
  <1> QED BY <1>4, <1>6, <1>7, <1>10, <1>11, RequestStep

(* A request that leaves, by a refusal or served.                            *)
LEMMA LeftGoes ==
  ASSUME ChargingInv, NEW r \in Request, request' = Refused(r),
         UNCHANGED <<hour, level, counted>>, probes' \in [Ip -> Nat],
         \A i \in Ip : probes'[i] <= probes[i] + (IF r \in Probing(i) THEN 1 ELSE 0)
  PROVE  ChargingInv'
  <1>1. /\ ChargingType /\ Goes(r, Nobody)
    BY DEF ChargingInv, Refused, Goes
  <1>2. Nobody \in Charged /\ Nobody.path # "health" /\ Nobody.ahead # <<"day">>
    BY NobodyGoes
  <1>3. ASSUME NEW i \in Ip
        PROVE  /\ counted'[i] + Cardinality(Counting(i)') + level'[<<"assistant_ip", i>>]
                    <= counted[i] + Cardinality(Counting(i)) + level[<<"assistant_ip", i>>]
               /\ probes'[i] + Cardinality(Probing(i)') + level'[<<"health", i>>]
                    <= probes[i] + Cardinality(Probing(i)) + level[<<"health", i>>]
    <2>1. /\ counted'[i] = counted[i] /\ probes'[i] \in Nat
          /\ counted[i] \in Nat /\ probes[i] \in Nat
          /\ level'[<<"assistant_ip", i>>] = level[<<"assistant_ip", i>>]
          /\ level[<<"assistant_ip", i>>] \in Nat
          /\ level'[<<"health", i>>] = level[<<"health", i>>] /\ level[<<"health", i>>] \in Nat
      BY <1>1, Levels
    <2>2. /\ Cardinality(Counting(i)) \in Nat /\ Cardinality(Counting(i)') \in Nat
          /\ Cardinality(Counting(i)') <= Cardinality(Counting(i))
      BY <1>1, <1>2, CountingGoes
    <2>3. /\ Cardinality(Probing(i)) \in Nat /\ Cardinality(Probing(i)') \in Nat
          /\ Cardinality(Probing(i)') <= Cardinality(Probing(i))
          /\ r \in Probing(i) => Cardinality(Probing(i)') = Cardinality(Probing(i)) - 1
      BY <1>1, <1>2, ProbingGoes
    <2>4. CASE r \in Probing(i)
      <3>1. probes'[i] <= probes[i] + 1
        BY <2>4
      <3> QED BY <2>1, <2>2, <2>3, <2>4, <3>1
    <2>5. CASE r \notin Probing(i)
      <3>1. probes'[i] <= probes[i]
        BY <2>1, <2>5
      <3> QED BY <2>1, <2>2, <2>3, <3>1
    <2> QED BY <2>4, <2>5
  <1>4. /\ level' \in [Buckets -> Nat] /\ \A b \in Buckets : level'[b] <= level[b]
        /\ counted' \in [Ip -> Nat] /\ hour' = hour
    BY <1>1 DEF ChargingType
  <1>5. Nobody.path = "health" => Nobody.ahead \in {<<>>, <<"health">>}
    BY <1>2
  <1> QED BY <1>1, <1>2, <1>3, <1>4, <1>5, RequestStep

LEMMA TakeTokenStep ==
  ASSUME ChargingInv, NEW r \in Request, TakeToken(r)
  PROVE  ChargingInv'
  <1>1. /\ ChargingType /\ InFlight(r) /\ request[r].ahead # <<>> /\ Ahead(r) # "day"
        /\ UNCHANGED <<hour, counted, probes>>
    BY DEF ChargingInv, TakeToken
  <1>2. BucketOf(r) \in Buckets
    <2>1. request[r] \in [ahead : Aheads, path : Path, ip : Ip, user : User]
      BY <1>1, InFlightRecord
    <2>2. Ahead(r) \in {"burst", "assistant", "assistant_ip", "health", "tiles", "assistant_commands"}
      BY <1>1, <2>1, AheadTails DEF Ahead
    <2> QED BY <2>1, <2>2 DEF BucketOf, Buckets, PerIp, PerUser
  <1>3. CASE /\ level[BucketOf(r)] > 0
             /\ level' = [level EXCEPT ![BucketOf(r)] = @ - 1] /\ request' = Passed(r)
    BY <1>2, <1>3, TokenTaken
  <1>4. CASE level[BucketOf(r)] = 0 /\ request' = Refused(r) /\ UNCHANGED level
    <2>1. /\ probes' \in [Ip -> Nat] /\ probes' = probes /\ \A i \in Ip : probes[i] \in Nat
      BY <1>1 DEF ChargingType
    <2>2. \A i \in Ip : probes'[i] <= probes[i] + (IF r \in Probing(i) THEN 1 ELSE 0)
      BY <2>1
    <2> QED BY <1>1, <1>4, <2>1, <2>2, LeftGoes
  <1> QED BY <1>3, <1>4 DEF TakeToken

LEMMA CountCallStep ==
  ASSUME ChargingInv, NEW r \in Request, CountCall(r)
  PROVE  ChargingInv'
  <1> DEFINE limits == request[r].ahead
  <1>1. /\ ChargingType /\ InFlight(r) /\ limits # <<>> /\ Head(limits) = "day"
        /\ UNCHANGED <<hour, level, probes>>
    BY DEF ChargingInv, CountCall, Ahead
  <1>2. request[r] \in [ahead : Aheads, path : Path, ip : Ip, user : User]
    BY <1>1, InFlightRecord
  <1>3. limits = <<"day">> /\ request[r].ip \in Ip /\ Tail(limits) = <<>>
    BY <1>1, <1>2, AheadTails, HeadsDiffer
  <1>4. request[r].path # "health"
    <2>1. <<"day">> # <<>> /\ <<"day">> # <<"health">>
      OBVIOUS
    <2> QED BY <1>1, <1>3, <2>1 DEF ChargingType
  <1>5. CASE counted' = [counted EXCEPT ![request[r].ip] = @ + 1] /\ request' = Passed(r)
    <2>1. PICK q \in Charged :
            /\ Goes(r, q) /\ q.ahead = Tail(limits)
            /\ q.path = request[r].path /\ q.ip = request[r].ip
            /\ q.path = "health" => q.ahead = <<>>
      BY <1>1, <1>5, PassedGoes
    <2>2. <<>> # <<"day">> /\ q.ahead # <<"day">> /\ q.path # "health"
      BY <1>3, <1>4, <2>1
    <2>3. ASSUME NEW i \in Ip
          PROVE  /\ counted'[i] + Cardinality(Counting(i)') + level'[<<"assistant_ip", i>>]
                      <= counted[i] + Cardinality(Counting(i)) + level[<<"assistant_ip", i>>]
                 /\ probes'[i] + Cardinality(Probing(i)') + level'[<<"health", i>>]
                      <= probes[i] + Cardinality(Probing(i)) + level[<<"health", i>>]
      <3>1. /\ probes'[i] = probes[i] /\ probes[i] \in Nat /\ counted[i] \in Nat
            /\ level'[<<"assistant_ip", i>>] = level[<<"assistant_ip", i>>]
            /\ level[<<"assistant_ip", i>>] \in Nat
            /\ level'[<<"health", i>>] = level[<<"health", i>>] /\ level[<<"health", i>>] \in Nat
        BY <1>1, Levels
      <3>2. /\ Cardinality(Probing(i)) \in Nat /\ Cardinality(Probing(i)') \in Nat
            /\ Cardinality(Probing(i)') <= Cardinality(Probing(i))
        BY <1>1, <2>1, <2>2, ProbingGoes
      <3>3. /\ Cardinality(Counting(i)) \in Nat /\ Cardinality(Counting(i)') \in Nat
            /\ Cardinality(Counting(i)') <= Cardinality(Counting(i))
            /\ r \in Counting(i) => Cardinality(Counting(i)') = Cardinality(Counting(i)) - 1
        BY <1>1, <2>1, <2>2, CountingGoes
      <3>4. CASE i = request[r].ip
        <4>1. counted'[i] = counted[i] + 1
          BY <1>1, <1>5, <3>4 DEF ChargingType
        <4>2. r \in Counting(i)
          BY <1>3, <3>4 DEF Counting
        <4> QED BY <3>1, <3>2, <3>3, <4>1, <4>2
      <3>5. CASE i # request[r].ip
        <4>1. counted'[i] = counted[i]
          BY <1>1, <1>3, <1>5, <3>5 DEF ChargingType
        <4> QED BY <3>1, <3>2, <3>3, <4>1
      <3> QED BY <3>4, <3>5
    <2>4. /\ level' \in [Buckets -> Nat] /\ \A b \in Buckets : level'[b] <= level[b]
          /\ counted' \in [Ip -> Nat] /\ probes' \in [Ip -> Nat] /\ hour' = hour
      BY <1>1, <1>3, <1>5 DEF ChargingType
    <2> QED BY <2>1, <2>2, <2>3, <2>4, RequestStep
  <1>6. CASE request' = Refused(r) /\ UNCHANGED <<dayCalls, counted>>
    <2>1. /\ probes' \in [Ip -> Nat] /\ probes' = probes /\ \A i \in Ip : probes[i] \in Nat
      BY <1>1 DEF ChargingType
    <2>2. \A i \in Ip : probes'[i] <= probes[i] + (IF r \in Probing(i) THEN 1 ELSE 0)
      BY <2>1
    <2> QED BY <1>1, <1>6, <2>1, <2>2, LeftGoes
  <1> QED BY <1>5, <1>6 DEF CountCall

LEMMA ServeStep ==
  ASSUME ChargingInv, NEW r \in Request, Serve(r)
  PROVE  ChargingInv'
  <1>1. /\ ChargingType /\ InFlight(r) /\ request[r].ahead = <<>> /\ request' = Refused(r)
        /\ UNCHANGED <<hour, level, counted>>
    BY DEF ChargingInv, Serve
  <1>2. request[r].ip \in Ip /\ probes \in [Ip -> Nat]
    BY <1>1, InFlightRecord DEF ChargingType
  <1>3. CASE request[r].path = "health"
    <2>1. probes' = [probes EXCEPT ![request[r].ip] = @ + 1]
      BY <1>3 DEF Serve
    <2>2. probes' \in [Ip -> Nat]
      BY <1>2, <2>1
    <2>3. ASSUME NEW i \in Ip
          PROVE  probes'[i] <= probes[i] + (IF r \in Probing(i) THEN 1 ELSE 0)
      <3>1. CASE i = request[r].ip
        <4>1. r \in Probing(i)
          BY <1>1, <1>3, <3>1 DEF Probing
        <4>2. probes'[i] = probes[i] + 1 /\ probes[i] \in Nat
          BY <1>2, <2>1, <3>1
        <4> QED BY <4>1, <4>2
      <3>2. CASE i # request[r].ip
        <4>1. probes'[i] = probes[i] /\ probes[i] \in Nat
          BY <1>2, <2>1, <3>2
        <4> QED BY <4>1
      <3> QED BY <3>1, <3>2
    <2> QED BY <1>1, <2>2, <2>3, LeftGoes
  <1>4. CASE request[r].path # "health"
    <2>1. /\ probes' = probes /\ probes' \in [Ip -> Nat] /\ \A i \in Ip : probes[i] \in Nat
      BY <1>2, <1>4 DEF Serve
    <2>2. \A i \in Ip : probes'[i] <= probes[i] + (IF r \in Probing(i) THEN 1 ELSE 0)
      BY <2>1
    <2> QED BY <1>1, <2>1, <2>2, LeftGoes
  <1> QED BY <1>3, <1>4

LEMMA Remainder ==
  ASSUME NEW D \in Nat \ {0}, NEW q \in Nat, NEW m \in 0 .. (D - 1)
  PROVE  (D * q + m) % D = m
  OBVIOUS

(* A tick leaves the day's ticks one more, or none of a day that has passed. *)
LEMMA NextTick ==
  ASSUME NEW h \in Nat, NEW D \in Nat \ {0}
  PROVE  \/ (h + 1) % D = (h % D) + 1
         \/ (h + 1) % D = 0 /\ h + 1 >= D
  <1> DEFINE q == h \div D
             m == h % D
  <1>1. h = D * q + m /\ m \in 0 .. (D - 1) /\ q \in Nat
    OBVIOUS
  <1> HIDE DEF q
  <1>2. CASE m + 1 < D
    <2> DEFINE n == m + 1
    <2>1. n \in 0 .. (D - 1) /\ h + 1 = D * q + n
      BY <1>1, <1>2
    <2> HIDE DEF n
    <2>2. (h + 1) % D = n
      BY <1>1, <2>1, Remainder
    <2> QED BY <2>2 DEF n
  <1>3. CASE m + 1 = D
    <2>1. h + 1 = D * q + D /\ h + 1 >= D
      <3>1. D * q \in Nat
        BY <1>1
      <3> QED BY <1>1, <1>3, <3>1
    <2>2. h + 1 = D * (q + 1) + 0
      BY <1>1, <2>1
    <2>3. (D * (q + 1) + 0) % D = 0
      BY <1>1, Remainder
    <2> QED BY <2>1, <2>2, <2>3
  <1> QED BY <1>1, <1>2, <1>3

LEMMA HourStep ==
  ASSUME ChargingInv, Hour
  PROVE  ChargingInv'
  <1>1. ChargingType /\ request' = request /\ hour' = hour + 1 /\ hour \in Nat
    BY DEF ChargingInv, ChargingType, Hour
  <1>2. /\ \A b \in Buckets : /\ Full[b[1]] \in Nat /\ PerTick[b[1]] \in Nat
                              /\ level[b] \in Nat /\ level[b] <= Full[b[1]]
        /\ DayTicks \in Nat \ {0}
    BY <1>1, ChargingAssumption DEF Buckets, ChargingType
  <1>3. /\ level' \in [Buckets -> Nat]
        /\ \A b \in Buckets : level'[b] <= Full[b[1]] /\ level'[b] <= level[b] + PerTick[b[1]]
    BY <1>2 DEF Hour, Regained
  <1> DEFINE midnight == hour' % DayTicks = 0
  <1>4. /\ counted' = IF midnight THEN [ip \in Ip |-> 0] ELSE counted
        /\ probes' = [ip \in Ip |-> 0]
    BY DEF Hour
  <1>5. ChargingType'
    <2>1. counted' \in [Ip -> Nat] /\ probes' \in [Ip -> Nat]
      BY <1>1, <1>4 DEF ChargingType
    <2> QED BY <1>1, <1>3, <2>1 DEF ChargingType
  <1>6. ASSUME NEW ip \in Ip
        PROVE  /\ Counting(ip)' = Counting(ip) /\ Probing(ip)' = Probing(ip)
               /\ Cardinality(Counting(ip)) \in Nat /\ Cardinality(Probing(ip)) \in Nat
               /\ Cardinality(Counting(ip)) <= Cardinality(Request)
               /\ Cardinality(Probing(ip)) <= Cardinality(Request)
    BY <1>1, SomeRequests DEF Counting, Probing
  <1>7. Cardinality(Request) \in Nat
    BY SomeRequests
  <1>8. ASSUME NEW ip \in Ip
        PROVE  /\ level'[<<"assistant_ip", ip>>] <= Full["assistant_ip"]
               /\ level'[<<"assistant_ip", ip>>] <= level[<<"assistant_ip", ip>>] + PerTick["assistant_ip"]
               /\ level'[<<"health", ip>>] <= Full["health"]
               /\ level'[<<"assistant_ip", ip>>] \in Nat /\ level[<<"assistant_ip", ip>>] \in Nat
               /\ level'[<<"health", ip>>] \in Nat
               /\ counted[ip] \in Nat /\ PerTick["assistant_ip"] \in Nat
               /\ Full["assistant_ip"] \in Nat /\ Full["health"] \in Nat
    BY <1>1, <1>2, <1>3, Levels
  <1>9. ShareInv'
    <2> SUFFICES ASSUME NEW ip \in Ip
                 PROVE  counted'[ip] + Cardinality(Counting(ip)') + level'[<<"assistant_ip", ip>>]
                          <= Full["assistant_ip"] + PerTick["assistant_ip"] * (hour' % DayTicks)
                             + Midnights'
      BY DEF ShareInv
    <2>1. \/ hour' % DayTicks = (hour % DayTicks) + 1
          \/ hour' % DayTicks = 0 /\ hour' >= DayTicks
      BY <1>1, <1>2, NextTick
    <2>2. hour % DayTicks \in Nat /\ hour' \in Nat
      BY <1>1, <1>2
    <2>3. CASE hour' % DayTicks = (hour % DayTicks) + 1
      <3> DEFINE tick == PerTick["assistant_ip"]
                 m == hour % DayTicks
      <3>1. ~midnight /\ counted' = counted
        BY <1>4, <2>2, <2>3
      <3>2. tick * (m + 1) = tick * m + tick /\ tick * m \in Nat
        <4>1. tick \in Nat /\ m \in Nat
          BY <1>8, <2>2
        <4> HIDE DEF tick, m
        <4> QED BY <4>1
      <3>3. Midnights <= Midnights' /\ Midnights \in Nat /\ Midnights' \in Nat
        BY <1>1, <1>2, <1>7 DEF Midnights
      <3>4. counted[ip] + Cardinality(Counting(ip)) + level[<<"assistant_ip", ip>>]
              <= Full["assistant_ip"] + tick * m + Midnights
        BY DEF ChargingInv, ShareInv
      <3>5. tick * (hour' % DayTicks) = tick * m + tick
        BY <2>3, <3>2
      <3>6. counted'[ip] = counted[ip] /\ Counting(ip)' = Counting(ip)
        BY <1>6, <3>1
      <3> DEFINE gained == tick * m
                 gains == tick * (hour' % DayTicks)
      <3>7. gained \in Nat /\ gains = gained + tick /\ tick \in Nat
        BY <1>8, <3>2, <3>5
      <3>8. counted[ip] + Cardinality(Counting(ip)) + level[<<"assistant_ip", ip>>]
              <= Full["assistant_ip"] + gained + Midnights
        BY <3>4
      <3>9. /\ level'[<<"assistant_ip", ip>>] <= level[<<"assistant_ip", ip>>] + tick
            /\ level'[<<"assistant_ip", ip>>] \in Nat /\ level[<<"assistant_ip", ip>>] \in Nat
            /\ counted[ip] \in Nat /\ Full["assistant_ip"] \in Nat
            /\ Cardinality(Counting(ip)) \in Nat
        BY <1>6, <1>8
      <3> HIDE DEF gained, gains, tick, m
      <3>10. counted'[ip] + Cardinality(Counting(ip)') + level'[<<"assistant_ip", ip>>]
               <= Full["assistant_ip"] + gains + Midnights'
        BY <3>3, <3>6, <3>7, <3>8, <3>9
      <3> QED BY <3>10 DEF gains, tick
    <2>4. CASE hour' % DayTicks = 0 /\ hour' >= DayTicks
      <3>1. counted'[ip] = 0
        BY <1>4, <2>4
      <3>2. Midnights' = Cardinality(Request)
        BY <1>2, <2>2, <2>4 DEF Midnights
      <3>3. PerTick["assistant_ip"] * (hour' % DayTicks) = 0
        <4>1. PerTick["assistant_ip"] \in Nat /\ hour' % DayTicks = 0
          BY <1>8, <2>4
        <4> QED BY <4>1
      <3>4. /\ Cardinality(Counting(ip)') \in Nat /\ Cardinality(Counting(ip)') <= Cardinality(Request)
            /\ level'[<<"assistant_ip", ip>>] <= Full["assistant_ip"]
            /\ level'[<<"assistant_ip", ip>>] \in Nat /\ Full["assistant_ip"] \in Nat
        BY <1>6, <1>8
      <3> QED BY <1>7, <3>1, <3>2, <3>3, <3>4
    <2> QED BY <2>1, <2>3, <2>4
  <1>10. ProbeInv'
    <2> SUFFICES ASSUME NEW ip \in Ip
                 PROVE  probes'[ip] + Cardinality(Probing(ip)') + level'[<<"health", ip>>]
                          <= Full["health"] + Cardinality(Request)
      BY DEF ProbeInv
    <2>1. probes'[ip] = 0
      BY <1>4
    <2>2. /\ Cardinality(Probing(ip)') \in Nat /\ Cardinality(Probing(ip)') <= Cardinality(Request)
          /\ level'[<<"health", ip>>] <= Full["health"]
          /\ level'[<<"health", ip>>] \in Nat /\ Full["health"] \in Nat
      BY <1>6, <1>8
    <2> QED BY <1>7, <2>1, <2>2
  <1> QED BY <1>5, <1>9, <1>10 DEF ChargingInv

(* No address uses more of the day's shared calls than its own bucket        *)
(* allows, however many sessions it mints and however its requests           *)
(* interleave, and health probes are limited even with the limiter switched  *)
(* off.                                                                      *)
THEOREM LimitsKept == ChargingSpec => []LimitsHold
  <1>1. ChargingInv /\ [ChargingNext]_chargingVars => ChargingInv'
    <2> SUFFICES ASSUME ChargingInv, [ChargingNext]_chargingVars
                 PROVE  ChargingInv'
      OBVIOUS
    <2>1. CASE \E r \in Request : TakeToken(r)
      BY <2>1, TakeTokenStep
    <2>2. CASE \E r \in Request : CountCall(r)
      BY <2>2, CountCallStep
    <2>3. CASE \E r \in Request : Serve(r)
      BY <2>3, ServeStep
    <2>4. CASE \E r \in Request, ip \in Ip, user \in User, path \in Path : Arrive(r, ip, user, path)
      BY <2>4, ArriveStep
    <2>5. CASE Hour
      BY <2>5, HourStep
    <2>6. CASE UNCHANGED chargingVars
      BY <2>6 DEF chargingVars, ChargingInv, ChargingType, ShareInv, ProbeInv, Counting, Probing,
                  Midnights
    <2> QED BY <2>1, <2>2, <2>3, <2>4, <2>5, <2>6 DEF ChargingNext
  <1> QED BY <1>1, ChargingInvInit, ChargingInvHolds, PTL DEF ChargingSpec

-----------------------------------------------------------------------------
(* RequestBody.                                                              *)

(* Nothing is replayed before the body is spooled whole.                     *)
BodyInv ==
    /\ body \in {"sent", "reading", "refused", "gone", "replaying", "live"}
    /\ total \in Nat /\ given \in Nat
    /\ total <= BodyLimit /\ given <= total
    /\ body \in {"sent", "reading", "refused", "gone"} => given = 0
    /\ ReplayedWhole

LEMMA BodyInvInit == BodyInit => BodyInv
  BY BodyAssumption DEF BodyInit, BodyInv, ReplayedWhole

LEMMA BodyInvStep == BodyInv /\ [BodyNext]_bodyVars => BodyInv'
  <1> SUFFICES ASSUME BodyInv, [BodyNext]_bodyVars PROVE BodyInv'
    OBVIOUS
  <1>1. CASE Open
    BY <1>1 DEF Open, BodyInv, ReplayedWhole
  <1>2. CASE Receive
    <2>1. PICK size \in Pieces, more \in BOOLEAN :
            IF total + size > BodyLimit
            THEN body' = "refused" /\ UNCHANGED total
            ELSE /\ total' = total + size
                 /\ body' = IF more THEN "reading" ELSE "replaying"
      BY <1>2 DEF Receive
    <2>2. size \in Nat /\ BodyLimit \in Nat /\ given' = given /\ given = 0
      BY <1>2, BodyAssumption DEF Receive, BodyInv
    <2> QED BY <2>1, <2>2 DEF BodyInv, ReplayedWhole
  <1>3. CASE HangUp
    BY <1>3 DEF HangUp, BodyInv, ReplayedWhole
  <1>4. CASE Replay
    BY <1>4, BodyAssumption DEF Replay, Complete, BodyInv, ReplayedWhole
  <1>5. CASE UNCHANGED bodyVars
    BY <1>5 DEF bodyVars, BodyInv, ReplayedWhole
  <1> QED BY <1>1, <1>2, <1>3, <1>4, <1>5 DEF BodyNext

(* A handler is given a body within the limit and whole, never the beginning *)
(* of one that was refused or cut off.                                       *)
THEOREM BodyReplayedWhole == BodySpec => []ReplayedWhole
  <1>1. BodyInv => ReplayedWhole
    BY DEF BodyInv
  <1> QED BY <1>1, BodyInvInit, BodyInvStep, PTL DEF BodySpec
=============================================================================
