------------------------ MODULE AssistantTurnProofs ------------------------
(***************************************************************************)
(* What an assistant turn shows and what it keeps, for chains, budgets,     *)
(* narrations and hold-backs of any length and any number of connections.   *)
(***************************************************************************)
EXTENDS AssistantTurn, FiniteSetTheorems, SequenceTheorems, TLAPS

TurnRecord ==
    [at : Stage, txn : BOOLEAN, backend : Backend, reached : BOOLEAN,
     said : Seq(Word), shown : Seq(Word), ended : Ending]

-----------------------------------------------------------------------------
(* One turn at rest between two steps.                                       *)

(* No phrase is forbidden up to the last word, which may be cut short, and   *)
(* what is shown leaves that word out.                                       *)
NarrationInv(r) ==
    /\ \A i \in 1 .. Len(r.said) : r.said[i].by = r.backend
    /\ \A i \in 1 .. Len(r.said) - 1 : r.said[i].reads # "forbidden"
    /\ r.shown = <<>> \/ Len(r.shown) < Len(r.said)
    /\ \A i \in 1 .. Len(r.shown) : r.shown[i] = r.said[i]

(* ShownIsGuarded, of one turn.                                              *)
Guarded(r) ==
    /\ ~Forbidden(r.shown)
    /\ \/ r.shown = AppText
       \/ r.shown = Redirect /\ Forbidden(r.said)
       \/ /\ Len(r.shown) <= Len(r.said)
          /\ r.shown = SubSeq(r.said, 1, Len(r.shown))
          /\ \A i \in DOMAIN r.shown : r.shown[i].by = r.backend

Sound(r) ==
    /\ r \in TurnRecord
    /\ r.at \in {"plan", "narrate"} => ~r.txn
    /\ r.at # "closed" => r.ended = "none"
    /\ r.at \notin {"closed", "narrate"} => r.said = <<>> /\ r.shown = <<>>
    /\ r.at = "narrate" => NarrationInv(r) /\ (r.reached \/ r.said = <<>>)
    /\ Guarded(r)

TurnInv == turn \in [Turn -> TurnRecord] /\ \A t \in Turn : Sound(turn[t])

LEMMA PutSound ==
  ASSUME TurnInv, NEW t \in Turn, NEW r, Sound(r), turn' = [turn EXCEPT ![t] = r]
  PROVE  TurnInv'
BY DEF TurnInv, Sound

LEMMA PutEffect ==
  ASSUME TurnInv, NEW t \in Turn, NEW r, Put(t, r)
  PROVE  turn'[t] = r /\ \A u \in Turn : u # t => turn'[u] = turn[u]
BY DEF TurnInv, Put

(* Nothing shown is a prefix of anything.                                    *)
LEMMA NothingGuarded ==
  ASSUME NEW r \in TurnRecord, r.shown = <<>>
  PROVE  Guarded(r)
<1>1. r.said \in Seq(Word) /\ Len(r.said) \in Nat
  BY LenProperties DEF TurnRecord
<1>2. SubSeq(r.said, 1, 0) = <<>>
  BY SubSeqEmpty
<1> QED
  BY <1>1, <1>2 DEF Guarded, Forbidden

(* A turn that has said and shown nothing.                                   *)
LEMMA BlankSound ==
  ASSUME NEW r \in TurnRecord, r.said = <<>>, r.shown = <<>>,
         r.at # "closed" => r.ended = "none",
         r.at \in {"plan", "narrate"} => ~r.txn
  PROVE  Sound(r)
<1>1. Guarded(r)
  BY NothingGuarded
<1>2. NarrationInv(r)
  BY DEF NarrationInv
<1> QED
  BY <1>1, <1>2 DEF Sound

LEMMA ClosedType ==
  /\ Closed \in TurnRecord
  /\ Closed.at = "closed" /\ Closed.said = <<>> /\ Closed.shown = <<>>
<1>1. <<>> \in Seq(Word)
  BY EmptySeq
<1>2. 1 \in Backend
  BY AssistantAssumption DEF Backend
<1> QED
  BY <1>1, <1>2 DEF Closed, TurnRecord, Stage, Ending

LEMMA ClosedSound ==
  ASSUME NEW stage \in {"closed", "context", "command"}, NEW how \in Ending,
         stage # "closed" => how = "none"
  PROVE  Sound([Closed EXCEPT !.at = stage, !.ended = how])
<1> DEFINE r == [Closed EXCEPT !.at = stage, !.ended = how]
<1>1. r \in TurnRecord
  BY ClosedType DEF TurnRecord, Stage
<1>2. r.shown = <<>> /\ r.said = <<>> /\ r.at = stage /\ r.ended = how
  BY ClosedType DEF TurnRecord
<1> QED
  BY <1>1, <1>2, BlankSound

(* What the application says of itself is never guarded.                     *)
LEMMA AppTexts ==
  /\ AppText \in Seq(Word) /\ ~Forbidden(AppText)
  /\ Redirect \in Seq(Word) /\ ~Forbidden(Redirect)
BY DEF AppText, Redirect, Word, Forbidden

LEMMA EndedFields ==
  ASSUME NEW r \in TurnRecord, NEW how \in Ending, NEW text \in Seq(Word)
  PROVE  /\ Ended(r, how, text) \in TurnRecord
         /\ Ended(r, how, text).at = "closed"
         /\ Ended(r, how, text).shown = text
         /\ Ended(r, how, text).said = r.said
         /\ Ended(r, how, text).backend = r.backend
         /\ Ended(r, how, text).ended = how
BY DEF Ended, TurnRecord, Stage

(* A turn may end with what the application says, with the redirect when the *)
(* guard has tripped, with nothing, or with all its backend has said.        *)
LEMMA EndSound ==
  ASSUME NEW r \in TurnRecord, NEW how \in Ending, NEW text \in Seq(Word),
         \/ text = AppText
         \/ text = Redirect /\ Forbidden(r.said)
         \/ text = <<>>
         \/ /\ text = r.said /\ ~Forbidden(r.said)
            /\ \A i \in 1 .. Len(r.said) : r.said[i].by = r.backend
  PROVE  Sound(Ended(r, how, text))
<1>1. PICK e : e = Ended(r, how, text)
  OBVIOUS
<1>2. /\ e \in TurnRecord /\ e.at = "closed" /\ e.shown = text
      /\ e.said = r.said /\ e.backend = r.backend
  BY <1>1, EndedFields
<1>3. Guarded(e)
  <2>1. CASE text = AppText
    BY <1>2, <2>1, AppTexts DEF Guarded
  <2>2. CASE text = Redirect /\ Forbidden(r.said)
    BY <1>2, <2>2, AppTexts DEF Guarded
  <2>3. CASE text = <<>>
    BY <1>2, <2>3, NothingGuarded
  <2>4. CASE /\ text = r.said /\ ~Forbidden(r.said)
             /\ \A i \in 1 .. Len(r.said) : r.said[i].by = r.backend
    <3>1. Len(text) \in Nat /\ DOMAIN text = 1 .. Len(text)
      BY LenProperties
    <3>2. SubSeq(text, 1, Len(text)) = text
      BY SubSeqFull
    <3> QED
      BY <1>2, <2>4, <3>1, <3>2 DEF Guarded
  <2> QED
    BY <2>1, <2>2, <2>3, <2>4
<1>4. Sound(e)
  BY <1>2, <1>3 DEF Sound
<1> QED
  BY <1>1, <1>4

LEMMA NarrationGuarded ==
  ASSUME NEW r \in TurnRecord, NarrationInv(r)
  PROVE  Guarded(r)
<1>1. CASE r.shown = <<>>
  BY <1>1, NothingGuarded
<1>2. CASE Len(r.shown) < Len(r.said)
  <2> DEFINE n == Len(r.shown)
             p == SubSeq(r.said, 1, n)
  <2>1. /\ r.said \in Seq(Word) /\ r.shown \in Seq(Word)
        /\ n \in Nat /\ Len(r.said) \in Nat /\ DOMAIN r.shown = 1 .. n
    BY LenProperties DEF TurnRecord
  <2>2. p \in Seq(Word) /\ Len(p) = n /\ \A i \in 1 .. n : p[i] = r.said[i]
    BY <1>2, <2>1
  <2>3. r.shown = p
    BY <2>1, <2>2, SeqEqual DEF NarrationInv
  <2>4. ~Forbidden(r.shown)
    BY <1>2, <2>1 DEF NarrationInv, Forbidden
  <2> QED
    BY <1>2, <2>1, <2>3, <2>4 DEF Guarded, NarrationInv
<1> QED
  BY <1>1, <1>2 DEF NarrationInv

-----------------------------------------------------------------------------
(* Narration, word by word.                                                  *)

(* The guard trips only on a phrase that was said, and lets none pass but    *)
(* what the last word may still turn out to be.                              *)
LEMMA GuardReads ==
  ASSUME NEW words \in Seq(Word), NEW finished \in BOOLEAN
  PROVE  /\ Trips(words, finished) => Forbidden(words)
         /\ ~Trips(words, finished) =>
              \A i \in 1 .. Len(words) - 1 : words[i].reads # "forbidden"
<1> DEFINE n == IF finished THEN Len(words) ELSE Len(words) - 1
           read == SubSeq(words, 1, n)
<1>1. Len(words) \in Nat /\ DOMAIN words = 1 .. Len(words) /\ n \in Int
  BY LenProperties
<1>2. \A i \in 1 .. n : words[i] \in Word
  BY <1>1, ElementOfSeq
<1>3. /\ read \in Seq(Word) /\ Len(read) = IF 1 <= n THEN n ELSE 0
      /\ \A i \in 1 .. n : read[i] = words[i]
  <2>1. 1 \in Int
    OBVIOUS
  <2> HIDE DEF n
  <2>2. /\ read \in Seq(Word) /\ Len(read) = IF 1 <= n THEN n - 1 + 1 ELSE 0
        /\ \A i \in 1 .. n - 1 + 1 : read[i] = words[1 + i - 1]
    BY <1>1, <1>2, <2>1, SubSeqProperties
  <2> QED
    BY <1>1, <2>2
<1>4. DOMAIN read = 1 .. n
  BY <1>1, <1>3, LenProperties
<1>5. Trips(words, finished) <=> Forbidden(read)
  BY DEF Trips
<1>6. DOMAIN read = 1 .. n => (Forbidden(read) <=> \E i \in 1 .. n : read[i].reads = "forbidden")
  BY DEF Forbidden
<1>7. Forbidden(words) <=> \E i \in 1 .. Len(words) : words[i].reads = "forbidden"
  BY <1>1 DEF Forbidden
<1> HIDE DEF read
<1>8. Trips(words, finished) <=> \E i \in 1 .. n : words[i].reads = "forbidden"
  BY <1>3, <1>4, <1>5, <1>6
<1>9. n <= Len(words) /\ n >= Len(words) - 1
  BY <1>1
<1> HIDE DEF n
<1> QED
  BY <1>1, <1>7, <1>8, <1>9

(* What is released leaves the last word out.                                *)
LEMMA ReleasedProperties ==
  ASSUME NEW words \in Seq(Word), words # <<>>
  PROVE  /\ Released(words) \in Seq(Word)
         /\ Len(Released(words)) < Len(words)
         /\ \A i \in 1 .. Len(Released(words)) : Released(words)[i] = words[i]
<1> DEFINE n == IF Len(words) > Holdback THEN Len(words) - Holdback ELSE 0
<1>1. Len(words) \in Nat \ {0} /\ n \in Nat /\ n < Len(words)
  BY EmptySeq, LenProperties, AssistantAssumption
<1>2. \A i \in 1 .. n : words[i] \in Word
  BY <1>1, ElementOfSeq
<1>3. Released(words) = SubSeq(words, 1, n)
  BY DEF Released
<1> HIDE DEF n
<1>4. /\ SubSeq(words, 1, n) \in Seq(Word)
      /\ Len(SubSeq(words, 1, n)) = IF 1 <= n THEN n - 1 + 1 ELSE 0
      /\ \A i \in 1 .. n - 1 + 1 : SubSeq(words, 1, n)[i] = words[1 + i - 1]
  BY <1>1, <1>2, SubSeqProperties
<1> QED
  BY <1>1, <1>3, <1>4

LEMMA DeltaSound ==
  ASSUME NEW r \in TurnRecord, Sound(r), r.at = "narrate", r.reached,
         NEW w \in Word, w.by = r.backend, NEW finished \in BOOLEAN,
         ~Trips(Append(r.said, w), finished)
  PROVE  Sound([r EXCEPT !.said = Append(r.said, w),
                         !.shown = Longer(r.shown, Released(Append(r.said, w)))])
<1> DEFINE words == Append(r.said, w)
           shown == Longer(r.shown, Released(words))
<1>1. /\ r.said \in Seq(Word) /\ r.shown \in Seq(Word)
      /\ Len(r.said) \in Nat /\ Len(r.shown) \in Nat
  BY LenProperties DEF TurnRecord
<1>2. /\ words \in Seq(Word) /\ words # <<>> /\ Len(words) = Len(r.said) + 1
      /\ \A i \in 1 .. Len(r.said) : words[i] = r.said[i]
      /\ words[Len(words)] = w
  BY <1>1, AppendProperties
<1>3. /\ Released(words) \in Seq(Word) /\ Len(Released(words)) \in Nat
      /\ Len(Released(words)) < Len(words)
      /\ \A i \in 1 .. Len(Released(words)) : Released(words)[i] = words[i]
  BY <1>2, ReleasedProperties, LenProperties
<1>4. NarrationInv(r)
  BY DEF Sound
<1>5. \A i \in 1 .. Len(words) : words[i].by = r.backend
  BY <1>1, <1>2, <1>4 DEF NarrationInv
<1>6. \A i \in 1 .. Len(words) - 1 : words[i].reads # "forbidden"
  BY <1>2, GuardReads
<1> HIDE DEF words
<1>7. /\ shown \in Seq(Word) /\ (shown = <<>> \/ Len(shown) < Len(words))
      /\ \A i \in 1 .. Len(shown) : shown[i] = words[i]
  <2>1. CASE shown = r.shown
    <3>1. Len(<<>>) = 0
      BY EmptySeq
    <3>2. /\ r.shown = <<>> \/ Len(r.shown) < Len(r.said)
          /\ \A i \in 1 .. Len(r.shown) : r.shown[i] = r.said[i]
      BY <1>4 DEF NarrationInv
    <3>3. \A i \in 1 .. Len(r.shown) : i \in 1 .. Len(r.said)
      BY <1>1, <3>1, <3>2
    <3>4. \A i \in 1 .. Len(r.shown) : r.shown[i] = words[i]
      BY <1>2, <3>2, <3>3
    <3> QED
      BY <1>1, <1>2, <2>1, <3>2, <3>4
  <2>2. CASE shown = Released(words)
    BY <1>3, <2>2
  <2> QED
    BY <2>1, <2>2 DEF Longer
<1> HIDE DEF shown
<1>8. PICK s : s = [r EXCEPT !.said = words, !.shown = shown]
  OBVIOUS
<1>9. /\ s \in TurnRecord /\ s.said = words /\ s.shown = shown
      /\ s.at = "narrate" /\ s.txn = r.txn /\ s.reached /\ s.backend = r.backend /\ s.ended = r.ended
  BY <1>2, <1>7, <1>8 DEF TurnRecord
<1>10. NarrationInv(s)
  BY <1>5, <1>6, <1>7, <1>9 DEF NarrationInv
<1>11. Sound(s)
  BY <1>9, <1>10, NarrationGuarded DEF Sound
<1> QED
  BY <1>8, <1>11 DEF words, shown

-----------------------------------------------------------------------------
(* Every step leaves every turn sound.                                       *)

LEMMA AnswerStep ==
  ASSUME TurnInv, NEW t \in Turn, Answer(t)
  PROVE  TurnInv'
<1>1. Sound(Ended(turn[t], "done", AppText))
  BY EndSound, AppTexts DEF TurnInv, Ending
<1> QED
  BY <1>1, PutSound DEF Answer, Put

LEMMA ErrorStep ==
  ASSUME TurnInv, NEW t \in Turn, turn[t].at \notin {"closed", "narrate"}, Error(t)
  PROVE  TurnInv'
<1>1. turn[t].shown = <<>> /\ turn[t].shown \in Seq(Word)
  BY EmptySeq DEF TurnInv, Sound
<1>2. Sound(Ended(turn[t], "error", turn[t].shown))
  BY <1>1, EndSound DEF TurnInv, Ending
<1> QED
  BY <1>2, PutSound DEF Error, Put

(* A step of a turn that has said nothing, to a turn that has said nothing.  *)
LEMMA BlankStep ==
  ASSUME TurnInv, NEW t \in Turn, NEW r \in TurnRecord, Put(t, r),
         r.said = <<>>, r.shown = <<>>, r.at # "closed" => r.ended = "none",
         r.at \in {"plan", "narrate"} => ~r.txn
  PROVE  TurnInv'
BY BlankSound, PutSound DEF Put

LEMMA FailOverStep ==
  ASSUME TurnInv, NEW t \in Turn, At(t, "narrate"), turn[t].said = <<>>, FailOver(t)
  PROVE  TurnInv'
<1>1. CASE turn[t].backend < Chain
  <2> DEFINE r == [turn[t] EXCEPT !.backend = @ + 1, !.reached = FALSE]
  <2>1. turn[t] \in TurnRecord /\ Sound(turn[t]) /\ turn[t].at = "narrate"
    BY DEF TurnInv, At
  <2>2. turn[t].backend + 1 \in Backend
    BY <1>1, <2>1, AssistantAssumption DEF TurnRecord, Backend
  <2>3. /\ r \in TurnRecord /\ r.said = <<>> /\ r.shown = turn[t].shown
        /\ r.at = "narrate" /\ r.txn = turn[t].txn /\ r.ended = turn[t].ended
    BY <2>1, <2>2 DEF TurnRecord
  <2>4. turn[t].shown = <<>>
    <3>1. turn[t].shown = <<>> \/ Len(turn[t].shown) < 0
      BY <2>1, EmptySeq DEF Sound, NarrationInv
    <3>2. Len(turn[t].shown) \in Nat
      BY <2>1, LenProperties DEF TurnRecord
    <3> QED
      BY <3>1, <3>2
  <2>5. Put(t, r)
    BY <1>1 DEF FailOver
  <2> HIDE DEF r
  <2> QED
    BY <2>1, <2>3, <2>4, <2>5, BlankStep DEF Sound
<1>2. CASE ~(turn[t].backend < Chain)
  BY <1>2, AnswerStep DEF FailOver
<1> QED
  BY <1>1, <1>2

LEMMA TurnInit == Init => TurnInv
<1> SUFFICES ASSUME Init PROVE TurnInv
  OBVIOUS
<1>1. \A t \in Turn : turn[t] = Closed
  BY DEF Init
<1>2. Closed \in TurnRecord /\ Sound(Closed)
  BY ClosedType, BlankSound
<1> QED
  BY <1>1, <1>2 DEF Init, TurnInv

LEMMA OpenStep ==
  ASSUME TurnInv, NEW t \in Turn, NEW stage \in {"context", "command"}, Open(t, stage)
  PROVE  TurnInv'
<1> DEFINE r == [Closed EXCEPT !.at = stage]
<1>1. /\ r \in TurnRecord /\ r.said = <<>> /\ r.shown = <<>> /\ r.at = stage
      /\ r.ended = "none"
  BY ClosedType DEF TurnRecord, Stage, Closed
<1>2. Put(t, r)
  BY DEF Open
<1> HIDE DEF r
<1> QED
  BY <1>1, <1>2, BlankStep

LEMMA DeltaStep ==
  ASSUME TurnInv, NEW t \in Turn, Delta(t)
  PROVE  TurnInv'
<1> DEFINE r == turn[t]
<1>1. r \in TurnRecord /\ Sound(r) /\ r.at = "narrate" /\ r.reached
  BY DEF TurnInv, Delta, Streaming, At
<1>2. PICK reads \in {"fine", "cut", "forbidden"}, finished \in BOOLEAN :
        LET words == Append(r.said, [by |-> r.backend, reads |-> reads])
            heard == [r EXCEPT !.said = words]
        IN  \/ /\ Trips(words, finished)
               /\ Put(t, Ended(heard, "done", Redirect))
            \/ /\ ~Trips(words, finished)
               /\ Put(t, [heard EXCEPT !.shown = Longer(@, Released(words))])
  BY DEF Delta
<1> DEFINE w == [by |-> r.backend, reads |-> reads]
           words == Append(r.said, w)
           heard == [r EXCEPT !.said = words]
<1>3. w \in Word /\ w.by = r.backend
  BY <1>1 DEF TurnRecord, Word
<1>4. words \in Seq(Word)
  BY <1>1, <1>3, AppendProperties DEF TurnRecord
<1>5. heard \in TurnRecord /\ heard.said = words /\ heard.shown = r.shown
  BY <1>1, <1>4 DEF TurnRecord
<1>6. CASE Trips(words, finished)
  <2>1. Forbidden(words)
    BY <1>4, <1>6, GuardReads
  <2>2. Sound(Ended(heard, "done", Redirect))
    BY <1>5, <2>1, EndSound, AppTexts DEF Ending
  <2>3. Put(t, Ended(heard, "done", Redirect))
    BY <1>2, <1>6
  <2> QED
    BY <2>2, <2>3, PutSound DEF Put
<1>7. CASE ~Trips(words, finished)
  <2> DEFINE s == [r EXCEPT !.said = words, !.shown = Longer(r.shown, Released(words))]
  <2>1. Sound(s)
    BY <1>1, <1>3, <1>7, DeltaSound
  <2>2. Put(t, [heard EXCEPT !.shown = Longer(@, Released(words))])
    BY <1>2, <1>7
  <2>3. [heard EXCEPT !.shown = Longer(@, Released(words))] = s
    BY <1>5
  <2> HIDE DEF s
  <2> QED
    BY <2>1, <2>2, <2>3, PutSound DEF Put
<1> QED
  BY <1>6, <1>7

LEMMA StreamEndsStep ==
  ASSUME TurnInv, NEW t \in Turn, StreamEnds(t)
  PROVE  TurnInv'
<1>1. turn[t] \in TurnRecord /\ Sound(turn[t]) /\ turn[t].at = "narrate"
  BY DEF TurnInv, StreamEnds, Streaming, At
<1>2. CASE turn[t].said = <<>> /\ FailOver(t)
  BY <1>1, <1>2, FailOverStep DEF At
<1>3. CASE Forbidden(turn[t].said) /\ Put(t, Ended(turn[t], "done", Redirect))
  <2>1. Sound(Ended(turn[t], "done", Redirect))
    BY <1>1, <1>3, EndSound, AppTexts DEF Ending
  <2> QED
    BY <1>3, <2>1, PutSound DEF Put
<1>4. CASE /\ ~Forbidden(turn[t].said)
           /\ Put(t, Ended(turn[t], "done", turn[t].said))
  <2>1. /\ turn[t].said \in Seq(Word)
        /\ \A i \in 1 .. Len(turn[t].said) : turn[t].said[i].by = turn[t].backend
    BY <1>1 DEF TurnRecord, Sound, NarrationInv
  <2>2. Sound(Ended(turn[t], "done", turn[t].said))
    BY <1>1, <1>4, <2>1, EndSound DEF Ending
  <2> QED
    BY <1>4, <2>2, PutSound DEF Put
<1> QED
  BY <1>2, <1>3, <1>4 DEF StreamEnds

(* Where a turn has only moved on.                                           *)
LEMMA MovedOn ==
  ASSUME TurnInv, NEW t \in Turn, turn[t].at \notin {"closed", "narrate"},
         NEW r \in TurnRecord, Put(t, r), r.at # "closed",
         r.at \in {"plan", "narrate"} => ~r.txn,
         r.said = turn[t].said, r.shown = turn[t].shown, r.ended = turn[t].ended
  PROVE  TurnInv'
BY BlankStep DEF TurnInv, Sound

LEMMA TurnStep == TurnInv /\ [Next]_vars => TurnInv'
<1> SUFFICES ASSUME TurnInv, [Next]_vars PROVE TurnInv'
  OBVIOUS
<1> USE DEF At
<1>1. ASSUME NEW t \in Turn
      PROVE  turn[t] \in TurnRecord /\ Sound(turn[t]) /\ turn[t].backend \in Backend
             /\ turn[t].txn \in BOOLEAN
  BY DEF TurnInv, TurnRecord
<1>2. ASSUME NEW t \in Turn, Chat(t) \/ Command(t) PROVE TurnInv'
  BY <1>2, OpenStep DEF Chat, Command
<1>3. ASSUME NEW t \in Turn, Context(t) PROVE TurnInv'
  <2>1. CASE Error(t)
    BY <1>3, <2>1, ErrorStep DEF Context
  <2>2. CASE Put(t, [turn[t] EXCEPT !.at = "guard", !.txn = TRUE])
    <3> DEFINE r == [turn[t] EXCEPT !.at = "guard", !.txn = TRUE]
    <3>1. /\ r \in TurnRecord /\ r.at # "closed" /\ (r.at \in {"plan", "narrate"} => ~r.txn)
          /\ r.said = turn[t].said /\ r.shown = turn[t].shown /\ r.ended = turn[t].ended
      BY <1>1 DEF TurnRecord, Stage
    <3>2. Put(t, r)
      BY <2>2
    <3> HIDE DEF r
    <3> QED
      BY <1>3, <3>1, <3>2, MovedOn DEF Context
  <2> QED
    BY <1>3, <2>1, <2>2 DEF Context
<1>4. ASSUME NEW t \in Turn, Preflight(t) PROVE TurnInv'
  BY <1>4, AnswerStep DEF Preflight
<1>5. ASSUME NEW t \in Turn, FirstCheckpoint(t) PROVE TurnInv'
  <2>1. CASE Error(t)
    BY <1>5, <2>1, ErrorStep DEF FirstCheckpoint
  <2>2. ASSUME NEW next \in {"plan", "tool"},
               Put(t, [turn[t] EXCEPT !.at = next, !.txn = FALSE])
        PROVE  TurnInv'
    <3> DEFINE r == [turn[t] EXCEPT !.at = next, !.txn = FALSE]
    <3>1. /\ r \in TurnRecord /\ r.at # "closed" /\ (r.at \in {"plan", "narrate"} => ~r.txn)
          /\ r.said = turn[t].said /\ r.shown = turn[t].shown /\ r.ended = turn[t].ended
      BY <1>1 DEF TurnRecord, Stage
    <3>2. Put(t, r)
      BY <2>2
    <3> HIDE DEF r
    <3> QED
      BY <1>5, <3>1, <3>2, MovedOn DEF FirstCheckpoint
  <2> QED
    BY <1>5, <2>1, <2>2 DEF FirstCheckpoint
<1>6. ASSUME NEW t \in Turn, PlanFails(t) PROVE TurnInv'
  <2>1. CASE Error(t)
    BY <1>6, <2>1, ErrorStep DEF PlanFails
  <2>2. CASE turn[t].backend < Chain /\ Put(t, [turn[t] EXCEPT !.backend = @ + 1])
    <3>0. turn[t].backend + 1 \in Backend /\ ~turn[t].txn
      BY <1>1, <1>6, <2>2, AssistantAssumption DEF Backend, PlanFails, Sound
    <3> DEFINE r == [turn[t] EXCEPT !.backend = @ + 1]
    <3>1. /\ r \in TurnRecord /\ r.at # "closed" /\ (r.at \in {"plan", "narrate"} => ~r.txn)
          /\ r.said = turn[t].said /\ r.shown = turn[t].shown /\ r.ended = turn[t].ended
      BY <1>1, <1>6, <3>0 DEF TurnRecord, Stage, PlanFails
    <3>2. Put(t, r)
      BY <2>2
    <3> HIDE DEF r
    <3> QED
      BY <1>6, <3>1, <3>2, MovedOn DEF PlanFails
  <2> QED
    BY <1>6, <2>1, <2>2 DEF PlanFails
<1>7. ASSUME NEW t \in Turn, BodyUnreadable(t) \/ PlanUnreadable(t) PROVE TurnInv'
  BY <1>7, ErrorStep DEF BodyUnreadable, PlanUnreadable
<1>8. ASSUME NEW t \in Turn, PlanAnswers(t) PROVE TurnInv'
  <2>1. CASE Answer(t)
    BY <2>1, AnswerStep
  <2>2. ASSUME NEW stage \in {"tool", "checkpoint"}, Put(t, [turn[t] EXCEPT !.at = stage])
        PROVE  TurnInv'
    <3> DEFINE r == [turn[t] EXCEPT !.at = stage]
    <3>1. /\ r \in TurnRecord /\ r.at # "closed" /\ (r.at \in {"plan", "narrate"} => ~r.txn)
          /\ r.said = turn[t].said /\ r.shown = turn[t].shown /\ r.ended = turn[t].ended
      BY <1>1 DEF TurnRecord, Stage
    <3>2. Put(t, r)
      BY <2>2
    <3> HIDE DEF r
    <3> QED
      BY <1>8, <3>1, <3>2, MovedOn DEF PlanAnswers
  <2> QED
    BY <1>8, <2>1, <2>2 DEF PlanAnswers
<1>9. ASSUME NEW t \in Turn, Tool(t) PROVE TurnInv'
  <2>1. CASE Answer(t)
    BY <2>1, AnswerStep
  <2>2. CASE Error(t)
    BY <1>9, <2>2, ErrorStep DEF Tool
  <2>3. CASE Put(t, [turn[t] EXCEPT !.at = "checkpoint", !.txn = TRUE])
    <3> DEFINE r == [turn[t] EXCEPT !.at = "checkpoint", !.txn = TRUE]
    <3>1. /\ r \in TurnRecord /\ r.at # "closed" /\ (r.at \in {"plan", "narrate"} => ~r.txn)
          /\ r.said = turn[t].said /\ r.shown = turn[t].shown /\ r.ended = turn[t].ended
      BY <1>1 DEF TurnRecord, Stage
    <3>2. Put(t, r)
      BY <2>3
    <3> HIDE DEF r
    <3> QED
      BY <1>9, <3>1, <3>2, MovedOn DEF Tool
  <2> QED
    BY <1>9, <2>1, <2>2, <2>3 DEF Tool
<1>10. ASSUME NEW t \in Turn, CommandTool(t) PROVE TurnInv'
  BY <1>10, AnswerStep, ErrorStep DEF CommandTool
<1>11. ASSUME NEW t \in Turn, SecondCheckpoint(t) PROVE TurnInv'
  <2>1. CASE Error(t)
    BY <1>11, <2>1, ErrorStep DEF SecondCheckpoint
  <2>2. CASE Put(t, [turn[t] EXCEPT !.at = "narrate", !.txn = FALSE, !.backend = 1])
    <3>0. 1 \in Backend
      BY AssistantAssumption DEF Backend
    <3> DEFINE r == [turn[t] EXCEPT !.at = "narrate", !.txn = FALSE, !.backend = 1]
    <3>1. /\ r \in TurnRecord /\ r.at # "closed" /\ (r.at \in {"plan", "narrate"} => ~r.txn)
          /\ r.said = turn[t].said /\ r.shown = turn[t].shown /\ r.ended = turn[t].ended
      BY <1>1, <3>0 DEF TurnRecord, Stage
    <3>2. Put(t, r)
      BY <2>2
    <3> HIDE DEF r
    <3> QED
      BY <1>11, <3>1, <3>2, MovedOn DEF SecondCheckpoint
  <2> QED
    BY <1>11, <2>1, <2>2 DEF SecondCheckpoint
<1>12. ASSUME NEW t \in Turn, Reach(t) PROVE TurnInv'
  <2> DEFINE r == [turn[t] EXCEPT !.reached = TRUE]
  <2>1. /\ r \in TurnRecord /\ r.at = turn[t].at /\ r.txn = turn[t].txn /\ r.reached
        /\ r.said = turn[t].said /\ r.shown = turn[t].shown
        /\ r.backend = turn[t].backend /\ r.ended = turn[t].ended
    BY <1>1 DEF TurnRecord
  <2>2. Put(t, r)
    BY <1>12 DEF Reach
  <2> HIDE DEF r
  <2>3. Sound(r)
    <3>1. NarrationInv(turn[t]) <=> NarrationInv(r)
      BY <2>1 DEF NarrationInv
    <3>2. Guarded(turn[t]) <=> Guarded(r)
      BY <2>1 DEF Guarded
    <3> QED
      BY <1>1, <2>1, <3>1, <3>2 DEF Sound
  <2> QED
    BY <2>2, <2>3, PutSound DEF Put
<1>13. ASSUME NEW t \in Turn, Unreachable(t) PROVE TurnInv'
  BY <1>1, <1>13, FailOverStep DEF Unreachable, Sound
<1>14. ASSUME NEW t \in Turn, Delta(t) PROVE TurnInv'
  BY <1>14, DeltaStep
<1>15. ASSUME NEW t \in Turn, StreamFails(t) PROVE TurnInv'
  BY <1>15, FailOverStep, AnswerStep DEF StreamFails, Streaming
<1>16. ASSUME NEW t \in Turn, StreamEnds(t) PROVE TurnInv'
  BY <1>16, StreamEndsStep
<1>17. ASSUME NEW t \in Turn, Disconnect(t) PROVE TurnInv'
  <2> DEFINE r == [Closed EXCEPT !.ended = "gone"]
  <2>1. /\ r \in TurnRecord /\ r.said = <<>> /\ r.shown = <<>> /\ r.at = "closed"
    BY ClosedType DEF TurnRecord, Ending
  <2>2. Put(t, r)
    BY <1>17 DEF Disconnect, Abandon
  <2> HIDE DEF r
  <2> QED
    BY <2>1, <2>2, BlankStep
<1>18. CASE NextDay \/ UNCHANGED vars
  BY <1>18 DEF NextDay, vars, TurnInv, Sound
<1> QED
  BY <1>2, <1>3, <1>4, <1>5, <1>6, <1>7, <1>8, <1>9, <1>10, <1>11, <1>12, <1>13, <1>14,
     <1>15, <1>16, <1>17, <1>18 DEF Next, Serve

LEMMA TurnsAreSound == Spec => []TurnInv
BY TurnInit, TurnStep, PTL DEF Spec

(* No pooled connection is held in a transaction while the model is awaited: *)
(* agent.py commits before each of its two calls.                            *)
THEOREM NothingHeldWhileWaiting == Spec => []NoTransactionWhileWaiting
<1>1. TurnInv => NoTransactionWhileWaiting
  BY DEF TurnInv, Sound, NoTransactionWhileWaiting
<1> QED
  BY <1>1, TurnsAreSound, PTL

(* The output guard of stream_guard.py and output_guard.py is never overtaken*)
(* by the text it reads, whatever the chunks are and wherever a stream ends. *)
THEOREM NothingForbiddenIsShown == Spec => []ShownIsGuarded
<1>1. TurnInv => ShownIsGuarded
  BY DEF TurnInv, Sound, Guarded, ShownIsGuarded
<1> QED
  BY <1>1, TurnsAreSound, PTL

-----------------------------------------------------------------------------
(***************************************************************************)
(* An assistant turn implements AnswerStream: a finished turn leaves a      *)
(* whole answer on its client's screen and an error never half of one, for  *)
(* chains, narrations and hold-backs of any length.                         *)
(***************************************************************************)

(* One entry of View.                                                        *)
Seen(r) ==
    [phase |-> IF r.at # "closed" THEN "open"
               ELSE IF r.ended = "none" THEN "idle" ELSE r.ended,
     text |-> IF r.shown = <<>> THEN "none"
              ELSE IF r.ended = "done" /\ r.shown \in {AppText, Redirect, r.said} THEN "whole"
              ELSE "part"]

LEMMA ViewIsSeen == View = [t \in Turn |-> Seen(turn[t])]
BY DEF View, Seen, Live, At

(* A step of one turn changes what is seen of that turn.                     *)
LEMMA SeenStep ==
  ASSUME TurnInv, NEW t \in Turn, NEW r, Put(t, r)
  PROVE  View' = [View EXCEPT ![t] = Seen(r)]
<1>1. turn'[t] = r /\ \A u \in Turn : u # t => turn'[u] = turn[u]
  BY PutEffect
<1>2. View' = [u \in Turn |-> Seen(turn'[u])]
  BY DEF View, Seen, Live, At
<1> QED
  BY <1>1, <1>2, ViewIsSeen

LEMMA TextsAreThere == AppText # <<>> /\ Redirect # <<>>
BY DEF AppText, Redirect

LEMMA SeenLive ==
  ASSUME NEW r \in TurnRecord, Sound(r), r.at # "closed"
  PROVE  /\ Seen(r).phase = "open"
         /\ Seen(r) = [phase |-> "open", text |-> IF r.shown = <<>> THEN "none" ELSE "part"]
BY DEF Seen, Sound

-----------------------------------------------------------------------------
(* The steps of a turn, as steps of the promise.                             *)

LEMMA FinishStep ==
  ASSUME TurnInv, NEW t \in Turn, Live(t), NEW r \in TurnRecord, NEW text \in Seq(Word),
         text \in {AppText, Redirect, r.said}, text # <<>>, Put(t, Ended(r, "done", text))
  PROVE  Promise!Finish(t)
<1>1. "done" \in Ending
  BY DEF Ending
<1>2. PICK e : e = Ended(r, "done", text)
  OBVIOUS
<1>3. e.at = "closed" /\ e.ended = "done" /\ e.shown = text /\ e.said = r.said
  BY <1>1, <1>2, EndedFields
<1>4. Seen(e) = [phase |-> "done", text |-> "whole"]
  BY <1>3 DEF Seen
<1>5. View[t].phase = "open"
  BY ViewIsSeen, SeenLive DEF TurnInv, Live, At
<1> QED
  BY <1>2, <1>4, <1>5, SeenStep DEF Promise!Finish, Promise!Become

LEMMA AnswerIsFinish ==
  ASSUME TurnInv, NEW t \in Turn, Live(t), Answer(t)
  PROVE  Promise!Finish(t)
BY FinishStep, TextsAreThere, AppTexts DEF Answer, TurnInv

LEMMA ErrorIsFail ==
  ASSUME TurnInv, NEW t \in Turn, turn[t].at \notin {"closed", "narrate"}, Error(t)
  PROVE  Promise!Fail(t)
<1>1. turn[t] \in TurnRecord /\ Sound(turn[t])
  BY DEF TurnInv
<1>2. turn[t].shown = <<>>
  BY <1>1 DEF Sound
<1>3. PICK e : e = Ended(turn[t], "error", turn[t].shown)
  OBVIOUS
<1>4. "error" \in Ending /\ turn[t].shown \in Seq(Word)
  BY <1>1 DEF Ending, TurnRecord
<1>5. e.at = "closed" /\ e.ended = "error" /\ e.shown = turn[t].shown
  BY <1>1, <1>3, <1>4, EndedFields
<1>6. Seen(e) = [phase |-> "error", text |-> "none"]
  BY <1>2, <1>5 DEF Seen
<1>7. View[t] = [phase |-> "open", text |-> "none"]
  BY <1>1, <1>2, ViewIsSeen, SeenLive
<1> QED
  BY <1>3, <1>6, <1>7, SeenStep DEF Error, Promise!Fail, Promise!Become

LEMMA AbandonIsLeave ==
  ASSUME TurnInv, NEW t \in Turn, Live(t), Abandon(t)
  PROVE  Promise!Leave(t)
<1>1. PICK e : e = [Closed EXCEPT !.ended = "gone"]
  OBVIOUS
<1>2. e.at = "closed" /\ e.ended = "gone" /\ e.shown = <<>>
  BY <1>1, ClosedType DEF TurnRecord
<1>3. Seen(e) = [phase |-> "gone", text |-> "none"]
  BY <1>2 DEF Seen
<1>4. View[t].phase = "open"
  BY ViewIsSeen, SeenLive DEF TurnInv, Live, At
<1> QED
  BY <1>1, <1>3, <1>4, SeenStep DEF Abandon, Promise!Leave, Promise!Become

LEMMA OpenIsAsk ==
  ASSUME TurnInv, NEW t \in Turn, NEW stage \in {"context", "command"}, Open(t, stage)
  PROVE  Promise!Ask(t)
<1>1. PICK e : e = [Closed EXCEPT !.at = stage]
  OBVIOUS
<1>2. e.at = stage /\ e.shown = <<>>
  BY <1>1, ClosedType DEF TurnRecord
<1>3. Seen(e) = [phase |-> "open", text |-> "none"]
  BY <1>2 DEF Seen
<1>4. turn[t].at = "closed" /\ turn[t].ended \in Ending
  BY DEF Open, Live, At, TurnInv, TurnRecord
<1>5. View[t].phase # "open"
  BY <1>4, ViewIsSeen DEF Seen, Ending
<1> QED
  BY <1>1, <1>3, <1>5, SeenStep DEF Open, Promise!Ask, Promise!Become

(* A live turn that shows what it showed, or has more to show.               *)
LEMMA GoesOn ==
  ASSUME TurnInv, TurnInv', NEW t \in Turn, Live(t), NEW r, Put(t, r), r.at # "closed",
         r.shown = turn[t].shown \/ r.shown # <<>>
  PROVE  View' = View \/ Promise!Write(t)
<1>1. turn'[t] = r
  BY PutEffect
<1>2. r \in TurnRecord /\ Sound(r) /\ turn[t] \in TurnRecord /\ Sound(turn[t])
  BY <1>1 DEF TurnInv
<1>3. Seen(r) = [phase |-> "open", text |-> IF r.shown = <<>> THEN "none" ELSE "part"]
  BY <1>2, SeenLive
<1>4. /\ View[t] = [phase |-> "open", text |-> IF turn[t].shown = <<>> THEN "none" ELSE "part"]
      /\ View = [u \in Turn |-> View[u]]
  BY <1>2, ViewIsSeen, SeenLive DEF Live, At
<1>5. View' = [View EXCEPT ![t] = Seen(r)]
  BY SeenStep
<1>6. CASE r.shown = <<>>
  BY <1>3, <1>4, <1>5, <1>6
<1>7. CASE r.shown # <<>>
  BY <1>3, <1>4, <1>5, <1>7 DEF Promise!Write, Promise!Become
<1> QED
  BY <1>6, <1>7

-----------------------------------------------------------------------------

LEMMA StepKeepsPromise ==
  ASSUME TurnInv, TurnInv', NEW t \in Turn, Chat(t) \/ Command(t) \/ Serve(t) \/ Disconnect(t)
  PROVE  View' = View \/ Promise!Next
<1> USE DEF At, Live, Promise!Next
<1>1. turn[t] \in TurnRecord /\ Sound(turn[t])
  BY DEF TurnInv
<1>2. CASE Chat(t) \/ Command(t)
  BY <1>2, OpenIsAsk DEF Chat, Command
<1>3. CASE Answer(t) /\ Live(t)
  BY <1>3, AnswerIsFinish
<1>4. CASE Error(t) /\ turn[t].at \notin {"closed", "narrate"}
  BY <1>4, ErrorIsFail
<1>5. CASE Disconnect(t)
  BY <1>5, AbandonIsLeave DEF Disconnect
<1>6. ASSUME NEW r, Put(t, r), r.at # "closed", r.shown = turn[t].shown, Live(t)
      PROVE  View' = View \/ Promise!Next
  BY <1>6, GoesOn
<1>7. CASE Context(t)
  <2>1. /\ [turn[t] EXCEPT !.at = "guard", !.txn = TRUE].at # "closed"
        /\ [turn[t] EXCEPT !.at = "guard", !.txn = TRUE].shown = turn[t].shown
    BY <1>1 DEF TurnRecord
  <2> QED
    BY <1>4, <1>6, <1>7, <2>1 DEF Context
<1>8. CASE Preflight(t)
  BY <1>3, <1>8 DEF Preflight
<1>9. CASE FirstCheckpoint(t)
  <2>1. \A next \in {"plan", "tool"} :
          /\ [turn[t] EXCEPT !.at = next, !.txn = FALSE].at # "closed"
          /\ [turn[t] EXCEPT !.at = next, !.txn = FALSE].shown = turn[t].shown
    BY <1>1 DEF TurnRecord
  <2> QED
    BY <1>4, <1>6, <1>9, <2>1 DEF FirstCheckpoint
<1>10. CASE PlanFails(t)
  <2>1. /\ [turn[t] EXCEPT !.backend = @ + 1].at = turn[t].at
        /\ [turn[t] EXCEPT !.backend = @ + 1].shown = turn[t].shown
    BY <1>1 DEF TurnRecord
  <2> QED
    BY <1>4, <1>6, <1>10, <2>1 DEF PlanFails
<1>11. CASE BodyUnreadable(t) \/ PlanUnreadable(t)
  BY <1>4, <1>11 DEF BodyUnreadable, PlanUnreadable
<1>12. CASE PlanAnswers(t)
  <2>1. \A stage \in {"tool", "checkpoint"} :
          /\ [turn[t] EXCEPT !.at = stage].at # "closed"
          /\ [turn[t] EXCEPT !.at = stage].shown = turn[t].shown
    BY <1>1 DEF TurnRecord
  <2> QED
    BY <1>3, <1>6, <1>12, <2>1 DEF PlanAnswers
<1>13. CASE Tool(t)
  <2>1. /\ [turn[t] EXCEPT !.at = "checkpoint", !.txn = TRUE].at # "closed"
        /\ [turn[t] EXCEPT !.at = "checkpoint", !.txn = TRUE].shown = turn[t].shown
    BY <1>1 DEF TurnRecord
  <2> QED
    BY <1>3, <1>4, <1>6, <1>13, <2>1 DEF Tool
<1>14. CASE CommandTool(t)
  BY <1>3, <1>4, <1>14 DEF CommandTool
<1>15. CASE SecondCheckpoint(t)
  <2>1. /\ [turn[t] EXCEPT !.at = "narrate", !.txn = FALSE, !.backend = 1].at # "closed"
        /\ [turn[t] EXCEPT !.at = "narrate", !.txn = FALSE, !.backend = 1].shown = turn[t].shown
    BY <1>1 DEF TurnRecord
  <2> QED
    BY <1>4, <1>6, <1>15, <2>1 DEF SecondCheckpoint
<1>16. CASE Reach(t)
  <2>1. /\ [turn[t] EXCEPT !.reached = TRUE].at = turn[t].at
        /\ [turn[t] EXCEPT !.reached = TRUE].shown = turn[t].shown
    BY <1>1 DEF TurnRecord
  <2> QED
    BY <1>6, <1>16, <2>1 DEF Reach
<1>17. CASE FailOver(t) /\ At(t, "narrate")
  <2>1. /\ [turn[t] EXCEPT !.backend = @ + 1, !.reached = FALSE].at = turn[t].at
        /\ [turn[t] EXCEPT !.backend = @ + 1, !.reached = FALSE].shown = turn[t].shown
    BY <1>1 DEF TurnRecord
  <2> QED
    BY <1>3, <1>6, <1>17, <2>1 DEF FailOver
<1>18. CASE Unreachable(t)
  BY <1>17, <1>18 DEF Unreachable
<1>19. CASE Delta(t)
  <2>1. PICK words, reads, finished :
          \/ /\ Put(t, Ended([turn[t] EXCEPT !.said = words], "done", Redirect))
             /\ words = Append(turn[t].said, [by |-> turn[t].backend, reads |-> reads])
             /\ reads \in {"fine", "cut", "forbidden"}
          \/ Put(t, [[turn[t] EXCEPT !.said = words] EXCEPT !.shown = Longer(@, Released(words))])
    BY <1>19 DEF Delta
  <2>2. At(t, "narrate")
    BY <1>19 DEF Delta, Streaming
  <2>3. CASE /\ Put(t, Ended([turn[t] EXCEPT !.said = words], "done", Redirect))
             /\ words = Append(turn[t].said, [by |-> turn[t].backend, reads |-> reads])
             /\ reads \in {"fine", "cut", "forbidden"}
    <3>1. [by |-> turn[t].backend, reads |-> reads] \in Word /\ turn[t].said \in Seq(Word)
      BY <1>1, <2>3 DEF TurnRecord, Word
    <3>2. words \in Seq(Word)
      BY <2>3, <3>1, AppendProperties
    <3>3. [turn[t] EXCEPT !.said = words] \in TurnRecord
      BY <1>1, <3>2 DEF TurnRecord
    <3> QED
      BY <2>2, <2>3, <3>3, FinishStep, TextsAreThere, AppTexts
  <2>4. CASE Put(t, [[turn[t] EXCEPT !.said = words] EXCEPT !.shown = Longer(@, Released(words))])
    <3> DEFINE r == [[turn[t] EXCEPT !.said = words] EXCEPT !.shown = Longer(@, Released(words))]
    <3>1. r.at = turn[t].at /\ r.shown = Longer(turn[t].shown, Released(words))
      BY <1>1 DEF TurnRecord
    <3>2. Len(turn[t].shown) \in Nat /\ Len(<<>>) = 0
      BY <1>1, LenProperties, EmptySeq DEF TurnRecord
    <3>3. r.shown = turn[t].shown \/ r.shown # <<>>
      BY <3>1, <3>2 DEF Longer
    <3>4. Put(t, r)
      BY <2>4
    <3> HIDE DEF r
    <3> QED
      BY <2>2, <3>1, <3>3, <3>4, GoesOn
  <2> QED
    BY <2>1, <2>3, <2>4
<1>20. CASE StreamFails(t)
  BY <1>3, <1>17, <1>20 DEF StreamFails, Streaming
<1>21. CASE StreamEnds(t)
  <2>1. CASE FailOver(t)
    BY <1>17, <1>21, <2>1 DEF StreamEnds, Streaming
  <2>2. CASE Put(t, Ended(turn[t], "done", Redirect))
    BY <1>1, <1>21, <2>2, FinishStep, TextsAreThere, AppTexts DEF StreamEnds, Streaming
  <2>3. CASE turn[t].said # <<>> /\ Put(t, Ended(turn[t], "done", turn[t].said))
    <3>1. turn[t].said \in Seq(Word)
      BY <1>1 DEF TurnRecord
    <3> QED
      BY <1>1, <1>21, <2>3, <3>1, FinishStep DEF StreamEnds, Streaming
  <2> QED
    BY <1>21, <2>1, <2>2, <2>3 DEF StreamEnds
<1> QED
  BY <1>2, <1>5, <1>7, <1>8, <1>9, <1>10, <1>11, <1>12, <1>13, <1>14, <1>15, <1>16, <1>18,
     <1>19, <1>20, <1>21 DEF Serve

(* The stream of events a client of POST /assistant/chat reads keeps the     *)
(* promise of AnswerStream.                                                  *)
THEOREM TurnKeepsPromise == Spec => KeepsPromise
<1>1. Init => Promise!Init
  <2> SUFFICES ASSUME Init PROVE View = [t \in Turn |-> [phase |-> "idle", text |-> "none"]]
    BY DEF Promise!Init
  <2>1. Seen(Closed) = [phase |-> "idle", text |-> "none"]
    BY DEF Seen, Closed
  <2>2. \A t \in Turn : turn[t] = Closed
    BY DEF Init
  <2> QED
    BY <2>1, <2>2, ViewIsSeen
<1>2. TurnInv /\ TurnInv' /\ [Next]_vars => [Promise!Next]_View
  <2>1. ASSUME TurnInv, TurnInv', NextDay \/ UNCHANGED vars PROVE View' = View
    BY <2>1 DEF NextDay, vars, View, Live, At
  <2> QED
    BY <2>1, StepKeepsPromise DEF Next
<1> QED
  BY <1>1, <1>2, TurnsAreSound, PTL DEF Spec, KeepsPromise, Promise!Spec

-----------------------------------------------------------------------------
(***************************************************************************)
(* What the assistant's turns may cost: however they interleave, a day is   *)
(* overspent by at most one run through the chain per connection, and what  *)
(* a provider has begun to generate is charged.                             *)
(*                                                                          *)
(* A turn that awaits the model at backend b holds a block of MaxCost       *)
(* tickets for each backend from b on.  Every charge spends at least one    *)
(* block, and tickets are handed out only while the budget lasts: what is   *)
(* spent and the tickets out stay within the limit together.                *)
(***************************************************************************)

Waits(r) == r.at \in {"plan", "narrate"}

AllTickets == Turn \X (Backend \X (1 .. MaxCost))

Ticket == {k \in AllTickets : Waits(turn[k[1]]) /\ turn[k[1]].backend <= k[2][1]}

Block(t) == {t} \X ({turn[t].backend} \X (1 .. MaxCost))

Limit == Budget - 1 + Cardinality(Turn) * Chain * MaxCost

(* The counter, and the ledger it is a page of.                              *)
LedgerInv ==
    /\ day \in 0 .. MaxDay /\ tokenDay \in -1 .. MaxDay /\ tokenDay <= day
    /\ tokens \in Nat /\ spent \in [0 .. MaxDay -> Nat]
    /\ spent[day] = Counted
    /\ \A d \in 0 .. MaxDay : d > day => spent[d] = 0

BudgetInv ==
    /\ LedgerInv
    /\ Budget > 0 =>
         /\ \A d \in 0 .. MaxDay : spent[d] <= Limit
         /\ spent[day] + Cardinality(Ticket) <= Limit

LEMMA Tickets ==
  /\ IsFiniteSet(AllTickets)
  /\ Cardinality(AllTickets) = Cardinality(Turn) * Chain * MaxCost
<1>1. IsFiniteSet(Turn) /\ Chain \in Nat \ {0} /\ MaxCost \in Nat \ {0}
  BY AssistantAssumption
<1>2. IsFiniteSet(Backend) /\ Cardinality(Backend) = Chain
  BY <1>1, FS_Interval DEF Backend
<1>3. IsFiniteSet(1 .. MaxCost) /\ Cardinality(1 .. MaxCost) = MaxCost
  BY <1>1, FS_Interval
<1>4. /\ IsFiniteSet(Backend \X (1 .. MaxCost))
      /\ Cardinality(Backend \X (1 .. MaxCost)) = Chain * MaxCost
  BY <1>2, <1>3, FS_Product
<1>5. /\ IsFiniteSet(AllTickets)
      /\ Cardinality(AllTickets) = Cardinality(Turn) * (Chain * MaxCost)
  BY <1>1, <1>4, FS_Product DEF AllTickets
<1>6. Cardinality(Turn) \in Nat
  BY <1>1, FS_CardinalityType
<1> QED
  BY <1>1, <1>5, <1>6

(* A set of tickets fits into the limit beside a budget that is not spent.   *)
LEMMA TicketsFit ==
  ASSUME NEW T \in SUBSET AllTickets
  PROVE  /\ IsFiniteSet(T) /\ Cardinality(T) \in Nat /\ Limit \in Int
         /\ Budget - 1 + Cardinality(T) <= Limit
<1>1. IsFiniteSet(T) /\ Cardinality(T) <= Cardinality(AllTickets)
  BY Tickets, FS_Subset
<1>2. Cardinality(T) \in Nat /\ Cardinality(AllTickets) \in Nat
  BY <1>1, Tickets, FS_CardinalityType
<1>3. Budget \in Nat
  BY AssistantAssumption
<1> QED
  BY <1>1, <1>2, <1>3, Tickets DEF Limit

(* A turn that waits holds a whole block.                                    *)
LEMMA BlockHeld ==
  ASSUME TurnInv, NEW t \in Turn, Waits(turn[t])
  PROVE  Block(t) \subseteq Ticket /\ IsFiniteSet(Block(t)) /\ Cardinality(Block(t)) = MaxCost
<1>1. turn[t].backend \in Backend /\ Backend \subseteq Int
  BY DEF TurnInv, TurnRecord, Backend
<1>2. ASSUME NEW k \in Block(t) PROVE k \in Ticket
  <2>1. PICK c \in 1 .. MaxCost : k = <<t, <<turn[t].backend, c>>>>
    BY DEF Block
  <2>2. k \in AllTickets /\ k[1] = t /\ k[2][1] = turn[t].backend
    BY <1>1, <2>1 DEF AllTickets
  <2>3. \A b \in Int : b <= b
    OBVIOUS
  <2>4. turn[t].backend <= turn[t].backend
    BY <1>1, <2>3
  <2> QED
    BY <2>2, <2>4 DEF Ticket
<1>3. IsFiniteSet(1 .. MaxCost) /\ Cardinality(1 .. MaxCost) = MaxCost /\ MaxCost \in Nat
  BY AssistantAssumption, FS_Interval
<1>4. /\ IsFiniteSet({t}) /\ Cardinality({t}) = 1
      /\ IsFiniteSet({turn[t].backend}) /\ Cardinality({turn[t].backend}) = 1
  BY FS_Singleton
<1> DEFINE Row == {turn[t].backend} \X (1 .. MaxCost)
<1>5. IsFiniteSet(Row) /\ Cardinality(Row) = MaxCost
  BY <1>3, <1>4, FS_Product
<1> HIDE DEF Row
<1>6. IsFiniteSet({t} \X Row) /\ Cardinality({t} \X Row) = Cardinality({t}) * Cardinality(Row)
  BY <1>4, <1>5, FS_Product
<1>7. Block(t) = {t} \X Row
  BY DEF Block, Row
<1> QED
  BY <1>2, <1>3, <1>4, <1>5, <1>6, <1>7

-----------------------------------------------------------------------------
(* The four kinds of steps.                                                  *)

LEMMA UnbilledStep ==
  ASSUME BudgetInv, UNCHANGED <<budget, day>>, Ticket' \subseteq Ticket
  PROVE  BudgetInv'
<1>1. LedgerInv'
  BY DEF BudgetInv, LedgerInv, Counted, budget
<1>2. ASSUME Budget > 0
      PROVE  /\ \A d \in 0 .. MaxDay : spent'[d] <= Limit
             /\ spent'[day'] + Cardinality(Ticket') <= Limit
  <2>1. Ticket \subseteq AllTickets
    BY DEF Ticket
  <2>2. IsFiniteSet(Ticket) /\ Cardinality(Ticket') <= Cardinality(Ticket)
    BY <2>1, TicketsFit, FS_Subset
  <2>3. Cardinality(Ticket) \in Nat /\ Cardinality(Ticket') \in Nat /\ Limit \in Int
    BY <2>1, TicketsFit
  <2>4. spent[day] \in Nat /\ spent' = spent /\ day' = day
    BY DEF BudgetInv, LedgerInv, budget
  <2> QED
    BY <1>2, <2>2, <2>3, <2>4 DEF BudgetInv
<1> QED
  BY <1>1, <1>2 DEF BudgetInv, Limit

LEMMA AdmittedStep ==
  ASSUME BudgetInv, UNCHANGED <<budget, day>>, ~Exhausted
  PROVE  BudgetInv'
<1>1. LedgerInv'
  BY DEF BudgetInv, LedgerInv, Counted, budget
<1>2. ASSUME Budget > 0
      PROVE  /\ \A d \in 0 .. MaxDay : spent'[d] <= Limit
             /\ spent'[day'] + Cardinality(Ticket') <= Limit
  <2>1. spent[day] \in Nat /\ spent' = spent /\ day' = day /\ spent[day] = Counted
    BY DEF BudgetInv, LedgerInv, budget
  <2>2. spent[day] < Budget /\ Budget \in Nat
    BY <1>2, <2>1, AssistantAssumption DEF Exhausted
  <2>3. Ticket' \subseteq AllTickets
    BY DEF Ticket, AllTickets, Backend
  <2>4. /\ Cardinality(Ticket') \in Nat /\ Limit \in Int
        /\ Budget - 1 + Cardinality(Ticket') <= Limit
    BY <2>3, TicketsFit
  <2> QED
    BY <1>2, <2>1, <2>2, <2>4 DEF BudgetInv
<1> QED
  BY <1>1, <1>2 DEF BudgetInv, Limit

LEMMA BilledStep ==
  ASSUME BudgetInv, TurnInv, NEW t \in Turn, Waits(turn[t]),
         Billed, day' = day, Ticket' \subseteq Ticket \ Block(t)
  PROVE  BudgetInv'
<1>1. PICK cost \in 1 .. MaxCost : Charge(cost)
  BY DEF Billed
<1>2. MaxCost \in Nat /\ cost \in Nat /\ cost <= MaxCost
  BY AssistantAssumption
<1>3. /\ tokenDay' = day /\ tokens' = Counted + cost
      /\ spent' = [spent EXCEPT ![day] = spent[day] + cost]
  BY <1>1 DEF Charge
<1>4. /\ spent \in [0 .. MaxDay -> Nat] /\ day \in 0 .. MaxDay /\ spent[day] = Counted
      /\ spent[day] \in Nat /\ MaxDay \in Nat
  BY AssistantAssumption DEF BudgetInv, LedgerInv
<1>5. /\ spent' \in [0 .. MaxDay -> Nat] /\ spent'[day] = spent[day] + cost
      /\ \A d \in 0 .. MaxDay : d # day => spent'[d] = spent[d]
  BY <1>2, <1>3, <1>4
<1>6. LedgerInv'
  BY <1>2, <1>3, <1>4, <1>5 DEF BudgetInv, LedgerInv, Counted
<1>7. ASSUME Budget > 0
      PROVE  /\ \A d \in 0 .. MaxDay : spent'[d] <= Limit
             /\ spent'[day'] + Cardinality(Ticket') <= Limit
  <2>1. Ticket \subseteq AllTickets /\ Ticket \ Block(t) \subseteq AllTickets
    BY DEF Ticket
  <2>2. IsFiniteSet(Ticket) /\ IsFiniteSet(Ticket \ Block(t))
    BY <2>1, TicketsFit
  <2>3. Block(t) \subseteq Ticket /\ Cardinality(Block(t)) = MaxCost
    BY BlockHeld
  <2>4. Cardinality(Ticket \ Block(t)) = Cardinality(Ticket) - Cardinality(Ticket \cap Block(t))
    BY <2>2, FS_Difference
  <2>5. Ticket \cap Block(t) = Block(t)
    BY <2>3
  <2>6. Cardinality(Ticket') <= Cardinality(Ticket \ Block(t))
    BY <2>2, FS_Subset
  <2>7. /\ Cardinality(Ticket) \in Nat /\ Cardinality(Ticket') \in Nat
        /\ Limit \in Int
    BY <2>1, TicketsFit
  <2>8. spent[day] + Cardinality(Ticket) <= Limit /\ \A d \in 0 .. MaxDay : spent[d] <= Limit
    BY <1>7 DEF BudgetInv
  <2>9. \A s, c, m, n, k, l \in Int : c <= m /\ k <= n - m /\ s + n <= l => s + c + k <= l
    OBVIOUS
  <2>10. Cardinality(Ticket') <= Cardinality(Ticket) - MaxCost
    BY <2>3, <2>4, <2>5, <2>6
  <2>11. spent[day] + cost + Cardinality(Ticket') <= Limit
    BY <1>2, <1>4, <2>7, <2>8, <2>9, <2>10
  <2>12. \A a, k, l \in Int : k >= 0 /\ a + k <= l => a <= l
    OBVIOUS
  <2>13. spent'[day] <= Limit
    BY <1>2, <1>4, <1>5, <2>7, <2>11, <2>12
  <2> QED
    BY <1>5, <2>8, <2>11, <2>13
<1> QED
  BY <1>6, <1>7 DEF BudgetInv, Limit

LEMMA NextDayStep ==
  ASSUME BudgetInv, NextDay
  PROVE  BudgetInv'
<1>1. /\ spent \in [0 .. MaxDay -> Nat] /\ day \in 0 .. MaxDay /\ MaxDay \in Nat
      /\ day' = day + 1 /\ day' \in 0 .. MaxDay
      /\ spent' = spent /\ tokenDay' = tokenDay /\ tokens' = tokens /\ turn' = turn
      /\ spent[day'] = 0
  BY AssistantAssumption DEF BudgetInv, LedgerInv, NextDay, budget
<1>2. LedgerInv'
  BY <1>1 DEF BudgetInv, LedgerInv, Counted
<1>3. ASSUME Budget > 0
      PROVE  /\ \A d \in 0 .. MaxDay : spent'[d] <= Limit
             /\ spent'[day'] + Cardinality(Ticket') <= Limit
  <2>1. Ticket' \subseteq AllTickets
    BY DEF Ticket, AllTickets, Backend
  <2>2. /\ Cardinality(Ticket') \in Nat /\ Limit \in Int /\ Budget \in Nat
        /\ Budget - 1 + Cardinality(Ticket') <= Limit
    BY <2>1, TicketsFit, AssistantAssumption
  <2> QED
    BY <1>1, <1>3, <2>2 DEF BudgetInv
<1> QED
  BY <1>2, <1>3 DEF BudgetInv, Limit

-----------------------------------------------------------------------------
(* Every step is one of the four.                                            *)

(* A turn that waits afterwards waited before, at no later a backend.        *)
Stays(t) ==
    /\ \A u \in Turn : u # t => turn'[u] = turn[u]
    /\ Waits(turn'[t]) => Waits(turn[t]) /\ turn[t].backend <= turn'[t].backend

(* It leaves the backend it waited for.                                      *)
Leaves(t) ==
    /\ \A u \in Turn : u # t => turn'[u] = turn[u]
    /\ Waits(turn[t])
    /\ Waits(turn'[t]) => turn[t].backend < turn'[t].backend

LEMMA StaysTickets ==
  ASSUME TurnInv, TurnInv', NEW t \in Turn, Stays(t)
  PROVE  Ticket' \subseteq Ticket
<1> SUFFICES ASSUME NEW k \in Ticket' PROVE k \in Ticket
  OBVIOUS
<1>1. /\ k \in AllTickets /\ k[1] \in Turn /\ k[2][1] \in Backend /\ Backend \subseteq Int
      /\ Waits(turn'[k[1]]) /\ turn'[k[1]].backend <= k[2][1]
  BY DEF Ticket, AllTickets, Backend, Waits
<1>2. turn[k[1]].backend \in Backend /\ turn'[k[1]].backend \in Backend
  BY <1>1 DEF TurnInv, TurnRecord, Backend
<1>3. Waits(turn[k[1]]) /\ turn[k[1]].backend <= turn'[k[1]].backend
  <2>1. CASE k[1] = t
    BY <1>1, <2>1 DEF Stays
  <2>2. CASE k[1] # t
    <3>1. turn'[k[1]] = turn[k[1]]
      BY <1>1, <2>2 DEF Stays
    <3>2. turn[k[1]].backend \in Int
      BY <1>1, <1>2
    <3>3. \A b \in Int : b <= b
      OBVIOUS
    <3> QED
      BY <1>1, <3>1, <3>2, <3>3
  <2> QED
    BY <2>1, <2>2
<1>4. \A a, b, c \in Int : a <= b /\ b <= c => a <= c
  OBVIOUS
<1>5. turn[k[1]].backend <= k[2][1]
  BY <1>1, <1>2, <1>3, <1>4
<1> QED
  BY <1>1, <1>3, <1>5 DEF Ticket

LEMMA LeavesTickets ==
  ASSUME TurnInv, TurnInv', NEW t \in Turn, Leaves(t)
  PROVE  Ticket' \subseteq Ticket \ Block(t)
<1>1. turn[t].backend \in Int /\ turn'[t].backend \in Int
  BY DEF TurnInv, TurnRecord, Backend
<1>2. Stays(t)
  BY <1>1 DEF Leaves, Stays
<1>3. ASSUME NEW k \in Ticket', k \in Block(t) PROVE FALSE
  <2>1. k[1] = t /\ k[2][1] = turn[t].backend
    BY <1>3 DEF Block
  <2>2. Waits(turn'[k[1]]) /\ turn'[k[1]].backend <= k[2][1]
    BY <1>3 DEF Ticket, AllTickets, Backend, Waits
  <2>3. Waits(turn'[t]) /\ turn'[t].backend <= turn[t].backend
    BY <2>1, <2>2
  <2> QED
    BY <1>1, <2>3 DEF Leaves
<1> QED
  BY <1>2, <1>3, StaysTickets

(* A turn that ends waits no more.                                           *)
LEMMA EndEffect ==
  ASSUME TurnInv, NEW t \in Turn, NEW r, Put(t, r), r.at \notin {"plan", "narrate"}
  PROVE  Stays(t) /\ (Waits(turn[t]) => Leaves(t)) /\ ~Waits(turn'[t])
BY PutEffect DEF Stays, Leaves, Waits

LEMMA EndedEffect ==
  ASSUME TurnInv, NEW t \in Turn, NEW r \in TurnRecord, NEW how, NEW text,
         Put(t, Ended(r, how, text))
  PROVE  Stays(t) /\ (Waits(turn[t]) => Leaves(t)) /\ ~Waits(turn'[t])
<1>1. Ended(r, how, text).at = "closed"
  BY DEF Ended, TurnRecord
<1> QED
  BY <1>1, EndEffect

LEMMA AnswerEffect ==
  ASSUME TurnInv, NEW t \in Turn, Answer(t) \/ Error(t) \/ Abandon(t)
  PROVE  Stays(t) /\ (Waits(turn[t]) => Leaves(t)) /\ ~Waits(turn'[t])
<1>1. turn[t] \in TurnRecord
  BY DEF TurnInv
<1>2. CASE Answer(t) \/ Error(t)
  BY <1>1, <1>2, EndedEffect DEF Answer, Error
<1>3. CASE Abandon(t)
  <2>1. [Closed EXCEPT !.ended = "gone"].at = "closed"
    BY ClosedType DEF TurnRecord
  <2> QED
    BY <1>3, <2>1, EndEffect DEF Abandon
<1> QED
  BY <1>2, <1>3

LEMMA FailOverEffect ==
  ASSUME TurnInv, NEW t \in Turn, Waits(turn[t]), FailOver(t)
  PROVE  Stays(t) /\ Leaves(t)
<1>1. turn[t] \in TurnRecord /\ turn[t].backend \in Int
  BY DEF TurnInv, TurnRecord, Backend
<1>2. CASE Put(t, [turn[t] EXCEPT !.backend = @ + 1, !.reached = FALSE])
  <2> DEFINE r == [turn[t] EXCEPT !.backend = @ + 1, !.reached = FALSE]
  <2>1. r.at = turn[t].at /\ r.backend = turn[t].backend + 1
    BY <1>1 DEF TurnRecord
  <2>2. turn'[t] = r /\ \A u \in Turn : u # t => turn'[u] = turn[u]
    BY <1>2, PutEffect
  <2> HIDE DEF r
  <2> QED
    BY <1>1, <2>1, <2>2 DEF Stays, Leaves, Waits
<1>3. CASE Answer(t)
  BY <1>3, AnswerEffect
<1> QED
  BY <1>2, <1>3 DEF FailOver

LEMMA Step ==
  ASSUME TurnInv, TurnInv', NEW t \in Turn, Chat(t) \/ Command(t) \/ Serve(t) \/ Disconnect(t)
  PROVE  /\ day' = day
         /\ \/ UNCHANGED budget /\ Stays(t)
            \/ UNCHANGED budget /\ ~Exhausted
            \/ Billed /\ Leaves(t)
<1> USE DEF Idle, Unbilled, At
<1>1. turn[t] \in TurnRecord /\ turn[t].backend \in Int
  BY DEF TurnInv, TurnRecord, Backend
<1>2. \A n \in Int : n < n + 1 /\ n <= n + 1 /\ n <= n
  OBVIOUS
<1>3. CASE Chat(t) \/ Command(t)
  <2>1. PICK stage \in {"context", "command"} : Open(t, stage)
    BY <1>3 DEF Chat, Command
  <2>2. [Closed EXCEPT !.at = stage].at = stage
    BY ClosedType DEF TurnRecord
  <2> QED
    BY <2>1, <2>2, EndEffect DEF Open
<1>4. CASE Context(t)
  <2>1. [turn[t] EXCEPT !.at = "guard", !.txn = TRUE].at = "guard"
    BY <1>1 DEF TurnRecord
  <2> QED
    BY <1>4, <2>1, AnswerEffect, EndEffect DEF Context
<1>5. CASE Preflight(t)
  BY <1>5, AnswerEffect DEF Preflight
<1>6. CASE FirstCheckpoint(t)
  <2>1. CASE Error(t)
    BY <1>6, <2>1, AnswerEffect DEF FirstCheckpoint
  <2>2. CASE ~Exhausted
    BY <1>6, <2>2 DEF FirstCheckpoint
  <2> QED
    BY <1>6, <2>1, <2>2 DEF FirstCheckpoint
<1>7. CASE PlanFails(t)
  <2>1. Waits(turn[t])
    BY <1>7 DEF PlanFails, Waits
  <2>2. CASE Error(t)
    BY <1>7, <2>1, <2>2, AnswerEffect DEF PlanFails
  <2>3. CASE Put(t, [turn[t] EXCEPT !.backend = @ + 1])
    <3> DEFINE r == [turn[t] EXCEPT !.backend = @ + 1]
    <3>1. r.at = turn[t].at /\ r.backend = turn[t].backend + 1
      BY <1>1 DEF TurnRecord
    <3>2. turn'[t] = r /\ \A u \in Turn : u # t => turn'[u] = turn[u]
      BY <2>3, PutEffect
    <3> HIDE DEF r
    <3>3. Stays(t) /\ Leaves(t)
      BY <1>1, <1>2, <2>1, <3>1, <3>2 DEF Stays, Leaves, Waits
    <3> QED
      BY <1>7, <3>3 DEF PlanFails
  <2> QED
    BY <1>7, <2>2, <2>3 DEF PlanFails
<1>8. CASE BodyUnreadable(t)
  BY <1>8, AnswerEffect DEF BodyUnreadable
<1>9. CASE PlanUnreadable(t)
  BY <1>9, AnswerEffect DEF PlanUnreadable, Waits
<1>10. CASE PlanAnswers(t)
  <2>1. Waits(turn[t])
    BY <1>10 DEF PlanAnswers, Waits
  <2>2. \A stage \in {"tool", "checkpoint"} : [turn[t] EXCEPT !.at = stage].at = stage
    BY <1>1 DEF TurnRecord
  <2>3. CASE Answer(t)
    BY <1>10, <2>1, <2>3, AnswerEffect DEF PlanAnswers
  <2>4. CASE \E stage \in {"tool", "checkpoint"} : Put(t, [turn[t] EXCEPT !.at = stage])
    BY <1>10, <2>1, <2>2, <2>4, EndEffect DEF PlanAnswers
  <2> QED
    BY <1>10, <2>3, <2>4 DEF PlanAnswers
<1>11. CASE Tool(t)
  <2>1. [turn[t] EXCEPT !.at = "checkpoint", !.txn = TRUE].at = "checkpoint"
    BY <1>1 DEF TurnRecord
  <2> QED
    BY <1>11, <2>1, AnswerEffect, EndEffect DEF Tool
<1>12. CASE CommandTool(t)
  BY <1>12, AnswerEffect DEF CommandTool
<1>13. CASE SecondCheckpoint(t)
  <2>1. CASE Error(t)
    BY <1>13, <2>1, AnswerEffect DEF SecondCheckpoint
  <2>2. CASE ~Exhausted
    BY <1>13, <2>2 DEF SecondCheckpoint
  <2> QED
    BY <1>13, <2>1, <2>2 DEF SecondCheckpoint
<1>14. CASE Reach(t)
  <2> DEFINE r == [turn[t] EXCEPT !.reached = TRUE]
  <2>1. r.at = turn[t].at /\ r.backend = turn[t].backend
    BY <1>1 DEF TurnRecord
  <2>2. turn'[t] = r /\ \A u \in Turn : u # t => turn'[u] = turn[u]
    BY <1>14, PutEffect DEF Reach
  <2> HIDE DEF r
  <2> QED
    BY <1>1, <1>2, <1>14, <2>1, <2>2 DEF Reach, Stays, Waits
<1>15. CASE Unreachable(t)
  BY <1>15, FailOverEffect DEF Unreachable, Waits
<1>16. CASE Delta(t)
  <2>1. Waits(turn[t])
    BY <1>16 DEF Delta, Streaming, Waits
  <2>2. PICK words, how, text :
          \/ /\ Put(t, Ended([turn[t] EXCEPT !.said = words], how, text))
             /\ Billed
          \/ /\ Put(t, [[turn[t] EXCEPT !.said = words] EXCEPT !.shown = text])
             /\ Unbilled
    BY <1>16 DEF Delta
  <2>3. CASE /\ Put(t, Ended([turn[t] EXCEPT !.said = words], how, text))
             /\ Billed
    <3>1. Ended([turn[t] EXCEPT !.said = words], how, text).at = "closed"
      BY <1>1 DEF Ended, TurnRecord
    <3> QED
      BY <1>16, <2>1, <2>3, <3>1, EndEffect DEF Delta
  <2>4. CASE /\ Put(t, [[turn[t] EXCEPT !.said = words] EXCEPT !.shown = text])
             /\ Unbilled
    <3> DEFINE r == [[turn[t] EXCEPT !.said = words] EXCEPT !.shown = text]
    <3>1. r.at = turn[t].at /\ r.backend = turn[t].backend
      BY <1>1 DEF TurnRecord
    <3>2. turn'[t] = r /\ \A u \in Turn : u # t => turn'[u] = turn[u]
      BY <2>4, PutEffect
    <3> HIDE DEF r
    <3>3. Stays(t)
      BY <1>1, <1>2, <2>1, <3>1, <3>2 DEF Stays, Waits
    <3> QED
      BY <1>16, <2>4, <3>3 DEF Delta
  <2> QED
    BY <2>2, <2>3, <2>4
<1>17. CASE StreamFails(t)
  BY <1>17, FailOverEffect, AnswerEffect DEF StreamFails, Streaming, Waits
<1>18. CASE StreamEnds(t)
  BY <1>1, <1>18, FailOverEffect, EndedEffect DEF StreamEnds, Streaming, Waits
<1>19. CASE Disconnect(t)
  BY <1>19, AnswerEffect DEF Disconnect, Streaming, Waits
<1> QED
  BY <1>3, <1>4, <1>5, <1>6, <1>7, <1>8, <1>9, <1>10, <1>11, <1>12, <1>13, <1>14, <1>15,
     <1>16, <1>17, <1>18, <1>19 DEF Serve

-----------------------------------------------------------------------------

LEMMA BudgetInit == Init => BudgetInv
<1> SUFFICES ASSUME Init PROVE BudgetInv
  OBVIOUS
<1>1. /\ spent = [d \in 0 .. MaxDay |-> 0] /\ day = 0 /\ tokenDay = -1 /\ tokens = 0
      /\ MaxDay \in Nat /\ Budget \in Nat
  BY AssistantAssumption DEF Init
<1>2. LedgerInv
  BY <1>1 DEF LedgerInv, Counted
<1>3. Ticket \subseteq AllTickets
  BY DEF Ticket
<1>4. Cardinality(Ticket) \in Nat /\ Limit \in Int /\ Budget - 1 + Cardinality(Ticket) <= Limit
  BY <1>3, TicketsFit
<1>5. ASSUME Budget > 0
      PROVE  /\ \A d \in 0 .. MaxDay : spent[d] <= Limit
             /\ spent[day] + Cardinality(Ticket) <= Limit
  BY <1>1, <1>4, <1>5
<1> QED
  BY <1>2, <1>5 DEF BudgetInv

LEMMA BudgetStep ==
  ASSUME BudgetInv, TurnInv, TurnInv', [Next]_vars
  PROVE  BudgetInv'
<1>1. ASSUME NEW t \in Turn, Chat(t) \/ Command(t) \/ Serve(t) \/ Disconnect(t)
      PROVE  BudgetInv'
  <2>1. day' = day
    BY <1>1, Step
  <2>2. CASE UNCHANGED budget /\ Stays(t)
    <3>1. Ticket' \subseteq Ticket
      BY <2>2, StaysTickets
    <3> QED
      BY <2>1, <2>2, <3>1, UnbilledStep
  <2>3. CASE UNCHANGED budget /\ ~Exhausted
    BY <2>1, <2>3, AdmittedStep
  <2>4. CASE Billed /\ Leaves(t)
    <3>1. Ticket' \subseteq Ticket \ Block(t) /\ Waits(turn[t])
      BY <2>4, LeavesTickets DEF Leaves
    <3> QED
      BY <2>1, <2>4, <3>1, BilledStep
  <2> QED
    BY <1>1, <2>2, <2>3, <2>4, Step
<1>2. CASE NextDay
  BY <1>2, NextDayStep
<1>3. CASE UNCHANGED vars
  <2>1. UNCHANGED <<budget, day>> /\ Ticket' = Ticket
    BY <1>3 DEF vars, budget, Ticket, AllTickets, Backend, Waits
  <2> QED
    BY <2>1, UnbilledStep
<1> QED
  BY <1>1, <1>2, <1>3 DEF Next

LEMMA BudgetIsBounded == Spec => [](TurnInv /\ BudgetInv)
<1>1. TurnInv /\ BudgetInv /\ [Next]_vars => (TurnInv /\ BudgetInv)'
  BY TurnStep, BudgetStep
<1> QED
  BY <1>1, TurnInit, BudgetInit, PTL DEF Spec

(* The token budget of ratelimit.py is looked at before a model call and     *)
(* charged after it: turns that interleave overspend it, by one run through  *)
(* the failover chain per connection and no more, on every day.              *)
THEOREM OverspendIsBounded == Spec => []BudgetBound
<1>1. TurnInv /\ BudgetInv => BudgetBound
  BY DEF BudgetInv, BudgetBound, Limit
<1> QED
  BY <1>1, BudgetIsBounded, PTL

-----------------------------------------------------------------------------
(* A charge is visible.                                                      *)
LEMMA BilledShows ==
  ASSUME LedgerInv, Billed
  PROVE  spent' # spent
<1>1. PICK cost \in 1 .. MaxCost : spent' = [spent EXCEPT ![day] = spent[day] + cost]
  BY DEF Billed, Charge
<1>2. spent \in [0 .. MaxDay -> Nat] /\ day \in 0 .. MaxDay /\ cost \in Nat \ {0}
  BY AssistantAssumption DEF LedgerInv
<1>3. spent'[day] = spent[day] + cost /\ spent[day] \in Nat
  BY <1>1, <1>2
<1>4. \A n \in Nat, c \in Nat \ {0} : n + c # n
  OBVIOUS
<1> QED
  BY <1>2, <1>3, <1>4

LEMMA StreamLeft ==
  ASSUME TurnInv, NEW t \in Turn, Chat(t) \/ Command(t) \/ Serve(t) \/ Disconnect(t),
         Streaming(t), <<turn'[t].at, turn'[t].backend>> # <<"narrate", turn[t].backend>>
  PROVE  Billed
<1>1. turn[t] \in TurnRecord /\ turn[t].at = "narrate" /\ turn[t].reached
  BY DEF TurnInv, Streaming, At
<1>2. Delta(t) \/ StreamFails(t) \/ StreamEnds(t) \/ Disconnect(t)
  BY <1>1 DEF Chat, Command, Open, Live, Serve, Context, Preflight, FirstCheckpoint, PlanFails,
     BodyUnreadable, PlanUnreadable, PlanAnswers, Tool, CommandTool, SecondCheckpoint, Reach,
     Unreachable, At
<1>3. CASE Delta(t)
  <2>1. PICK words, text :
          Billed \/ Put(t, [[turn[t] EXCEPT !.said = words] EXCEPT !.shown = text])
    BY <1>3 DEF Delta
  <2>2. /\ [[turn[t] EXCEPT !.said = words] EXCEPT !.shown = text].at = "narrate"
        /\ [[turn[t] EXCEPT !.said = words] EXCEPT !.shown = text].backend = turn[t].backend
    BY <1>1 DEF TurnRecord
  <2> QED
    BY <2>1, <2>2, PutEffect
<1>4. CASE StreamFails(t) \/ StreamEnds(t) \/ Disconnect(t)
  BY <1>4 DEF StreamFails, StreamEnds, Disconnect
<1> QED
  BY <1>2, <1>3, <1>4

(* What a provider has begun to generate is charged, however the stream is   *)
(* left: the finally clause of each client records the usage.                *)
THEOREM NothingGeneratedIsFree == Spec => GenerationIsCharged
<1> DEFINE Charged ==
      \A t \in Turn :
        Streaming(t) /\ <<turn'[t].at, turn'[t].backend>> # <<"narrate", turn[t].backend>>
          => spent' # spent
<1>1. ASSUME TurnInv, BudgetInv, [Next]_vars
      PROVE  [Charged]_vars
  <2> SUFFICES ASSUME NEW t \in Turn, Streaming(t),
                      <<turn'[t].at, turn'[t].backend>> # <<"narrate", turn[t].backend>>
               PROVE  spent' # spent
    OBVIOUS
  <2>1. turn'[t] # turn[t]
    BY DEF Streaming, At
  <2>2. PICK u \in Turn : Chat(u) \/ Command(u) \/ Serve(u) \/ Disconnect(u)
    BY <1>1, <2>1 DEF Next, NextDay, vars
  <2>3. u = t
    <3>1. PICK r : Put(u, r)
      BY <2>2 DEF Chat, Command, Open, Disconnect, Abandon, Serve, Context, Preflight,
         FirstCheckpoint, PlanFails, BodyUnreadable, PlanUnreadable, PlanAnswers, Tool,
         CommandTool, SecondCheckpoint, Reach, Unreachable, Delta, StreamFails, StreamEnds,
         FailOver, Answer, Error
    <3> QED
      BY <1>1, <2>1, <3>1, PutEffect
  <2> QED
    BY <1>1, <2>2, <2>3, StreamLeft, BilledShows DEF BudgetInv
<1>2. TurnInv /\ BudgetInv /\ [Next]_vars => [Charged]_vars
  BY <1>1
<1>3. Spec => [][Charged]_vars
  BY <1>2, BudgetIsBounded, PTL DEF Spec
<1> QED
  BY <1>3 DEF GenerationIsCharged

-----------------------------------------------------------------------------

SettingsInv == narrate \in BOOLEAN /\ opened \in 0 .. MaxTurns

LEMMA SettingsStep == SettingsInv /\ [Next]_vars => SettingsInv'
<1> SUFFICES ASSUME SettingsInv, [Next]_vars PROVE SettingsInv'
  OBVIOUS
<1>1. ASSUME NEW t \in Turn, Chat(t) \/ Command(t)
      PROVE  narrate' = narrate /\ opened < MaxTurns /\ opened' = opened + 1
  BY <1>1 DEF Chat, Command, Open
<1>2. ASSUME NEW t \in Turn, Serve(t) \/ Disconnect(t)
      PROVE  narrate' = narrate /\ opened' = opened
  BY <1>2 DEF Serve, Disconnect, Idle, Context, Preflight, FirstCheckpoint, PlanFails,
     BodyUnreadable, PlanUnreadable, PlanAnswers, Tool, CommandTool, SecondCheckpoint, Reach,
     Unreachable, Delta, StreamFails, StreamEnds
<1>3. CASE NextDay \/ UNCHANGED vars
  BY <1>3 DEF NextDay, vars, SettingsInv
<1> QED
  BY <1>1, <1>2, <1>3, AssistantAssumption DEF Next, SettingsInv

(* Every variable keeps its type: no call goes past the end of the chain,    *)
(* and the token counter is never of a day to come.                          *)
THEOREM TypeCorrect == Spec => []TypeOK
<1>1. Init => SettingsInv
  BY AssistantAssumption DEF Init, SettingsInv
<1>2. TurnInv /\ BudgetInv /\ SettingsInv => TypeOK
  BY DEF TurnInv, TurnRecord, BudgetInv, LedgerInv, SettingsInv, TypeOK
<1> QED
  BY <1>1, <1>2, SettingsStep, BudgetIsBounded, PTL DEF Spec

-----------------------------------------------------------------------------
(* Turns run down.                                                           *)

(* The most steps a narration takes that has not begun, and its checkpoint.  *)
Narration == 2 * Chain + MaxWords + 1

(* The most steps the server still takes for a turn: one for every failure   *)
(* of a backend and every connection to one, one for every word, and those   *)
(* from stage to stage.                                                      *)
StepsLeft(r) ==
    CASE r.at = "closed" -> 0
      [] r.at = "command" -> 1
      [] r.at = "narrate" ->
           2 * (Chain - r.backend) + (MaxWords - Len(r.said)) + (IF r.reached THEN 1 ELSE 2)
      [] r.at = "checkpoint" -> Narration
      [] r.at = "tool" -> Narration + 1
      [] r.at = "plan" -> Narration + 2 + (Chain - r.backend)
      [] r.at = "guard" -> Narration + 2 + Chain
      [] r.at = "context" -> Narration + 3 + Chain

Concise(r) == Len(r.said) <= MaxWords

ConciseInv == \A t \in Turn : Concise(turn[t])

(* A step of the server brings a turn nearer to its end, and nobody else's   *)
(* step concerns it.                                                         *)
RunsDown ==
    \A t \in Turn :
      Live(t) => IF Serve(t) \/ Disconnect(t)
                 THEN StepsLeft(turn'[t]) < StepsLeft(turn[t])
                 ELSE turn'[t] = turn[t]

Shrinks(t) == Concise(turn'[t]) /\ StepsLeft(turn'[t]) < StepsLeft(turn[t])

LEMMA StagesLeft ==
  ASSUME NEW r \in TurnRecord
  PROVE  /\ r.at = "closed" => StepsLeft(r) = 0
         /\ r.at = "command" => StepsLeft(r) = 1
         /\ r.at = "narrate" => StepsLeft(r) =
              2 * (Chain - r.backend) + (MaxWords - Len(r.said)) + (IF r.reached THEN 1 ELSE 2)
         /\ r.at = "checkpoint" => StepsLeft(r) = Narration
         /\ r.at = "tool" => StepsLeft(r) = Narration + 1
         /\ r.at = "plan" => StepsLeft(r) = Narration + 2 + (Chain - r.backend)
         /\ r.at = "guard" => StepsLeft(r) = Narration + 2 + Chain
         /\ r.at = "context" => StepsLeft(r) = Narration + 3 + Chain
<1>1. CASE r.at = "closed"
  BY <1>1 DEF StepsLeft
<1>2. CASE r.at = "command"
  BY <1>2 DEF StepsLeft
<1>3. CASE r.at = "narrate"
  BY <1>3 DEF StepsLeft
<1>4. CASE r.at = "checkpoint"
  BY <1>4 DEF StepsLeft
<1>5. CASE r.at = "tool"
  BY <1>5 DEF StepsLeft
<1>6. CASE r.at = "plan"
  BY <1>6 DEF StepsLeft
<1>7. CASE r.at = "guard"
  BY <1>7 DEF StepsLeft
<1>8. CASE r.at = "context"
  BY <1>8 DEF StepsLeft
<1> QED
  BY <1>1, <1>2, <1>3, <1>4, <1>5, <1>6, <1>7, <1>8 DEF TurnRecord, Stage

(* The numbers a turn counts with.                                           *)
LEMMA TurnNumbers ==
  ASSUME NEW r \in TurnRecord
  PROVE  /\ r.backend \in 1 .. Chain /\ Len(r.said) \in Nat
         /\ Chain \in Nat /\ MaxWords \in Nat /\ Narration \in Nat
         /\ Narration = 2 * Chain + MaxWords + 1
<1>1. Len(r.said) \in Nat
  BY LenProperties DEF TurnRecord
<1> QED
  BY <1>1, AssistantAssumption DEF TurnRecord, Backend, Narration

(* A narration takes a step or more; another backend or word uses one up.    *)
LEMMA NarrationCounts ==
  ASSUME NEW c \in Nat, NEW b \in 1 .. c, NEW m \in Nat, NEW n \in 0 .. m, NEW k \in {1, 2}
  PROVE  /\ 2 * (c - b) + (m - n) + k \in 1 .. 2 * c + m
         /\ b < c => 2 * (c - (b + 1)) + (m - n) + 2 < 2 * (c - b) + (m - n) + k
         /\ n < m => 2 * (c - b) + (m - (n + 1)) + k < 2 * (c - b) + (m - n) + k
OBVIOUS

(* A turn that is open has a step to take, and never many.                   *)
LEMMA LeftBounds ==
  ASSUME NEW r \in TurnRecord, Concise(r)
  PROVE  /\ StepsLeft(r) \in 0 .. Narration + 3 + Chain
         /\ r.at # "closed" => StepsLeft(r) >= 1
<1>1. PICK c, b, m, n, l, k :
        /\ c = Chain /\ b = r.backend /\ m = MaxWords /\ n = Len(r.said) /\ l = StepsLeft(r)
        /\ k = IF r.reached THEN 1 ELSE 2
  OBVIOUS
<1>2. /\ c \in Nat /\ b \in 1 .. c /\ m \in Nat /\ n \in 0 .. m /\ k \in {1, 2}
      /\ Narration = 2 * c + m + 1
  BY <1>1, TurnNumbers DEF Concise
<1>3. /\ r.at = "closed" => l = 0
      /\ r.at # "closed" =>
           l \in {1, 2 * (c - b) + (m - n) + k, 2 * c + m + 1, 2 * c + m + 2,
                  2 * c + m + 3 + (c - b), 2 * c + m + 3 + c, 2 * c + m + 4 + c}
  <2>1. r.at \in Stage
    BY DEF TurnRecord
  <2>2. CASE r.at = "narrate"
    BY <1>1, <2>2, StagesLeft
  <2>3. CASE r.at \in {"closed", "command"}
    BY <1>1, <2>3, StagesLeft
  <2>4. CASE r.at \in {"checkpoint", "tool"}
    <3>1. l = Narration \/ l = Narration + 1
      BY <1>1, <2>4, StagesLeft
    <3>2. l = 2 * c + m + 1 \/ l = 2 * c + m + 2
      BY <1>2, <3>1
    <3> QED
      BY <2>4, <3>2
  <2>5. CASE r.at \in {"plan", "guard", "context"}
    <3>1. l = Narration + 2 + (c - b) \/ l = Narration + 2 + c \/ l = Narration + 3 + c
      BY <1>1, <2>5, StagesLeft
    <3>2. l = 2 * c + m + 3 + (c - b) \/ l = 2 * c + m + 3 + c \/ l = 2 * c + m + 4 + c
      BY <1>2, <3>1
    <3> QED
      BY <2>5, <3>2
  <2> QED
    BY <2>1, <2>2, <2>3, <2>4, <2>5 DEF Stage
<1>4. l \in 0 .. 2 * c + m + 1 + 3 + c /\ (r.at # "closed" => l >= 1)
  <2>1. CASE r.at = "closed"
    BY <1>2, <1>3, <2>1
  <2>2. CASE r.at # "closed"
    <3>1. l >= 1 /\ l \in 0 .. 2 * c + m + 1 + 3 + c
      BY <1>2, <1>3, <2>2, NarrationCounts
    <3> QED
      BY <3>1
  <2> QED
    BY <2>1, <2>2
<1> QED
  BY <1>1, <1>2, <1>4

LEMMA PutShrinks ==
  ASSUME TurnInv, NEW t \in Turn, NEW r, Put(t, r), Concise(r), StepsLeft(r) < StepsLeft(turn[t])
  PROVE  Shrinks(t)
BY PutEffect DEF Shrinks

LEMMA EndShrinks ==
  ASSUME TurnInv, ConciseInv, NEW t \in Turn, Live(t), NEW r \in TurnRecord,
         r.at = "closed", Concise(r), Put(t, r)
  PROVE  Shrinks(t)
<1>1. StepsLeft(r) = 0
  BY StagesLeft
<1>2. turn[t] \in TurnRecord /\ turn[t].at # "closed" /\ Concise(turn[t])
  BY DEF TurnInv, ConciseInv, Live, At
<1>3. StepsLeft(turn[t]) \in Int /\ StepsLeft(turn[t]) >= 1
  BY <1>2, LeftBounds, TurnNumbers
<1> QED
  BY <1>1, <1>3, PutShrinks

LEMMA AnswerShrinks ==
  ASSUME TurnInv, ConciseInv, NEW t \in Turn, Live(t), Answer(t) \/ Error(t) \/ Abandon(t)
  PROVE  Shrinks(t)
<1>1. turn[t] \in TurnRecord /\ Concise(turn[t]) /\ turn[t].shown \in Seq(Word)
  BY DEF TurnInv, ConciseInv, TurnRecord
<1>2. CASE Answer(t)
  <2>1. PICK e : e = Ended(turn[t], "done", AppText) /\ Put(t, e)
    BY <1>2 DEF Answer
  <2>2. e \in TurnRecord /\ e.at = "closed" /\ e.said = turn[t].said
    <3>1. "done" \in Ending /\ AppText \in Seq(Word)
      BY <1>1, AppTexts DEF Ending
    <3> QED
      BY <1>1, <2>1, <3>1, EndedFields
  <2> QED
    BY <1>1, <2>1, <2>2, EndShrinks DEF Concise
<1>3. CASE Error(t)
  <2>1. PICK e : e = Ended(turn[t], "error", turn[t].shown) /\ Put(t, e)
    BY <1>3 DEF Error
  <2>2. e \in TurnRecord /\ e.at = "closed" /\ e.said = turn[t].said
    <3>1. "error" \in Ending /\ turn[t].shown \in Seq(Word)
      BY <1>1, AppTexts DEF Ending
    <3> QED
      BY <1>1, <2>1, <3>1, EndedFields
  <2> QED
    BY <1>1, <2>1, <2>2, EndShrinks DEF Concise
<1>4. CASE Abandon(t)
  <2>1. PICK e : e = [Closed EXCEPT !.ended = "gone"] /\ Put(t, e)
    BY <1>4 DEF Abandon
  <2>2. e \in TurnRecord /\ e.at = "closed" /\ e.said = <<>>
    BY <2>1, ClosedType DEF TurnRecord, Ending
  <2>3. Concise(e)
    BY <2>2, AssistantAssumption DEF Concise
  <2> QED
    BY <2>1, <2>2, <2>3, EndShrinks
<1> QED
  BY <1>2, <1>3, <1>4

(* A turn that goes on from one stage to another, and what it said stays.    *)
LEMMA MoveShrinks ==
  ASSUME TurnInv, ConciseInv, NEW t \in Turn, NEW r \in TurnRecord, Put(t, r),
         r.said = turn[t].said, StepsLeft(r) < StepsLeft(turn[t])
  PROVE  Shrinks(t)
<1>1. Concise(r)
  BY DEF ConciseInv, Concise
<1> QED
  BY <1>1, PutShrinks

(* Before the first word the next backend is asked, once each.               *)
LEMMA FailOverShrinks ==
  ASSUME TurnInv, ConciseInv, NEW t \in Turn, At(t, "narrate"), FailOver(t)
  PROVE  Shrinks(t)
<1>1. turn[t] \in TurnRecord /\ turn[t].at = "narrate" /\ Live(t)
  BY DEF TurnInv, At, Live
<1>2. CASE Answer(t)
  BY <1>1, <1>2, AnswerShrinks
<1>3. CASE /\ turn[t].backend < Chain
           /\ Put(t, [turn[t] EXCEPT !.backend = @ + 1, !.reached = FALSE])
  <2>1. PICK r : r = [turn[t] EXCEPT !.backend = @ + 1, !.reached = FALSE] /\ Put(t, r)
    BY <1>3
  <2>2. turn[t].backend + 1 \in Backend
    BY <1>1, <1>3, TurnNumbers DEF Backend
  <2>3. r \in TurnRecord
    BY <1>1, <2>1, <2>2 DEF TurnRecord
  <2>4. /\ r.at = "narrate" /\ r.backend = turn[t].backend + 1 /\ ~r.reached
        /\ r.said = turn[t].said
    BY <1>1, <2>1 DEF TurnRecord
  <2>5. PICK c, b, m, n, k :
          /\ c = Chain /\ b = turn[t].backend /\ m = MaxWords /\ n = Len(turn[t].said)
          /\ k = IF turn[t].reached THEN 1 ELSE 2
    OBVIOUS
  <2>6. StepsLeft(turn[t]) = 2 * (c - b) + (m - n) + k
    BY <1>1, <2>5, StagesLeft
  <2>7. StepsLeft(r) = 2 * (c - (b + 1)) + (m - n) + 2
    BY <2>3, <2>4, <2>5, StagesLeft
  <2>8. c \in Nat /\ b \in 1 .. c /\ b < c /\ m \in Nat /\ n \in 0 .. m /\ k \in {1, 2}
    BY <1>1, <1>3, <2>5, TurnNumbers DEF ConciseInv, Concise
  <2>9. StepsLeft(r) < StepsLeft(turn[t])
    BY <2>6, <2>7, <2>8, NarrationCounts
  <2> QED
    BY <2>1, <2>3, <2>4, <2>9, MoveShrinks
<1> QED
  BY <1>2, <1>3 DEF FailOver

(* A word more is one word less to come.                                     *)
LEMMA DeltaShrinks ==
  ASSUME TurnInv, ConciseInv, NEW t \in Turn, Delta(t)
  PROVE  Shrinks(t)
<1>1. /\ turn[t] \in TurnRecord /\ turn[t].at = "narrate" /\ turn[t].reached /\ Live(t)
      /\ Len(turn[t].said) < MaxWords
  BY DEF TurnInv, Delta, Streaming, At, Live
<1>2. PICK reads \in {"fine", "cut", "forbidden"} :
        LET words == Append(turn[t].said, [by |-> turn[t].backend, reads |-> reads])
            heard == [turn[t] EXCEPT !.said = words]
        IN  \/ Put(t, Ended(heard, "done", Redirect))
            \/ Put(t, [heard EXCEPT !.shown = Longer(@, Released(words))])
  BY DEF Delta
<1> DEFINE w == [by |-> turn[t].backend, reads |-> reads]
           words == Append(turn[t].said, w)
<1>3. w \in Word
  BY <1>1 DEF Word, TurnRecord
<1>4. /\ words \in Seq(Word) /\ Len(words) = Len(turn[t].said) + 1
  BY <1>1, <1>3, AppendProperties DEF TurnRecord
<1>5. PICK heard : heard = [turn[t] EXCEPT !.said = words]
  OBVIOUS
<1>6. \/ Put(t, Ended(heard, "done", Redirect))
      \/ Put(t, [heard EXCEPT !.shown = Longer(heard.shown, Released(words))])
  BY <1>2, <1>5
<1> HIDE DEF words
<1>7. /\ heard \in TurnRecord /\ heard.at = "narrate" /\ heard.reached
      /\ heard.said = words /\ heard.backend = turn[t].backend
  BY <1>1, <1>4, <1>5 DEF TurnRecord
<1>8. Len(words) <= MaxWords
  BY <1>1, <1>4, TurnNumbers
<1>9. CASE Put(t, Ended(heard, "done", Redirect))
  <2>1. PICK e : e = Ended(heard, "done", Redirect) /\ Put(t, e)
    BY <1>9
  <2>2. e \in TurnRecord /\ e.at = "closed" /\ e.said = heard.said
    <3>1. "done" \in Ending /\ Redirect \in Seq(Word)
      BY <1>7, AppTexts DEF Ending
    <3> QED
      BY <1>7, <2>1, <3>1, EndedFields
  <2>3. Concise(e)
    BY <1>7, <1>8, <2>2 DEF Concise
  <2> QED
    BY <1>1, <2>1, <2>2, <2>3, EndShrinks
<1>10. CASE Put(t, [heard EXCEPT !.shown = Longer(heard.shown, Released(words))])
  <2>1. PICK text : text = Longer(heard.shown, Released(words))
    OBVIOUS
  <2>2. PICK r : r = [heard EXCEPT !.shown = text] /\ Put(t, r)
    BY <1>10, <2>1
  <2>3. text \in Seq(Word)
    <3>1. Released(words) \in Seq(Word)
      BY <1>4, ReleasedProperties
    <3> QED
      BY <1>7, <2>1, <3>1 DEF Longer, TurnRecord
  <2>4. /\ r \in TurnRecord /\ r.at = "narrate" /\ r.reached
        /\ r.said = words /\ r.backend = turn[t].backend
    BY <1>7, <2>2, <2>3 DEF TurnRecord
  <2>5. PICK c, b, m, n :
          c = Chain /\ b = turn[t].backend /\ m = MaxWords /\ n = Len(turn[t].said)
    OBVIOUS
  <2>6. StepsLeft(turn[t]) = 2 * (c - b) + (m - n) + 1
    BY <1>1, <2>5, StagesLeft
  <2>7. StepsLeft(r) = 2 * (c - b) + (m - (n + 1)) + 1
    BY <1>4, <2>4, <2>5, StagesLeft
  <2>8. c \in Nat /\ b \in 1 .. c /\ m \in Nat /\ n \in 0 .. m /\ n < m
    BY <1>1, <2>5, TurnNumbers
  <2>9. StepsLeft(r) < StepsLeft(turn[t])
    BY <2>6, <2>7, <2>8, NarrationCounts
  <2>10. Concise(r)
    BY <1>8, <2>4 DEF Concise
  <2> QED
    BY <2>2, <2>9, <2>10, PutShrinks
<1> QED
  BY <1>6, <1>9, <1>10

(* From one stage to a later one before anything is said.                    *)
LEMMA StageShrinks ==
  ASSUME TurnInv, ConciseInv, NEW t \in Turn, NEW r \in TurnRecord, Put(t, r),
         r.said = turn[t].said,
         \/ turn[t].at = "context" /\ r.at = "guard"
         \/ turn[t].at = "guard" /\ r.at \in {"plan", "tool"}
         \/ turn[t].at = "plan" /\ r.at \in {"tool", "checkpoint"}
         \/ turn[t].at = "tool" /\ r.at = "checkpoint"
         \/ turn[t].at = "plan" /\ r.at = "plan" /\ r.backend = turn[t].backend + 1
  PROVE  Shrinks(t)
<1>1. turn[t] \in TurnRecord
  BY DEF TurnInv
<1>2. PICK n, c, b, d : n = Narration /\ c = Chain /\ b = turn[t].backend /\ d = r.backend
  OBVIOUS
<1>3. n \in Nat /\ c \in Nat /\ b \in 1 .. c /\ d \in 1 .. c
  BY <1>1, <1>2, TurnNumbers
<1>4. /\ turn[t].at = "context" => StepsLeft(turn[t]) = n + 3 + c
      /\ turn[t].at = "guard" => StepsLeft(turn[t]) = n + 2 + c
      /\ turn[t].at = "plan" => StepsLeft(turn[t]) = n + 2 + (c - b)
      /\ turn[t].at = "tool" => StepsLeft(turn[t]) = n + 1
  BY <1>1, <1>2, StagesLeft
<1>5. /\ r.at = "guard" => StepsLeft(r) = n + 2 + c
      /\ r.at = "plan" => StepsLeft(r) = n + 2 + (c - d)
      /\ r.at = "tool" => StepsLeft(r) = n + 1
      /\ r.at = "checkpoint" => StepsLeft(r) = n
  BY <1>2, StagesLeft
<1>6. StepsLeft(r) < StepsLeft(turn[t])
  <2>1. CASE turn[t].at = "context" /\ r.at = "guard"
    BY <1>3, <1>4, <1>5, <2>1
  <2>2. CASE turn[t].at = "guard" /\ r.at \in {"plan", "tool"}
    BY <1>3, <1>4, <1>5, <2>2
  <2>3. CASE turn[t].at = "plan" /\ r.at \in {"tool", "checkpoint"}
    BY <1>3, <1>4, <1>5, <2>3
  <2>4. CASE turn[t].at = "tool" /\ r.at = "checkpoint"
    BY <1>3, <1>4, <1>5, <2>4
  <2>5. CASE turn[t].at = "plan" /\ r.at = "plan" /\ r.backend = turn[t].backend + 1
    <3>1. d = b + 1
      BY <1>2, <2>5
    <3> QED
      BY <1>3, <1>4, <1>5, <2>5, <3>1
  <2> QED
    BY <2>1, <2>2, <2>3, <2>4, <2>5
<1> QED
  BY <1>6, MoveShrinks

LEMMA BeforeModelShrinks ==
  ASSUME TurnInv, ConciseInv, NEW t \in Turn,
         Context(t) \/ Preflight(t) \/ FirstCheckpoint(t) \/ Tool(t) \/ CommandTool(t)
  PROVE  Live(t) /\ Shrinks(t)
<1>1. turn[t] \in TurnRecord
  BY DEF TurnInv
<1>2. turn[t].at \in {"context", "guard", "tool", "command"}
  BY DEF Context, Preflight, FirstCheckpoint, Tool, CommandTool, At
<1>3. Live(t)
  BY <1>2 DEF Live, At
<1>4. CASE Answer(t) \/ Error(t)
  BY <1>3, <1>4, AnswerShrinks
<1>5. CASE turn[t].at = "context" /\ Put(t, [turn[t] EXCEPT !.at = "guard", !.txn = TRUE])
  <2>1. PICK r : r = [turn[t] EXCEPT !.at = "guard", !.txn = TRUE] /\ Put(t, r)
    BY <1>5
  <2>2. r \in TurnRecord /\ r.at = "guard" /\ r.said = turn[t].said
    BY <1>1, <2>1 DEF TurnRecord, Stage
  <2> QED
    BY <1>3, <1>5, <2>1, <2>2, StageShrinks
<1>6. CASE /\ turn[t].at = "guard"
           /\ \E next \in {"plan", "tool"} : Put(t, [turn[t] EXCEPT !.at = next, !.txn = FALSE])
  <2>1. PICK next \in {"plan", "tool"} : Put(t, [turn[t] EXCEPT !.at = next, !.txn = FALSE])
    BY <1>6
  <2>2. PICK r : r = [turn[t] EXCEPT !.at = next, !.txn = FALSE] /\ Put(t, r)
    BY <2>1
  <2>3. r \in TurnRecord /\ r.at = next /\ r.said = turn[t].said
    BY <1>1, <2>2 DEF TurnRecord, Stage
  <2> QED
    BY <1>3, <1>6, <2>2, <2>3, StageShrinks
<1>7. CASE turn[t].at = "tool" /\ Put(t, [turn[t] EXCEPT !.at = "checkpoint", !.txn = TRUE])
  <2>1. PICK r : r = [turn[t] EXCEPT !.at = "checkpoint", !.txn = TRUE] /\ Put(t, r)
    BY <1>7
  <2>2. r \in TurnRecord /\ r.at = "checkpoint" /\ r.said = turn[t].said
    BY <1>1, <2>1 DEF TurnRecord, Stage
  <2> QED
    BY <1>3, <1>7, <2>1, <2>2, StageShrinks
<1> QED
  BY <1>3, <1>4, <1>5, <1>6, <1>7
     DEF Context, Preflight, FirstCheckpoint, Tool, CommandTool, At

LEMMA PlanShrinks ==
  ASSUME TurnInv, ConciseInv, NEW t \in Turn,
         PlanFails(t) \/ BodyUnreadable(t) \/ PlanUnreadable(t) \/ PlanAnswers(t)
  PROVE  Live(t) /\ Shrinks(t)
<1>1. turn[t] \in TurnRecord /\ turn[t].at = "plan"
  BY DEF TurnInv, PlanFails, BodyUnreadable, PlanUnreadable, PlanAnswers, At
<1>2. Live(t)
  BY <1>1 DEF Live, At
<1>3. CASE Answer(t) \/ Error(t)
  BY <1>2, <1>3, AnswerShrinks
<1>4. CASE turn[t].backend < Chain /\ Put(t, [turn[t] EXCEPT !.backend = @ + 1])
  <2>1. PICK r : r = [turn[t] EXCEPT !.backend = @ + 1] /\ Put(t, r)
    BY <1>4
  <2>2. turn[t].backend + 1 \in Backend
    BY <1>1, <1>4, TurnNumbers DEF Backend
  <2>3. /\ r \in TurnRecord /\ r.at = "plan" /\ r.backend = turn[t].backend + 1
        /\ r.said = turn[t].said
    BY <1>1, <2>1, <2>2 DEF TurnRecord
  <2> QED
    BY <1>1, <1>2, <2>1, <2>3, StageShrinks
<1>5. CASE \E stage \in {"tool", "checkpoint"} : Put(t, [turn[t] EXCEPT !.at = stage])
  <2>1. PICK stage \in {"tool", "checkpoint"} : Put(t, [turn[t] EXCEPT !.at = stage])
    BY <1>5
  <2>2. PICK r : r = [turn[t] EXCEPT !.at = stage] /\ Put(t, r)
    BY <2>1
  <2>3. r \in TurnRecord /\ r.at = stage /\ r.said = turn[t].said
    BY <1>1, <2>2 DEF TurnRecord, Stage
  <2> QED
    BY <1>1, <1>2, <2>2, <2>3, StageShrinks
<1> QED
  BY <1>2, <1>3, <1>4, <1>5 DEF PlanFails, BodyUnreadable, PlanUnreadable, PlanAnswers

(* The narration begins with the first backend again.                        *)
LEMMA SecondCheckpointShrinks ==
  ASSUME TurnInv, ConciseInv, NEW t \in Turn, SecondCheckpoint(t)
  PROVE  Live(t) /\ Shrinks(t)
<1>1. turn[t] \in TurnRecord /\ turn[t].at = "checkpoint" /\ turn[t].said = <<>>
  BY DEF TurnInv, Sound, SecondCheckpoint, At
<1>2. Live(t)
  BY <1>1 DEF Live, At
<1>3. CASE Error(t)
  BY <1>2, <1>3, AnswerShrinks
<1>4. CASE Put(t, [turn[t] EXCEPT !.at = "narrate", !.txn = FALSE, !.backend = 1])
  <2>1. PICK r : r = [turn[t] EXCEPT !.at = "narrate", !.txn = FALSE, !.backend = 1] /\ Put(t, r)
    BY <1>4
  <2>2. 1 \in Backend
    BY AssistantAssumption DEF Backend
  <2>3. /\ r \in TurnRecord /\ r.at = "narrate" /\ r.backend = 1 /\ r.said = turn[t].said
    BY <1>1, <2>1, <2>2 DEF TurnRecord, Stage
  <2>4. PICK c, m, n, k :
          /\ c = Chain /\ m = MaxWords /\ n = Len(r.said)
          /\ k = IF r.reached THEN 1 ELSE 2
    OBVIOUS
  <2>5. c \in Nat \ {0} /\ 1 \in 1 .. c /\ m \in Nat /\ n = 0 /\ n \in 0 .. m /\ k \in {1, 2}
    BY <1>1, <2>3, <2>4, AssistantAssumption
  <2>6. StepsLeft(r) = 2 * (c - 1) + (m - n) + k
    BY <2>3, <2>4, StagesLeft
  <2>7. StepsLeft(turn[t]) = 2 * c + m + 1
    BY <1>1, <2>4, StagesLeft, TurnNumbers
  <2>8. StepsLeft(r) < StepsLeft(turn[t])
    BY <2>5, <2>6, <2>7
  <2> QED
    BY <1>2, <2>1, <2>3, <2>8, MoveShrinks
<1> QED
  BY <1>3, <1>4 DEF SecondCheckpoint

LEMMA ReachShrinks ==
  ASSUME TurnInv, ConciseInv, NEW t \in Turn, Reach(t)
  PROVE  Shrinks(t)
<1>1. turn[t] \in TurnRecord /\ turn[t].at = "narrate" /\ ~turn[t].reached
  BY DEF TurnInv, Reach, At
<1>2. PICK r : r = [turn[t] EXCEPT !.reached = TRUE] /\ Put(t, r)
  BY DEF Reach
<1>3. /\ r \in TurnRecord /\ r.at = "narrate" /\ r.backend = turn[t].backend /\ r.reached
      /\ r.said = turn[t].said
  BY <1>1, <1>2 DEF TurnRecord
<1>4. PICK l : l = 2 * (Chain - turn[t].backend) + (MaxWords - Len(turn[t].said))
  OBVIOUS
<1>5. l \in Int
  BY <1>1, <1>4, TurnNumbers
<1>6. StepsLeft(r) = l + 1 /\ StepsLeft(turn[t]) = l + 2
  BY <1>1, <1>3, <1>4, StagesLeft
<1>7. StepsLeft(r) < StepsLeft(turn[t])
  BY <1>5, <1>6
<1> QED
  BY <1>2, <1>3, <1>7, MoveShrinks

LEMMA NarrationShrinks ==
  ASSUME TurnInv, ConciseInv, NEW t \in Turn,
         Reach(t) \/ Unreachable(t) \/ Delta(t) \/ StreamFails(t) \/ StreamEnds(t)
  PROVE  Live(t) /\ Shrinks(t)
<1>1. turn[t] \in TurnRecord /\ Concise(turn[t]) /\ At(t, "narrate") /\ Live(t)
  BY DEF TurnInv, ConciseInv, Reach, Unreachable, Delta, StreamFails, StreamEnds, Streaming,
     At, Live
<1>2. CASE Reach(t)
  BY <1>1, <1>2, ReachShrinks
<1>3. CASE Delta(t)
  BY <1>1, <1>3, DeltaShrinks
<1>4. CASE FailOver(t) \/ Answer(t)
  BY <1>1, <1>4, FailOverShrinks, AnswerShrinks
<1>5. CASE \E text \in Seq(Word) : Put(t, Ended(turn[t], "done", text))
  <2>1. PICK text \in Seq(Word) : Put(t, Ended(turn[t], "done", text))
    BY <1>5
  <2>2. PICK e : e = Ended(turn[t], "done", text) /\ Put(t, e)
    BY <2>1
  <2>3. e \in TurnRecord /\ e.at = "closed" /\ e.said = turn[t].said
    <3>1. "done" \in Ending
      BY DEF Ending
    <3> QED
      BY <1>1, <2>2, <3>1, EndedFields
  <2> QED
    BY <1>1, <2>2, <2>3, EndShrinks DEF Concise
<1>6. Redirect \in Seq(Word) /\ turn[t].said \in Seq(Word)
  BY <1>1, AppTexts DEF TurnRecord
<1> QED
  BY <1>1, <1>2, <1>3, <1>4, <1>5, <1>6 DEF Unreachable, StreamFails, StreamEnds

LEMMA ServeShrinks ==
  ASSUME TurnInv, ConciseInv, NEW t \in Turn, Serve(t) \/ Disconnect(t)
  PROVE  Live(t) /\ Shrinks(t)
<1>1. CASE Disconnect(t)
  BY <1>1, AnswerShrinks DEF Disconnect
<1>2. CASE Serve(t)
  BY <1>2, BeforeModelShrinks, PlanShrinks, SecondCheckpointShrinks, NarrationShrinks DEF Serve
<1> QED
  BY <1>1, <1>2

LEMMA SomeoneElse ==
  ASSUME TurnInv, NEW t \in Turn, NEW u \in Turn, u # t,
         Chat(u) \/ Command(u) \/ Serve(u) \/ Disconnect(u)
  PROVE  turn'[t] = turn[t]
<1>1. PICK r : Put(u, r)
  BY DEF Chat, Command, Open, Disconnect, Abandon, Serve, Context, Preflight,
     FirstCheckpoint, PlanFails, BodyUnreadable, PlanUnreadable, PlanAnswers, Tool,
     CommandTool, SecondCheckpoint, Reach, Unreachable, Delta, StreamFails, StreamEnds,
     FailOver, Answer, Error
<1> QED
  BY <1>1, PutEffect

LEMMA TurnStepRunsDown ==
  ASSUME TurnInv, ConciseInv, [Next]_vars, NEW t \in Turn
  PROVE  /\ Concise(turn'[t])
         /\ Serve(t) \/ Disconnect(t) => StepsLeft(turn'[t]) < StepsLeft(turn[t])
         /\ Live(t) /\ ~(Serve(t) \/ Disconnect(t)) => turn'[t] = turn[t]
<1>1. Concise(turn[t])
  BY DEF ConciseInv
<1>2. CASE Serve(t) \/ Disconnect(t)
  BY <1>2, ServeShrinks DEF Shrinks
<1>3. CASE ~(Serve(t) \/ Disconnect(t))
  <2>1. CASE UNCHANGED turn
    BY <1>1, <1>3, <2>1
  <2>2. CASE Chat(t) \/ Command(t)
    <3>1. PICK stage \in {"context", "command"} :
            ~Live(t) /\ Put(t, [Closed EXCEPT !.at = stage])
      BY <2>2 DEF Chat, Command, Open
    <3>2. turn'[t] = [Closed EXCEPT !.at = stage]
      BY <3>1, PutEffect
    <3>3. turn'[t].said = <<>>
      BY <3>2, ClosedType DEF TurnRecord
    <3> QED
      BY <1>3, <3>1, <3>3, AssistantAssumption DEF Concise
  <2>3. ASSUME NEW u \in Turn, u # t, Chat(u) \/ Command(u) \/ Serve(u) \/ Disconnect(u)
        PROVE  turn'[t] = turn[t]
    BY <2>3, SomeoneElse
  <2> QED
    BY <1>1, <1>3, <2>1, <2>2, <2>3 DEF Next, NextDay, vars
<1> QED
  BY <1>2, <1>3

(* The safety half of TurnEnds.  Each step that agent.py, the failover chain *)
(* or the stream guard takes for a turn uses up one of finitely many: no     *)
(* chain is walked in circles, no stage is entered twice, and no other       *)
(* connection sets a turn back.  With Serve fair, a turn that can take a     *)
(* step must therefore end.                                                  *)
THEOREM TurnsRunDown ==
  Spec => /\ [][RunsDown]_vars
          /\ [](\A t \in Turn : /\ StepsLeft(turn[t]) \in 0 .. 3 * Chain + MaxWords + 4
                                /\ Live(t) => StepsLeft(turn[t]) >= 1)
<1> DEFINE Bounded ==
      \A t \in Turn : /\ StepsLeft(turn[t]) \in 0 .. 3 * Chain + MaxWords + 4
                      /\ Live(t) => StepsLeft(turn[t]) >= 1
<1>1. Init => ConciseInv
  <2> SUFFICES ASSUME Init, NEW t \in Turn PROVE Concise(turn[t])
    BY DEF ConciseInv
  <2>1. turn[t] = Closed
    BY DEF Init
  <2> QED
    BY <2>1, ClosedType, AssistantAssumption DEF Concise
<1>2. TurnInv /\ ConciseInv /\ [Next]_vars => ConciseInv' /\ [RunsDown]_vars
  <2> SUFFICES ASSUME TurnInv, ConciseInv, [Next]_vars PROVE ConciseInv' /\ RunsDown
    OBVIOUS
  <2>1. ConciseInv'
    BY TurnStepRunsDown DEF ConciseInv
  <2>2. RunsDown
    <3> SUFFICES ASSUME NEW t \in Turn, Live(t)
                 PROVE  IF Serve(t) \/ Disconnect(t)
                        THEN StepsLeft(turn'[t]) < StepsLeft(turn[t])
                        ELSE turn'[t] = turn[t]
      BY DEF RunsDown
    <3>1. CASE Serve(t) \/ Disconnect(t)
      BY <3>1, TurnStepRunsDown
    <3>2. CASE ~(Serve(t) \/ Disconnect(t))
      BY <3>2, TurnStepRunsDown
    <3> QED
      BY <3>1, <3>2
  <2> QED
    BY <2>1, <2>2
<1>3. TurnInv /\ ConciseInv => Bounded
  <2> SUFFICES ASSUME TurnInv, ConciseInv, NEW t \in Turn
               PROVE  /\ StepsLeft(turn[t]) \in 0 .. 3 * Chain + MaxWords + 4
                      /\ Live(t) => StepsLeft(turn[t]) >= 1
    BY DEF Bounded
  <2>1. turn[t] \in TurnRecord /\ Concise(turn[t])
    BY DEF TurnInv, ConciseInv
  <2>2. Narration + 3 + Chain = 3 * Chain + MaxWords + 4
    BY <2>1, TurnNumbers
  <2> QED
    BY <2>1, <2>2, LeftBounds DEF Live, At
<1> HIDE DEF Bounded
<1>4. Spec => [][RunsDown]_vars /\ []Bounded
  BY <1>1, <1>2, <1>3, TurnsAreSound, PTL DEF Spec
<1> QED
  BY <1>4 DEF Bounded
=============================================================================
