------------------------ MODULE TerminalTurns_proofs ------------------------
(***************************************************************************)
(* Proofs about the final answers of a terminal's turns: each turn that is *)
(* shown in screenshots is answered once, and to the chat it began for,    *)
(* and a text answer leaves out no output that collect has not dropped.    *)
(***************************************************************************)
EXTENDS TerminalTurns, TLAPS

HasTurn(f) == {"turn", "to", "mode", "at"} \subseteq DOMAIN f /\ f.turn \in 1 .. termTurn

\* The turn that the output handler has looked up is a turn that was begun.
OutInv ==
  /\ {"turn", "to", "mode"} \subseteq DOMAIN out
  /\ out.turn \in 0 .. termTurn
  /\ outAt \in {"append", "progress", "sent", "mark"} => out.turn # 0

TurnInv ==
  /\ termTurn \in 0 .. TermTurns
  /\ active \in {0, termTurn}
  /\ DOMAIN owner = Turns
  /\ answered \in [Turns -> Nat]
  /\ \A f \in finals : HasTurn(f)

\* A screenshot answer under way.
Under(f) == f \in finals /\ f.mode = "screens" /\ f.at \in {"claimed", "sent"}

\* While its turn is active an answer that is under way, or out, holds the flag
\* inFlight; and a turn has only one that is under way.
OnceInv ==
  /\ \A t \in Turns : t > termTurn => answered[t] = 0
  /\ \A f \in finals : Under(f) /\ active = f.turn => inFlight
  /\ \A t \in Turns : answered[t] # 0 /\ active = t => inFlight
  /\ \A f, g \in finals : Under(f) /\ Under(g) /\ f.turn = g.turn => f = g
  /\ FinalOnce

\* The target cannot change while a turn is active, and the handler has the present
\* one unless an attachment has changed meanwhile.
OwnerInv ==
  /\ attached # "none" => termAlive
  /\ active # 0 => termAlive /\ owner[active] = Target
  /\ outAt # "idle" /\ termAlive /\ ~moved => out.to = Target
  /\ FinalToOwner

FinalInv == OutInv /\ TurnInv /\ OnceInv /\ OwnerInv

LEMMA FinalStart == TermInit => FinalInv
BY TermBounds DEF TermInit, FinalInv, OutInv, TurnInv, OnceInv, OwnerInv, FinalOnce,
   FinalToOwner, NoOut, Turns, Under

\* What the handler does between its look-ups touches no answer.
LEMMA SameFinals ==
  ASSUME TurnInv, OnceInv,
         UNCHANGED <<termTurn, active, inFlight, finals, owner, answered>>
  PROVE  TurnInv' /\ OnceInv'
BY DEF TurnInv, OnceInv, HasTurn, Under, FinalOnce

LEMMA SameOwner ==
  ASSUME OwnerInv,
         UNCHANGED <<active, termAlive, attached, localTo, owner, finals, moved>>,
         outAt' # "idle" => outAt # "idle" /\ out'.to = out.to
  PROVE  OwnerInv'
BY DEF OwnerInv, Target, FinalToOwner

LEMMA RegistryStep ==
  ASSUME FinalInv,
         \/ \E c \in Chats : \/ Attach(c) \/ DetachTerminal(c)
                             \/ \E mode \in {"text", "screens"} : SetReplyMode(c, mode)
         \/ ControlInput \/ NextInput
  PROVE  FinalInv'
<1>1. UNCHANGED <<termTurn, active, inFlight, finals, owner, answered, out, outAt>>
  BY DEF Attach, DetachTerminal, SetReplyMode, ControlInput, NextInput, turnVars, histVars
<1>2. TurnInv' /\ OnceInv'
  BY <1>1, SameFinals DEF FinalInv
<1>3. OutInv'
  BY <1>1 DEF FinalInv, OutInv
<1>4. OwnerInv'
  <2>1. CASE UNCHANGED <<regVars, moved>>
    BY <1>1, <2>1, SameOwner DEF FinalInv, regVars
  <2>2. CASE termAlive /\ UNCHANGED termAlive /\ active = 0 /\ Moving
    BY <1>1, <2>2 DEF FinalInv, OwnerInv, FinalToOwner, Moving
  <2>3. ASSUME NEW c, NEW mode, SetReplyMode(c, mode) PROVE OwnerInv'
    BY <1>1, <2>3, SameOwner DEF FinalInv, SetReplyMode, histVars
  <2> QED BY <2>1, <2>2, <2>3
          DEF Attach, DetachTerminal, ControlInput, NextInput, histVars
<1> QED BY <1>2, <1>3, <1>4 DEF FinalInv

LEMMA UnregisterStep == ASSUME FinalInv, Unregister PROVE FinalInv'
<1>1. TurnInv' /\ OutInv'
  BY DEF FinalInv, TurnInv, OutInv, Unregister, HasTurn
<1>2. OnceInv'
  BY DEF FinalInv, TurnInv, OnceInv, Unregister, Under, FinalOnce, HasTurn, Turns
<1>3. OwnerInv'
  BY DEF FinalInv, OwnerInv, Unregister, FinalToOwner
<1> QED BY <1>1, <1>2, <1>3 DEF FinalInv

\* A new turn has no answer, and the answers of the earlier ones no longer matter to
\* inFlight.
LEMMA BeginStep ==
  ASSUME FinalInv, NEW mode, NEW local, BeginTurn(mode, local),
         UNCHANGED <<regVars, finals, out>>, termAlive,
         outAt' = outAt \/ (outAt = "fallback" /\ outAt' = "ingest")
  PROVE  FinalInv'
<1> USE DEF FinalInv
<1>1. /\ termTurn' = termTurn + 1 /\ active' = termTurn' /\ termTurn \in 0 .. TermTurns
      /\ termTurn' \in Turns /\ answered' = answered /\ finals' = finals /\ moved' = moved
      /\ owner' = [owner EXCEPT ![termTurn'] = Target]
  BY TermBounds DEF BeginTurn, TurnInv, Turns
<1>2. TurnInv'
  <2>1. \A f \in finals : HasTurn(f)'
    BY <1>1 DEF TurnInv, HasTurn
  <2>2. DOMAIN owner' = Turns
    BY <1>1 DEF TurnInv
  <2> QED BY <1>1, <2>1, <2>2, TermBounds DEF TurnInv, Turns
<1>3. \A f \in finals : f.turn \in 1 .. termTurn /\ f.turn # active' /\ f.turn \in Turns
  BY <1>1, TermBounds DEF TurnInv, HasTurn, Turns
<1>4. OnceInv'
  BY <1>1, <1>3 DEF OnceInv, TurnInv, Under, FinalOnce, Turns
<1>5. OwnerInv'
  BY <1>1, <1>3 DEF OwnerInv, TurnInv, FinalToOwner, Target, regVars
<1>6. OutInv'
  BY <1>1 DEF OutInv
<1> QED BY <1>2, <1>4, <1>5, <1>6

LEMMA InputStep == ASSUME FinalInv, StartInput \/ LocalInput PROVE FinalInv'
<1>1. PICK mode, local : BeginTurn(mode, local)
  BY DEF StartInput, LocalInput
<1> QED BY <1>1, BeginStep DEF StartInput, LocalInput

LEMMA FallbackStep == ASSUME FinalInv, OutFallback PROVE FinalInv'
<1>1. CASE attached # "none" /\ active = 0 /\ BeginTurn(replyMode, TRUE)
  <2>1. termAlive
    BY <1>1 DEF FinalInv, OwnerInv
  <2> QED BY <1>1, <2>1, BeginStep DEF OutFallback, Out
<1>2. CASE UNCHANGED <<turnVars, histVars>>
  <2>1. UNCHANGED <<termTurn, active, inFlight, finals, owner, answered, out, moved>>
    BY <1>2 DEF OutFallback, turnVars, histVars
  <2>2. OutInv'
    BY <2>1 DEF FinalInv, OutInv, OutFallback, Out
  <2> QED BY <2>1, <2>2, SameFinals, SameOwner DEF FinalInv, OutFallback, Out, regVars
<1> QED BY <1>1, <1>2 DEF OutFallback

\* What collect does with a chunk and the block that was pending: each is emitted, kept
\* or counted as dropped.
LEMMA Collects ==
  ASSUME OutCollect
  PROVE  /\ UNCHANGED <<regVars, termTurn, active, activeMode, activeLocal, idleGen, candidate,
                        inFlight, progress, progressBusy, messages, chunk, finals, owner,
                        ingested, answered, moved, inputCh>>
         /\ outAt = "collect" /\ outAt' = IF out.turn = 0 THEN "idle" ELSE "append"
         /\ \E held, rest \in SUBSET (pendingOut \cup {chunk}) :
              /\ pendingOut' \subseteq pendingOut \cup {chunk}
              /\ out' = IF out.turn = 0 THEN NoOut ELSE [out EXCEPT !.held = held]
              /\ pendingOut \cup {chunk} = held \cup rest \cup pendingOut'
              /\ discarded' = discarded \cup IF activeMode = "text" THEN ingested \cap rest
                                             ELSE {}
<1> DEFINE Part(block, lines, fate) == (IF block = fate THEN pendingOut ELSE {})
                                       \cup (IF fate \in lines THEN {chunk} ELSE {})
<1>1. PICK block \in Fates, lines \in (SUBSET Fates) \ {{}} :
        /\ out' = IF out.turn = 0 THEN NoOut
                  ELSE [out EXCEPT !.held = Part(block, lines, "emit")]
        /\ pendingOut' = Part(block, lines, "keep")
        /\ discarded' = discarded \cup
             IF activeMode = "text" THEN ingested \cap Part(block, lines, "drop") ELSE {}
  BY DEF OutCollect
<1>2. /\ Part(block, lines, "emit") \in SUBSET (pendingOut \cup {chunk})
      /\ Part(block, lines, "drop") \in SUBSET (pendingOut \cup {chunk})
      /\ Part(block, lines, "keep") \in SUBSET (pendingOut \cup {chunk})
  OBVIOUS
<1>3. pendingOut \cup {chunk} = Part(block, lines, "emit") \cup Part(block, lines, "drop")
                                \cup Part(block, lines, "keep")
  <2>1. lines \subseteq Fates /\ lines # {} /\ block \in {"emit", "keep", "drop"}
    BY DEF Fates
  <2>2. "emit" \in lines \/ "keep" \in lines \/ "drop" \in lines
    BY <2>1 DEF Fates
  <2>3. \E fate \in {"emit", "keep", "drop"} : pendingOut \subseteq Part(block, lines, fate)
    BY <2>1
  <2>4. \E fate \in {"emit", "keep", "drop"} : chunk \in Part(block, lines, fate)
    BY <2>2
  <2> HIDE DEF Part
  <2>5. QED
    BY <1>2, <2>3, <2>4
<1> HIDE DEF Part
<1>4. QED
  BY <1>1, <1>2, <1>3 DEF OutCollect, Out

LEMMA HandlerStep ==
  ASSUME FinalInv,
         OutIngest \/ OutActive \/ OutCollect \/ OutAppend \/ OutProgress \/ OutProgressSent
  PROVE  FinalInv'
<1>1. UNCHANGED <<termTurn, active, inFlight, finals, owner, answered, moved, regVars>>
  BY DEF OutIngest, OutActive, OutCollect, OutAppend, OutProgress, OutProgressSent,
     turnVars, histVars
<1>2. OutInv'
  <2>1. CASE OutIngest
    BY <2>1 DEF OutIngest, FinalInv, OutInv, Out
  <2>2. CASE OutActive
    BY <2>2 DEF OutActive, FinalInv, OutInv, TurnInv, Out, turnVars
  <2>3. CASE OutCollect
    BY <2>3, Collects DEF FinalInv, OutInv, NoOut, TurnInv
  <2>4. CASE OutAppend \/ OutProgress \/ OutProgressSent
    BY <2>4 DEF OutAppend, OutProgress, OutProgressSent, FinalInv, OutInv, Out
  <2> QED BY <2>1, <2>2, <2>3, <2>4
<1>3. outAt # "idle" /\ (outAt' # "idle" => out'.to = out.to)
  BY Collects DEF OutIngest, OutActive, OutCollect, OutAppend, OutProgress, OutProgressSent,
     FinalInv, OutInv, Out
<1>4. UNCHANGED <<termAlive, attached, localTo>>
  BY <1>1 DEF regVars
<1>5. TurnInv' /\ OnceInv'
  BY <1>1, SameFinals DEF FinalInv
<1>6. OwnerInv'
  BY <1>1, <1>3, <1>4, SameOwner DEF FinalInv
<1> QED BY <1>2, <1>5, <1>6 DEF FinalInv

LEMMA TargetStep == ASSUME FinalInv, OutTarget PROVE FinalInv'
<1>1. UNCHANGED <<termTurn, active, inFlight, finals, owner, answered, moved, termAlive,
                  attached, localTo>>
  BY DEF OutTarget, turnVars, histVars, regVars
<1>2. out' = [to |-> Target, turn |-> 0, mode |-> "text", held |-> {}]
  BY DEF OutTarget, NoOut
<1>3. OutInv'
  BY <1>1, <1>2 DEF OutInv, OutTarget, FinalInv, TurnInv
<1>4. OwnerInv'
  BY <1>1, <1>2 DEF FinalInv, OwnerInv, Target, FinalToOwner
<1>5. TurnInv' /\ OnceInv'
  BY <1>1, SameFinals DEF FinalInv
<1> QED BY <1>3, <1>4, <1>5 DEF FinalInv

\* The new timer is armed for the active turn, with the target the handler has.
LEMMA MarkStep == ASSUME FinalInv, OutMark PROVE FinalInv'
<1> DEFINE new == [turn |-> out.turn, gen |-> idleGen, to |-> out.to, mode |-> out.mode,
                   at |-> "armed"]
<1>1. /\ UNCHANGED <<termTurn, active, inFlight, owner, answered, moved, termAlive,
                     attached, localTo>>
      /\ out' = NoOut /\ outAt = "mark" /\ outAt' = "idle"
      /\ finals' = finals \/ (active = out.turn /\ finals' = finals \cup {new})
  BY DEF OutMark, Out, histVars, regVars
<1>2. OutInv'
  BY <1>1 DEF OutInv, NoOut, FinalInv, TurnInv
<1>3. HasTurn(new) /\ new.at = "armed" /\ new.to = out.to /\ new.turn = out.turn
  BY <1>1 DEF FinalInv, OutInv, HasTurn
<1>4. active = out.turn => active # 0 /\ termAlive
  BY <1>1 DEF FinalInv, OutInv, OwnerInv
<1>5. ~moved /\ active = out.turn => new.to = owner[new.turn]
  BY <1>1, <1>3, <1>4 DEF FinalInv, OwnerInv
<1> HIDE DEF new
<1>6. TurnInv' /\ OnceInv'
  BY <1>1, <1>3 DEF FinalInv, TurnInv, OnceInv, HasTurn, Under, FinalOnce
<1>7. OwnerInv'
  BY <1>1, <1>5 DEF FinalInv, OwnerInv, Target, FinalToOwner
<1> QED BY <1>2, <1>6, <1>7 DEF FinalInv

\* An answer that goes on in its life keeps its turn and its chat.
LEMMA Goes ==
  ASSUME NEW f, HasTurn(f), NEW at
  PROVE  LET g == [f EXCEPT !.at = at]
         IN  HasTurn(g) /\ g.turn = f.turn /\ g.to = f.to /\ g.mode = f.mode /\ g.at = at
BY DEF HasTurn

LEMMA ClaimStep == ASSUME FinalInv, NEW f \in finals, ClaimFinal(f) PROVE FinalInv'
<1> DEFINE g == [f EXCEPT !.at = "claimed"]
<1>1. /\ UNCHANGED <<termTurn, active, owner, answered, moved, termAlive, attached,
                     localTo, out, outAt>>
      /\ f.at = "armed"
  BY DEF ClaimFinal, histVars, regVars
<1>2. HasTurn(f) /\ HasTurn(g) /\ g.turn = f.turn /\ g.to = f.to /\ g.mode = f.mode
      /\ g.at = "claimed"
  BY Goes DEF FinalInv, TurnInv
<1>3. \/ finals' = finals \ {f} /\ inFlight' = inFlight
      \/ /\ finals' = (finals \ {f}) \cup {g}
         /\ inFlight' = (inFlight \/ f.mode = "screens")
         /\ active = f.turn /\ (f.mode = "screens" => ~inFlight)
  BY DEF ClaimFinal, Claimable
<1> HIDE DEF g
<1>4. TurnInv'
  BY <1>1, <1>2, <1>3 DEF FinalInv, TurnInv, HasTurn
<1>5. OutInv'
  BY <1>1 DEF FinalInv, OutInv
<1>6. OwnerInv'
  BY <1>1, <1>2, <1>3 DEF FinalInv, OwnerInv, Target, FinalToOwner
<1>7. f.turn \in Turns
  BY <1>2, TermBounds DEF FinalInv, TurnInv, HasTurn, Turns
<1>8. OnceInv'
  <2>1. CASE finals' = finals \ {f} /\ inFlight' = inFlight
    BY <1>1, <2>1 DEF FinalInv, TurnInv, OnceInv, Under, FinalOnce
  <2>2. CASE /\ finals' = (finals \ {f}) \cup {g}
             /\ inFlight' = (inFlight \/ f.mode = "screens")
             /\ active = f.turn /\ (f.mode = "screens" => ~inFlight)
    <3>1. f.mode = "screens" =>
            /\ answered[f.turn] = 0
            /\ \A h \in finals : Under(h) => h.turn # f.turn
      BY <1>7, <2>2 DEF FinalInv, OnceInv
    <3>2. \A h \in finals' : Under(h)' =>
            (h # g /\ Under(h)) \/ (h = g /\ f.mode = "screens")
      BY <1>2, <2>2 DEF Under
    <3>3. (\A h \in finals : Under(h) /\ active = h.turn => inFlight)'
      BY <1>1, <1>2, <2>2, <3>2 DEF FinalInv, OnceInv
    <3>4. (\A t \in Turns : answered[t] # 0 /\ active = t => inFlight)'
      BY <1>1, <2>2 DEF FinalInv, OnceInv
    <3>5. (\A h, k \in finals : Under(h) /\ Under(k) /\ h.turn = k.turn => h = k)'
      BY <1>2, <2>2, <3>1, <3>2 DEF FinalInv, OnceInv, Under
    <3>6. FinalOnce'
      BY <1>1, <1>2, <2>2, <3>1 DEF FinalInv, TurnInv, OnceInv, FinalOnce, Under
    <3> QED BY <1>1, <3>3, <3>4, <3>5, <3>6 DEF FinalInv, OnceInv
  <2> QED BY <1>3, <2>1, <2>2
<1> QED BY <1>4, <1>5, <1>6, <1>8 DEF FinalInv

LEMMA SendStep == ASSUME FinalInv, NEW f \in finals, SendFinal(f) PROVE FinalInv'
<1> DEFINE g == [f EXCEPT !.at = "sent"]
<1>1. /\ UNCHANGED <<termTurn, active, inFlight, owner, moved, termAlive, attached,
                     localTo, out, outAt>>
      /\ f.at = "claimed"
      /\ finals' = (finals \ {f}) \cup {g}
  BY DEF SendFinal, turnVars, regVars
<1>2. HasTurn(f) /\ HasTurn(g) /\ g.turn = f.turn /\ g.to = f.to /\ g.mode = f.mode
      /\ g.at = "sent"
  BY Goes DEF FinalInv, TurnInv
<1> HIDE DEF g
<1>3. f.turn \in Turns /\ f.turn <= termTurn
  BY <1>2, TermBounds DEF FinalInv, TurnInv, HasTurn, Turns
<1>4. answered' = IF f.mode = "screens"
                  THEN [answered EXCEPT ![f.turn] = answered[f.turn] + 1] ELSE answered
  BY <1>3 DEF SendFinal, FinalInv, TurnInv
<1>5. TurnInv'
  BY <1>1, <1>2, <1>3, <1>4 DEF FinalInv, TurnInv, HasTurn
<1>6. OutInv'
  BY <1>1 DEF FinalInv, OutInv
<1>7. OwnerInv'
  BY <1>1, <1>2 DEF FinalInv, OwnerInv, Target, FinalToOwner
<1>8. OnceInv'
  <2>1. CASE f.mode # "screens"
    BY <1>1, <1>2, <1>4, <2>1 DEF FinalInv, OnceInv, Under, FinalOnce
  <2>2. CASE f.mode = "screens"
    <3>1. Under(f) /\ answered[f.turn] = 0
      BY <1>1, <1>3, <2>2 DEF FinalInv, TurnInv, OnceInv, Under, FinalOnce
    <3>2. \A h \in finals : Under(h) /\ h.turn = f.turn => h = f
      BY <3>1 DEF FinalInv, OnceInv
    <3> QED BY <1>1, <1>2, <1>3, <1>4, <2>2, <3>1, <3>2
            DEF FinalInv, TurnInv, OnceInv, Under, FinalOnce, Turns
  <2> QED BY <2>1, <2>2
<1> QED BY <1>5, <1>6, <1>7, <1>8 DEF FinalInv

LEMMA FinishStep == ASSUME FinalInv, NEW f \in finals, FinishFinal(f) PROVE FinalInv'
<1>1. /\ UNCHANGED <<termTurn, owner, answered, moved, termAlive, attached, localTo,
                     out, outAt>>
      /\ finals' = finals \ {f}
      /\ active' = 0 \/ (active' = active /\ inFlight' = inFlight)
  BY DEF FinishFinal, CompleteTurn, turnVars, regVars
<1>2. TurnInv' /\ OutInv'
  BY <1>1 DEF FinalInv, TurnInv, OutInv, HasTurn
<1>3. \A h \in finals : h.turn # 0
  BY DEF FinalInv, TurnInv, HasTurn
<1>4. OnceInv'
  BY <1>1, <1>3 DEF FinalInv, TurnInv, OnceInv, Under, FinalOnce, Turns
<1>5. OwnerInv'
  BY <1>1 DEF FinalInv, OwnerInv, Target, FinalToOwner
<1> QED BY <1>2, <1>4, <1>5 DEF FinalInv

LEMMA FinalStepInv == ASSUME FinalInv, [TermNext]_TermVars PROVE FinalInv'
<1>1. CASE UNCHANGED TermVars
  <2>1. UNCHANGED <<termTurn, active, inFlight, finals, owner, answered, out, outAt, moved,
                    termAlive, attached, localTo>>
    BY <1>1 DEF TermVars, regVars, turnVars, histVars
  <2>2. OutInv'
    BY <2>1 DEF FinalInv, OutInv
  <2> QED BY <2>1, <2>2, SameFinals, SameOwner DEF FinalInv
<1>2. CASE FinalStep
  BY <1>2, ClaimStep, SendStep, FinishStep DEF FinalStep
<1>3. CASE OutStep
  BY <1>3, FallbackStep, HandlerStep, MarkStep DEF OutStep
<1> QED BY <1>1, <1>2, <1>3, RegistryStep, UnregisterStep, InputStep, TargetStep DEF TermNext

\* However timers, new output, local typing and commands of the chats interleave, a
\* turn that is shown in screenshots gets one final answer.
THEOREM AnsweredOnce == TermSpec => []FinalOnce
<1>1. FinalInv => FinalOnce
  BY DEF FinalInv, OnceInv
<1> QED BY <1>1, FinalStart, FinalStepInv, PTL DEF TermSpec

\* Unless the attachment changed while the handler held an earlier target, an answer
\* goes to the chat the terminal reported to when the turn began.
THEOREM AnsweredToOwner == TermSpec => []FinalToOwner
<1>1. FinalInv => FinalToOwner
  BY DEF FinalInv, OwnerInv
<1> QED BY <1>1, FinalStart, FinalStepInv, PTL DEF TermSpec

-----------------------------------------------------------------------------
(* A text answer contains every output that reached the turn *)

\* What the output handler has in hand for the messages of the turn.
Hand == IF outAt \in {"active", "collect"} THEN {chunk}
        ELSE IF outAt = "append" THEN out.held ELSE {}

\* A timer of the active turn is void as long as the handler has output in hand.
Timely ==
  /\ idleGen \in Nat
  /\ \A f \in finals :
       /\ "gen" \in DOMAIN f /\ f.to # "none"
       /\ f.turn = active => /\ f.gen \in Nat /\ f.gen <= idleGen
                             /\ outAt \in {"active", "collect", "append"} => f.gen # idleGen

\* The handler goes on only with a target; a turn that began after it looked the turn
\* up has had no output yet.
Handling ==
  /\ "held" \in DOMAIN out
  /\ outAt \notin {"idle", "ingest"} => out.to # "none"
  /\ outAt \in {"collect", "append", "progress", "sent", "mark"} /\ active # out.turn
       => ingested = {}

\* No output of a turn for a chat is lost on the way to its messages, but what collect
\* drops.
Kept == ~moved /\ active # 0 /\ owner[active] # "none"
               /\ activeMode = "text"
          => ingested \subseteq messages \cup pendingOut \cup Hand \cup discarded

Complete == Timely /\ Handling /\ Kept
CompleteInv == FinalInv /\ Complete

\* The registry and the inputs leave output and timers alone.
LEMMA AsideComplete ==
  ASSUME CompleteInv, UNCHANGED <<turnVars, outAt, out, finals, chunk, owner, ingested, discarded>>,
         moved => moved'
  PROVE  Complete'
BY DEF CompleteInv, Complete, Timely, Handling, Kept, Hand, turnVars

\* A turn that begins has no output and no timers.
LEMMA BeginComplete ==
  ASSUME CompleteInv, NEW mode, NEW local, BeginTurn(mode, local),
         UNCHANGED <<out, finals, chunk>>,
         outAt' = outAt \/ (outAt = "fallback" /\ outAt' = "ingest")
  PROVE  Complete'
<1>1. \A f \in finals : f.turn # active'
  BY TermBounds DEF CompleteInv, FinalInv, TurnInv, HasTurn, BeginTurn
<1>2. idleGen' = 0 /\ ingested' = {} /\ finals' = finals /\ out' = out
  BY DEF BeginTurn
<1>3. Timely'
  BY <1>1, <1>2 DEF CompleteInv, Complete, Timely
<1>4. Handling' /\ Kept'
  BY <1>2 DEF CompleteInv, Complete, Handling, Kept
<1> QED BY <1>3, <1>4 DEF Complete

\* When the turn is over its output is no concern any more.
LEMMA EndComplete ==
  ASSUME CompleteInv, UNCHANGED <<outAt, out>>, finals' \subseteq finals, active' = 0,
         idleGen' = 0, ingested' = {}
  PROVE  Complete'
<1>1. \A f \in finals : f.turn # 0
  BY DEF CompleteInv, FinalInv, TurnInv, HasTurn
<1>2. Timely'
  BY <1>1 DEF CompleteInv, Complete, Timely
<1> QED BY <1>2 DEF CompleteInv, Complete, Handling, Kept

LEMMA IngestComplete == ASSUME CompleteInv, OutIngest PROVE Complete'
<1>1. /\ UNCHANGED <<active, activeMode, messages, pendingOut, discarded, chunk, out, finals,
                     owner, moved>>
      /\ outAt = "ingest" /\ outAt' = IF out.to = "none" THEN "idle" ELSE "active"
      /\ IF active # 0 THEN idleGen' = idleGen + 1 /\ ingested' = ingested \cup {chunk}
         ELSE UNCHANGED <<idleGen, ingested>>
  BY DEF OutIngest, Out
<1>2. Timely'
  <2>1. \A f \in finals : f.turn # 0
    BY DEF CompleteInv, FinalInv, TurnInv, HasTurn
  <2> QED BY <1>1, <2>1 DEF CompleteInv, Complete, Timely
<1>3. Handling'
  BY <1>1 DEF CompleteInv, Complete, Handling
<1>4. ~moved /\ active # 0 /\ owner[active] # "none" => out.to # "none"
  BY <1>1 DEF CompleteInv, FinalInv, OwnerInv
<1>5. Kept'
  BY <1>1, <1>4 DEF CompleteInv, Complete, Kept, Hand
<1> QED BY <1>2, <1>3, <1>5 DEF Complete

LEMMA ActiveComplete == ASSUME CompleteInv, OutActive PROVE Complete'
<1>1. /\ UNCHANGED <<active, activeMode, idleGen, messages, pendingOut, discarded, chunk,
                     finals, owner, moved, ingested>>
      /\ outAt = "active" /\ outAt' = "collect"
      /\ out' = [out EXCEPT !.turn = active, !.mode = activeMode]
  BY DEF OutActive, Out, turnVars, histVars
<1>2. /\ "held" \in DOMAIN out' /\ out'.to = out.to /\ out'.turn = active
  BY <1>1 DEF CompleteInv, Complete, FinalInv, OutInv, Handling
<1>3. Handling' /\ Timely' /\ Kept'
  BY <1>1, <1>2 DEF CompleteInv, Complete, Handling, Timely, Kept, Hand
<1> QED BY <1>3 DEF Complete

LEMMA CollectComplete == ASSUME CompleteInv, OutCollect PROVE Complete'
<1>1. /\ UNCHANGED <<active, activeMode, idleGen, messages, chunk, finals, owner, moved, ingested>>
      /\ outAt = "collect" /\ outAt' = IF out.turn = 0 THEN "idle" ELSE "append"
  BY Collects
<1>2. PICK held, rest \in SUBSET (pendingOut \cup {chunk}) :
        /\ out' = IF out.turn = 0 THEN NoOut ELSE [out EXCEPT !.held = held]
        /\ pendingOut \cup {chunk} = held \cup rest \cup pendingOut'
        /\ discarded' = discarded \cup IF activeMode = "text" THEN ingested \cap rest ELSE {}
  BY Collects
<1>3. /\ "held" \in DOMAIN out'
      /\ out.turn # 0 => out'.to = out.to /\ out'.turn = out.turn /\ out'.held = held
  BY <1>2 DEF CompleteInv, Complete, FinalInv, OutInv, Handling, NoOut
<1>4. Timely' /\ Handling'
  BY <1>1, <1>3 DEF CompleteInv, Complete, Handling, Timely
<1>5. out.turn = 0 /\ active # 0 => ingested = {}
  BY <1>1 DEF CompleteInv, Complete, Handling
<1>6. Kept'
  <2>1. CASE out.turn = 0
    BY <1>1, <1>5, <2>1 DEF Kept
  <2>2. CASE out.turn # 0
    <3>1. Hand = {chunk} /\ Hand' = held
      BY <1>1, <1>3, <2>2 DEF Hand
    <3>2. activeMode = "text" =>
            ingested \cap (pendingOut \cup {chunk}) \subseteq held \cup discarded' \cup pendingOut'
      BY <1>2
    <3> QED BY <1>1, <1>2, <3>1, <3>2 DEF CompleteInv, Complete, Kept
  <2> QED BY <2>1, <2>2
<1> QED BY <1>4, <1>6 DEF Complete

LEMMA AppendComplete ==
  ASSUME CompleteInv, OutAppend \/ OutProgress \/ OutProgressSent PROVE Complete'
<1>1. /\ UNCHANGED <<active, activeMode, idleGen, pendingOut, discarded, chunk, finals, owner,
                     moved, ingested>>
      /\ out' = out \/ out' = [out EXCEPT !.held = {}]
      /\ outAt \in {"append", "progress", "sent"} /\ outAt' \in {"progress", "sent", "mark"}
  BY DEF OutAppend, OutProgress, OutProgressSent, Out, histVars
<1>2. messages' = IF outAt = "append" /\ active = out.turn THEN messages \cup out.held
                  ELSE messages
  BY DEF OutAppend, OutProgress, OutProgressSent, Out
<1>3. Timely' /\ Handling'
  <2>1. "held" \in DOMAIN out' /\ out'.to = out.to /\ out'.turn = out.turn
    BY <1>1 DEF CompleteInv, Complete, FinalInv, OutInv, Handling
  <2> QED BY <1>1, <2>1 DEF CompleteInv, Complete, Handling, Timely
<1>4. Kept'
  BY <1>1, <1>2 DEF CompleteInv, Complete, Kept, Hand, Handling
<1> QED BY <1>3, <1>4 DEF Complete

LEMMA MarkComplete == ASSUME CompleteInv, OutMark PROVE Complete'
<1> DEFINE new == [turn |-> out.turn, gen |-> idleGen, to |-> out.to, mode |-> out.mode,
                   at |-> "armed"]
<1>1. /\ UNCHANGED <<active, activeMode, idleGen, messages, pendingOut, discarded, chunk,
                     owner, moved, ingested>>
      /\ outAt = "mark" /\ outAt' = "idle" /\ out' = NoOut
      /\ finals' = finals \/ finals' = finals \cup {new}
  BY DEF OutMark, Out, histVars
<1>2. "gen" \in DOMAIN new /\ new.to # "none" /\ new.gen = idleGen
  BY <1>1 DEF CompleteInv, Complete, Handling
<1> HIDE DEF new
<1>3. Timely' /\ Handling' /\ Kept'
  BY <1>1, <1>2 DEF CompleteInv, Complete, Handling, Timely, Kept, Hand, NoOut
<1> QED BY <1>3 DEF Complete

LEMMA TargetComplete == ASSUME CompleteInv, OutTarget PROVE Complete'
<1>1. /\ UNCHANGED <<active, activeMode, idleGen, messages, pendingOut, discarded, finals,
                     owner, moved, ingested>>
      /\ outAt = "idle" /\ outAt' \in {"fallback", "ingest"}
      /\ out' = [to |-> Target, turn |-> 0, mode |-> "text", held |-> {}]
      /\ outAt' = "fallback" => Target # "none"
  BY DEF OutTarget, NoOut, turnVars, histVars
<1> QED BY <1>1 DEF CompleteInv, Complete, Handling, Timely, Kept, Hand

\* Claiming an answer moves what is pending to the messages, or drops it.
LEMMA ClaimComplete ==
  ASSUME CompleteInv, NEW f \in finals, ClaimFinal(f) \/ SendFinal(f) PROVE Complete'
<1> DEFINE g(at) == [f EXCEPT !.at = at]
<1>1. /\ UNCHANGED <<active, activeMode, idleGen, chunk, out, outAt, owner, moved, ingested>>
      /\ \/ finals' = finals \ {f}
         \/ \E at : finals' = (finals \ {f}) \cup {g(at)}
      /\ ingested \cap (messages \cup pendingOut \cup discarded)
           \subseteq messages' \cup pendingOut' \cup discarded'
  BY DEF ClaimFinal, SendFinal, FlushTail, histVars, turnVars
<1>2. \A at : "gen" \in DOMAIN g(at) /\ g(at).gen = f.gen /\ g(at).to = f.to /\ g(at).turn = f.turn
  BY DEF CompleteInv, Complete, Timely, FinalInv, TurnInv, HasTurn
<1> HIDE DEF g
<1>3. Timely' /\ Handling' /\ Kept'
  BY <1>1, <1>2 DEF CompleteInv, Complete, Handling, Timely, Kept, Hand
<1> QED BY <1>3 DEF Complete

LEMMA CompleteStep == ASSUME CompleteInv, [TermNext]_TermVars PROVE CompleteInv'
<1>1. FinalInv'
  BY FinalStepInv DEF CompleteInv
<1> SUFFICES Complete'
  BY <1>1 DEF CompleteInv
<1>2. CASE UNCHANGED TermVars
  <2>1. /\ UNCHANGED <<active, activeMode, idleGen, messages, pendingOut, discarded, outAt,
                        out, finals, chunk, owner, ingested, moved>>
    BY <1>2 DEF TermVars, turnVars, histVars
  <2> QED BY <2>1 DEF CompleteInv, Complete, Timely, Handling, Kept, Hand
<1>3. ASSUME NEW c \in Chats, Attach(c) \/ DetachTerminal(c) PROVE Complete'
  BY <1>3, AsideComplete DEF Attach, DetachTerminal, Moving
<1>4. ASSUME NEW c \in Chats, NEW mode, SetReplyMode(c, mode) PROVE Complete'
  BY <1>4, AsideComplete DEF SetReplyMode, histVars
<1>5. CASE ControlInput \/ NextInput
  <2>1. UNCHANGED <<turnVars, outAt, out, finals, chunk, owner, ingested, discarded>>
        /\ (moved => moved')
    BY <1>5 DEF ControlInput, NextInput, histVars
  <2> QED BY <2>1, AsideComplete
<1>6. CASE Unregister
  <2>1. /\ UNCHANGED <<outAt, out>> /\ finals' \subseteq finals
        /\ active' = 0 /\ idleGen' = 0 /\ ingested' = {}
    BY <1>6 DEF Unregister
  <2> QED BY <2>1, EndComplete
<1>7. CASE StartInput \/ LocalInput
  <2>1. PICK local \in BOOLEAN : BeginTurn(replyMode, local)
    BY <1>7 DEF StartInput, LocalInput
  <2>2. UNCHANGED <<out, finals, chunk, outAt>>
    BY <1>7 DEF StartInput, LocalInput
  <2> QED BY <2>1, <2>2, BeginComplete
<1>8. CASE OutFallback
  <2>1. UNCHANGED <<out, finals, chunk>> /\ outAt = "fallback" /\ outAt' = "ingest"
    BY <1>8 DEF OutFallback, Out
  <2>2. CASE BeginTurn(replyMode, TRUE)
    BY <2>1, <2>2, BeginComplete
  <2>3. CASE UNCHANGED <<turnVars, histVars>>
    <3>1. UNCHANGED <<active, activeMode, idleGen, messages, pendingOut, discarded, owner,
                      ingested, moved>>
      BY <2>3 DEF turnVars, histVars
    <3> QED BY <2>1, <3>1 DEF CompleteInv, Complete, Handling, Timely, Kept, Hand
  <2> QED BY <1>8, <2>2, <2>3 DEF OutFallback
<1>9. ASSUME NEW f \in finals, FinishFinal(f) PROVE Complete'
  <2>1. CASE active = f.turn
    BY <1>9, <2>1, EndComplete DEF FinishFinal, CompleteTurn
  <2>2. CASE active # f.turn
    BY <1>9, <2>2 DEF FinishFinal, CompleteTurn, turnVars, CompleteInv, Complete, Handling,
       Timely, Kept, Hand
  <2> QED BY <2>1, <2>2
<1> QED
  BY <1>1, <1>2, <1>3, <1>4, <1>5, <1>6, <1>7, <1>8, <1>9, TargetComplete, IngestComplete,
     ActiveComplete, CollectComplete, AppendComplete, MarkComplete, ClaimComplete
     DEF TermNext, OutStep, FinalStep, CompleteInv

\* The timer of a text answer fires: it is the last one, and nothing is in hand.
LEMMA ClaimsAll ==
  ASSUME CompleteInv, [TermNext]_TermVars, NEW f \in finals, f.mode = "text", f.at = "armed",
         active = f.turn, ~moved, [f EXCEPT !.at = "claimed"] \in finals' \ finals
  PROVE  /\ outAt \in {"active", "collect", "append"} => chunk \notin ingested
         /\ ingested \ discarded' \subseteq messages'
<1> DEFINE g == [f EXCEPT !.at = "claimed"]
<1>1. /\ HasTurn(f) /\ "gen" \in DOMAIN f /\ g.at = "claimed" /\ g.turn = f.turn
      /\ g.gen = f.gen /\ g.mode = f.mode
  BY DEF CompleteInv, FinalInv, TurnInv, Complete, Timely, HasTurn
<1>2. PICK h \in finals : ClaimFinal(h) /\ g = [h EXCEPT !.at = "claimed"]
  <2>1. ~UNCHANGED finals
    OBVIOUS
  <2>2. ASSUME OutMark PROVE g.at = "armed"
    BY <2>2 DEF OutMark
  <2>3. ASSUME NEW h \in finals, SendFinal(h) PROVE g.at = "sent"
    BY <2>3, Goes DEF SendFinal, CompleteInv, FinalInv, TurnInv
  <2>4. \A h \in finals : ClaimFinal(h) => g = [h EXCEPT !.at = "claimed"]
    BY DEF ClaimFinal
  <2>5. \A h \in finals : ~FinishFinal(h)
    BY DEF FinishFinal
  <2> QED
    BY <1>1, <2>1, <2>2, <2>3, <2>4, <2>5
       DEF TermNext, TermVars, OutStep, FinalStep, Attach, DetachTerminal, SetReplyMode,
           Unregister, StartInput, ControlInput, NextInput, LocalInput, OutTarget,
           OutFallback, OutIngest, OutActive, OutCollect, OutAppend, OutProgress,
           OutProgressSent
<1>3. h.turn = f.turn /\ h.gen = f.gen /\ h.mode = "text"
  <2>1. HasTurn(h) /\ "gen" \in DOMAIN h
    BY DEF CompleteInv, FinalInv, TurnInv, Complete, Timely
  <2> QED BY <1>1, <1>2, <2>1 DEF HasTurn
<1>4. Claimable(h) /\ FlushTail /\ ingested' = ingested
  BY <1>1, <1>2, <1>3 DEF ClaimFinal
<1>5. idleGen = f.gen
  BY <1>3, <1>4 DEF Claimable
<1>6. Hand = {} /\ outAt \notin {"active", "collect", "append"}
  BY <1>5 DEF CompleteInv, Complete, Timely, Hand
<1>7. active # 0 /\ owner[active] # "none"
  BY <1>1 DEF CompleteInv, Complete, Timely, FinalInv, OwnerInv, FinalToOwner, HasTurn
<1>8. ingested \subseteq messages \cup pendingOut \cup discarded
  BY <1>3, <1>4, <1>6, <1>7 DEF CompleteInv, Complete, Kept, Claimable
<1>9. QED
  BY <1>4, <1>6, <1>8 DEF FlushTail

\* Unless the attachment changed while output was handled, the text answer that a timer
\* claims contains every output that reached its turn, but what collect has dropped, and
\* none is still on its way.
THEOREM AnsweredInFull == TermSpec => FinalComplete
<1>1. TermInit => CompleteInv
  <2>1. TermInit => Complete
    BY DEF TermInit, Complete, Timely, Handling, Kept, NoOut
  <2> QED BY <2>1, FinalStart DEF CompleteInv
<1>2. CompleteInv /\ [TermNext]_TermVars =>
        [\A f \in finals :
           f.mode = "text" /\ f.at = "armed" /\ active = f.turn /\ ~moved
             /\ [f EXCEPT !.at = "claimed"] \in finals' \ finals
           => /\ outAt \in {"active", "collect", "append"} => chunk \notin ingested
              /\ ingested \ discarded' \subseteq messages']_TermVars
  BY ClaimsAll
<1> QED BY <1>1, <1>2, CompleteStep, PTL DEF TermSpec, FinalComplete

-----------------------------------------------------------------------------
(* Types *)

\* The variables of the registry; the flags and the counters of the turn; its output,
\* of which the generation has not counted more than there was, the one that is about
\* to reach the turn included.
RegTypes ==
  /\ termAlive \in BOOLEAN /\ moved \in BOOLEAN
  /\ attached \in Chats \cup {"none"} /\ localTo \in Chats \cup {"none"}
  /\ replyMode \in {"text", "screens"}
  /\ inputCh \in 0 .. InputCap /\ chunk \in 0 .. Chunks
FlagTypes ==
  /\ activeMode \in {"text", "screens"}
  /\ activeLocal \in BOOLEAN /\ candidate \in BOOLEAN
  /\ inFlight \in BOOLEAN /\ progressBusy \in BOOLEAN
CountTypes ==
  /\ termTurn \in 0 .. TermTurns /\ active \in {0, termTurn}
  /\ progress \in 0 .. ProgressMax
OutputTypes ==
  /\ pendingOut \subseteq 1 .. chunk /\ messages \subseteq 1 .. chunk
  /\ discarded \subseteq 1 .. chunk
  /\ "held" \in DOMAIN out /\ out.held \subseteq 1 .. chunk
  /\ outAt # "idle" => chunk > 0
  /\ idleGen \in Nat
  /\ idleGen + (IF outAt \in {"fallback", "ingest"} THEN 1 ELSE 0) <= chunk
TermTypes == RegTypes /\ FlagTypes /\ CountTypes /\ OutputTypes

LEMMA TermLimits ==
  /\ TermTurns \in Nat /\ Chunks \in Nat /\ InputCap \in Nat /\ ProgressMax \in Nat
  /\ 0 \in 0 .. InputCap /\ 0 \in 0 .. TermTurns /\ 0 \in 0 .. Chunks
  /\ 0 \in 0 .. ProgressMax
BY TermBounds

LEMMA TermTypeStart == TermInit => TermTypes
<1> SUFFICES ASSUME TermInit PROVE TermTypes
  OBVIOUS
<1>1. RegTypes /\ FlagTypes /\ CountTypes
  BY TermLimits DEF TermInit, RegTypes, FlagTypes, CountTypes
<1>2. OutputTypes
  BY DEF TermInit, OutputTypes, NoOut
<1> QED BY <1>1, <1>2 DEF TermTypes

LEMMA BeginTypes ==
  ASSUME TermTypes, BeginTurn(replyMode, TRUE) \/ BeginTurn(replyMode, FALSE),
         UNCHANGED <<chunk, out>>,
         outAt' = outAt \/ (outAt = "fallback" /\ outAt' = "ingest")
  PROVE  FlagTypes' /\ CountTypes' /\ OutputTypes' /\ moved' = moved
<1> USE TermLimits DEF TermTypes
<1>1. FlagTypes'
  BY DEF BeginTurn, FlagTypes, RegTypes
<1>2. CountTypes'
  BY DEF BeginTurn, CountTypes
<1>3. OutputTypes'
  BY DEF BeginTurn, OutputTypes, RegTypes
<1> QED BY <1>1, <1>2, <1>3 DEF BeginTurn

\* Steps of the chats and the client.
LEMMA RegistryTypes ==
  ASSUME TermTypes,
         \/ \E c \in Chats : \/ Attach(c) \/ DetachTerminal(c)
                             \/ \E mode \in {"text", "screens"} : SetReplyMode(c, mode)
         \/ ControlInput \/ NextInput \/ OutTarget
  PROVE  TermTypes'
<1> USE TermLimits DEF TermTypes
<1>1. RegTypes'
  BY DEF RegTypes, Attach, DetachTerminal, SetReplyMode, ControlInput, NextInput, OutTarget,
         Moving, regVars, histVars
<1>2. FlagTypes' /\ CountTypes'
  BY DEF FlagTypes, CountTypes, Attach, DetachTerminal, SetReplyMode, ControlInput,
         NextInput, OutTarget, turnVars
<1>3. OutputTypes'
  <2>1. UNCHANGED <<pendingOut, messages, discarded, idleGen>>
    BY DEF Attach, DetachTerminal, SetReplyMode, ControlInput, NextInput, OutTarget, turnVars,
           histVars
  <2>2. CASE UNCHANGED <<chunk, out, outAt>>
    BY <2>1, <2>2 DEF OutputTypes
  <2>3. CASE OutTarget
    BY <2>1, <2>3 DEF OutputTypes, RegTypes, OutTarget, NoOut
  <2> QED BY <2>2, <2>3 DEF Attach, DetachTerminal, SetReplyMode, ControlInput, NextInput
<1> QED BY <1>1, <1>2, <1>3

LEMMA InputTypes ==
  ASSUME TermTypes, StartInput \/ LocalInput \/ Unregister PROVE TermTypes'
<1> USE TermLimits
<1>1. CASE StartInput
  <2>1. RegTypes'
    BY <1>1 DEF StartInput, regVars, TermTypes, RegTypes, BeginTurn
  <2> QED BY <1>1, <2>1, BeginTypes DEF StartInput, TermTypes
<1>2. CASE LocalInput
  <2>1. RegTypes'
    BY <1>2 DEF LocalInput, regVars, TermTypes, RegTypes, BeginTurn
  <2> QED BY <1>2, <2>1, BeginTypes DEF LocalInput, TermTypes
<1>3. CASE Unregister
  <2>1. RegTypes' /\ FlagTypes'
    BY <1>3 DEF Unregister, TermTypes, RegTypes, FlagTypes
  <2>2. CountTypes'
    BY <1>3 DEF Unregister, TermTypes, CountTypes
  <2>3. OutputTypes'
    BY <1>3 DEF Unregister, TermTypes, OutputTypes, RegTypes
  <2> QED BY <2>1, <2>2, <2>3 DEF TermTypes
<1> QED BY <1>1, <1>2, <1>3

\* The sections of the output handler.
LEMMA OutTypes == ASSUME TermTypes, OutStep PROVE TermTypes'
<1> USE TermLimits DEF TermTypes
<1>1. RegTypes'
  BY DEF RegTypes, OutStep, OutFallback, OutIngest, OutActive, OutCollect, OutAppend,
         OutProgress, OutProgressSent, OutMark, Out, regVars, histVars, BeginTurn
<1>2. CASE OutFallback
  <2>1. CASE BeginTurn(replyMode, TRUE)
    BY <1>1, <1>2, <2>1, BeginTypes DEF OutFallback, Out
  <2>2. CASE UNCHANGED <<turnVars, histVars>>
    <3>1. FlagTypes' /\ CountTypes'
      BY <2>2 DEF FlagTypes, CountTypes, turnVars
    <3>2. OutputTypes'
      BY <1>2, <2>2 DEF OutFallback, Out, OutputTypes, turnVars, histVars
    <3> QED BY <1>1, <3>1, <3>2
  <2> QED BY <1>2, <2>1, <2>2 DEF OutFallback
<1>3. CASE OutIngest
  <2>1. FlagTypes' /\ CountTypes'
    BY <1>3 DEF OutIngest, FlagTypes, CountTypes
  <2>2. OutputTypes'
    BY <1>3 DEF OutIngest, Out, OutputTypes, RegTypes
  <2> QED BY <1>1, <2>1, <2>2
<1>4. CASE OutActive \/ OutCollect \/ OutAppend
  <2>1. FlagTypes' /\ CountTypes'
    BY <1>4 DEF OutActive, OutCollect, OutAppend, FlagTypes, CountTypes, turnVars
  <2>2. OutputTypes'
    <3>1. CASE OutActive
      BY <3>1 DEF OutActive, Out, OutputTypes, turnVars, histVars
    <3>2. CASE OutCollect
      <4>1. PICK held, rest \in SUBSET (pendingOut \cup {chunk}) :
              /\ pendingOut' \subseteq pendingOut \cup {chunk}
              /\ out' = IF out.turn = 0 THEN NoOut ELSE [out EXCEPT !.held = held]
              /\ discarded' = discarded \cup IF activeMode = "text" THEN ingested \cap rest
                                             ELSE {}
        BY <3>2, Collects
      <4>2. /\ UNCHANGED <<messages, chunk, idleGen>> /\ outAt = "collect"
            /\ outAt' \in {"idle", "append"}
        BY <3>2, Collects
      <4>3. chunk \in 1 .. chunk
        BY <4>2 DEF OutputTypes, RegTypes
      <4> QED BY <4>1, <4>2, <4>3 DEF OutputTypes, NoOut
    <3>3. CASE OutAppend
      BY <3>3 DEF OutAppend, OutputTypes, histVars
    <3> QED BY <1>4, <3>1, <3>2, <3>3
  <2> QED BY <1>1, <2>1, <2>2
<1>5. CASE OutProgress \/ OutProgressSent \/ OutMark
  <2>1. FlagTypes'
    BY <1>5 DEF OutProgress, OutProgressSent, OutMark, FlagTypes
  <2>2. CountTypes'
    BY <1>5 DEF OutProgress, OutProgressSent, OutMark, CountTypes
  <2>3. OutputTypes'
    <3>1. CASE OutProgress
      BY <3>1 DEF OutProgress, histVars, OutputTypes
    <3>2. CASE OutProgressSent
      BY <3>2 DEF OutProgressSent, Out, histVars, OutputTypes
    <3>3. CASE OutMark
      BY <3>3 DEF OutMark, Out, histVars, OutputTypes, NoOut
    <3> QED BY <1>5, <3>1, <3>2, <3>3
  <2> QED BY <1>1, <2>1, <2>2, <2>3
<1> QED BY <1>2, <1>3, <1>4, <1>5 DEF OutStep

\* The timers and callbacks of the final answer.
LEMMA FinalTypes == ASSUME TermTypes, FinalStep PROVE TermTypes'
<1> USE TermLimits DEF TermTypes
<1>1. PICK f \in finals : ClaimFinal(f) \/ SendFinal(f) \/ FinishFinal(f)
  BY DEF FinalStep
<1>2. RegTypes'
  BY <1>1 DEF ClaimFinal, SendFinal, FinishFinal, RegTypes, regVars, histVars
<1>3. FlagTypes'
  BY <1>1 DEF ClaimFinal, SendFinal, FinishFinal, CompleteTurn, FlagTypes, turnVars
<1>4. CountTypes'
  BY <1>1 DEF ClaimFinal, SendFinal, FinishFinal, CompleteTurn, CountTypes, turnVars
<1>5. OutputTypes'
  BY <1>1 DEF ClaimFinal, SendFinal, FinishFinal, CompleteTurn, FlushTail, OutputTypes,
              RegTypes, turnVars, histVars
<1> QED BY <1>2, <1>3, <1>4, <1>5

LEMMA TermTypeStep == ASSUME TermTypes, [TermNext]_TermVars PROVE TermTypes'
<1>1. CASE UNCHANGED TermVars
  BY <1>1 DEF TermVars, regVars, turnVars, histVars, TermTypes, RegTypes, FlagTypes,
              CountTypes, OutputTypes
<1> QED BY <1>1, RegistryTypes, InputTypes, OutTypes, FinalTypes DEF TermNext

LEMMA TermTypesOK == TermTypes => TermTypeOK
BY TermLimits DEF TermTypes, RegTypes, FlagTypes, CountTypes, OutputTypes, TermTypeOK
\* The terminal's variables keep their types; no turn reports more progress than the
\* bound, and no handler knows output that was not posted.
LEMMA TermTypesHold == TermInit /\ [][TermNext]_TermVars => []TermTypeOK
BY TermTypeStart, TermTypeStep, TermTypesOK, PTL
=============================================================================
