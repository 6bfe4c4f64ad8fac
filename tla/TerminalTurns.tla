--------------------------- MODULE TerminalTurns ---------------------------
(***************************************************************************)
(* A local terminal that chats can attach to: the TerminalRegistry of      *)
(* core/terminal.go and the handlers of the terminal's output and input.   *)
(*                                                                         *)
(* The registry has one lock, but a handler takes it many times: the       *)
(* client's posts of output, of local typing and its polls, the chats'     *)
(* commands and prompts, and the timers that send the final answer of a    *)
(* turn once the terminal has been idle, all interleave between the        *)
(* sections.  One terminal; its client posts one chunk of output at a time *)
(* and waits for the answer.                                               *)
(***************************************************************************)
EXTENDS Naturals, FiniteSets

CONSTANTS
  Chats,         \* session keys
  TermTurns,     \* bound: turns begun
  Chunks,        \* bound: chunks of output posted
  InputCap,      \* capacity of inputCh (64)
  ProgressMax    \* terminalProgressScreenshotMaxPerTurn (5)

ASSUME TermBounds == {TermTurns, Chunks, InputCap, ProgressMax} \subseteq Nat

VARIABLES
  termAlive,    \* the session is registered
  attached,     \* info.AttachedKey
  localTo,      \* localOutputSessionKey
  replyMode,    \* "text" or "screens" (terminalReplyModeScreenshotProgress)
  inputCh,      \* inputs that wait for the client
  termTurn,     \* turnID
  active,       \* activeTurnID
  activeMode,   \* activeTurnMode
  activeLocal,  \* activeTurnLocalOutput
  idleGen,      \* turnIdleGeneration
  candidate,    \* turnCompletionCandidate
  inFlight,     \* turnScreenshotInFlight
  progress,     \* turnProgressScreenshotsSent
  progressBusy, \* turnProgressScreenshotInFlight
  pendingOut,   \* output.pending: chunks with lines in the block that collect keeps
  messages,     \* turnMessages: chunks
  chunk,        \* chunks posted so far
  outAt,        \* where HandleTerminalOutput is
  out,          \* its locals: target, turn, mode and the collected messages
  finals,       \* timers and callbacks of scheduleTerminalFinalForMode
  owner,        \* per turn: where its answer should go when it begins (history)
  ingested,     \* the chunks that came while the active turn was (history)
  discarded,    \* of these, the chunks of which collect has dropped lines (history,
                \* of turns that are answered in text)
  answered,     \* per turn: final screenshots sent (history)
  moved         \* the attachment changed while an output was handled (history)

regVars  == <<termAlive, attached, localTo, replyMode>>
turnVars == <<termTurn, active, activeMode, activeLocal, idleGen, candidate, inFlight,
              progress, progressBusy, pendingOut, messages>>
histVars == <<owner, ingested, discarded, answered, moved>>
TermVars == <<regVars, inputCh, turnVars, chunk, outAt, out, finals, histVars>>

Turns   == 1 .. TermTurns
NoOut   == [to |-> "none", turn |-> 0, mode |-> "text", held |-> {}]

TermInit ==
  /\ termAlive = TRUE /\ attached = "none" /\ localTo = "none" /\ replyMode = "screens"
  /\ inputCh = 0
  /\ termTurn = 0 /\ active = 0 /\ activeMode = "text" /\ activeLocal = FALSE
  /\ idleGen = 0 /\ candidate = FALSE /\ inFlight = FALSE
  /\ progress = 0 /\ progressBusy = FALSE
  /\ pendingOut = {} /\ messages = {}
  /\ chunk = 0 /\ outAt = "idle" /\ out = NoOut
  /\ finals = {}
  /\ owner = [t \in Turns |-> "none"] /\ ingested = {}
  /\ discarded = {} /\ answered = [t \in Turns |-> 0] /\ moved = FALSE

-----------------------------------------------------------------------------
(* TerminalRegistry *)

\* TerminalDeliveryTarget
Target == IF attached # "none" THEN attached ELSE localTo

\* beginTurn
BeginTurn(mode, local) ==
  /\ termTurn < TermTurns
  /\ termTurn' = termTurn + 1
  /\ active' = termTurn'
  /\ activeMode' = mode /\ activeLocal' = local
  /\ idleGen' = 0 /\ candidate' = FALSE /\ inFlight' = FALSE
  /\ progress' = 0 /\ progressBusy' = FALSE
  /\ pendingOut' = {} /\ messages' = {}
  /\ owner' = [owner EXCEPT ![termTurn'] = Target]
  /\ ingested' = {} /\ discarded' = {}
  /\ UNCHANGED <<answered, moved>>

\* CompleteActiveTurn and CompleteTurnScreenshot
CompleteTurn(t) ==
  IF active = t
  THEN /\ active' = 0
       /\ activeMode' = "text" /\ activeLocal' = FALSE
       /\ idleGen' = 0 /\ candidate' = FALSE /\ inFlight' = FALSE
       /\ progress' = 0 /\ progressBusy' = FALSE
       /\ messages' = {} /\ ingested' = {} /\ discarded' = {}
       /\ UNCHANGED <<termTurn, pendingOut>>
  ELSE UNCHANGED <<turnVars, ingested, discarded>>

\* An attachment that changes while the output handler holds an earlier target.
Moving == moved' = (moved \/ outAt # "idle")

\* Mutant: the attachment may change during a turn.
AttachAnyTime(c) ==
  /\ termAlive
  /\ attached \in {"none", c}
  /\ attached' = c /\ localTo' = c
  /\ Moving
  /\ UNCHANGED <<termAlive, replyMode, inputCh, turnVars, chunk, outAt, out, finals,
                 owner, ingested, discarded, answered>>

Attach(c) ==
  /\ termAlive /\ active = 0
  /\ attached \in {"none", c}
  /\ attached' = c /\ localTo' = c
  /\ Moving
  /\ UNCHANGED <<termAlive, replyMode, inputCh, turnVars, chunk, outAt, out, finals,
                 owner, ingested, discarded, answered>>

\* Local typing is still reported to the chat that detaches.
DetachTerminal(c) ==
  /\ termAlive /\ active = 0
  /\ attached = c
  /\ attached' = "none"
  /\ Moving
  /\ UNCHANGED <<termAlive, localTo, replyMode, inputCh, turnVars, chunk, outAt, out,
                 finals, owner, ingested, discarded, answered>>

SetReplyMode(c, mode) ==
  /\ termAlive /\ attached = c
  /\ replyMode' = mode
  /\ UNCHANGED <<termAlive, attached, localTo, inputCh, turnVars, chunk, outAt, out,
                 finals, histVars>>

\* The terminal's client is gone: the session is deleted and every later lookup fails.
Unregister ==
  /\ termAlive
  /\ termAlive' = FALSE
  /\ attached' = "none" /\ localTo' = "none" /\ replyMode' = "text" /\ inputCh' = 0
  /\ active' = 0 /\ activeMode' = "text" /\ activeLocal' = FALSE
  /\ idleGen' = 0 /\ candidate' = FALSE /\ inFlight' = FALSE
  /\ progress' = 0 /\ progressBusy' = FALSE /\ pendingOut' = {} /\ messages' = {}
  /\ ingested' = {} /\ discarded' = {}
  /\ UNCHANGED <<termTurn, chunk, outAt, out, finals, owner, answered, moved>>

-----------------------------------------------------------------------------
(* Input *)

\* startTerminalInputForTurn: refused while a turn is active or the queue is full.  A
\* chat has looked for its terminal in an earlier section, and POST /terminal/input
\* does not look, so the input may meet any attachment, or none.
StartInput ==
  /\ termAlive /\ active = 0 /\ inputCh < InputCap
  /\ BeginTurn(replyMode, FALSE)
  /\ inputCh' = inputCh + 1
  /\ UNCHANGED <<regVars, chunk, outAt, out, finals>>

\* "/terminal stop"
ControlInput ==
  /\ termAlive /\ inputCh < InputCap
  /\ inputCh' = inputCh + 1
  /\ UNCHANGED <<regVars, turnVars, chunk, outAt, out, finals, histVars>>

\* The client polls the next input.
NextInput ==
  /\ termAlive /\ inputCh > 0
  /\ inputCh' = inputCh - 1
  /\ UNCHANGED <<regVars, turnVars, chunk, outAt, out, finals, histVars>>

\* Somebody types at the terminal: this preempts the turn of a chat, whose input is
\* dropped, and continues one that the terminal has begun itself.
LocalInput ==
  /\ termAlive /\ Target # "none"
  /\ ~(active # 0 /\ activeLocal)
  /\ BeginTurn(replyMode, TRUE)
  /\ inputCh' = IF active # 0 THEN 0 ELSE inputCh
  /\ UNCHANGED <<regVars, chunk, outAt, out, finals>>

-----------------------------------------------------------------------------
(* HandleTerminalOutput, section by section *)

Out(from, to) == outAt = from /\ outAt' = to

OutTarget ==
  /\ termAlive /\ chunk < Chunks
  /\ outAt = "idle"
  /\ chunk' = chunk + 1
  /\ out' = [NoOut EXCEPT !.to = Target]
  /\ outAt' \in IF Target # "none" THEN {"fallback", "ingest"} ELSE {"ingest"}
  /\ UNCHANGED <<regVars, inputCh, turnVars, finals, histVars>>

\* StartAttachedOutputTurnIfIdle, for output that looks like the start of an answer
OutFallback ==
  /\ Out("fallback", "ingest")
  /\ \/ /\ attached # "none" /\ active = 0 /\ replyMode = "screens"
        /\ BeginTurn(replyMode, TRUE)
     \/ /\ ~(attached # "none" /\ active = 0 /\ replyMode = "screens")
        /\ UNCHANGED <<turnVars, histVars>>
  /\ UNCHANGED <<regVars, inputCh, chunk, out, finals>>

OutIngest ==
  /\ Out("ingest", IF out.to = "none" THEN "idle" ELSE "active")
  /\ IF active # 0
     THEN /\ idleGen' = idleGen + 1
          /\ ingested' = ingested \cup {chunk}
     ELSE UNCHANGED <<idleGen, ingested>>
  /\ UNCHANGED <<regVars, inputCh, termTurn, active, activeMode, activeLocal, candidate,
                 inFlight, progress, progressBusy, pendingOut, messages, chunk, out,
                 finals, owner, discarded, answered, moved>>

OutActive ==
  /\ Out("active", "collect")
  /\ out' = [out EXCEPT !.turn = active, !.mode = activeMode]
  /\ UNCHANGED <<regVars, inputCh, turnVars, chunk, finals, histVars>>

\* collect.  The block that is pending is emitted at the next bullet or when it is
\* complete, dropped (plain text at the next bullet, a status, an incomplete tool
\* header, a duplicate) or kept.  Of the chunk some lines may be emitted, some kept as
\* or in a pending block, and some dropped: those without a bullet before them, those
\* of anonymous or status bullets.
Fates == {"emit", "keep", "drop"}

\* Without a turn what is emitted is sent to the chat at once.
OutCollect ==
  /\ Out("collect", IF out.turn = 0 THEN "idle" ELSE "append")
  /\ \E block \in Fates, lines \in (SUBSET Fates) \ {{}} :
       LET Part(fate) == (IF block = fate THEN pendingOut ELSE {})
                         \cup (IF fate \in lines THEN {chunk} ELSE {})
       IN  /\ ~termAlive => lines = {"drop"}
           /\ out' = IF out.turn = 0 THEN NoOut ELSE [out EXCEPT !.held = Part("emit")]
           /\ pendingOut' = Part("keep")
           /\ discarded' = discarded \cup
                IF activeMode = "text" THEN ingested \cap Part("drop") ELSE {}
  /\ UNCHANGED <<regVars, inputCh, termTurn, active, activeMode, activeLocal, idleGen,
                 candidate, inFlight, progress, progressBusy, messages, chunk, finals,
                 owner, ingested, answered, moved>>

\* AppendTurnMessages; progress is reported unless the output completes the turn.
OutAppend ==
  /\ outAt = "append"
  /\ outAt' \in IF out.mode = "screens" THEN {"progress", "mark"} ELSE {"mark"}
  /\ messages' = IF active = out.turn THEN messages \cup out.held
                 ELSE messages
  /\ out' = [out EXCEPT !.held = {}]
  /\ UNCHANGED <<regVars, inputCh, termTurn, active, activeMode, activeLocal, idleGen,
                 candidate, inFlight, progress, progressBusy, pendingOut, chunk, finals,
                 histVars>>

\* Mutant: every output may report progress.
ProgressUncapped ==
  /\ outAt = "progress"
  /\ \/ /\ active = out.turn /\ activeMode = "screens"
        /\ ~progressBusy
        /\ progress' = progress + 1 /\ progressBusy' = TRUE
        /\ outAt' = "sent"
     \/ outAt' = "mark" /\ UNCHANGED <<progress, progressBusy>>
  /\ UNCHANGED <<regVars, inputCh, termTurn, active, activeMode, activeLocal, idleGen,
                 candidate, inFlight, pendingOut, messages, chunk, out, finals,
                 histVars>>

\* TryClaimTurnProgressScreenshot
OutProgress ==
  /\ outAt = "progress"
  /\ \/ /\ active = out.turn /\ activeMode = "screens"
        /\ ~progressBusy /\ progress < ProgressMax
        /\ progress' = progress + 1 /\ progressBusy' = TRUE
        /\ outAt' = "sent"
     \/ outAt' = "mark" /\ UNCHANGED <<progress, progressBusy>>
  /\ UNCHANGED <<regVars, inputCh, termTurn, active, activeMode, activeLocal, idleGen,
                 candidate, inFlight, pendingOut, messages, chunk, out, finals,
                 histVars>>

\* FinishTurnProgressScreenshot
OutProgressSent ==
  /\ Out("sent", "mark")
  /\ progressBusy' = (progressBusy /\ ~(active = out.turn /\ activeMode = "screens"))
  /\ UNCHANGED <<regVars, inputCh, termTurn, active, activeMode, activeLocal, idleGen,
                 candidate, inFlight, progress, pendingOut, messages, chunk, out, finals,
                 histVars>>

\* MarkTurnCompletionCandidate starts the timer of the final answer.
OutMark ==
  /\ Out("mark", "idle")
  /\ out' = NoOut
  /\ IF active = out.turn
     THEN /\ candidate' = TRUE
          /\ finals' = finals \cup {[turn |-> out.turn, gen |-> idleGen, to |-> out.to,
                                     mode |-> out.mode, at |-> "armed"]}
     ELSE UNCHANGED <<candidate, finals>>
  /\ UNCHANGED <<regVars, inputCh, termTurn, active, activeMode, activeLocal, idleGen,
                 inFlight, progress, progressBusy, pendingOut, messages, chunk,
                 histVars>>

OutStep == OutFallback \/ OutIngest \/ OutActive \/ OutCollect \/ OutAppend
           \/ OutProgress \/ OutProgressSent \/ OutMark

-----------------------------------------------------------------------------
(* The final answer *)

\* Mutant: output that came since the timer was started does not matter.
ClaimableAnyGen(f) ==
  /\ active = f.turn /\ activeMode = f.mode /\ candidate
  /\ f.mode = "screens" => ~inFlight

\* The timer of the last output fires when the terminal has been idle since: the
\* generation tells.  A text answer has no flag against a second claim.
Claimable(f) ==
  /\ active = f.turn /\ activeMode = f.mode /\ candidate
  /\ idleGen = f.gen
  /\ f.mode = "screens" => ~inFlight

\* collect("", true): the block that is pending ends.  It is emitted, or dropped as a
\* status, an incomplete tool header or a duplicate.
FlushTail ==
  /\ pendingOut' = {}
  /\ \/ messages' = messages \cup pendingOut /\ UNCHANGED discarded
     \/ discarded' = discarded \cup (ingested \cap pendingOut) /\ UNCHANGED messages

\* Mutant: the claim is not recorded.
ClaimUnmarked(f) ==
  /\ f \in finals /\ f.at = "armed"
  /\ IF Claimable(f)
     THEN /\ finals' = (finals \ {f}) \cup {[f EXCEPT !.at = "claimed"]}
          /\ UNCHANGED inFlight
          /\ IF f.mode = "text" THEN FlushTail
             ELSE UNCHANGED <<messages, pendingOut, discarded>>
     ELSE /\ finals' = finals \ {f}
          /\ UNCHANGED <<inFlight, messages, pendingOut, discarded>>
  /\ UNCHANGED <<regVars, inputCh, termTurn, active, activeMode, activeLocal, idleGen,
                 candidate, progress, progressBusy, chunk, outAt, out, owner, ingested,
                 answered, moved>>

\* TryClaimIdleFinalScreenshot, TryClaimIdleFinalText
ClaimFinal(f) ==
  /\ f \in finals /\ f.at = "armed"
  /\ IF Claimable(f)
     THEN /\ finals' = (finals \ {f}) \cup {[f EXCEPT !.at = "claimed"]}
          /\ inFlight' = (inFlight \/ f.mode = "screens")
          /\ IF f.mode = "text" THEN FlushTail
             ELSE UNCHANGED <<messages, pendingOut, discarded>>
     ELSE /\ finals' = finals \ {f}
          /\ UNCHANGED <<inFlight, messages, pendingOut, discarded>>
  /\ UNCHANGED <<regVars, inputCh, termTurn, active, activeMode, activeLocal, idleGen,
                 candidate, progress, progressBusy, chunk, outAt, out, owner, ingested,
                 answered, moved>>

\* The answer is sent to the chat the handler had looked up.
SendFinal(f) ==
  /\ f \in finals /\ f.at = "claimed"
  /\ finals' = (finals \ {f}) \cup {[f EXCEPT !.at = "sent"]}
  /\ answered' = [answered EXCEPT ![f.turn] = IF f.mode = "screens" THEN @ + 1 ELSE @]
  /\ UNCHANGED <<regVars, inputCh, turnVars, chunk, outAt, out, owner, ingested,
                 discarded, moved>>

\* Mutant: a turn whose answer is out stays active.
FinishNothing(f) ==
  /\ f \in finals /\ f.at = "sent"
  /\ finals' = finals \ {f}
  /\ UNCHANGED <<regVars, inputCh, turnVars, chunk, outAt, out, histVars>>

FinishFinal(f) ==
  /\ f \in finals /\ f.at = "sent"
  /\ finals' = finals \ {f}
  /\ CompleteTurn(f.turn)
  /\ UNCHANGED <<regVars, inputCh, chunk, outAt, out, owner, answered, moved>>

FinalStep == \E f \in finals : ClaimFinal(f) \/ SendFinal(f) \/ FinishFinal(f)

TermNext ==
  \/ \E c \in Chats : \/ Attach(c) \/ DetachTerminal(c)
                      \/ \E mode \in {"text", "screens"} : SetReplyMode(c, mode)
  \/ Unregister \/ StartInput \/ ControlInput \/ NextInput \/ LocalInput
  \/ OutTarget \/ OutStep \/ FinalStep

\* The handler runs on, and timers fire: nothing else is needed of anybody.
TermFair == WF_TermVars(OutStep) /\ WF_TermVars(FinalStep)

TermSpec == TermInit /\ [][TermNext]_TermVars /\ TermFair

-----------------------------------------------------------------------------
(* Properties *)

TermTypeOK ==
  /\ termAlive \in BOOLEAN
  /\ {attached, localTo} \subseteq Chats \cup {"none"}
  /\ {replyMode, activeMode} \subseteq {"text", "screens"}
  /\ inputCh \in 0 .. InputCap
  /\ termTurn \in 0 .. TermTurns /\ active \in {0, termTurn}
  /\ {activeLocal, candidate, inFlight, progressBusy, moved} \subseteq BOOLEAN
  /\ idleGen \in 0 .. Chunks /\ progress \in 0 .. ProgressMax
  /\ {pendingOut, messages, discarded} \subseteq SUBSET (1 .. chunk)
  /\ chunk \in 0 .. Chunks

\* A turn that is shown in screenshots is answered once, however the timers of its
\* outputs, new output during the rendering and preempting local input interleave.
\* (Of text turns this is not claimed: output that comes while a long answer is
\* being sent starts a timer that claims the turn again.)
FinalOnce == \A f \in finals :
  f.mode = "screens" /\ f.at \in {"claimed", "sent"}
    => answered[f.turn] + (IF f.at = "claimed" THEN 1 ELSE 0) = 1

\* An answer goes to the chat that the terminal reported to when the turn began:
\* Attach and Detach are refused during a turn.  Excluded is an attachment that
\* changes between the sections of an output handler, which keeps the old target.
FinalToOwner == \A f \in finals : ~moved => f.to = owner[f.turn]

\* When a timer claims a text answer, no output of its turn is still in the handler's
\* hand, and the answer contains every output but that of which collect has dropped
\* lines: the handler marks the turn after it has appended, and a later output makes the
\* timer void.  What collect drops is in no answer.  (A handler that found no chat
\* before one attached does not append.)
FinalComplete == [][\A f \in finals :
  f.mode = "text" /\ f.at = "armed" /\ active = f.turn /\ ~moved
    /\ [f EXCEPT !.at = "claimed"] \in finals' \ finals
      => /\ outAt \in {"active", "collect", "append"} => chunk \notin ingested
         /\ ingested \ discarded' \subseteq messages']_TermVars

\* A turn for a chat that has had output ends, so that the terminal takes input
\* again and the chat can detach.
TurnEnds == \A t \in Turns :
  []<>(active = t /\ ingested # {} /\ owner[t] # "none" => moved)
=============================================================================
