------------------------- MODULE StreamPreview_proofs -------------------------
(***************************************************************************)
(* Proofs about StreamPreview, for any number of texts, any limit of the   *)
(* preview and any failures of the platform.                               *)
(***************************************************************************)
EXTENDS StreamPreview, TLAPS

-----------------------------------------------------------------------------
(* A degraded preview is not edited any more: every edit in the module sits
   behind a test of degraded that was made under the same hold of sp.mu.     *)

USE DEF platVars, loopVars, sentVars, timerVars, chatVars, spVars, To

LEMMA LoopFreezes ==
  ASSUME degraded,
         \/ EventText \/ AppendText \/ Freeze \/ Detach \/ Result \/ SendRest \/ Finish
         \/ SendReply \/ Abort \/ \E kind \in {"thinking", "tool", "permission"} : Interrupt(kind)
  PROVE  degraded' /\ shown' = shown
<1>1. CASE EventText \/ Detach \/ Result \/ SendReply
  BY <1>1 DEF EventText, Detach, Result, SendReply
<1>2. CASE AppendText
  BY <1>2 DEF AppendText
<1>3. CASE Freeze
  BY <1>3 DEF Freeze
<1>4. CASE SendRest \/ Abort
  BY <1>4 DEF SendRest, Abort, Discard
<1>5. CASE Finish
  BY <1>5 DEF Finish, FinishInactive, FinishDelete, FinishInPlace
<1>6. CASE \E kind \in {"thinking", "tool", "permission"} : Interrupt(kind)
  BY <1>6 DEF Interrupt
<1>7. QED
  BY <1>1, <1>2, <1>3, <1>4, <1>5, <1>6

LEMMA TimersFreeze ==
  ASSUME degraded, NEW i \in Piece, Fire(i) \/ TimerFlush(i)
  PROVE  degraded' /\ shown' = shown
  BY DEF Fire, TimerFlush

\* After freeze, discard or a failed edit, neither the turn nor a late timer edits
\* the message that stays in the chat.
THEOREM Frozen == Spec => FrozenStays
<1>1. [Next]_vars => [degraded => degraded' /\ shown' = shown]_vars
  BY LoopFreezes, TimersFreeze DEF Next
<1>2. QED
  BY <1>1, PTL DEF Spec, FrozenStays

HIDE DEF platVars, loopVars, sentVars, timerVars, chatVars, spVars, To

-----------------------------------------------------------------------------
(* Types and timers.  TypeOK is not inductive: a new timer is named after the
   text that has been accumulated, which must be one of the texts that were
   heard.  That is so because a preview that is not degraded lags the event
   loop by at most the text that is about to be appended.                     *)

Lag == ~degraded => heard = IF pc = "append" THEN full + 1 ELSE full

IInv == TypeOK /\ Lag /\ TimerPending

\* The limit applies to what is shown, and a text that was cut is a longer text.
LEMMA Limits ==
  ASSUME NEW k \in Nat
  PROVE  /\ Display(k) \in 0 .. k /\ Capped(k) \in 0 .. k
         /\ Capped(k) <= MaxChars /\ Capped(Display(k)) = Capped(k)
  BY Sizes DEF Display, Capped

\* A longer text displays a longer text.
LEMMA Grows ==
  ASSUME NEW k \in Nat, NEW n \in Nat, k <= n
  PROVE  Display(k) <= Display(n)
  BY Sizes DEF Display

\* What the preview and the chat look like, apart from the timers, when k of n texts
\* have been accumulated.
Looks(k, n) ==
  /\ lastSent \in 0 .. Display(k) /\ edited \in BOOLEAN
  /\ handle \in BOOLEAN /\ degraded \in BOOLEAN /\ failed \in BOOLEAN /\ bare \in BOOLEAN
  /\ post \in {"none", "up", "deleted"} /\ shown \in SUBSET (1 .. n)
  /\ copies \in [Piece -> Nat] /\ strays \in [Piece -> Nat]

\* What a start without a handle leaves in the chat is counted.
LEMMA Strays ==
  ASSUME strays \in [Piece -> Nat], NEW k, Stray(k)
  PROVE  strays' \in [Piece -> Nat]
  BY DEF Stray

\* A flush keeps it that way, and within the limit.
LEMMA Flushes ==
  ASSUME NEW k \in Nat, NEW n \in Nat, k <= n, Looks(k, n), Flush(Display(k))
  PROVE  /\ Looks(k, n)'
         /\ shown \subseteq 1 .. MaxChars => shown' \subseteq 1 .. MaxChars
<1>1. Display(k) \in 0 .. Display(k)
  BY Limits
<1> DEFINE new == 1 .. Capped(Display(k))
<1>2. new \in SUBSET (1 .. n) /\ new \subseteq 1 .. MaxChars
  BY Limits, Sizes
<1>3. CASE StartPreview(Display(k))
  <2>1. CASE /\ degraded' = TRUE /\ Stray(Display(k))
             /\ UNCHANGED <<handle, sentVars, post, shown, copies, failed, bare>>
    <3>1. strays' \in [Piece -> Nat]
      BY <2>1, Strays DEF Looks
    <3>2. QED
      BY <2>1, <3>1 DEF Looks, sentVars
  <2>2. CASE /\ post' = "up" /\ shown' = new /\ handle' = TRUE
             /\ lastSent' = Display(k) /\ edited' = FALSE
             /\ UNCHANGED <<degraded, copies, strays, failed, bare>>
    BY <1>1, <1>2, <2>2 DEF Looks
  <2>3. CASE /\ lastSent' = Display(k) /\ edited' = FALSE /\ bare' = TRUE /\ Stray(Display(k))
             /\ UNCHANGED <<handle, degraded, post, shown, copies, failed>>
    <3>1. strays' \in [Piece -> Nat]
      BY <2>3, Strays DEF Looks
    <3>2. QED
      BY <1>1, <2>3, <3>1 DEF Looks
  <2>4. QED
    BY <1>3, <2>1, <2>2, <2>3 DEF StartPreview
<1>4. CASE UpdatePreview(Display(k))
  <2>1. CASE /\ degraded' = TRUE /\ failed' = (failed \/ post = "up")
             /\ UNCHANGED <<handle, sentVars, chatVars, bare>>
    BY <2>1 DEF Looks, sentVars, chatVars
  <2>2. CASE /\ shown' = new /\ lastSent' = Display(k) /\ edited' = TRUE
             /\ UNCHANGED <<degraded, handle, post, copies, strays, failed, bare>>
    BY <1>1, <1>2, <2>2 DEF Looks
  <2>3. QED
    BY <1>4, <2>1, <2>2 DEF UpdatePreview
<1>5. CASE UNCHANGED <<handle, degraded, sentVars, chatVars, failed, bare>>
  BY <1>5 DEF Looks, sentVars, chatVars
<1>6. QED
  BY <1>3, <1>4, <1>5 DEF Flush

\* The timers by themselves.
TimersOK ==
  /\ timer \in Piece \cup {0}
  /\ timers \in [Piece -> {"unused", "armed", "due", "over"}]
  /\ TimerPending

LEMMA Cancels ==
  ASSUME TimersOK, CancelTimer
  PROVE  TimersOK'
  BY DEF TimersOK, CancelTimer, TimerPending

LEMMA Starts ==
  ASSUME TimersOK, NEW i \in Piece, timer' = i,
         timers' = [timers EXCEPT ![i] = "armed"]
  PROVE  TimersOK'
  BY DEF TimersOK, TimerPending

LEMMA TimersStay ==
  ASSUME TimersOK, UNCHANGED timerVars
  PROVE  TimersOK'
  BY DEF TimersOK, TimerPending, timerVars

\* Where the event loop is, and how much it has heard.
LoopOK ==
  /\ cleaner \in BOOLEAN /\ keeps \in BOOLEAN /\ shows \in SUBSET {"thinking", "tool"}
  /\ pc \in {"loop", "append", "freeze", "detach", "rest", "finish", "reply", "over",
             "aborted"}
  /\ heard \in 0 .. MaxText /\ segment \in 0 .. heard /\ from \in 0 .. segment
  /\ tools \in BOOLEAN /\ live \in BOOLEAN
  /\ full \in 0 .. heard

Shows == pc # "over" => shown \subseteq 1 .. MaxChars

\* The parts together, before and after a step.
LEMMA Parts ==
  /\ IInv <=> LoopOK /\ Looks(full, heard) /\ TimersOK /\ Shows /\ Lag
  /\ (LoopOK /\ Looks(full, heard) /\ TimersOK /\ Shows /\ Lag)' => IInv'
<1>1. IInv <=> LoopOK /\ Looks(full, heard) /\ TimersOK /\ Shows /\ Lag
  BY DEF IInv, TypeOK, LoopOK, Looks, TimersOK, Shows
<1>2. (LoopOK /\ Looks(full, heard) /\ TimersOK /\ Shows /\ Lag)' => IInv'
  BY DEF IInv, TypeOK, LoopOK, Looks, TimersOK, Shows
<1>3. QED
  BY <1>1, <1>2

\* Hearing more, or showing no more than before, keeps the looks.
LEMMA LooksOn ==
  ASSUME LoopOK, Looks(full, heard), heard' \in Nat, heard <= heard', full' = full,
         UNCHANGED <<sentVars, post, shown, copies, strays, failed, bare>>,
         handle' \in BOOLEAN, degraded' \in BOOLEAN
  PROVE  Looks(full, heard)'
<1>1. 1 .. heard \subseteq 1 .. heard'
  BY Sizes DEF LoopOK
<1>2. QED
  BY <1>1 DEF Looks, sentVars, Display

USE DEF platVars, loopVars, sentVars, chatVars, spVars, To

LEMMA LoopTypes ==
  ASSUME IInv, EventText \/ Detach \/ Result
  PROVE  IInv'
<1>1. LoopOK /\ Looks(full, heard) /\ TimersOK /\ Shows /\ Lag
  BY Parts
<1>2. TimersOK'
  BY <1>1, TimersStay DEF EventText, Detach, Result
<1>3. CASE EventText
  <2>1. LoopOK' /\ Shows' /\ Lag'
    BY <1>1, <1>3, Sizes DEF EventText, LoopOK, Shows, Lag
  <2>2. Looks(full, heard)'
    BY <1>1, <1>3, Sizes, LooksOn DEF EventText, LoopOK, Looks
  <2>3. QED
    BY <1>2, <2>1, <2>2, Parts
<1>4. CASE Detach
  <2>1. LoopOK' /\ Shows' /\ Lag'
    BY <1>1, <1>4 DEF Detach, LoopOK, Shows, Lag
  <2>2. Looks(full, heard)'
    BY <1>1, <1>4, Sizes, LooksOn DEF Detach, LoopOK, Looks
  <2>3. QED
    BY <1>2, <2>1, <2>2, Parts
<1>5. CASE Result
  <2>1. LoopOK' /\ Shows' /\ Lag'
    BY <1>1, <1>5 DEF Result, LoopOK, Shows, Lag
  <2>2. Looks(full, heard)'
    BY <1>1, <1>5, Sizes, LooksOn DEF Result, LoopOK, Looks
  <2>3. QED
    BY <1>2, <2>1, <2>2, Parts
<1>6. QED
  BY <1>3, <1>4, <1>5

LEMMA AppendTypes ==
  ASSUME IInv, AppendText
  PROVE  IInv'
<1>1. LoopOK /\ Looks(full, heard) /\ TimersOK /\ Shows /\ Lag
  BY Parts
<1>2. pc = "append" /\ pc' = "loop" /\ UNCHANGED <<platVars, loopVars>>
  BY DEF AppendText
<1>3. CASE degraded /\ UNCHANGED <<spVars, timerVars>>
  <2>1. LoopOK' /\ Shows' /\ Lag'
    BY <1>1, <1>2, <1>3 DEF LoopOK, Shows, Lag
  <2>2. Looks(full, heard)'
    BY <1>1, <1>2, <1>3 DEF Looks
  <2>3. QED
    BY <1>1, <1>3, <2>1, <2>2, TimersStay, Parts
<1>4. CASE ~degraded /\ full' = full + 1
  <2>1. LoopOK' /\ Lag' /\ full' \in Piece /\ heard' = full'
    BY <1>1, <1>2, <1>4, Sizes DEF LoopOK, Lag, Piece
  <2>2. Display(full) <= Display(full') /\ full \in Nat
    BY <1>1, <1>4, Grows, Sizes DEF LoopOK
  <2>3. Looks(full', heard)
    <3>1. Display(full) \in Nat /\ Display(full') \in Nat
      BY <2>1, <2>2, Sizes DEF Display, Piece
    <3>2. 0 .. Display(full) \subseteq 0 .. Display(full')
      BY <2>2, <3>1
    <3>3. QED
      BY <1>1, <3>2 DEF Looks
  <2>4. CASE UNCHANGED <<sentVars, handle, degraded, chatVars, failed, bare>>
    <3>1. Looks(full, heard)' /\ Shows'
      BY <1>1, <1>2, <2>3, <2>4 DEF Looks, Shows
    <3>2. CASE UNCHANGED timerVars
      BY <1>1, <2>1, <3>1, <3>2, TimersStay, Parts
    <3>3. CASE timer' = full + 1 /\ timers' = [timers EXCEPT ![full + 1] = "armed"]
      BY <1>1, <1>4, <2>1, <3>1, <3>3, Starts, Parts
    <3>4. CASE CancelTimer
      BY <1>1, <2>1, <3>1, <3>4, Cancels, Parts
    <3>5. QED
      BY <1>4, <1>1, <2>4, <3>2, <3>3, <3>4 DEF AppendText
  <2>5. CASE CancelTimer /\ Flush(Display(full + 1))
    <3>1. Looks(full, heard)' /\ Shows'
      BY <1>1, <1>2, <1>4, <2>1, <2>3, <2>5, Flushes, Sizes DEF Looks, Shows, LoopOK
    <3>2. QED
      BY <1>1, <2>1, <2>5, <3>1, Cancels, Parts
  <2>6. QED
    BY <1>4, <2>4, <2>5 DEF AppendText
<1>5. QED
  BY <1>3, <1>4 DEF AppendText, timerVars

LEMMA InterruptTypes ==
  ASSUME IInv, NEW kind \in {"thinking", "tool", "permission"}, Interrupt(kind)
  PROVE  IInv'
<1>1. LoopOK /\ Looks(full, heard) /\ TimersOK /\ Shows /\ Lag
  BY Parts
<1>2. LoopOK' /\ Shows' /\ Lag'
  BY <1>1 DEF Interrupt, LoopOK, Shows, Lag, Looks
<1>3. copies' \in [Piece -> Nat]
  BY <1>1 DEF Interrupt, Looks
<1>4. Looks(full, heard)'
  BY <1>1, <1>3 DEF Interrupt, Looks
<1>5. TimersOK'
  BY <1>1, TimersStay DEF Interrupt
<1>6. QED
  BY <1>2, <1>4, <1>5, Parts

LEMMA FreezeTypes ==
  ASSUME IInv, Freeze
  PROVE  IInv'
<1>1. LoopOK /\ Looks(full, heard) /\ TimersOK /\ Shows /\ Lag
  BY Parts
<1>2. 1 .. Capped(full) \subseteq 1 .. heard /\ 1 .. Capped(full) \subseteq 1 .. MaxChars
  BY <1>1, Limits, Sizes DEF LoopOK
<1>3. LoopOK' /\ Shows' /\ Lag'
  BY <1>1, <1>2 DEF Freeze, LoopOK, Shows, Lag
<1>4. Looks(full, heard)'
  BY <1>1, <1>2 DEF Freeze, Looks
<1>5. TimersOK'
  BY <1>1, Cancels DEF Freeze
<1>6. QED
  BY <1>3, <1>4, <1>5, Parts

LEMMA FinishTypes ==
  ASSUME IInv, Finish
  PROVE  IInv'
<1>1. LoopOK /\ Looks(full, heard) /\ TimersOK /\ Shows /\ Lag
  BY Parts
<1>2. pc = "finish" /\ pc' \in {"reply", "over"} /\ UNCHANGED <<platVars, loopVars, full>>
  BY DEF Finish, FinishInactive, FinishDelete, FinishInPlace
<1>3. from + 1 .. heard \subseteq 1 .. heard
  BY <1>1, Sizes DEF LoopOK
<1>4. LoopOK' /\ Lag'
  BY <1>1, <1>2 DEF Finish, LoopOK, Lag, FinishInactive, FinishDelete, FinishInPlace
<1>5. Shows'
  BY <1>1, <1>2 DEF Finish, Shows, FinishInactive, FinishDelete, FinishInPlace
<1>6. post' \in {"none", "up", "deleted"} /\ shown' \in SUBSET (1 .. heard)
  BY <1>1, <1>3 DEF Finish, FinishInactive, FinishDelete, FinishInPlace, Delete, Looks
<1>7. Looks(full, heard)'
  BY <1>1, <1>2, <1>6 DEF Finish, FinishInactive, FinishDelete, FinishInPlace, Looks
<1>8. TimersOK'
  BY <1>1, Cancels DEF Finish
<1>9. QED
  BY <1>4, <1>5, <1>7, <1>8, Parts

LEMMA EndTypes ==
  ASSUME IInv, SendRest \/ SendReply \/ Abort
  PROVE  IInv'
<1>1. LoopOK /\ Looks(full, heard) /\ TimersOK /\ Shows /\ Lag
  BY Parts
<1>2. TimersOK'
  BY <1>1, Cancels, TimersStay DEF SendRest, SendReply, Abort, Discard
<1>3. copies' \in [Piece -> Nat] /\ post' \in {"none", "up", "deleted"}
  BY <1>1 DEF SendRest, SendReply, Abort, Discard, Delete, Looks
<1>4. CASE SendRest
  BY <1>1, <1>2, <1>3, <1>4, Parts DEF SendRest, LoopOK, Shows, Lag, Looks
<1>5. CASE SendReply
  BY <1>1, <1>2, <1>3, <1>5, Parts DEF SendReply, LoopOK, Shows, Lag, Looks
<1>6. CASE Abort
  BY <1>1, <1>2, <1>3, <1>6, Parts DEF Abort, Discard, LoopOK, Shows, Lag, Looks
<1>7. QED
  BY <1>4, <1>5, <1>6

LEMMA TimerTypes ==
  ASSUME IInv, NEW i \in Piece, Fire(i) \/ TimerFlush(i)
  PROVE  IInv'
<1>1. LoopOK /\ Looks(full, heard) /\ TimersOK /\ Shows /\ Lag
  BY Parts
<1>2. CASE Fire(i)
  <2>1. TimersOK'
    BY <1>1, <1>2 DEF Fire, TimersOK, TimerPending
  <2>2. QED
    BY <1>1, <1>2, <2>1, Parts DEF Fire, LoopOK, Shows, Lag, Looks
<1>3. CASE TimerFlush(i)
  <2>1. TimersOK'
    BY <1>1, <1>3 DEF TimerFlush, TimersOK, TimerPending
  <2>2. LoopOK' /\ Lag' /\ UNCHANGED <<pc, full, heard>>
    BY <1>1, <1>3 DEF TimerFlush, LoopOK, Lag, Flush, StartPreview, UpdatePreview
  <2>3. CASE Flush(Display(full))
    <3>1. Looks(full, heard)' /\ Shows'
      BY <1>1, <2>2, <2>3, Flushes, Sizes DEF Looks, Shows, LoopOK
    <3>2. QED
      BY <2>1, <2>2, <3>1, Parts
  <2>4. CASE UNCHANGED <<handle, degraded, sentVars, chatVars, failed, bare>>
    BY <1>1, <2>1, <2>2, <2>4, Parts DEF Looks, Shows
  <2>5. QED
    BY <1>3, <2>3, <2>4 DEF TimerFlush
<1>4. QED
  BY <1>2, <1>3

\* It holds at the start, and every step keeps it.
LEMMA Starting == Init => IInv
<1>1. ASSUME Init PROVE LoopOK /\ TimersOK /\ Shows /\ Lag
  <2>1. LoopOK
    <3>1. /\ cleaner \in BOOLEAN /\ keeps \in BOOLEAN /\ shows \in SUBSET {"thinking", "tool"}
          /\ pc = "loop" /\ tools = FALSE /\ live = FALSE
      BY <1>1 DEF Init
    <3>2. heard = 0 /\ segment = 0 /\ from = 0 /\ full = 0
      BY <1>1 DEF Init
    <3>3. heard \in 0 .. MaxText /\ segment \in 0 .. heard /\ from \in 0 .. segment
                                 /\ full \in 0 .. heard
      BY <3>2, Sizes
    <3>4. QED
      BY <3>1, <3>3 DEF LoopOK
  <2>2. TimersOK
    BY <1>1 DEF Init, TimersOK, TimerPending
  <2>3. Shows /\ Lag
    BY <1>1 DEF Init, Shows, Lag
  <2>4. QED
    BY <2>1, <2>2, <2>3
<1>2. ASSUME Init PROVE Looks(full, heard)
  <2>1. lastSent \in 0 .. Display(full)
    BY <1>2, Sizes DEF Init, Display
  <2>2. copies \in [Piece -> Nat] /\ strays \in [Piece -> Nat]
    BY <1>2 DEF Init
  <2>3. QED
    BY <1>2, <2>1, <2>2 DEF Init, Looks
<1>3. QED
  BY <1>1, <1>2, Parts

LEMMA TypeStep == ASSUME IInv, [Next]_vars PROVE IInv'
<1>1. CASE UNCHANGED vars
  BY <1>1 DEF vars, timerVars, IInv, TypeOK, Lag, TimerPending, Display
<1>2. ASSUME IInv, Next PROVE IInv'
  BY <1>2, LoopTypes, AppendTypes, InterruptTypes, FreezeTypes, FinishTypes, EndTypes,
     TimerTypes DEF Next
<1>3. QED
  BY <1>1, <1>2

LEMMA Inductive == Spec => []IInv
BY Starting, TypeStep, PTL DEF Spec

\* The variables have their types: no timer callback, however late, shows text the
\* agent has not written or, before the turn is over, more than MaxChars of it.
THEOREM Types == Spec => []TypeOK
<1>1. IInv => TypeOK
  BY DEF IInv
<1>2. QED
  BY <1>1, Inductive, PTL

\* A timer that the preview remembers has not run yet, so that the throttle never
\* waits for a flush that nobody will make.
THEOREM Pending == Spec => []TimerPending
<1>1. IInv => TimerPending
  BY DEF IInv
<1>2. QED
  BY <1>1, Inductive, PTL

HIDE DEF platVars, loopVars, sentVars, chatVars, spVars, To

-----------------------------------------------------------------------------
(* A finished answer that fits the preview is read once, apart from what its
   result repeats and what failed starts leave in the chat.  The invariant
   follows the answer through five phases; what rules a turn out of the claim (a
   limit that was hit, a start without a handle, an edit that failed where it
   cannot be made good) rules it out for the rest of the turn.               *)

\* A preview that has no message and may still send its first has not accumulated any
\* text, and nobody but the event loop is going to flush it.
Calm == ~degraded /\ ~handle /\ ~bare =>
  full = 0 /\ \A i \in Piece : timers[i] \in {"unused", "over"}

\* The turns that the property is about, told at any time.
Claimed ==
  /\ pc # "aborted" /\ full <= MaxChars /\ ~bare
  /\ failed => cleaner /\ segment = 0

\* The messages that contain piece i and are not left over from a failed start.
Meant(i) == copies[i] + (IF post = "up" /\ i \in shown THEN 1 ELSE 0)

\* The chat has the first n pieces of the text, each once, and no other.
Holds(n) == \A i \in Piece : Meant(i) = IF i <= n THEN 1 ELSE 0

\* It has the whole text, and what the reply repeats of the segments twice.
Repeats == \A i \in Piece :
  Meant(i) = IF i > heard THEN 0 ELSE IF from < i /\ i <= segment THEN 2 ELSE 1

NoCopies == \A i \in Piece : copies[i] = 0

\* The preview shows what it has sent, and there is nothing beside it.
Writing ==
  /\ pc \in {"loop", "append", "freeze", "finish"} /\ ~degraded /\ ~failed /\ NoCopies
  /\ IF handle THEN post = "up" /\ shown = 1 .. lastSent /\ full > 0 ELSE post = "none"
  /\ segment = IF pc = "freeze" THEN heard ELSE 0
  /\ pc = "freeze" => live

\* An edit has failed; the message will be deleted.
Broken ==
  /\ pc \in {"loop", "append", "finish"} /\ degraded /\ failed /\ NoCopies
  /\ handle /\ post = "up" /\ heard > 0

\* Segments are in the chat, the first perhaps as the preview that was frozen.
Parted ==
  /\ pc \in {"loop", "append", "freeze", "detach", "rest", "finish"} /\ degraded /\ ~failed
  /\ Holds(segment) /\ (handle => pc = "detach") /\ (pc = "rest" => from = segment)

\* What the chat does not have goes out as a message, and no timer shows it too.
Replying == pc = "reply" /\ Holds(segment) /\ (~degraded /\ handle => post = "deleted")

\* All is there, and a late timer can only show the same.
Read ==
  /\ pc = "over" /\ Repeats
  /\ ~degraded /\ handle /\ post = "up" => full = heard /\ NoCopies /\ segment = 0

OnceInv ==
  /\ IInv /\ Calm /\ (pc = "detach" => degraded)
  /\ Claimed => Writing \/ Broken \/ Parted \/ Replying \/ Read

USE DEF platVars, loopVars, sentVars, timerVars, chatVars, spVars, To

\* Only the event loop sends the first message; what it cancels stays cancelled.
LEMMA CalmStep ==
  ASSUME IInv, Calm, pc = "detach" => degraded, [Next]_vars
  PROVE  Calm' /\ (pc' = "detach" => degraded')
<1>1. LoopOK /\ Looks(full, heard) /\ TimersOK
  BY Parts
<1>2. CASE UNCHANGED vars
  BY <1>2 DEF vars, Calm
<1>3. CASE EventText \/ Detach \/ Result \/ SendRest \/ SendReply
  BY <1>3 DEF Calm, EventText, Detach, Result, SendRest, SendReply
<1>4. CASE AppendText
  <2>1. ~degraded /\ ~handle /\ ~bare => Display(full + 1) \notin {0, lastSent} /\ lastSent = 0
    <3>1. ASSUME ~degraded, ~handle, ~bare PROVE full = 0 /\ lastSent \in 0 .. 0
      BY <1>1, <3>1, Sizes DEF Calm, Display, Looks
    <3> QED BY <3>1, Sizes DEF Display
  <2> QED BY <1>4, <2>1 DEF Calm, AppendText, Flush, StartPreview, UpdatePreview
<1>5. CASE Freeze
  BY <1>5 DEF Calm, Freeze
<1>6. CASE Finish
  BY <1>1, <1>6 DEF Calm, Finish, FinishInactive, FinishDelete, FinishInPlace, CancelTimer,
     TimersOK
<1>7. CASE Abort
  BY <1>7 DEF Calm, Abort, Discard
<1>8. CASE \E kind \in {"thinking", "tool", "permission"} : Interrupt(kind)
  BY <1>8 DEF Calm, Interrupt
<1>9. ASSUME NEW i \in Piece, Fire(i) PROVE Calm' /\ (pc' = "detach" => degraded')
  BY <1>1, <1>9 DEF Calm, Fire, TimersOK
<1>10. ASSUME NEW i \in Piece, TimerFlush(i) PROVE Calm' /\ (pc' = "detach" => degraded')
  BY <1>1, <1>10 DEF Calm, TimerFlush, TimersOK, Flush, StartPreview, UpdatePreview
<1> QED BY <1>2, <1>3, <1>4, <1>5, <1>6, <1>7, <1>8, <1>9, <1>10 DEF Next

\* The phases.
Phases == Writing \/ Broken \/ Parted \/ Replying \/ Read

\* What a proof needs of the types.
LEMMA Sorts ==
  ASSUME IInv
  PROVE  /\ heard \in Nat /\ segment \in Nat /\ full \in Nat /\ lastSent \in Nat /\ from \in Nat
         /\ segment <= heard /\ full <= heard /\ heard <= MaxText /\ from <= segment
         /\ full <= MaxChars => lastSent <= full /\ Display(full) = full /\ Capped(full) = full
         /\ \A i \in Piece : copies[i] \in Nat /\ i \in Nat \ {0} /\ i <= MaxText
         /\ DOMAIN copies = Piece /\ MaxText \in Nat /\ MaxChars \in Nat \ {0}
         /\ handle \in BOOLEAN /\ degraded \in BOOLEAN /\ failed \in BOOLEAN /\ live \in BOOLEAN
         /\ tools \in BOOLEAN
         /\ Lag
BY Sizes DEF IInv, TypeOK, Display, Capped, Piece

\* Hearing a text, forgetting the preview and the end of the turn leave the chat alone.
LEMMA OnceText == ASSUME OnceInv, EventText \/ Detach \/ Result, Claimed' PROVE Phases'
<1>1. /\ heard \in Nat /\ segment \in Nat
  BY Sorts DEF OnceInv
<1>2. Claimed
  BY DEF EventText, Detach, Result, Claimed
<1>3. Writing \/ Broken \/ Parted
  BY <1>2 DEF OnceInv, EventText, Detach, Result, Replying, Read
<1>4. CASE EventText
  BY <1>1, <1>3, <1>4
     DEF EventText, Phases, Writing, Broken, Parted, Holds, Meant, NoCopies
<1>5. CASE Detach
  BY <1>1, <1>3, <1>5
     DEF Detach, Phases, Writing, Broken, Parted, Holds, Meant, NoCopies
<1>6. CASE Result
  BY <1>1, <1>3, <1>6
     DEF Result, Phases, Writing, Broken, Parted, Holds, Meant, NoCopies, Claimed
<1> QED BY <1>4, <1>5, <1>6

\* A text is appended, and shown, sent later, or given up.
LEMMA OnceAppend == ASSUME OnceInv, AppendText, Claimed' PROVE Phases'
<1>1. /\ heard \in Nat /\ segment \in Nat /\ full \in Nat /\ handle \in BOOLEAN
      /\ MaxChars \in Nat \ {0} /\ Calm /\ Lag
  BY Sorts DEF OnceInv
<1>2. CASE degraded /\ UNCHANGED spVars
  <2>1. Claimed
    BY <1>2 DEF AppendText, Claimed
  <2>2. Broken \/ Parted
    BY <1>2, <2>1 DEF OnceInv, AppendText, Writing, Replying, Read
  <2> QED BY <1>1, <1>2, <2>2
          DEF AppendText, Phases, Broken, Parted, Holds, Meant, NoCopies
<1>3. CASE ~degraded
  <2>1. full' = full + 1 /\ UNCHANGED <<heard, segment, cleaner, from, live>> /\ pc = "append"
        /\ pc' = "loop"
    BY <1>3 DEF AppendText
  <2>2. (failed => failed') /\ (bare => bare')
    <3>1. failed => failed'
      BY <1>3 DEF AppendText, Flush, StartPreview, UpdatePreview
    <3>2. bare => bare'
      BY <1>3 DEF AppendText, Flush, StartPreview, UpdatePreview
    <3> QED BY <3>1, <3>2
  <2>3. full + 1 <= MaxChars /\ Claimed
    BY <1>1, <2>1, <2>2 DEF Claimed
  <2>4. Writing
    BY <1>3, <2>1, <2>3 DEF OnceInv, Broken, Parted, Replying, Read
  <2>5. lastSent <= full /\ Display(full + 1) = full + 1 /\ Capped(full + 1) = full + 1
        /\ lastSent \in Nat /\ heard = full + 1
    BY <1>1, <1>3, <2>1, <2>3, Sorts DEF OnceInv, Display, Capped, Lag
  <2>6. CASE lastSent # 0 /\ UNCHANGED <<sentVars, handle, degraded, chatVars, failed, bare>>
    <3>1. handle
      <4>1. ~handle => full = 0
        BY <1>1, <1>3, <2>3 DEF Calm, Claimed
      <4> QED BY <1>1, <2>5, <2>6, <4>1
    <3> QED BY <3>1, <1>1, <2>1, <2>4, <2>6 DEF Phases, Writing, NoCopies
  <2>7. CASE Flush(full + 1)
    <3>1. full + 1 \notin {0, lastSent}
      BY <1>1, <2>5
    <3>2. CASE ~handle /\ StartPreview(full + 1)
      <4>1. CASE /\ post' = "up" /\ shown' = 1 .. full + 1 /\ handle' = TRUE
                 /\ lastSent' = full + 1 /\ UNCHANGED <<degraded, copies, failed, bare>>
        BY <1>1, <2>1, <2>4, <4>1 DEF Phases, Writing, NoCopies
      <4>2. CASE degraded' = TRUE /\ UNCHANGED <<handle, sentVars, post, shown, copies, failed, bare>>
        <5>1. Holds(0)'
          BY <2>4, <3>2, <4>2 DEF Writing, NoCopies, Holds, Meant, Piece
        <5> QED BY <2>1, <2>4, <3>2, <4>2, <5>1 DEF Phases, Writing, Parted, Holds
      <4>3. ~bare'
        BY DEF Claimed
      <4> QED BY <2>5, <3>2, <4>1, <4>2, <4>3 DEF StartPreview
    <3>3. CASE handle /\ UpdatePreview(full + 1)
      <4>1. CASE /\ shown' = 1 .. full + 1 /\ lastSent' = full + 1
                 /\ UNCHANGED <<degraded, handle, post, copies, failed, bare>>
        BY <1>1, <2>1, <2>4, <3>3, <4>1 DEF Phases, Writing, NoCopies
      <4>2. CASE /\ degraded' = TRUE /\ failed' = (failed \/ post = "up")
                 /\ UNCHANGED <<handle, sentVars, chatVars, bare>>
        <5>1. post = "up" /\ NoCopies
          BY <2>4, <3>3 DEF Writing
        <5>2. failed'
          BY <4>2, <5>1
        <5> QED BY <1>1, <2>1, <2>5, <3>3, <4>2, <5>1, <5>2 DEF Phases, Broken, NoCopies
      <4> QED BY <2>5, <3>3, <4>1, <4>2 DEF UpdatePreview
    <3> QED BY <2>7, <3>1, <3>2, <3>3 DEF Flush
  <2> QED BY <1>3, <2>5, <2>6, <2>7 DEF AppendText
<1> QED BY <1>2, <1>3 DEF AppendText

\* What the preview does not show becomes a message.
LEMMA OnceInterrupt ==
  ASSUME OnceInv, NEW kind \in {"thinking", "tool", "permission"}, Interrupt(kind), Claimed'
  PROVE  Phases'
<1>1. /\ heard \in Nat /\ segment \in Nat /\ full \in Nat /\ segment <= heard
      /\ handle \in BOOLEAN /\ Lag /\ \A i \in Piece : copies[i] \in Nat /\ i \in Nat \ {0}
  BY Sorts DEF OnceInv
<1>2. pc = "loop" /\ segment' = heard /\ heard' = heard /\ failed' = failed
  BY DEF Interrupt
<1>3. Claimed /\ ~(failed /\ heard # 0)
  BY <1>1, <1>2 DEF Claimed, Interrupt
<1>4. Writing \/ Parted
  BY <1>2, <1>3, <1>1 DEF OnceInv, Broken, Replying, Read
<1>5. CASE Writing
  <2>1. pc' = "freeze" \/ (pc' = "loop" /\ segment = heard)
    BY <1>5 DEF Interrupt, Writing
  <2>2. live' /\ UNCHANGED <<degraded, handle, post, shown, lastSent, full>>
    BY <1>5 DEF Interrupt, Writing
  <2>3. NoCopies'
    BY <1>5 DEF Interrupt, Writing, NoCopies
  <2> QED BY <1>1, <1>2, <1>5, <2>1, <2>2, <2>3 DEF Phases, Writing
<1>6. CASE Parted
  <2>1. Holds(heard)'
    <3>1. \A i \in Piece : copies'[i] = IF i \in segment + 1 .. heard THEN copies[i] + 1
                                        ELSE copies[i]
      BY <1>6 DEF Interrupt, Parted
    <3>2. \A i \in Piece : i \in segment + 1 .. heard <=> segment < i /\ i <= heard
      BY <1>1
    <3>3. post' = post /\ shown' = shown /\ heard' = heard
      BY DEF Interrupt
    <3> QED BY <1>1, <1>6, <3>1, <3>2, <3>3 DEF Parted, Holds, Meant
  <2> QED BY <1>2, <1>6, <2>1 DEF Interrupt, Phases, Parted, Holds
<1> QED BY <1>4, <1>5, <1>6

\* Freezing shows all that was heard, which is the segment.
LEMMA OnceFreeze == ASSUME OnceInv, Freeze, Claimed' PROVE Phases'
<1>1. /\ heard \in Nat /\ segment \in Nat /\ full \in Nat /\ Lag
      /\ full <= MaxChars => Capped(full) = full
      /\ handle \in BOOLEAN /\ \A i \in Piece : copies[i] \in Nat /\ i \in Nat \ {0}
  BY Sorts DEF OnceInv
<1>2. UNCHANGED <<heard, segment, cleaner, from, full, handle, post, copies>>
      /\ pc = "freeze" /\ degraded' /\ pc' = IF live THEN "detach" ELSE "loop"
  BY DEF Freeze
<1>3. (failed => failed') /\ bare' = bare
  BY DEF Freeze
<1>4. Claimed
  BY <1>2, <1>3 DEF Claimed
<1>5. Writing \/ Parted
  BY <1>2, <1>4 DEF OnceInv, Broken, Replying, Read
<1>6. CASE Parted
  <2>1. UNCHANGED <<shown, failed>>
    BY <1>6 DEF Parted, Freeze
  <2> QED BY <1>2, <1>6, <2>1 DEF Phases, Parted, Holds, Meant
<1>7. CASE Writing
  <2>1. full <= MaxChars /\ heard = full /\ segment = full /\ pc' = "detach"
    BY <1>1, <1>2, <1>4, <1>7 DEF Claimed, Writing, Lag
  <2>2. CASE handle
    <3>1. full > 0 /\ ~degraded /\ ~failed /\ post = "up" /\ NoCopies
      BY <1>7, <2>2 DEF Writing
    <3>2. ~failed'
      BY <1>1, <1>2, <2>1, <3>1 DEF Claimed
    <3>3. shown' = 1 .. full
      BY <1>1, <2>1, <2>2, <3>1, <3>2 DEF Freeze
    <3>4. Holds(segment)'
      BY <1>1, <1>2, <2>1, <3>1, <3>3 DEF Holds, Meant, NoCopies
    <3> QED BY <1>2, <2>1, <3>2, <3>4 DEF Phases, Parted
  <2>3. CASE ~handle
    <3>1. full = 0 /\ post = "none" /\ UNCHANGED <<shown, failed>>
      BY <1>4, <1>7, <2>3 DEF Writing, Freeze, OnceInv, Calm, Claimed
    <3>2. Holds(segment)'
      BY <1>1, <1>2, <1>7, <2>1, <3>1 DEF Holds, Meant, NoCopies, Writing
    <3> QED BY <1>2, <1>7, <2>1, <2>3, <3>1, <3>2 DEF Phases, Parted, Writing
  <2> QED BY <2>2, <2>3
<1> QED BY <1>5, <1>6, <1>7

\* The preview is the reply, or it is deleted before the reply is sent.
LEMMA OnceFinish == ASSUME OnceInv, Finish, Claimed' PROVE Phases'
<1>1. /\ heard \in Nat /\ segment \in Nat /\ full \in Nat /\ Lag /\ from \in Nat
      /\ heard <= MaxText /\ MaxText \in Nat
      /\ handle \in BOOLEAN /\ \A i \in Piece : copies[i] \in Nat /\ i \in Nat \ {0}
      /\ full <= MaxChars => lastSent <= full /\ Capped(full) = full
  BY Sorts DEF OnceInv
<1>2. /\ UNCHANGED <<heard, segment, cleaner, from, full, handle, degraded, copies>>
      /\ pc = "finish" /\ pc' \in {"reply", "over"} /\ (failed => failed') /\ bare' = bare
      /\ from <= segment
  BY Sorts DEF OnceInv, Finish, FinishInactive, FinishDelete, FinishInPlace
<1>3. Claimed
  BY <1>2 DEF Claimed
<1>4. Writing \/ Broken \/ Parted
  BY <1>2, <1>3 DEF OnceInv, Replying, Read
<1>5. CASE Parted
  <2>1. pc' = "reply" /\ UNCHANGED <<post, shown>>
    BY <1>2, <1>5 DEF Parted, Finish, FinishInactive, FinishDelete, FinishInPlace, Delete
  <2> QED BY <1>2, <1>5, <2>1 DEF Phases, Parted, Replying, Holds, Meant
<1>6. CASE Broken
  <2>1. cleaner /\ segment = 0
    BY <1>3, <1>6 DEF Broken, Claimed
  <2>2. pc' = "reply" /\ post' = "deleted"
    BY <1>6, <2>1 DEF Broken, Finish, FinishInactive, FinishDelete, FinishInPlace, Delete
  <2> QED BY <1>1, <1>2, <1>6, <2>1, <2>2
          DEF Phases, Broken, Replying, Holds, Meant, NoCopies
<1>7. CASE Writing
  <2>1. full <= MaxChars /\ full = heard /\ segment = 0 /\ from = 0
    BY <1>1, <1>2, <1>3, <1>7 DEF Claimed, Writing, Lag
  <2>2. CASE FinishInactive
    <3>1. ~handle /\ post' = "none" /\ pc' = "reply"
      BY <1>7, <2>2 DEF Writing, FinishInactive, Delete
    <3> QED BY <1>1, <1>2, <1>7, <2>1, <3>1
            DEF Phases, Writing, Replying, Holds, Meant, NoCopies
  <2>3. CASE FinishDelete
    <3>1. post' = "deleted" /\ pc' = "reply"
      BY <2>3 DEF FinishDelete, Delete
    <3> QED BY <1>1, <1>2, <1>7, <2>1, <3>1
            DEF Phases, Writing, Replying, Holds, Meant, NoCopies
  <2>4. CASE FinishInPlace
    <3>1. handle /\ post = "up"
      BY <1>7, <2>4 DEF Writing, FinishInPlace
    <3>2. CASE pc' = "over"
      <4>1. shown' = 1 .. heard /\ post' = "up"
        BY <1>1, <1>7, <2>1, <2>4, <3>1, <3>2 DEF Writing, FinishInPlace
      <4>2. \A i \in Piece : copies'[i] = 0 /\ (i \in 1 .. heard <=> i <= heard)
        BY <1>1, <1>2, <1>7 DEF Writing, NoCopies
      <4>3. Repeats'
        BY <1>1, <1>2, <2>1, <4>1, <4>2 DEF Repeats, Meant
      <4> QED BY <1>2, <1>7, <2>1, <3>2, <4>3 DEF Phases, Writing, Read, NoCopies
    <3>3. CASE pc' = "reply"
      <4>1. failed' /\ post' = IF cleaner THEN "deleted" ELSE post
        BY <2>4, <3>1, <3>3 DEF FinishInPlace, Delete
      <4>2. post' = "deleted"
        BY <1>2, <4>1 DEF Claimed
      <4> QED BY <1>1, <1>2, <1>7, <2>1, <3>3, <4>2
              DEF Phases, Writing, Replying, Holds, Meant, NoCopies
    <3> QED BY <1>2, <3>2, <3>3
  <2> QED BY <2>2, <2>3, <2>4 DEF Finish
<1> QED BY <1>4, <1>5, <1>6, <1>7

\* The reply and the remainder begin where the segments end.
LEMMA OnceEnd == ASSUME OnceInv, SendRest \/ SendReply \/ Abort, Claimed' PROVE Phases'
<1>1. /\ heard \in Nat /\ segment \in Nat /\ from \in Nat /\ segment <= heard
      /\ from <= segment /\ heard <= MaxText /\ MaxText \in Nat
      /\ \A i \in Piece : copies[i] \in Nat /\ i \in Nat \ {0}
  BY Sorts DEF OnceInv
<1>2. ~Abort
  BY DEF Abort, Claimed
<1>3. /\ UNCHANGED <<heard, segment, cleaner, from, full, failed, bare>>
      /\ pc \in {"rest", "reply"} /\ pc' = "over" /\ (pc = "rest" <=> SendRest)
  BY <1>2 DEF SendRest, SendReply
<1>4. Claimed
  BY <1>3 DEF Claimed
<1>5. (pc = "rest" /\ Parted) \/ (pc = "reply" /\ Replying)
  BY <1>3, <1>4 DEF OnceInv, Writing, Broken, Parted, Replying, Read
<1>6. Holds(segment) /\ UNCHANGED <<post, shown>> /\ (degraded' \/ ~handle' \/ post' # "up")
  BY <1>2, <1>5 DEF SendRest, SendReply, Delete, Parted, Replying
<1>7. pc = "rest" => from = segment
  BY <1>5 DEF Parted, Replying
<1>8. \A i \in Piece : copies'[i] = IF from < i /\ i <= heard THEN copies[i] + 1 ELSE copies[i]
  <2>1. \A i \in Piece : i \in segment + 1 .. heard <=> segment < i /\ i <= heard
    BY <1>1
  <2>2. \A i \in Piece : i \in from + 1 .. heard <=> from < i /\ i <= heard
    BY <1>1
  <2>3. CASE SendReply
    BY <2>2, <2>3 DEF SendReply
  <2>4. CASE SendRest
    BY <1>3, <1>7, <2>1, <2>4 DEF SendRest
  <2> QED BY <1>2, <2>3, <2>4
<1>9. Repeats'
  BY <1>1, <1>3, <1>6, <1>8 DEF Holds, Meant, Repeats
<1> QED BY <1>3, <1>6, <1>9 DEF Phases, Read

\* A late callback shows the text as it is, or breaks a preview that can be deleted.
LEMMA OnceTimers ==
  ASSUME OnceInv, NEW i \in Piece, Fire(i) \/ TimerFlush(i), Claimed' PROVE Phases'
<1>1. /\ heard \in Nat /\ segment \in Nat /\ full \in Nat /\ Lag /\ lastSent \in Nat
      /\ full <= MaxChars => lastSent <= full /\ Capped(full) = full /\ Display(full) = full
      /\ handle \in BOOLEAN /\ \A k \in Piece : copies[k] \in Nat /\ k \in Nat \ {0}
  BY Sorts DEF OnceInv
<1>2. UNCHANGED <<heard, segment, cleaner, from, full, pc, live>>
      /\ (failed => failed') /\ (bare => bare')
  <2>1. Fire(i) \/ (TimerFlush(i) /\ degraded) => UNCHANGED <<failed, bare>>
    BY DEF Fire, TimerFlush
  <2>2. ASSUME Flush(Display(full)) PROVE (failed => failed') /\ (bare => bare')
    <3>1. failed => failed'
      BY <2>2 DEF Flush, StartPreview, UpdatePreview
    <3>2. bare => bare'
      BY <2>2 DEF Flush, StartPreview, UpdatePreview
    <3> QED BY <3>1, <3>2
  <2>3. UNCHANGED <<heard, segment, cleaner, from, full, pc, live>>
    BY DEF Fire, TimerFlush
  <2> QED BY <2>1, <2>2, <2>3 DEF TimerFlush
<1>3. Claimed
  BY <1>2 DEF Claimed
<1>4. CASE UNCHANGED <<handle, degraded, sentVars, chatVars, failed, bare>>
  BY <1>2, <1>3, <1>4
     DEF OnceInv, Phases, Writing, Broken, Parted, Replying, Read, Holds, Meant, NoCopies, Repeats
<1>5. CASE ~degraded /\ TimerFlush(i) /\ handle /\ UpdatePreview(full)
  <2>1. Writing \/ Replying \/ Read
    BY <1>3, <1>5 DEF OnceInv, Broken, Parted
  <2>2. CASE /\ post = "up" /\ shown' = 1 .. full /\ lastSent' = full
             /\ UNCHANGED <<degraded, handle, post, copies, failed, bare>>
    <3>1. CASE Writing
      BY <1>2, <2>2, <3>1 DEF Phases, Writing, NoCopies
    <3>2. CASE Read
      <4>1. full = heard /\ NoCopies /\ segment = 0
        BY <1>5, <2>2, <3>2 DEF Read
      <4>2. \A k \in Piece : copies'[k] = 0 /\ (k \in 1 .. heard <=> k <= heard)
        BY <1>1, <1>2, <2>2, <4>1 DEF NoCopies
      <4>3. Repeats'
        BY <1>1, <1>2, <2>2, <4>1, <4>2 DEF Repeats, Meant
      <4> QED BY <1>2, <2>2, <3>2, <4>1, <4>3 DEF Phases, Read, NoCopies
    <3> QED BY <1>5, <2>1, <2>2, <3>1, <3>2 DEF Replying
  <2>3. CASE /\ degraded' = TRUE /\ failed' = (failed \/ post = "up")
             /\ UNCHANGED <<handle, sentVars, chatVars, bare>>
    <3>1. CASE Writing
      <4>1. failed' /\ post = "up" /\ full > 0 /\ heard > 0
        <5>1. post = "up" /\ full > 0 /\ heard >= full
          BY <1>1, <1>5, <3>1, Sorts DEF Writing, OnceInv
        <5>2. failed'
          BY <2>3, <5>1
        <5> QED BY <1>1, <5>1, <5>2
      <4>2. segment = 0
        BY <1>2, <4>1 DEF Claimed
      <4> QED BY <1>1, <1>2, <1>5, <2>3, <3>1, <4>1, <4>2 DEF Phases, Writing, Broken, NoCopies
    <3>2. CASE Replying \/ Read
      BY <1>2, <2>3, <3>2 DEF Phases, Replying, Read, Holds, Meant, Repeats
    <3> QED BY <2>1, <3>1, <3>2
  <2> QED BY <1>1, <1>3, <1>5, <2>2, <2>3 DEF UpdatePreview, Claimed
<1>6. ASSUME ~degraded, TimerFlush(i) PROVE handle
  BY <1>3, <1>6 DEF OnceInv, Calm, TimerFlush, Claimed
<1>7. Display(full) = full
  BY <1>1, <1>3 DEF Claimed
<1> QED BY <1>4, <1>5, <1>6, <1>7 DEF Fire, TimerFlush, Flush

\* Every step keeps all of it.
LEMMA OnceStep == ASSUME OnceInv, [Next]_vars PROVE OnceInv'
<1>1. IInv'
  BY TypeStep DEF OnceInv
<1>2. Calm' /\ (pc' = "detach" => degraded')
  BY CalmStep DEF OnceInv
<1>3. ASSUME Claimed' PROVE Phases'
  <2>1. CASE UNCHANGED vars
    BY <1>3, <2>1 DEF vars, OnceInv, Claimed, Phases, Writing, Broken, Parted, Replying, Read,
       Holds, Meant, NoCopies, Repeats
  <2> QED BY <1>3, <2>1, OnceText, OnceAppend, OnceInterrupt, OnceFreeze, OnceFinish, OnceEnd,
             OnceTimers DEF Next
<1> QED BY <1>1, <1>2, <1>3 DEF OnceInv, Phases

\* However an answer that fits the preview is split, edited late by timers, cut off by
\* failed edits that the platform can make good, and finalised, all of it is read, and
\* read twice is only what the result repeats of the segments and a failed start left.
THEOREM ReadAsSent == Spec => []Delivered
<1>1. Init => Calm /\ (pc = "detach" => degraded) /\ (Claimed => Phases)
  BY DEF Init, Calm, Claimed, Phases, Writing, Parted, Holds, Meant, NoCopies, Piece
<1>2. ASSUME OnceInv, pc = "over" /\ full <= MaxChars /\ ~bare /\ (failed => cleaner /\ segment = 0),
             NEW i \in 1 .. heard
      PROVE  InChat(i) = 1 + strays[i] + (IF i \in from + 1 .. segment THEN 1 ELSE 0)
  <2>1. Repeats
    BY <1>2 DEF OnceInv, Claimed, Writing, Broken, Parted, Replying, Read
  <2>2. i \in Piece /\ i <= heard /\ strays[i] \in Nat /\ copies[i] \in Nat
    BY <1>2, Sorts, Sizes DEF OnceInv, IInv, TypeOK, Piece
  <2>3. i \in from + 1 .. segment <=> from < i /\ i <= segment
    BY <1>2, Sorts DEF OnceInv
  <2>4. InChat(i) = strays[i] + Meant(i)
    BY <2>2 DEF InChat, Meant
  <2>5. Meant(i) = 1 + (IF i \in from + 1 .. segment THEN 1 ELSE 0)
    BY <1>2, <2>1, <2>2, <2>3, Sorts DEF OnceInv, Repeats
  <2> QED BY <2>2, <2>4, <2>5
<1>3. Init => IInv
  BY Starting
<1>4. OnceInv => Delivered
  BY <1>2 DEF Delivered
<1>5. Init => OnceInv
  BY <1>1, <1>3 DEF OnceInv, Phases
<1> QED BY <1>4, <1>5, OnceStep, PTL DEF Spec

HIDE DEF platVars, loopVars, sentVars, timerVars, chatVars, spVars, To
=============================================================================
