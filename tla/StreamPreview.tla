--------------------------- MODULE StreamPreview ---------------------------
(***************************************************************************)
(* How the answer of one turn reaches the chat: the preview message of     *)
(* core/streaming.go, which is edited while the agent writes, and the part *)
(* of processInteractiveEvents (core/engine.go) that splits the answer     *)
(* into segments, sends what the preview cannot show, and finalises it.    *)
(*                                                                         *)
(* Three kinds of actors share a streamPreview: the event loop, the timers *)
(* that the throttle starts, and a timer callback that has already fired   *)
(* when its timer is stopped.  Each method runs under sp.mu, platform      *)
(* calls included, and is one step.                                        *)
(***************************************************************************)
EXTENDS Naturals, FiniteSets

CONSTANTS
  MaxText,    \* bound: EventText events in the turn
  MaxChars,   \* StreamPreviewCfg.MaxChars, counted in those (0 in the code: no limit,
              \* which is any number from MaxText on)
  Faults      \* what platform calls may do: "start" and "update" fail, SendPreviewStart
              \* returns no handle ("nil")

Piece == 1 .. MaxText      \* the text of the answer; a timer is named after the
                           \* text whose appendText started it

ASSUME Sizes == MaxText \in Nat /\ MaxChars \in Nat \ {0}
ASSUME FaultNames == Faults \subseteq {"start", "update", "nil"}

VARIABLES
  cleaner,   \* the platform is a PreviewCleaner
  keeps,     \* the platform's KeepPreviewOnFinish()
  shows,     \* which of thinking and tool messages are displayed
  pc,        \* where the event loop is
  heard,     \* len(textParts)
  segment,   \* segmentStart
  tools,     \* toolCount > 0
  live,      \* previewActive, as read by the event loop
  from,      \* the reply is the text after this piece
  full,      \* fullText: its first pieces
  lastSent,  \* lastSentText: a Display (0 at the start)
  edited,    \* lastSentViaUpdate
  handle,    \* previewMsgID # nil
  degraded,  \* streamPreview.degraded
  timer,     \* streamPreview.timer: a piece, or 0 for nil
  timers,    \* every timer: unused, armed, due (callback waits for sp.mu), over
  post,      \* the preview message in the chat: none, up, deleted
  shown,     \* the pieces it shows
  copies,    \* messages sent beside it that contain a piece
  strays,    \* messages with a piece that a SendPreviewStart without a handle has left
  failed,    \* an UpdateMessage of a posted preview has failed (history)
  bare       \* a SendPreviewStart has returned neither a handle nor an error (history)

platVars  == <<cleaner, keeps, shows>>
loopVars  == <<heard, segment, tools, live, from>>
sentVars  == <<lastSent, edited>>
timerVars == <<timer, timers>>
chatVars  == <<post, shown, copies, strays>>
vars == <<platVars, pc, loopVars, full, sentVars, handle, degraded, timerVars,
          chatVars, failed, bare>>

-----------------------------------------------------------------------------
(* streamPreview *)

\* Mutant: the limit is off by one.
CappedLate(k) == IF k > MaxChars + 1 THEN MaxChars + 1 ELSE k

\* What displayText shows: at most MaxChars of the accumulated text.
Capped(k) == IF k > MaxChars THEN MaxChars ELSE k

\* The text to display, named by its length: MaxChars + 1 is the text that ends in
\* an ellipsis, which shows no more than MaxChars does but is another text.
Display(k) == IF k > MaxChars THEN MaxChars + 1 ELSE k

To(p) == pc' = p

\* cancelTimerLocked: a callback that is already due cannot be stopped.
CancelTimer ==
  /\ timer' = 0
  /\ timers' = [i \in Piece |-> IF i = timer /\ timers[i] = "armed" THEN "over"
                                ELSE timers[i]]

\* The platform may show the text it was to preview though it gives no handle of it (the
\* bridge waits for the acknowledgement of what it has sent).
Stray(k) ==
  strays' \in {strays, [i \in Piece |-> IF i <= Capped(k) THEN strays[i] + 1 ELSE strays[i]]}

\* Send the text k to a chat without a preview.  A nil handle without an error counts as
\* a text that was sent, but the next flush will start a preview again.
StartPreview(k) ==
  \/ /\ post' = "up" /\ shown' = 1 .. Capped(k)
     /\ handle' = TRUE
     /\ lastSent' = k /\ edited' = FALSE
     /\ UNCHANGED <<degraded, copies, strays, failed, bare>>
  \/ /\ "start" \in Faults
     /\ degraded' = TRUE
     /\ Stray(k)
     /\ UNCHANGED <<handle, sentVars, post, shown, copies, failed, bare>>
  \/ /\ "nil" \in Faults
     /\ lastSent' = k /\ edited' = FALSE
     /\ bare' = TRUE
     /\ Stray(k)
     /\ UNCHANGED <<handle, degraded, post, shown, copies, failed>>

\* An edit of a message that was deleted fails.
UpdatePreview(k) ==
  \/ /\ post = "up"
     /\ shown' = 1 .. Capped(k)
     /\ lastSent' = k /\ edited' = TRUE
     /\ UNCHANGED <<degraded, handle, post, copies, strays, failed, bare>>
  \/ /\ post = "deleted" \/ "update" \in Faults
     /\ degraded' = TRUE
     /\ failed' = (failed \/ post = "up")
     /\ UNCHANGED <<handle, sentVars, chatVars, bare>>

\* flushLocked
Flush(k) ==
  \/ /\ k \in {0, lastSent}
     /\ UNCHANGED <<handle, degraded, sentVars, chatVars, failed, bare>>
  \/ k \notin {0, lastSent} /\ ~handle /\ StartPreview(k)
  \/ k \notin {0, lastSent} /\ handle /\ UpdatePreview(k)

\* DeletePreviewMessage, where the platform has it.
Delete == post' = IF handle /\ cleaner THEN "deleted" ELSE post

\* discard
Discard ==
  /\ CancelTimer
  /\ Delete
  /\ handle' = FALSE
  /\ degraded' = TRUE
  /\ UNCHANGED <<full, sentVars, shown, copies, strays, failed, bare>>

spVars == <<full, sentVars, handle, degraded, timerVars, chatVars, failed, bare>>

Init ==
  /\ cleaner \in BOOLEAN /\ keeps \in BOOLEAN /\ (keeps => cleaner)
  /\ shows \in SUBSET {"thinking", "tool"}
  /\ pc = "loop"
  /\ heard = 0 /\ segment = 0 /\ tools = FALSE /\ live = FALSE /\ from = 0
  /\ full = 0 /\ lastSent = 0 /\ edited = FALSE
  /\ handle = FALSE
  /\ degraded \in BOOLEAN   \* TRUE: previews are off, or not for this platform
  /\ timer = 0 /\ timers = [i \in Piece |-> "unused"]
  /\ post = "none" /\ shown = {} /\ copies = [i \in Piece |-> 0]
  /\ strays = [i \in Piece |-> 0]
  /\ failed = FALSE /\ bare = FALSE

-----------------------------------------------------------------------------
(* The event loop *)

\* EventText: the text is kept, and previewed when canPreview() says so.
EventText ==
  /\ pc = "loop" /\ heard < MaxText
  /\ heard' = heard + 1
  /\ To(IF degraded THEN "loop" ELSE "append")
  /\ UNCHANGED <<platVars, segment, tools, live, from, spVars>>

\* appendText.  The first text is sent at once; then the interval and the size of
\* the change decide between a timer and a flush.
AppendText ==
  /\ pc = "append"
  /\ To("loop")
  /\ \/ degraded /\ UNCHANGED spVars
     \/ /\ ~degraded /\ full' = full + 1
        /\ \/ /\ lastSent # 0 /\ timer # 0
              /\ UNCHANGED <<sentVars, handle, degraded, timerVars, chatVars, failed, bare>>
           \/ /\ lastSent # 0 /\ timer = 0
              /\ timer' = full + 1
              /\ timers' = [timers EXCEPT ![full + 1] = "armed"]
              /\ UNCHANGED <<sentVars, handle, degraded, chatVars, failed, bare>>
           \/ CancelTimer /\ Flush(Display(full + 1))
  /\ UNCHANGED <<platVars, loopVars>>

\* Mutant: what an inactive preview did not show is not sent.
InterruptSilent(kind) ==
  LET hidden == kind # "permission" /\ kind \notin shows
  IN  /\ pc = "loop"
      /\ tools' = (tools \/ kind = "tool")
      /\ live' = ~degraded
      /\ segment' = heard
      /\ To(IF hidden /\ (segment = heard \/ degraded) THEN "loop" ELSE "freeze")
      /\ UNCHANGED <<platVars, heard, from, spVars>>

\* EventThinking, EventToolUse or EventPermissionRequest: the text so far becomes
\* a segment of its own, kept in the preview if that is active, else sent.
Interrupt(kind) ==
  LET hidden == kind # "permission" /\ kind \notin shows
  IN  /\ pc = "loop"
      /\ tools' = (tools \/ kind = "tool")
      /\ live' = ~degraded
      /\ segment' = heard
      /\ copies' = [i \in Piece |-> IF degraded /\ i \in segment + 1 .. heard
                                    THEN copies[i] + 1 ELSE copies[i]]
      /\ To(IF hidden /\ (segment = heard \/ degraded) THEN "loop" ELSE "freeze")
      /\ UNCHANGED <<platVars, heard, from, full, sentVars, handle, degraded,
                     timerVars, post, shown, strays, failed, bare>>

\* freeze
Freeze ==
  /\ pc = "freeze"
  /\ CancelTimer
  /\ \/ /\ handle /\ ~degraded /\ full > 0
        /\ shown' = 1 .. Capped(full)
        /\ UNCHANGED failed
     \/ /\ handle /\ ~degraded /\ full > 0 /\ "update" \in Faults
        /\ failed' = TRUE
        /\ UNCHANGED shown
     \/ /\ ~(handle /\ ~degraded /\ full > 0)
        /\ UNCHANGED <<shown, failed>>
  /\ degraded' = TRUE
  /\ To(IF live THEN "detach" ELSE "loop")
  /\ UNCHANGED <<platVars, loopVars, full, sentVars, handle, post, copies, strays, bare>>

\* detachPreview: the frozen message stays in the chat.
Detach ==
  /\ pc = "detach"
  /\ handle' = FALSE
  /\ To("loop")
  /\ UNCHANGED <<platVars, loopVars, full, sentVars, degraded, timerVars, chatVars,
                 failed, bare>>

\* EventResult, or the exit of the agent after it wrote something.  The result contains
\* the answer after its first n pieces (all that came after the last interruption, and
\* what the agent repeats of the segments before) or is empty.  For an empty result and
\* for an exit the loop takes all that it has heard, and with tools hidden it prefers that.
Result ==
  /\ pc = "loop"
  /\ \/ /\ tools /\ segment > 0
        /\ from' = segment
        /\ To("rest")
     \/ /\ ~(tools /\ segment > 0)
        /\ \E n \in 0 .. segment \cup {heard} : from' = IF n = heard THEN 0 ELSE n
        /\ To("finish")
  /\ UNCHANGED <<platVars, heard, segment, tools, live, spVars>>

\* The segments are out: drop the preview and send the unsent remainder.
SendRest ==
  /\ pc = "rest"
  /\ CancelTimer
  /\ Delete
  /\ handle' = FALSE /\ degraded' = TRUE
  /\ copies' = [i \in Piece |-> IF i \in segment + 1 .. heard THEN copies[i] + 1
                                ELSE copies[i]]
  /\ To("over")
  /\ UNCHANGED <<platVars, loopVars, full, sentVars, shown, strays, failed, bare>>

\* finish without an active preview
FinishInactive ==
  /\ ~handle \/ degraded
  /\ Delete
  /\ UNCHANGED <<handle, degraded, shown, copies, failed>>
  /\ To("reply")

\* The platform prefers a fresh message to the preview.
FinishDelete ==
  /\ handle /\ ~degraded /\ cleaner /\ ~keeps
  /\ Delete
  /\ UNCHANGED <<handle, degraded, shown, copies, failed>>
  /\ To("reply")

\* The preview becomes the reply, unless its last edit showed just that (a footer or
\* the context indicator makes it another text).
FinishInPlace ==
  /\ handle /\ ~degraded /\ (cleaner => keeps)
  /\ UNCHANGED <<handle, degraded, copies>>
  /\ \/ /\ from = 0 /\ lastSent = heard /\ heard <= MaxChars /\ edited
        /\ To("over")
        /\ UNCHANGED <<post, shown, failed>>
     \/ /\ shown' = from + 1 .. heard
        /\ To("over")
        /\ UNCHANGED <<post, failed>>
     \/ /\ "update" \in Faults
        /\ Delete
        /\ failed' = TRUE
        /\ To("reply")
        /\ UNCHANGED shown

Finish ==
  /\ pc = "finish"
  /\ CancelTimer
  /\ FinishInactive \/ FinishDelete \/ FinishInPlace
  /\ UNCHANGED <<platVars, loopVars, full, sentVars, strays, bare>>

\* The reply goes out as a message of its own.
SendReply ==
  /\ pc = "reply"
  /\ copies' = [i \in Piece |-> IF i \in from + 1 .. heard THEN copies[i] + 1
                                ELSE copies[i]]
  /\ To("over")
  /\ UNCHANGED <<platVars, loopVars, full, sentVars, handle, degraded, timerVars,
                 post, shown, strays, failed, bare>>

\* /stop, a failed Send, EventError or the idle timeout.  A canceled context, or an
\* agent that exits before it wrote anything, does not even discard the preview.
Abort ==
  /\ pc = "loop"
  /\ Discard \/ UNCHANGED spVars
  /\ To("aborted")
  /\ UNCHANGED <<platVars, loopVars>>

-----------------------------------------------------------------------------
(* Timers *)

Fire(i) ==
  /\ timers[i] = "armed"
  /\ timers' = [timers EXCEPT ![i] = "due"]
  /\ UNCHANGED <<platVars, pc, loopVars, full, sentVars, handle, degraded, timer,
                 chatVars, failed, bare>>

\* Mutant: the callback flushes a preview that is degraded.
FlushAnyway(i) ==
  /\ timers[i] = "due"
  /\ timers' = [timers EXCEPT ![i] = "over"]
  /\ timer' = 0
  /\ Flush(Display(full))
  /\ UNCHANGED <<platVars, pc, loopVars, full>>

\* Mutant: the callback does not forget its timer.
FlushKeepsTimer(i) ==
  /\ timers[i] = "due"
  /\ timers' = [timers EXCEPT ![i] = "over"]
  /\ \/ degraded /\ UNCHANGED <<handle, degraded, sentVars, chatVars, failed, bare>>
     \/ ~degraded /\ Flush(Display(full))
  /\ UNCHANGED <<platVars, pc, loopVars, full, timer>>

\* The callback of AfterFunc gets sp.mu, whatever became of its timer meanwhile.
TimerFlush(i) ==
  /\ timers[i] = "due"
  /\ timers' = [timers EXCEPT ![i] = "over"]
  /\ timer' = 0
  /\ \/ degraded /\ UNCHANGED <<handle, degraded, sentVars, chatVars, failed, bare>>
     \/ ~degraded /\ Flush(Display(full))
  /\ UNCHANGED <<platVars, pc, loopVars, full>>

-----------------------------------------------------------------------------
Next ==
  \/ EventText \/ AppendText \/ Freeze \/ Detach \/ Result \/ SendRest \/ Finish
  \/ SendReply \/ Abort
  \/ \E kind \in {"thinking", "tool", "permission"} : Interrupt(kind)
  \/ \E i \in Piece : Fire(i) \/ TimerFlush(i)

Spec == Init /\ [][Next]_vars

-----------------------------------------------------------------------------
(* Properties *)

\* Every variable has its type.  The preview never shows text that the agent has not
\* written nor, until the turn is over, more than MaxChars of it.
TypeOK ==
  /\ cleaner \in BOOLEAN /\ keeps \in BOOLEAN /\ shows \in SUBSET {"thinking", "tool"}
  /\ pc \in {"loop", "append", "freeze", "detach", "rest", "finish", "reply", "over",
             "aborted"}
  /\ heard \in 0 .. MaxText /\ segment \in 0 .. heard /\ from \in 0 .. segment
  /\ tools \in BOOLEAN /\ live \in BOOLEAN
  /\ full \in 0 .. heard
  /\ lastSent \in 0 .. Display(full) /\ edited \in BOOLEAN
  /\ handle \in BOOLEAN /\ degraded \in BOOLEAN /\ failed \in BOOLEAN
  /\ bare \in BOOLEAN
  /\ timer \in Piece \cup {0}
  /\ timers \in [Piece -> {"unused", "armed", "due", "over"}]
  /\ post \in {"none", "up", "deleted"} /\ shown \in SUBSET (1 .. heard)
  /\ pc # "over" => shown \subseteq 1 .. MaxChars
  /\ copies \in [Piece -> Nat] /\ strays \in [Piece -> Nat]

\* The messages of the chat that contain piece i.
InChat(i) == copies[i] + strays[i] + (IF post = "up" /\ i \in shown THEN 1 ELSE 0)

\* "Prior text was already surfaced in segments, only send the unsent remainder":
\* when a turn with tools ends, all of its text can be read in the chat.
Surfaced == pc = "over" /\ tools /\ segment > 0 /\ ~failed =>
  \A i \in 1 .. heard : InChat(i) > 0

\* A finished answer that fits the preview is read once, however it was split, flushed
\* by timers and finalised: nothing is lost, and what is read twice is only what the
\* result of a turn without tools repeats of its segments (the agent's doing, or the
\* loop's own for an empty result or an exit) and what a failed start has left behind.
\* Left out are a turn whose preview got no handle and one whose edit failed, unless the
\* platform can delete the preview and no segment was kept in it.
Delivered ==
  pc = "over" /\ full <= MaxChars /\ ~bare /\ (failed => cleaner /\ segment = 0)
    => \A i \in 1 .. heard :
         InChat(i) = 1 + strays[i] + (IF i \in from + 1 .. segment THEN 1 ELSE 0)

\* "Marks the preview as degraded so no further updates are sent": a message that
\* stays in the chat after freeze, discard or a failed edit is not edited again,
\* neither by the turn nor by a timer that fires late.
FrozenStays == [][degraded => degraded' /\ shown' = shown]_vars

\* A timer that the preview remembers has not run yet.  Otherwise the throttle
\* would wait forever: scheduleFlushLocked starts no timer beside it.
TimerPending == timer # 0 => timers[timer] \in {"armed", "due"}
=============================================================================
