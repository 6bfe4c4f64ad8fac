----------------------- MODULE InteractiveTurns_line -----------------------
(***************************************************************************)
(* The turn engine of one chat as an implementation of ChatLine.           *)
(*                                                                         *)
(* The line of the people who wait is the queue of whichever state has     *)
(* messages: of the chat's entry, or of a state that its turn is about to  *)
(* drain after a cleanup has removed it from the map.                      *)
(***************************************************************************)
EXTENDS InteractiveTurns

\* The queue that is not empty, of those that map states to queues.
OneOf(q) == LET lined == {s \in State : q[s] # <<>>}
            IN  IF lined = {} THEN <<>> ELSE q[CHOOSE s \in lined : TRUE]

\* The message that has the turn, those that wait, and those that have heard.
Speaking == {m \in Msg : fate[m] = "turn"}
Waits    == OneOf(queue)
Informed == {m \in Msg : fate[m] \notin {"none", "queued", "turn"}}

Line == INSTANCE ChatLine WITH
  Limit <- MaxQueue, turn <- Speaking, line <- Waits, told <- Informed

\* In a chat that nobody resets the engine serves messages one at a time and in
\* the order in which it accepted them, and drops only the whole queue at once.
ServesLine == Line!Spec
=============================================================================
