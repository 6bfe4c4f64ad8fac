------------------------------ MODULE ChatLine ------------------------------
(***************************************************************************)
(* What the turn engine promises the people who write to one chat that     *)
(* nobody resets.  Messages are answered one at a time.  A message that    *)
(* arrives during a turn is either refused or it joins a line of at most   *)
(* Limit messages; the line is served strictly in the order of arrival, or *)
(* everybody in it is told that nothing will come.  A message that was     *)
(* once told something is never touched again.                             *)
(***************************************************************************)
EXTENDS Naturals, Sequences

CONSTANTS Msg, Limit

VARIABLES
  turn,    \* the message whose turn it is, as a set of at most one
  line,    \* the messages waiting, first come first
  told     \* the messages that have had their answer, or some other news

lineVars == <<turn, line, told>>

Init == turn = {} /\ line = <<>> /\ told = {}

New(m) == m \notin turn \cup told /\ \A i \in DOMAIN line : line[i] # m

\* A turn starts for a message that comes while there is none.
Begin(m) == /\ turn = {} /\ New(m)
            /\ turn' = {m}
            /\ UNCHANGED <<line, told>>

\* A message joins the line, or is refused.
Join(m) == /\ New(m) /\ Len(line) < Limit
           /\ line' = Append(line, m)
           /\ UNCHANGED <<turn, told>>

Refuse(m) == /\ New(m)
             /\ told' = told \cup {m}
             /\ UNCHANGED <<turn, line>>

\* The turn ends.
End == /\ turn # {}
       /\ told' = told \cup turn
       /\ turn' = {}
       /\ UNCHANGED line

\* The first in the line gets the turn, at the end of the previous one or later.
Serve == /\ line # <<>>
         /\ turn' = {Head(line)}
         /\ line' = Tail(line)
         /\ told' = told \cup turn

\* All who wait are told, perhaps as the turn ends.
DropAll == /\ line # <<>>
           /\ \/ turn' = turn /\ told' = told \cup {line[i] : i \in DOMAIN line}
              \/ /\ turn' = {}
                 /\ told' = told \cup turn \cup {line[i] : i \in DOMAIN line}
           /\ line' = <<>>

Next == \/ \E m \in Msg : Begin(m) \/ Join(m) \/ Refuse(m)
        \/ End \/ Serve \/ DropAll

Spec == Init /\ [][Next]_lineVars
=============================================================================
