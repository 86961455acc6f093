---------------------------- MODULE MCBubblePanel ----------------------------
(* Small instances of BubblePanel for TLC.                                 *)
EXTENDS BubblePanel

Message(timeout, hint) ==
  [timeout |-> timeout, hint |-> hint, bluetooth |-> FALSE, app |-> "a"]

Messages == {Message(1, "show"), Message(0, "hide")}

\* Two messages of any kind, three that stay until they are closed or replaced,
\* or four that stay and ask for the centre, with two rows and while nobody
\* hovers them or opens the centre.
Mixed == Messages \cup {Message(0, "show")}
Few ==
  /\ count > 2 => \A n \in 1..count : note[n].content.timeout = 0
  /\ count > 3 => /\ \A n \in 1..count : note[n].content.hint = "show"
                  /\ enabled /\ blockClosedId = InvalidId /\ m_maxKeep = 2

\* The signal of the last step is read by no action.
Unheard == <<stores, expiry, timer, blockClosedId, todo, call, restarts, listVars, panelVars>>
=============================================================================
