------------------------ MODULE MCNotificationManager ------------------------
(* Small instances of NotificationManager for TLC.                         *)
EXTENDS NotificationManager

Message(timeout, hint) ==
  [timeout |-> timeout, hint |-> hint, bluetooth |-> FALSE, app |-> "a"]
Transfer == [timeout |-> 1, hint |-> "none", bluetooth |-> TRUE, app |-> "b"]

\* A short and a long timeout; with and without a record in the centre.
ShortAndLong == {Message(1, "show"), Message(2, "hide")}
\* The same and a sticky message, and the progress of a file transfer.
EveryKind == ShortAndLong \cup {Message(0, "show"), Transfer}
\* The progress of a file transfer beside a sticky message.
WithTransfer == {Message(0, "show"), Transfer}

\* The signal of the last step is read by no action.
Unheard == <<count, note, memory, db, memoryIds, rowIds, replacesCount, due,
             lastTimeoutPoint, timer, starts, blockClosedId, todo, call, restarts>>
=============================================================================
