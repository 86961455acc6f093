-------------------------- MODULE NotifyStagingModel --------------------------
(***************************************************************************)
(* The live notifications on top of the notification centre: the latest    *)
(* BubbleMaxCount of them, and how many more there are.                    *)
(***************************************************************************)
EXTENDS NotifyAccessor

CONSTANTS BubbleMaxCount, OverlayMaxCount

VARIABLES
  staging,      \* m_appNotifies
  overlapCount  \* m_overlapCount

MaxCount == BubbleMaxCount + OverlayMaxCount

\* fetchEntities(AllApp, NotProcessed, MaxCount): from the oldest on; the loop of
\* MemoryAccessor stops one later than asked for.
Fetched(live) == {n \in live : Cardinality({m \in live : m < n}) <= MaxCount}

UpdateOverlapCount(count) ==
  overlapCount' = Max({0, Min({count, MaxCount}) - Len(staging')})

\* Mutant of Push: no row is given up for the new one.
PushUnbounded(n) ==
  /\ staging' = <<n>> \o staging
  /\ UpdateOverlapCount(Cardinality(memory))

\* push(entity)
Push(n) ==
  /\ staging' = SubSeq(<<n>> \o staging, 1, Min({Len(staging) + 1, BubbleMaxCount}))
  /\ UpdateOverlapCount(Cardinality(memory))

\* doEntityReceived of a live notification.  A successor that is listed is left to
\* replace(), which looks for its bubble id among ids and finds nothing.
StagingReceived(n, isReplace) ==
  IF isReplace /\ Contains(staging, n) THEN UNCHANGED <<staging, overlapCount>> ELSE Push(n)

\* Mutant of Refilled: the new row comes last.
RefilledAtEnd(s, new) == IF new = {} THEN s ELSE Append(s, Min(new))

\* The rows s with one of the notifications new, which are none of theirs: the oldest
\* that is newer than a row, before the last such row, or the oldest of all at the end.
Refilled(s, new) ==
  LET newer(i) == {n \in new : s[i] < n}
      places == {i \in DOMAIN s : newer(i) # {}}
  IN  IF new = {} THEN s
      ELSE IF places = {} THEN Append(s, Min(new))
      ELSE InsertAt(s, Max(places), Min(newer(Max(places))))

\* remove(id), after the store has changed.
StagingRemoved(n) ==
  /\ LET s == RemoveFirst(staging, n)
     IN  staging' = IF ~Contains(staging, n) THEN staging
                    ELSE Refilled(s, {m \in Fetched(memory') : ~Contains(s, m)})
  /\ UpdateOverlapCount(Cardinality(Fetched(memory')))

\* open(), on the empty list.
StagingOpen ==
  LET size == Cardinality(Fetched(memory))
  IN  IF memory = {} THEN UNCHANGED <<staging, overlapCount>>
      ELSE /\ staging' = staging \o LatestFirst(Fetched(memory), Min({size, BubbleMaxCount}))
           /\ UpdateOverlapCount(size)

StagingClose ==
  /\ staging' = <<>>
  /\ UNCHANGED overlapCount
=============================================================================
