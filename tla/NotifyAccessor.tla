---------------------------- MODULE NotifyAccessor ----------------------------
(***************************************************************************)
(* What the notification centre sees of the stores through NotifyAccessor. *)
(*                                                                         *)
(* A notification is its number in the order of creation, which is also    *)
(* the order of its time.  Its id changes once, when it gets a row in the  *)
(* database: the id is the number with that fact.                          *)
(***************************************************************************)
EXTENDS Integers, Sequences, FiniteSets, FiniteSetsExt, SequencesExt

CONSTANT App

VARIABLES
  app,     \* the application of each notification so far
  memory,  \* MemoryAccessor: live notifications, in order of creation
  db,      \* DBAccessor: the notifications that have a row
  filed,   \* those that have or had a row: copies in memory share the new id
  pinned   \* m_pinnedApps

storeVars == <<app, memory, db, filed, pinned>>

\* fetchEntities(app): records of an application; those of a store passed along,
\* since handlers read again after they removed something.
Records(store, a) == {n \in store : app[n] = a}

\* fetchLastEntity(app), of an application that has records.
LastRecord(store, a) == Max(Records(store, a))

\* fetchApps
AppsOf(store) == {app[n] : n \in store}

\* The k newest of S, the latest first.
LatestFirst(S, k) ==
  [i \in 1..k |-> CHOOSE n \in S : Cardinality({m \in S : m > n}) = i - 1]

\* fetchEntity(id).isValid() for the id that notification n had with or without row.
Valid(n, row) == n \in (IF row THEN db ELSE memory)
=============================================================================
