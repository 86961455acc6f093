---------------------------- MODULE RoleGroupModel ----------------------------
(* Rows of a source model grouped by the value of a role, as in               *)
(* taskmanager/rolegroupmodel.cpp.  A group is its key (m_map) with the list  *)
(* of source rows that m_rowMap and m_map share.                              *)
EXTENDS Rows, SequencesExt

\* The group of a key, 0 when there is none.
GroupOf(groups, key) == SelectInSeq(groups, LAMBDA g : g.key = key)

\* Appends a source row to the group of its key, or to a new group at the end;
\* rows without a key are left out.
Enter(groups, row, key, none) ==
  LET g == GroupOf(groups, key)
  IN IF key = none THEN groups
     ELSE IF g = 0 THEN Append(groups, [key |-> key, rows |-> <<row>>])
     ELSE [groups EXCEPT ![g].rows = Append(@, row)]

AdjustUp(groups, base, offset) ==
  [g \in DOMAIN groups |-> [groups[g] EXCEPT !.rows =
     [j \in DOMAIN @ |-> IF @[j] < base THEN @[j] ELSE @[j] + offset]]]

AdjustDown(groups, base, offset) ==
  [g \in DOMAIN groups |-> [groups[g] EXCEPT !.rows =
     [j \in DOMAIN @ |-> IF @[j] < base THEN @[j] ELSE @[j] - offset]]]

\* Mutant of RowsInserted: the rows behind the new ones are not adjusted.
RowsInsertedBare(groups, first, keys, none) ==
  FoldLeft(LAMBDA acc, i : Enter(acc, first + i - 1, keys[i], none),
           groups, [i \in 1..Len(keys) |-> i])

\* keys: the role's value in the rows from first on that were inserted.
RowsInserted(groups, first, keys, none) ==
  FoldLeft(LAMBDA acc, i : Enter(acc, first + i - 1, keys[i], none),
           AdjustUp(groups, first, Len(keys)),
           [i \in 1..Len(keys) |-> i])

\* The loop over the groups goes on with the next index also after a group was
\* taken out, so the one that moves into its place is passed over.
RowsRemoved(groups, first, last) ==
  LET visit(acc, group) ==
        LET left == RowsAt(group.rows, {j \in DOMAIN group.rows : group.rows[j] \notin first..last})
        IN IF acc.pass THEN [out |-> Append(acc.out, group), pass |-> FALSE]
           ELSE IF left = <<>> THEN [out |-> acc.out, pass |-> TRUE]
           ELSE [out |-> Append(acc.out, [group EXCEPT !.rows = left]), pass |-> FALSE]
  IN AdjustDown(FoldLeft(visit, [out |-> <<>>, pass |-> FALSE], groups).out,
                first, last - first + 1)

\* rebuildTreeSource: from all rows of the source, in their order.
Rebuilt(keys, none) == RowsInserted(<<>>, 1, keys, none)

\* Where a source row is listed: pairs of a group and a place in it.
Places(groups, row) ==
  {p \in UNION {{g} \X DOMAIN groups[g].rows : g \in DOMAIN groups} :
     groups[p[1]].rows[p[2]] = row}

=============================================================================
