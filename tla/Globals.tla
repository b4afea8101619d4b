------------------------------ MODULE Globals ------------------------------
(***************************************************************************)
(* kernel/global.c and its compaction in kernel/compact.c: the global      *)
(* environment.  A version is a list of rows, the first row of a name      *)
(* being its entry, and a hash trie that finds the entry of a name.  Both  *)
(* are persistent: operations copy some cells, share the others with the   *)
(* version they start from, and must not write to a cell that is shared.   *)
(* The tables of entries and of families are the same code twice; a        *)
(* version here is one table, with the operations of both.                 *)
(*                                                                         *)
(* Cells are numbered in the order of their allocation; 0 is NULL.  The    *)
(* six levels of trie nodes above the buckets are abstracted to one        *)
(* function from buckets to lists of leaves.                               *)
(***************************************************************************)
EXTENDS Naturals, Sequences, FiniteSets

CONSTANTS Names, Entries,
          Buckets, Bucket(_), \* where the hash of a name leads
          Rooms,              \* how many allocations of one operation succeed
          MaxVersions         \* bound of the model: versions that exist together

NamesHaveBuckets == (\A name \in Names : Bucket(name) \in Buckets) /\ Rooms \subseteq Nat

\* Every name hashes to a bucket.
ASSUME GlobalsAssumption == NamesHaveBuckets

VARIABLES rowCells,  \* the cells of lists of rows: name, entry, rest
          leafCells, \* the cells of buckets: key, value (a cell of rows), rest
          versions,  \* the versions in use: rows, index
          oom        \* heap->oom: an allocation failed
globalsVars == <<rowCells, leafCells, versions, oom>>

NULL == 0
Row(name, entry, rest) == [name |-> name, entry |-> entry, rest |-> rest]
Leaf(key, value, rest) == [key |-> key, value |-> value, rest |-> rest]
Version(rows, index) == [rows |-> rows, index |-> index]

\* Along a list of cells: p, its rest, and so on; behind the last one NULL.
Walk(cells, p) ==
  LET rest == [q \in 0..Len(cells) |-> IF q = NULL THEN NULL ELSE cells[q].rest]
      at[k \in Nat] == IF k = 0 THEN p ELSE rest[at[k - 1]]
  IN at

\* The cells of a list, in its order.
Path(cells, p) ==
  LET at == Walk(cells, p)
      length == CHOOSE n \in 0..Len(cells) : at[n] = NULL /\ \A m \in 0..(n - 1) : at[m] # NULL
  IN [k \in 1..length |-> at[k - 1]]

\* The least number of a set, how many it has up to one, and its numbers in ascending order.
First(S) == CHOOSE k \in S : \A j \in S : k <= j
Place(S, k) == Cardinality({i \in S : i <= k})
Ascending(S) == [j \in 1..Cardinality(S) |-> CHOOSE k \in S : Place(S, k) = j]

\* A list of the rows in items is allocated behind the cells there are.
RowList(cells, items) ==
  [j \in DOMAIN items |->
    Row(items[j].name, items[j].entry, IF j < Len(items) THEN Len(cells) + j + 1 ELSE NULL)]
FirstNew(cells, items) == IF items = <<>> THEN NULL ELSE Len(cells) + 1
FirstN(items, n) == SubSeq(items, 1, IF n < Len(items) THEN n ELSE Len(items))

-----------------------------------------------------------------------------
(* Lookup: in the rows, and in the index, which callers use.               *)
RowsNamed(cells, path, name) == {k \in DOMAIN path : cells[path[k]].name = name}
FindRow(cells, rows, name) ==
  LET at == Walk(cells, rows)
      Stops(n) == at[n] = NULL \/ cells[at[n]].name = name
  IN at[CHOOSE n \in 0..Len(cells) : Stops(n) /\ \A m \in 0..(n - 1) : ~Stops(m)]

LeavesFor(cells, path, key) == {k \in DOMAIN path : cells[path[k]].key = key}
LeafFind(cells, leaf, key) ==
  LET at == Walk(cells, leaf)
      Stops(n) == at[n] = NULL \/ cells[at[n]].key = key
  IN at[CHOOSE n \in 0..Len(cells) : Stops(n) /\ \A m \in 0..(n - 1) : ~Stops(m)]
Find(cells, index, name) ==
  LET leaf == LeafFind(cells, index[Bucket(name)], name)
  IN IF leaf = NULL THEN NULL ELSE cells[leaf].value
Present(cells, index, name) == LeafFind(cells, index[Bucket(name)], name) # NULL

-----------------------------------------------------------------------------
(* The parts of an operation.  Each gives the cells it allocates, where    *)
(* its list starts, and whether it had the room it needed.                 *)
RemoveRow(rows, name, room) ==
  LET path == Path(rowCells, rows)
      kept == Ascending(DOMAIN path \ RowsNamed(rowCells, path, name))
      items == FirstN([j \in DOMAIN kept |-> rowCells[path[kept[j]]]], room)
  IN [cells |-> RowList(rowCells, items), first |-> FirstNew(rowCells, items),
      full |-> Len(items) = Len(kept)]

\* The first cell of a bucket with the key, counted along its path; 0 if there is none.
Match(cells, path, key) ==
  LET hits == LeavesFor(cells, path, key) IN IF hits = {} THEN 0 ELSE First(hits)

\* Mistake: the cells before the match are lost.
LeafWithoutTail(cells, leaf, key, room) ==
  LET path == Path(cells, leaf)
      match == Match(cells, path, key)
  IN [cells |-> <<>>, full |-> TRUE,
      first |-> IF match = 0 THEN leaf ELSE cells[path[match]].rest]

\* The cells of the bucket before the match are copied, the last one first, and the tail after
\* it is shared; if a copy fails the bucket is returned as it was.
LeafWithout(cells, leaf, key, room) ==
  LET path == Path(cells, leaf)
      match == Match(cells, path, key)
      n == match - 1
      after == cells[path[match]].rest
      copies == [j \in 1..n |-> Leaf(cells[path[match - j]].key, cells[path[match - j]].value,
                                     IF j = 1 THEN after ELSE Len(cells) + j - 1)]
  IN IF match = 0 THEN [cells |-> <<>>, first |-> leaf, full |-> TRUE]
     ELSE IF room < n THEN [cells |-> FirstN(copies, room), first |-> leaf, full |-> FALSE]
     ELSE [cells |-> copies, first |-> IF n = 0 THEN after ELSE Len(cells) + n, full |-> TRUE]

\* The nodes of the path are copied, and a new leaf is put before the bucket without the key.
IndexSet(index, key, value, room) ==
  LET bucket == index[Bucket(key)]
      cleared == LeafWithout(Append(leafCells, Leaf(key, value, NULL)), bucket, key, room - 2)
  IN IF room < 2 THEN [cells |-> <<>>, index |-> index, full |-> FALSE]
     ELSE [cells |-> <<Leaf(key, value, cleared.first)>> \o cleared.cells,
           index |-> [index EXCEPT ![Bucket(key)] = Len(leafCells) + 1], full |-> cleared.full]

IndexDel(index, key, room) ==
  LET bucket == index[Bucket(key)]
      cleared == LeafWithout(leafCells, bucket, key, room)
      changed == cleared.first # bucket
      copied == room > Len(cleared.cells)
  IN [cells |-> cleared.cells,
      index |-> IF changed /\ copied THEN [index EXCEPT ![Bucket(key)] = cleared.first] ELSE index,
      full |-> cleared.full /\ (changed => copied)]

-----------------------------------------------------------------------------
GlobalsInit ==
  /\ rowCells = <<>> /\ leafCells = <<>> /\ oom = FALSE
  /\ versions = <<Version(NULL, [b \in Buckets |-> NULL])>>

\* What happens after memory has run out is not followed: its results are discarded.
Operation(from) == from \in DOMAIN versions /\ ~oom

\* Mistake: the first row of the name is overwritten where it is.
AddInPlace(from, name, entry, room) ==
  LET v == versions[from]
      row == FindRow(rowCells, v.rows, name)
      indexed == IndexSet(v.index, name, Len(rowCells) + 1, room)
  IN /\ Operation(from) /\ Len(versions) < MaxVersions /\ room > 3
     /\ IF row = NULL
        THEN /\ rowCells' = Append(rowCells, Row(name, entry, v.rows))
             /\ leafCells' = leafCells \o indexed.cells
             /\ versions' = Append(versions, Version(Len(rowCells) + 1, indexed.index))
        ELSE /\ rowCells' = [rowCells EXCEPT ![row].entry = entry]
             /\ versions' = Append(versions, v) /\ UNCHANGED leafCells
     /\ UNCHANGED oom

\* global_add and global_add_family.
GlobalAdd(from, name, entry, room) ==
  LET v == versions[from]
      removed == IF Present(leafCells, v.index, name) THEN RemoveRow(v.rows, name, room)
                 ELSE [cells |-> <<>>, first |-> v.rows, full |-> TRUE]
      consed == removed.full /\ room > Len(removed.cells)
      row == Len(rowCells) + Len(removed.cells) + 1
      indexed == IndexSet(v.index, name, row, room - Len(removed.cells) - 1)
  IN /\ Operation(from) /\ Len(versions) < MaxVersions
     /\ IF consed
        THEN /\ rowCells' = rowCells \o removed.cells \o <<Row(name, entry, removed.first)>>
             /\ leafCells' = leafCells \o indexed.cells
             /\ versions' = Append(versions, Version(row, indexed.index))
             /\ oom' = ~indexed.full
        ELSE /\ rowCells' = rowCells \o removed.cells
             /\ versions' = Append(versions, Version(removed.first, v.index))
             /\ oom' = TRUE /\ UNCHANGED leafCells

\* global_without_family.
WithoutFamily(from, name, room) ==
  LET v == versions[from]
      removed == RemoveRow(v.rows, name, room)
      indexed == IndexDel(v.index, name, IF removed.full THEN room - Len(removed.cells) ELSE 0)
  IN /\ Operation(from) /\ Len(versions) < MaxVersions
     /\ rowCells' = rowCells \o removed.cells
     /\ leafCells' = leafCells \o indexed.cells
     /\ versions' = Append(versions, Version(removed.first, indexed.index))
     /\ oom' = ~(removed.full /\ indexed.full)

Members(path) == {path[k] : k \in DOMAIN path}

\* A copied leaf points at the first copied row of its name.  (An entry that no row has would
\* be copied for itself: RowsMatchIndex shows that there is none.)
Remap(items, key) ==
  LET hits == {j \in DOMAIN items : items[j].name = key} IN IF hits = {} THEN NULL ELSE First(hits)

\* compact_globals: one version is copied into a new arena and the others are freed with the
\* old one.  A leaf is copied once; which number its copy gets makes no difference.
Compact(from, room) ==
  LET v == versions[from]
      path == Path(rowCells, v.rows)
      items == FirstN([j \in DOMAIN path |-> rowCells[path[j]]], room)
      leaves == UNION {Members(Path(leafCells, v.index[b])) : b \in Buckets}
      order == Ascending(leaves)
      new(p) == IF p = NULL THEN NULL ELSE Place(leaves, p)
      full == room > Len(path) + Cardinality(leaves)
  IN /\ Operation(from)
     /\ rowCells' = RowList(<<>>, items)
     /\ leafCells' = IF ~full THEN <<>>
          ELSE [j \in DOMAIN order |->
                 Leaf(leafCells[order[j]].key, Remap(items, leafCells[order[j]].key),
                      new(leafCells[order[j]].rest))]
     /\ versions' = <<Version(FirstNew(<<>>, items),
                        [b \in Buckets |-> IF full THEN new(v.index[b]) ELSE NULL])>>
     /\ oom' = ~full

GlobalsNext ==
  \E from \in 1..MaxVersions, room \in Rooms :
    \/ \E name \in Names, entry \in Entries : GlobalAdd(from, name, entry, room)
    \/ \E name \in Names : WithoutFamily(from, name, room)
    \/ Compact(from, room)

GlobalsSpec == GlobalsInit /\ [][GlobalsNext]_globalsVars

-----------------------------------------------------------------------------
\* While memory lasts, rows and index say the same: a name has at most one row, and the index
\* finds it exactly if it has one, with an entry that is equal.
RowsMatchIndex ==
  ~oom => \A i \in DOMAIN versions, name \in Names :
    LET rows == versions[i].rows
        row == FindRow(rowCells, rows, name)
        found == Find(leafCells, versions[i].index, name)
    IN /\ \A j, k \in RowsNamed(rowCells, Path(rowCells, rows), name) : j = k
       /\ (found = NULL) = (row = NULL)
       /\ found # NULL =>
            /\ rowCells[found].name = name
            /\ rowCells[found].entry = rowCells[row].entry

\* The map that lookups in a version see, in the cells of rows and of leaves.
MapIn(rows, leaves, version) ==
  [name \in {n \in Names : Find(leaves, version.index, n) # NULL} |->
    rows[Find(leaves, version.index, name)].entry]
MapOf(version) == MapIn(rowCells, leafCells, version)

\* global_extended_by, which reads the rows of one version and the index of another.
ExtendedBy(earlier, later) ==
  LET path == Path(rowCells, earlier.rows)
  IN \A k \in DOMAIN path :
       LET row == rowCells[path[k]]
           found == Find(leafCells, later.index, row.name)
       IN found # NULL /\ rowCells[found].entry = row.entry

\* While memory lasts, its answer is about the maps that lookups see: every name of the earlier
\* one is in the later one, with the same entry.
IncludedIn(map, more) == \A name \in DOMAIN map : name \in DOMAIN more /\ more[name] = map[name]
ExtensionIsInclusion ==
  ~oom => \A i, j \in DOMAIN versions :
    ExtendedBy(versions[i], versions[j]) <=> IncludedIn(MapOf(versions[i]), MapOf(versions[j]))

Maps == INSTANCE GlobalMap WITH versions <- [i \in DOMAIN versions |-> MapOf(versions[i])]

\* To callers the environment is a sequence of maps: each operation makes the version that its
\* name says, and no version changes when others are made, though they share cells.
ImplementsMap == Maps!Spec
=============================================================================
