------------------------------ MODULE Scatter ------------------------------
(***************************************************************************)
(* SortScatterIndex, ScatterForward and ScatterReverse: data sent to where *)
(* a distributed list of global indices wants it, and results sent back to *)
(* where the data came from.  Indices count from 0, over the processes in  *)
(* order.  The exchanges are all-to-alls, so an operator maps the data of  *)
(* all the processes to their data afterwards; data is of dimension one,   *)
(* and the index is spread like the data, as all the callers have it.      *)
(***************************************************************************)
EXTENDS LinearOctree

\* where each process's part of a distributed list begins
glb_scan(size) == [r \in Procs |-> FoldFunctionOnSet(+, 0, size, 0..r-1)]

Sizes(v) == [r \in Procs |-> Len(v[r])]

\* The global indices of the ids, sorted by id; process r gets those from its
\* split key up to the next one's.
SortScatterIndex(key, split_key) ==
  LET parray == [r \in Procs |->
                   [i \in 1..Len(key[r]) |-> key[r][i] \o <<glb_scan(Sizes(key))[r] + i - 1>>]]
      psorted == Glued(HyperQuickSort(parray))
      part(r) == SelectSeq(psorted,
                   LAMBDA p : /\ r > 0 => ~Less(p, split_key[r])
                              /\ r < np-1 => Less(p, split_key[r+1]))
  IN  [r \in Procs |-> [i \in 1..Len(part(r)) |-> part(r)[i][3]]]

\* pairs <<global index, own place>>, sorted, of those on process p
Sought(index, size, p) ==
  LET psorted == SortSeq([i \in 1..Len(index) |-> <<index[i], i>>], LAMBDA a, b : a[1] < b[1])
      scan == glb_scan(size)
  IN  SelectSeq(psorted, LAMBDA x : /\ scan[p] <= x[1]
                                    /\ p < np-1 => x[1] < scan[p+1])

\* mutated: the data left in the order in which it arrived
ScatterForwardUnsorted(data, scatter_index) ==
  LET size == Sizes(data)
  IN  [r \in Procs |->
         FlattenSeq([p \in 1..np |->
           LET send_indx == Sought(scatter_index[r], size, p-1)
           IN  [i \in 1..Len(send_indx) |-> data[p-1][send_indx[i][1] - glb_scan(size)[p-1] + 1]]])]

\* Every process asks the owners for the indices it wants, in sorted order,
\* and puts what it is sent where the index stood in its list.
ScatterForward(data, scatter_index) ==
  LET size == Sizes(data)
      recv_buff(r) ==
        FlattenSeq([p \in 1..np |->
          LET send_indx == Sought(scatter_index[r], size, p-1)
          IN  [i \in 1..Len(send_indx) |->
                 <<send_indx[i][2], data[p-1][send_indx[i][1] - glb_scan(size)[p-1] + 1]>>]])
  IN  [r \in Procs |->
         LET b == recv_buff(r)
         IN  [i \in 1..Len(b) |-> b[CHOOSE k \in 1..Len(b) : b[k][1] = i][2]]]

\* what the processes get back: as much as each says, or equal shares where
\* that does not add up
recv_sizes(data, loc_size) ==
  LET n == Len(Glued(data))
  IN  IF FoldFunction(+, 0, loc_size) = n THEN loc_size
      ELSE [r \in Procs |-> ((r+1) * n) \div np - (r * n) \div np]

ScatterReverse(data, scatter_index, loc_size) ==
  LET size == recv_sizes(data, loc_size)
      recv_buff(p) ==
        FlattenSeq([r \in 1..np |->
          LET psorted == Sought(scatter_index[r-1], size, p)
          IN  [i \in 1..Len(psorted) |->
                 <<psorted[i][1] - glb_scan(size)[p] + 1, data[r-1][psorted[i][2]]>>]])
  IN  [p \in Procs |->
         LET b == recv_buff(p)
         IN  [i \in 1..size[p] |-> b[CHOOSE k \in 1..Len(b) : b[k][1] = i][2]]]
=============================================================================
