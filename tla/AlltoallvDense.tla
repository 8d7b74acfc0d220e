--------------------------- MODULE AlltoallvDense ---------------------------
(***************************************************************************)
(* par::Mpi_Alltoallv_dense: an all-to-all exchange in about log P rounds. *)
(* A process keeps, for every process of a range that holds itself, a      *)
(* segment of blocks on their way there.  In every round the range is      *)
(* halved: the segments for the other half go to a partner there, and what *)
(* the partner sends joins the process's own segments.  The last process   *)
(* of a range of odd length is the partner of two.                         *)
(*                                                                         *)
(* A word is <<s, d, k>>: word 0 is the header of the block that s sends   *)
(* to d, which holds s and the block's length, and word k > 0 its k-th     *)
(* element.  MPI_Sendrecv is a send and a receive over FIFO channels; with *)
(* Rendezvous it does not return before its own message is received.       *)
(***************************************************************************)
EXTENDS Integers, Sequences, SequencesExt

CONSTANTS P,            \* number of processes
          Counts,       \* the matrices of counts: s sends c[s][d] elements to d
          Rendezvous    \* whether MPI_Sendrecv waits for its message to be taken

Procs == 0..P-1

ASSUME ParametersAssumption ==
  /\ P \in Nat \ {0}
  /\ Counts \subseteq [Procs -> [Procs -> Nat]]
  /\ Rendezvous \in BOOLEAN

VARIABLES cnt,          \* the counts of this exchange
          pc,           \* where each process is
          range,        \* the processes it has segments for, <<first, last>>
          s_cnt,        \* the lengths of the segments, and
          sbuff,        \*   the segments, one after the other
          r_cnt,        \* the lengths the partner has announced
          r_cnt_ext,    \*   and the extra partner
          rbuff,        \* what the partner has sent
          rbuffext,     \*   and the extra partner
          net,          \* net[s][d], the messages on their way from s to d
          out           \* rbuff_, the result of each process

vars == <<cnt, pc, range, s_cnt, sbuff, r_cnt, r_cnt_ext, rbuff, rbuffext, net, out>>

Unwritten == <<"unwritten">>

Total(counts) ==
  LET sum[i \in 0..Len(counts)] == IF i = 0 THEN 0 ELSE sum[i-1] + counts[i]
  IN  sum[Len(counts)]

\* segment i of a buffer, given the lengths of the segments
Segment(buf, counts, i) ==
  LET start == Total(SubSeq(counts, 1, i-1))
  IN  SubSeq(buf, start + 1, start + counts[i])

\* the sequence s with t written over it from index from+1 on
Overwrite(s, from, t) ==
  [k \in DOMAIN s |-> IF k \in from+1..from+Len(t) THEN t[k - from] ELSE s[k]]

BlockOf(s, d) == [k \in 1..cnt[s][d] + 1 |-> <<s, d, k-1>>]
blk_size(word) == cnt[word[1]][word[2]] + 1

r_cnt_(d) == [s \in 1..P |-> cnt[s-1][d]]
rdisp_(d, s) == Total(SubSeq(r_cnt_(d), 1, s))

Init ==
  /\ cnt \in Counts
  /\ pc = [r \in Procs |-> "round"]
  /\ range = [r \in Procs |-> <<0, P-1>>]
  /\ s_cnt = [r \in Procs |-> [i \in 1..P |-> cnt[r][i-1] + 1]]
  /\ sbuff = [r \in Procs |-> FlattenSeq([i \in 1..P |-> BlockOf(r, i-1)])]
  /\ r_cnt = [r \in Procs |-> <<>>]
  /\ r_cnt_ext = [r \in Procs |-> <<>>]
  /\ rbuff = [r \in Procs |-> <<>>]
  /\ rbuffext = [r \in Procs |-> <<>>]
  /\ net = [s \in Procs |-> [d \in Procs |-> <<>>]]
  /\ out = [d \in Procs |-> [x \in 1..Total(r_cnt_(d)) |-> Unwritten]]

----------------------------------------------------------------------------
split_id(r) == (range[r][1] + range[r][2]) \div 2
Lower(r) == <<range[r][1], split_id(r)>>
Upper(r) == <<split_id(r) + 1, range[r][2]>>
new_range(r) == IF r <= split_id(r) THEN Lower(r) ELSE Upper(r)
cmp_range(r) == IF r <= split_id(r) THEN Upper(r) ELSE Lower(r)
new_np(r) == new_range(r)[2] - new_range(r)[1] + 1

partner(r) ==
  LET k == r + cmp_range(r)[1] - new_range(r)[1]
  IN  IF k > range[r][2] THEN range[r][2] ELSE k
extra_partner(r) == (range[r][2] - range[r][1]) % 2 = 0 /\ r = range[r][2]

\* where the segments for the processes of a part g of its range are
Within(r, g) == <<g[1] - range[r][1] + 1, g[2] - range[r][1] + 1>>

\* the lengths of the segments for the other half
s_lengths(r) == LET w == Within(r, cmp_range(r)) IN SubSeq(s_cnt[r], w[1], w[2])

\* mutated: from the start of the buffer
sbuff_tmpFromStart(r) == SubSeq(sbuff[r], 1, Total(s_lengths(r)))

\* the segments for the other half
sbuff_tmp(r) ==
  LET w == Within(r, cmp_range(r))
  IN  SubSeq(sbuff[r], Total(SubSeq(s_cnt[r], 1, w[1] - 1)) + 1,
                       Total(SubSeq(s_cnt[r], 1, w[2])))

\* nothing for the extra partner, for every process of its half
s_len_ext(r) == [i \in 1..cmp_range(r)[2] - cmp_range(r)[1] + 1 |-> 0]

Lengths(s) == [kind |-> "lengths", body |-> s]
Data(s) == [kind |-> "data", body |-> s]

Awaited(r) == CASE pc[r] \in {"counts", "data"} -> {partner(r)}
                [] pc[r] \in {"extra counts", "extra data"} -> {split_id(r)}
                [] OTHER -> {}

\* no message of r is without a posted receive
SendsMatched(r) ==
  \A d \in Procs : Len(net[r][d]) <= IF r \in Awaited(d) THEN 1 ELSE 0

\* an MPI_Sendrecv of r with d returns, and r starts another one, sending m to
\* e, or none if m is empty; goes on at label
Sendrecv(r, d, e, m, label) ==
  /\ net[d][r] # <<>>
  /\ Rendezvous => SendsMatched(r)
  /\ LET taken == [net EXCEPT ![d][r] = Tail(@)]
     IN  net' = IF m = <<>> THEN taken ELSE [taken EXCEPT ![r][e] = Append(@, m[1])]
  /\ pc' = [pc EXCEPT ![r] = label]

Received(r, d) == Head(net[d][r]).body

\* a round begins: the lengths are sent; or the range holds only the process
SendCounts(r) ==
  /\ pc[r] = "round" /\ range[r][1] < range[r][2]
  /\ net' = [net EXCEPT ![r][partner(r)] = Append(@, Lengths(s_lengths(r)))]
  /\ r_cnt_ext' = [r_cnt_ext EXCEPT ![r] = [i \in 1..new_np(r) |-> 0]]
  /\ rbuffext' = [rbuffext EXCEPT ![r] = <<>>]
  /\ pc' = [pc EXCEPT ![r] = "counts"]
  /\ UNCHANGED <<cnt, range, s_cnt, sbuff, r_cnt, rbuff, out>>

RecvCounts(r) ==
  /\ pc[r] = "counts"
  /\ IF extra_partner(r)
     THEN Sendrecv(r, partner(r), split_id(r), <<Lengths(s_len_ext(r))>>, "extra counts")
     ELSE Sendrecv(r, partner(r), partner(r), <<Data(sbuff_tmp(r))>>, "data")
  /\ r_cnt' = [r_cnt EXCEPT ![r] = Received(r, partner(r))]
  /\ UNCHANGED <<cnt, range, s_cnt, sbuff, r_cnt_ext, rbuff, rbuffext, out>>

RecvExtraCounts(r) ==
  /\ pc[r] = "extra counts"
  /\ Sendrecv(r, split_id(r), partner(r), <<Data(sbuff_tmp(r))>>, "data")
  /\ r_cnt_ext' = [r_cnt_ext EXCEPT ![r] = Received(r, split_id(r))]
  /\ UNCHANGED <<cnt, range, s_cnt, sbuff, r_cnt, rbuff, rbuffext, out>>

RecvData(r) ==
  /\ pc[r] = "data"
  /\ IF extra_partner(r)
     THEN Sendrecv(r, partner(r), split_id(r), <<Data(<<>>)>>, "extra data")
     ELSE Sendrecv(r, partner(r), partner(r), <<>>, "rearrange")
  /\ rbuff' = [rbuff EXCEPT ![r] = Received(r, partner(r))]
  /\ UNCHANGED <<cnt, range, s_cnt, sbuff, r_cnt, r_cnt_ext, rbuffext, out>>

RecvExtraData(r) ==
  /\ pc[r] = "extra data"
  /\ Sendrecv(r, split_id(r), split_id(r), <<>>, "rearrange")
  /\ rbuffext' = [rbuffext EXCEPT ![r] = Received(r, split_id(r))]
  /\ UNCHANGED <<cnt, range, s_cnt, sbuff, r_cnt, r_cnt_ext, rbuff, out>>

\* what was received joins the segments of the process's half
Rearrange(r) ==
  LET w == Within(r, new_range(r))
      old(i) == Segment(sbuff[r], s_cnt[r], w[1] + i - 1)
      joined(i) == old(i) \o Segment(rbuff[r], r_cnt[r], i)
                          \o Segment(rbuffext[r], r_cnt_ext[r], i)
  IN
  /\ pc[r] = "rearrange"
  /\ s_cnt' = [s_cnt EXCEPT ![r] = [i \in 1..new_np(r) |->
                 s_cnt[r][w[1] + i - 1] + r_cnt[r][i] + r_cnt_ext[r][i]]]
  /\ sbuff' = [sbuff EXCEPT ![r] = FlattenSeq([i \in 1..new_np(r) |-> joined(i)])]
  /\ range' = [range EXCEPT ![r] = new_range(r)]
  /\ pc' = [pc EXCEPT ![r] = "round"]
  /\ UNCHANGED <<cnt, r_cnt, r_cnt_ext, rbuff, rbuffext, net, out>>

\* mutated: the length taken for that of the elements
buff_ptrShort(r) ==
  LET at[i \in 1..P] ==
        IF i = 1 THEN 1 ELSE LET j == at[i-1] IN j + blk_size(sbuff[r][j]) - 1
  IN  at

\* where the P blocks of the only segment begin, from one header to the next
buff_ptr(r) ==
  LET at[i \in 1..P] ==
        IF i = 1 THEN 1 ELSE LET j == at[i-1] IN j + blk_size(sbuff[r][j])
  IN  at

\* every block is copied to the place of its sender in the result
Deliver(r) ==
  LET ptr == buff_ptr(r)
      header(i) == sbuff[r][ptr[i]]
      block(i) == SubSeq(sbuff[r], ptr[i] + 1, ptr[i] + blk_size(header(i)) - 1)
      to(i) == rdisp_(r, header(i)[1])
      copied[i \in 0..P] ==
        IF i = 0 THEN out[r] ELSE Overwrite(copied[i-1], to(i), block(i))
  IN
  /\ pc[r] = "round" /\ range[r][1] = range[r][2]
  /\ out' = [out EXCEPT ![r] = copied[P]]
  /\ pc' = [pc EXCEPT ![r] = "done"]
  /\ UNCHANGED <<cnt, range, s_cnt, sbuff, r_cnt, r_cnt_ext, rbuff, rbuffext, net>>

Proc(r) == SendCounts(r) \/ RecvCounts(r) \/ RecvExtraCounts(r) \/ RecvData(r)
           \/ RecvExtraData(r) \/ Rearrange(r) \/ Deliver(r)

Returned == (\A r \in Procs : pc[r] = "done") /\ UNCHANGED vars

Next == (\E r \in Procs : Proc(r)) \/ Returned

\* MPI makes progress: a message that can be received is received
Spec == Init /\ [][Next]_vars /\ WF_vars(Next)

----------------------------------------------------------------------------
\* The message a process is about to receive is the one its code expects:
\* lengths where it receives lengths, as many as it has made room for, and data
\* of exactly the announced total.  All messages have the same tag, so only
\* their order tells them apart, in particular where a process has two partners.
MessagesMatch ==
  \A r \in Procs : \A d \in Awaited(r) : net[d][r] # <<>> =>
    LET m == Head(net[d][r]) IN
    CASE pc[r] \in {"counts", "extra counts"} ->
           m.kind = "lengths" /\ Len(m.body) = new_np(r)
      [] pc[r] = "data" -> m.kind = "data" /\ Len(m.body) = Total(r_cnt[r])
      [] pc[r] = "extra data" -> m.kind = "data" /\ Len(m.body) = Total(r_cnt_ext[r])

\* Between rounds a segment holds blocks for its own destination only, none of
\* them twice, whichever partners they came from: a range only shrinks around
\* the blocks that still have to travel.
SegmentsAddressed ==
  \A r \in Procs : pc[r] = "round" =>
    \A i \in DOMAIN s_cnt[r] :
      LET seg == Segment(sbuff[r], s_cnt[r], i) IN
      /\ \A x \in DOMAIN seg : seg[x][2] = range[r][1] + i - 1
      /\ \A x, y \in DOMAIN seg : x # y => seg[x] # seg[y]

\* Every process returns, with what every process sent it at the place of its
\* sender in the result.
Abstract == INSTANCE Alltoallv WITH
  recv <- [d \in Procs |-> IF pc[d] # "done" THEN <<>>
             ELSE [s \in Procs |-> SubSeq(out[d], rdisp_(d, s) + 1, rdisp_(d, s) + cnt[s][d])]]
Delivers == Abstract!Spec
=============================================================================
