----------------------------- MODULE DataExchange ----------------------------
(***************************************************************************)
(* How the nodes of examples2/gbdt prepare the training over a channel       *)
(* (channel_util.hpp): even out the records that the nodes have loaded,      *)
(* agree on the range of every feature, and in the end add up the errors.    *)
(*                                                                         *)
(* Each node has one channel thread.  What it does between two calls of      *)
(* SyncAndGet is one step here, a superstep; a SyncAndGet returns when every *)
(* node has called it as often, with the messages pushed before (module      *)
(* Channel), those of different nodes in any order.                         *)
(***************************************************************************)
EXTENDS GBDT

CONSTANTS NumNodes, Loads   \* Loads: what the nodes may have loaded

NodeIds == 0 .. NumNodes - 1

\* With fewer records than nodes a node stays without any, sees no features
\* and leaves the others alone in the exchange of ranges.
ExchangeAssumption ==
    /\ NumNodes \in Nat \ {0}
    /\ \A loads \in Loads :
          /\ DOMAIN loads = NodeIds
          /\ MapThenSumSet(LAMBDA n : Len(loads[n]), NodeIds) >= NumNodes

VARIABLES
    loaded,     \* history: the records that each node has loaded
    records,    \* node -> its DataLoader, class_vect and feat_vect_list as records
    columns,    \* node -> feat_vect_list.size()
    total,      \* node -> global_data_num
    ranges,     \* node -> global_min_max_feat_list
    result,     \* node -> sum of the results, [sse, num]
    at,         \* node -> the superstep it is to do next
    synced,     \* node -> how often it has called SyncAndGet
    mail        \* messages pushed and not yet received, with their round

exchangeVars == <<loaded, records, columns, total, ranges, result, at, synced, mail>>

\* A DataLoader has no columns before it has a record.
read_hdfs_to_class_feat_vect(lines) ==
    [records |-> lines, columns |-> IF lines = <<>> THEN 0 ELSE NumFeats]

\* The last n records, the last of them first.
pop(loader, n) ==
    [loader |-> [loader EXCEPT !.records = SubSeq(@, 1, Len(@) - n)],
     popped |-> Reverse(SubSeq(loader.records, Len(loader.records) - n + 1, Len(loader.records)))]

\* The first record makes the columns of an empty loader.
push(loader, more) ==
    [records |-> loader.records \o more,
     columns |-> IF more # <<>> THEN NumFeats ELSE loader.columns]

ExchangeInit ==
    /\ loaded \in Loads
    /\ records = [n \in NodeIds |-> read_hdfs_to_class_feat_vect(loaded[n]).records]
    /\ columns = [n \in NodeIds |-> read_hdfs_to_class_feat_vect(loaded[n]).columns]
    /\ total = [n \in NodeIds |-> 0]
    /\ ranges = [n \in NodeIds |-> <<>>]
    /\ result = [n \in NodeIds |-> [sse |-> 0, num |-> 0]]
    /\ at = [n \in NodeIds |-> "count"]
    /\ synced = [n \in NodeIds |-> 0]
    /\ mail = {}
-----------------------------------------------------------------------------
\* SyncAndGet: the messages of the last round, in the order they have come.
Due(n) == {m \in mail : m[1] = synced[n] /\ m[2].to = n}
Arrived(n) == {m[2] : m \in Due(n)}
Returned(n) == \A m \in NodeIds : synced[m] >= synced[n]
At(n, step) == at[n] = step /\ Returned(n)
Message(n, to, val) == <<synced[n] + 1, [from |-> n, to |-> to, val |-> val]>>

\* The end of a superstep: push, and call SyncAndGet.
Exchange(n, messages, next) ==
    /\ mail' = (mail \ Due(n)) \cup messages
    /\ synced' = [synced EXCEPT ![n] = @ + 1]
    /\ at' = [at EXCEPT ![n] = next]

\* Send the local number of records to node 0.
SendCount(n) ==
    /\ At(n, "count")
    /\ Exchange(n, {Message(n, 0, Len(records[n]))}, "instruct")
    /\ UNCHANGED <<loaded, records, columns, total, ranges, result>>

\* Who has too many records gives them to who has too few, in the order of the
\* ids: what each pair of nodes is to pass on.  Both loops are one fold.
Passed(s, from, to) == Min({s.available[from], s.needed[to]})
PassOnTwice(s, from, to) ==  \* mutant of PassOn
    LET amount == Passed(s, from, to)
    IN  [s EXCEPT !.available[from] = @ - amount,
                  !.orders = IF amount = 0 THEN @
                             ELSE Append(@, [from |-> from, to |-> to, amount |-> amount])]
PassOn(s, from, to) ==
    LET amount == Passed(s, from, to)
    IN  [s EXCEPT !.available[from] = @ - amount, !.needed[to] = @ - amount,
                  !.orders = IF amount = 0 THEN @
                             ELSE Append(@, [from |-> from, to |-> to, amount |-> amount])]

Allocation(num) ==
    LET avg == MapThenSumSet(LAMBDA n : num[n], NodeIds) \div NumNodes
        pairs == [i \in 1 .. NumNodes * NumNodes |-> <<(i - 1) \div NumNodes, (i - 1) % NumNodes>>]
        start == [available |-> [n \in NodeIds |-> Max({0, num[n] - avg})],
                  needed |-> [n \in NodeIds |-> Max({0, avg - num[n]})],
                  orders |-> <<>>]
    IN  FoldLeft(LAMBDA s, pair : PassOn(s, pair[1], pair[2]), start, pairs).orders

InstructFrom(orders, n) == SelectSeq(orders, LAMBDA o : o.from = n)

\* Node 0 adds up the numbers and sends out the instructions.
Instruct(n) ==
    /\ At(n, "instruct")
    /\ IF n = 0
       THEN LET num == [f \in NodeIds |-> (CHOOSE m \in Arrived(0) : m.from = f).val]
                orders == Allocation(num)
            IN  /\ total' = [total EXCEPT ![0] = MapThenSumSet(LAMBDA f : num[f], NodeIds)]
                /\ Exchange(0, {Message(0, f, InstructFrom(orders, f)) :
                                   f \in {orders[i].from : i \in DOMAIN orders}}, "give")
       ELSE UNCHANGED total /\ Exchange(n, {}, "give")
    /\ UNCHANGED <<loaded, records, columns, ranges, result>>

\* Pop as many records as each instruction says, for the node it names.
Loader(n) == [records |-> records[n], columns |-> columns[n]]
Give(n) ==
    /\ At(n, "give")
    /\ LET orders == IF Arrived(n) = {} THEN <<>> ELSE (CHOOSE m \in Arrived(n) : TRUE).val
           after[i \in 0 .. Len(orders)] ==
               IF i = 0 THEN [loader |-> Loader(n), popped |-> <<>>]
                        ELSE pop(after[i - 1].loader, orders[i].amount)
       IN  /\ records' = [records EXCEPT ![n] = after[Len(orders)].loader.records]
           /\ Exchange(n, {Message(n, orders[i].to, after[i].popped) : i \in DOMAIN orders}, "take")
    /\ UNCHANGED <<loaded, columns, total, ranges, result>>

\* Push what has come; then node 0 sends everybody the total.
Take(n) ==
    /\ At(n, "take")
    /\ \E order \in SetToSeqs(Arrived(n)) :
          LET grown == push(Loader(n), FlattenSeq([i \in DOMAIN order |-> order[i].val]))
          IN  /\ records' = [records EXCEPT ![n] = grown.records]
              /\ columns' = [columns EXCEPT ![n] = grown.columns]
    /\ Exchange(n, IF n = 0 THEN {Message(0, to, total[0]) : to \in NodeIds} ELSE {}, "total")
    /\ UNCHANGED <<loaded, total, ranges, result>>

\* After the exchange of the records, main finds the range of every local
\* column, and sends them to node 0 one by one, with a SyncAndGet for each.
RangeOf(n, f) == find_min_max([i \in DOMAIN records[n] |-> records[n][i].feats[f]])
SendRange(n, f) == {Message(n, 0, RangeOf(n, f))}
Column(n) == synced[n] - 4
AfterRange(n, f) == IF f < columns[n] THEN "range" ELSE "spread"

LearnTotal(n) ==
    /\ At(n, "total")
    /\ total' = [total EXCEPT ![n] = (CHOOSE m \in Arrived(n) : TRUE).val]
    /\ IF columns[n] > 0 THEN Exchange(n, SendRange(n, 1), AfterRange(n, 1))
                         ELSE Exchange(n, {}, "learn")
    /\ UNCHANGED <<loaded, records, columns, ranges, result>>

\* Node 0 merges what it has got for a column.
Merged(n) == IF n = 0 THEN Append(ranges[0], global_min_max({m.val : m \in Arrived(0)})) ELSE ranges[n]

NextRange(n) ==
    /\ At(n, "range")
    /\ ranges' = [ranges EXCEPT ![n] = Merged(n)]
    /\ Exchange(n, SendRange(n, Column(n) + 1), AfterRange(n, Column(n) + 1))
    /\ UNCHANGED <<loaded, records, columns, total, result>>

Spread(n) ==
    /\ At(n, "spread")
    /\ ranges' = [ranges EXCEPT ![n] = Merged(n)]
    /\ Exchange(n, IF n = 0 THEN {Message(0, to, ranges'[0]) : to \in NodeIds \ {0}} ELSE {}, "learn")
    /\ UNCHANGED <<loaded, records, columns, total, result>>

\* The error of a forest on a node's records; here that of an empty forest.
calculate_predict_result(test) ==
    [sse |-> MapThenSumSet(LAMBDA i : LET error == test[i].class - forest_predict(<<>>, test[i].feats)
                                      IN  error * error, DOMAIN test),
     num |-> Len(test)]

\* The others learn the ranges; the training and its error follow, and all send
\* their share of the error to node 0.
LearnRanges(n) ==
    /\ At(n, "learn")
    /\ ranges' = [ranges EXCEPT ![n] =
                     IF n # 0 /\ Arrived(n) # {} THEN (CHOOSE m \in Arrived(n) : TRUE).val ELSE @]
    /\ Exchange(n, {Message(n, 0, calculate_predict_result(records[n]))}, "sum")
    /\ UNCHANGED <<loaded, records, columns, total, result>>

SumOf(messages) == [sse |-> MapThenSumSet(LAMBDA m : m.val.sse, messages),
                    num |-> MapThenSumSet(LAMBDA m : m.val.num, messages)]

SumResults(n) ==
    /\ At(n, "sum")
    /\ result' = [result EXCEPT ![n] =
                     IF n = 0 THEN SumOf(Arrived(0)) ELSE @]
    /\ mail' = mail \ Due(n)
    /\ at' = [at EXCEPT ![n] = "done"]
    /\ UNCHANGED <<loaded, records, columns, total, ranges, synced>>

ExchangeStep(n) ==
    \/ SendCount(n) \/ Instruct(n) \/ Give(n) \/ Take(n) \/ LearnTotal(n)
    \/ NextRange(n) \/ Spread(n) \/ LearnRanges(n) \/ SumResults(n)

ExchangeDone == (\A n \in NodeIds : at[n] = "done") /\ UNCHANGED exchangeVars

ExchangeNext == (\E n \in NodeIds : ExchangeStep(n)) \/ ExchangeDone

ExchangeSpec == ExchangeInit /\ [][ExchangeNext]_exchangeVars
-----------------------------------------------------------------------------
\* The records of a function from nodes to sequences, as a bag.
Copies(f, r) == MapThenSumSet(LAMBDA n : Cardinality({i \in DOMAIN f[n] : f[n][i] = r}), NodeIds)
AllRecords == UNION {Range(loaded[n]) : n \in NodeIds}

\* When the records have been passed on, nothing is lost or doubled on the way,
\* a node that had too few has the average number and the others have no less,
\* so that none is left without columns (the instructions that node 0 works out
\* against what pop and push make of them).
Average == MapThenSumSet(LAMBDA n : Len(loaded[n]), NodeIds) \div NumNodes
Balanced ==
    (\A n \in NodeIds : at[n] \notin {"count", "instruct", "give", "take"}) =>
        /\ \A r \in AllRecords : Copies(records, r) = Copies(loaded, r)
        /\ \A n \in NodeIds :
              IF Len(loaded[n]) < Average THEN Len(records[n]) = Average
                                          ELSE Len(records[n]) >= Average

\* Training starts with the same ranges and the same total on every node, and
\* no value of a column is below the range of its feature.
SameStart ==
    \A n \in NodeIds : at[n] \in {"sum", "done"} =>
        /\ ranges[n] = ranges[0] /\ Len(ranges[n]) = NumFeats
        /\ total[n] = MapThenSumSet(LAMBDA m : Len(loaded[m]), NodeIds)
        /\ \A f \in Feats : ranges[n][f].min = Min({r.feats[f] : r \in AllRecords})

\* The sums that node 0 reports are over the records of all nodes, wherever they
\* were loaded and whoever has them now.
ResultComplete ==
    at[0] = "done" =>
        LET share(n) == calculate_predict_result(loaded[n])
        IN  result[0] = [sse |-> MapThenSumSet(LAMBDA n : share(n).sse, NodeIds),
                         num |-> MapThenSumSet(LAMBDA n : share(n).num, NodeIds)]
=============================================================================
