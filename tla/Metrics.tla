------------------------------- MODULE Metrics ------------------------------
(* One metric of metrics/mod.rs under concurrent use: threads get a handle   *)
(* for it from the registry, observe values through relaxed atomics, and a   *)
(* scrape renders it. Relaxed updates of different atomics may take effect   *)
(* in any order, so an observation is a set of pending updates; a scrape     *)
(* reads cell by cell.                                                       *)
EXTENDS Naturals, Sequences, SequencesExt, FiniteSets, FiniteSetsExt

CONSTANTS
  Observers,     \* threads that observe
  Values,        \* values observed, natural numbers
  BoundLists,    \* bucket bounds given at registration, possibly unsorted or with NaN
  NaN,           \* the bound that is not a number
  MaxObservations, \* bound on the observations of one thread
  MaxScrapes     \* bound on the scrapes

VARIABLES
  bounds,     \* the sorted bounds; <<>> with no +Inf cell before the registration
  kind,       \* the instrument registered under the name: "none", "histogram" or "gauge"
  handle,     \* what each thread got: "none", "attached" or "detached"
  cell,       \* the counters: one per bucket, +Inf last, then the sum and the count
  doing,      \* the observation each thread is in
  begun,      \* history: values observed or being observed through attached handles
  done,       \* history: values whose observation has completed
  scrape,     \* the scrape under way
  last        \* the values of the last complete scrape

metricVars == <<bounds, kind, handle, cell, doing, begun, done, scrape, last>>

(* Histogram::new drops NaN bounds and sorts the rest. *)
Sorted(bs) == SortSeq(SelectSeq(bs, LAMBDA b : b # NaN), <)

Inf == Len(bounds) + 1
Cells == (1..Inf) \cup {Inf + 1, Inf + 2}
Sum == Inf + 1
Count == Inf + 2

(* The first bound the value does not exceed. *)
Bucket(v) == Min({i \in 1..Len(bounds) : v <= bounds[i]} \cup {Inf})

Quiet == [pending |-> {}, value |-> 0, cur |-> 0]
NoScrape == [unread |-> {}, got |-> <<>>, from |-> <<>>]

MetricInit ==
  /\ bounds = <<>> /\ kind = "none" /\ handle = [t \in Observers |-> "none"]
  /\ cell = <<0, 0, 0>> /\ doing = [t \in Observers |-> Quiet]
  /\ begun = [t \in Observers |-> <<>>] /\ done = [t \in Observers |-> <<>>]
  /\ scrape = NoScrape /\ last = <<>>

(* Registry::histogram and Registry::gauge: under the registry's lock, create *)
(* the instrument or hand out the existing one; a thread that asks for        *)
(* another kind gets an instrument of its own that no scrape ever reads.      *)
Register(t) ==
  /\ handle[t] = "none"
  /\ \E k \in {"histogram", "gauge"}, bs \in BoundLists :
       /\ handle' = [handle EXCEPT ![t] = IF kind \in {"none", k} /\ k = "histogram" THEN "attached" ELSE "detached"]
       /\ kind' = IF kind = "none" THEN k ELSE kind
       /\ bounds' = IF kind = "none" /\ k = "histogram" THEN Sorted(bs) ELSE bounds
       /\ cell' = IF kind = "none" THEN [i \in 1..(Len(bounds') + 3) |-> 0] ELSE cell
  /\ UNCHANGED <<doing, begun, done, scrape, last>>

(* observe(): through an attached handle. The relaxed load before the        *)
(* compare-and-swap loop may come as early as this; a later one only spares  *)
(* the loop a round.                                                         *)
Observe(t) ==
  /\ handle[t] = "attached" /\ doing[t] = Quiet /\ Len(begun[t]) < MaxObservations
  /\ \E v \in Values :
       /\ doing' = [doing EXCEPT ![t] = [pending |-> {Bucket(v), Count, Sum}, value |-> v, cur |-> cell[Sum]]]
       /\ begun' = [begun EXCEPT ![t] = Append(@, v)]
  /\ UNCHANGED <<bounds, kind, handle, cell, done, scrape, last>>

Finish(t, d) ==
  IF d.pending = {} THEN doing' = [doing EXCEPT ![t] = Quiet] /\ done' = [done EXCEPT ![t] = Append(@, d.value)]
                    ELSE doing' = [doing EXCEPT ![t] = d] /\ UNCHANGED done

(* fetch_add on the bucket or on the count. *)
Bump(t) ==
  /\ \E i \in doing[t].pending \ {Sum} :
       /\ cell' = [cell EXCEPT ![i] = @ + 1]
       /\ Finish(t, [doing[t] EXCEPT !.pending = @ \ {i}])
  /\ UNCHANGED <<bounds, kind, handle, begun, scrape, last>>

(* compare_exchange_weak: swap, or take over the value found and try again. *)
SwapSum(t) ==
  /\ Sum \in doing[t].pending
  /\ IF cell[Sum] = doing[t].cur
     THEN /\ cell' = [cell EXCEPT ![Sum] = @ + doing[t].value]
          /\ Finish(t, [doing[t] EXCEPT !.pending = @ \ {Sum}])
     ELSE doing' = [doing EXCEPT ![t].cur = cell[Sum]] /\ UNCHANGED <<cell, done>>
  /\ UNCHANGED <<bounds, kind, handle, begun, scrape, last>>

(* encode(): reads every cell of the histogram ... *)
ScrapeBegins ==
  /\ kind = "histogram" /\ scrape = NoScrape /\ Len(last) < MaxScrapes
  /\ scrape' = [unread |-> Cells, got |-> cell, from |-> done]
  /\ UNCHANGED <<bounds, kind, handle, cell, doing, begun, done, last>>

ScrapeReads ==
  /\ Cardinality(scrape.unread) > 1
  /\ LET i == Min(scrape.unread) IN scrape' = [scrape EXCEPT !.unread = @ \ {i}, !.got[i] = cell[i]]
  /\ UNCHANGED <<bounds, kind, handle, cell, doing, begun, done, last>>

(* ... and renders the buckets cumulatively. *)
Cumulative(c, i) == FoldFunctionOnSet(+, 0, c, 1..i)

(* MUTANT: the lines of the sum and the count are swapped. *)
ScrapeEndsSwapped ==
  /\ scrape.unread = {Count}
  /\ last' = Append(last, [bucket |-> [i \in 1..Inf |-> Cumulative(scrape.got, i)],
                           count |-> scrape.got[Sum], sum |-> cell[Count]])
  /\ scrape' = NoScrape
  /\ UNCHANGED <<bounds, kind, handle, cell, doing, begun, done>>

(* The count is read last. *)
ScrapeEnds ==
  /\ scrape.unread = {Count}
  /\ last' = Append(last, [bucket |-> [i \in 1..Inf |-> Cumulative(scrape.got, i)],
                           count |-> cell[Count], sum |-> scrape.got[Sum]])
  /\ scrape' = NoScrape
  /\ UNCHANGED <<bounds, kind, handle, cell, doing, begun, done>>

MetricNext ==
  \/ ScrapeBegins \/ ScrapeReads \/ ScrapeEnds
  \/ \E t \in Observers : Register(t) \/ Observe(t) \/ Bump(t) \/ SwapSum(t)
-----------------------------------------------------------------------------
(* How many of the observations recorded per thread in h satisfy P, and their sum. *)
HowMany(h, P(_)) == MapThenSumSet(LAMBDA t : Len(SelectSeq(h[t], P)), Observers)
Total(h) == MapThenSumSet(LAMBDA t : FoldSeq(+, 0, h[t]), Observers)
AtMost(h, i) == HowMany(h, LAMBDA v : i = Inf \/ v <= bounds[i])

(* With no observation under way the histogram is exact: every cumulative     *)
(* bucket holds the values up to its bound, the count is all of them and the  *)
(* sum is theirs. No update is lost between threads, the sum's compare-and-   *)
(* swap loop included.                                                        *)
QuiescentExact ==
  (kind = "histogram" /\ \A t \in Observers : doing[t] = Quiet) =>
    /\ \A i \in 1..Inf : Cumulative(cell, i) = AtMost(done, i)
    /\ cell[Count] = AtMost(done, Inf) /\ cell[Sum] = Total(done)

(* A scrape in the middle of observations may find bucket, count and sum      *)
(* disagreeing, but each lies between what had completed when the scrape      *)
(* began and what had begun when it ended.                                    *)
ScrapesBracketed ==
  [][Len(last') > Len(last) =>
       LET s == last'[Len(last')] IN
         /\ \A i \in 1..Inf : AtMost(scrape.from, i) <= s.bucket[i] /\ s.bucket[i] <= AtMost(begun, i)
         /\ AtMost(scrape.from, Inf) <= s.count /\ s.count <= AtMost(begun, Inf)
         /\ Total(scrape.from) <= s.sum /\ s.sum <= Total(begun)]_metricVars

(* Successive scrapes never go back: buckets grow with the bound and over     *)
(* time, and count and sum over time.                                         *)
ScrapesMonotone ==
  \A i, j \in DOMAIN last : i <= j =>
    /\ \A b \in 1..Inf : last[i].bucket[b] <= last[j].bucket[b]
    /\ \A b \in 2..Inf : last[j].bucket[b - 1] <= last[j].bucket[b]
    /\ last[i].count <= last[j].count /\ last[i].sum <= last[j].sum

(* Observations of several threads are all in the histogram, and a scrape in  *)
(* their midst shows a past it could have seen (metrics/mod.rs:117).          *)
HistogramHonest == []QuiescentExact /\ []ScrapesMonotone /\ ScrapesBracketed
=============================================================================
