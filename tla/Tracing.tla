------------------------------- MODULE Tracing ------------------------------
(* Spans on the threads that enter them, and their export.                    *)
EXTENDS Naturals, Sequences, SequencesExt, FiniteSets, FiniteSetsExt

(* Spans of obs/mod.rs: every thread has a stack of the spans it has         *)
(* entered; a guard only knows whether its span was entered. Guards may be   *)
(* dropped in any order, and the level may change while spans are open.      *)
(* Names, times and values are left out; a field or an event is a note that  *)
(* remembers the span of the guard it was made on.                           *)

CONSTANTS
  SpanThreads,   \* threads that enter spans
  MaxSpans,      \* bound on the spans minted
  MaxNotes,      \* bound on the fields and events recorded
  SpanLevels     \* severities, as numbers

VARIABLES
  stack,      \* STACK of each thread: live spans, innermost last
  guards,     \* the guards each thread holds, in order of entry
  threshold,  \* LEVEL
  spanIds,    \* the counter behind new_span_id
  traceIds,   \* the counter behind new_trace_id
  notes,      \* notes made so far
  finished    \* the spans handed to export(), in order

traceVars == <<stack, guards, threshold, spanIds, traceIds, notes, finished>>

Root == 0
Inert == 0

TraceInit ==
  /\ stack = [t \in SpanThreads |-> <<>>] /\ guards = [t \in SpanThreads |-> <<>>]
  /\ threshold \in SpanLevels /\ spanIds = 0 /\ traceIds = 0 /\ notes = 0 /\ finished = <<>>

SetLevel ==
  /\ \E l \in SpanLevels \ {threshold} : threshold' = l
  /\ UNCHANGED <<stack, guards, spanIds, traceIds, notes, finished>>

Passes(level) == level >= threshold

(* Span::enter below the threshold: an inert guard, the stack is untouched. *)
EnterInert(t) ==
  /\ Len(guards[t]) < MaxSpans /\ \E level \in SpanLevels : ~Passes(level)
  /\ guards' = [guards EXCEPT ![t] = Append(@, Inert)]
  /\ UNCHANGED <<stack, threshold, spanIds, traceIds, notes, finished>>

(* Span::enter: child of the innermost entered span, or the root of a new     *)
(* trace.                                                                     *)
Enter(t) ==
  /\ spanIds < MaxSpans /\ \E level \in SpanLevels : Passes(level)
  /\ spanIds' = spanIds + 1
  /\ LET s == stack[t] IN
       IF s = <<>>
       THEN /\ traceIds' = traceIds + 1
            /\ stack' = [stack EXCEPT ![t] = <<[id |-> spanIds', trace |-> traceIds', parent |-> Root, notes |-> {}]>>]
       ELSE /\ stack' = [stack EXCEPT ![t] = Append(@, [id |-> spanIds', trace |-> Last(s).trace, parent |-> Last(s).id, notes |-> {}])]
            /\ UNCHANGED traceIds
  /\ guards' = [guards EXCEPT ![t] = Append(@, spanIds')]
  /\ UNCHANGED <<threshold, notes, finished>>

(* SpanGuard::record and SpanGuard::event on an active guard: the note goes   *)
(* to the innermost span of the thread, whichever guard it was made on. An    *)
(* inert guard records nothing.                                               *)
RecordNote(t) ==
  /\ notes < MaxNotes
  /\ \E i \in DOMAIN guards[t] :
       /\ guards[t][i] # Inert /\ stack[t] # <<>>
       /\ stack' = [stack EXCEPT ![t][Len(stack[t])].notes = @ \cup {[on |-> guards[t][i], n |-> notes + 1]}]
  /\ notes' = notes + 1
  /\ UNCHANGED <<guards, threshold, spanIds, traceIds, finished>>

(* MUTANT: a drop asks the level again instead of what enter() decided. *)
DropGuardByLevel(t) ==
  /\ \E i \in DOMAIN guards[t] :
       /\ guards' = [guards EXCEPT ![t] = RemoveAt(@, i)]
       /\ IF threshold > Min(SpanLevels) \/ stack[t] = <<>>
          THEN UNCHANGED <<stack, finished>>
          ELSE /\ stack' = [stack EXCEPT ![t] = Front(@)]
               /\ finished' = Append(finished, Last(stack[t]))
  /\ UNCHANGED <<threshold, spanIds, traceIds, notes>>

(* SpanGuard::drop: pops, finishes and exports the innermost span. *)
DropGuard(t) ==
  /\ \E i \in DOMAIN guards[t] :
       /\ guards' = [guards EXCEPT ![t] = RemoveAt(@, i)]
       /\ IF guards[t][i] = Inert \/ stack[t] = <<>>
          THEN UNCHANGED <<stack, finished>>
          ELSE /\ stack' = [stack EXCEPT ![t] = Front(@)]
               /\ finished' = Append(finished, Last(stack[t]))
  /\ UNCHANGED <<threshold, spanIds, traceIds, notes>>

(* event(): attached to the current span, or a span of its own. *)
FreeEvent(t) ==
  /\ notes < MaxNotes /\ \E level \in SpanLevels : Passes(level)
  /\ notes' = notes + 1
  /\ IF stack[t] # <<>>
     THEN /\ stack' = [stack EXCEPT ![t][Len(stack[t])].notes = @ \cup {[on |-> Last(stack[t]).id, n |-> notes + 1]}]
          /\ UNCHANGED <<spanIds, traceIds, finished>>
     ELSE /\ spanIds < MaxSpans
          /\ spanIds' = spanIds + 1 /\ traceIds' = traceIds + 1
          /\ finished' = Append(finished, [id |-> spanIds', trace |-> traceIds', parent |-> Root,
                                           notes |-> {[on |-> spanIds', n |-> notes + 1]}])
          /\ UNCHANGED stack
  /\ UNCHANGED <<guards, threshold>>

TraceNext ==
  \/ SetLevel
  \/ \E t \in SpanThreads : EnterInert(t) \/ Enter(t) \/ RecordNote(t) \/ DropGuard(t) \/ FreeEvent(t)

TraceSpec == TraceInit /\ [][TraceNext]_traceVars
-----------------------------------------------------------------------------
Live == UNION {Range(stack[t]) : t \in SpanThreads}
Minted == Live \cup Range(finished)

(* A thread has exactly as many open spans as it holds active guards, whatever *)
(* order they are dropped in and however the level moves while they are open:  *)
(* no span is left open for ever and none is popped twice.                     *)
OpenSpansMatchGuards ==
  \A t \in SpanThreads : Len(stack[t]) = Len(SelectSeq(guards[t], LAMBDA g : g # Inert))

(* A child finishes before its parent, so that an exporter never sees a parent *)
(* with an open child, and both carry one trace id; spans of different roots   *)
(* never share one.                                                            *)
TracesNest ==
  /\ \A i, j \in DOMAIN finished : finished[i].id = finished[j].parent => j < i
  /\ \A s, p \in Minted : s.parent = p.id => s.trace = p.trace
  /\ \A s, p \in Minted : s.parent = Root /\ p.parent = Root /\ s # p => s.trace # p.trace
  /\ \A t \in SpanThreads : \A i \in DOMAIN stack[t] :
        stack[t][i].parent = IF i = 1 THEN Root ELSE stack[t][i - 1].id

(* Every field and event that was recorded is on exactly one span, open or     *)
(* finished: none is lost when guards are dropped out of order.                *)
NotesKept == \A n \in 1..notes : Cardinality({s \in Minted : \E x \in s.notes : x.n = n}) = 1

(* Spans nest like the guards that are held, whatever order those are dropped *)
(* in, and keep all that was recorded on them (obs/mod.rs:382).               *)
SpansNest == OpenSpansMatchGuards /\ TracesNest /\ NotesKept

-----------------------------------------------------------------------------
(* The process-wide exporter slot of obs/mod.rs and the OTLP exporters of    *)
(* obs/otlp.rs that are installed in it: each one hands finished spans over  *)
(* an unbounded channel to its background task, which batches them and posts *)
(* them to a collector. A span is its identifier.                            *)

CONSTANTS
  Exporters,    \* the exporters the application creates
  NoExporter,   \* the empty slot
  BatchLimit,   \* BATCH_LIMIT
  MaxExports    \* bound on the spans finished

ASSUME OtlpAssumption == NoExporter \notin Exporters /\ BatchLimit \in Nat \ {0}

VARIABLES
  slot,       \* the installed exporter
  retired,    \* exporters dropped from the slot: their channel has no sender left
  chan,       \* what each task has yet to receive: spans, numbered from 1, and flushes
  buf,        \* spans each task has buffered
  posting,    \* the batch under way, empty when there is none
  task,       \* each task: "loop", "last" (posting its final batch) or "ended"
  posted,     \* history: spans put in a request, in order, whether or not it succeeded
  handed,     \* history: spans handed to each exporter
  spans       \* spans finished so far

otlpVars == <<slot, retired, chan, buf, posting, task, posted, handed, spans>>

FlushMsg == 0
NoSpans == [e \in Exporters |-> <<>>]

OtlpInit ==
  /\ slot = NoExporter /\ retired = {} /\ chan = NoSpans /\ buf = NoSpans /\ posting = NoSpans
  /\ task = [e \in Exporters |-> "loop"] /\ posted = NoSpans /\ handed = NoSpans /\ spans = 0

(* set_exporter: the previous one is dropped. *)
SetExporter(e) ==
  /\ slot # e /\ e \notin retired /\ slot' = e
  /\ retired' = IF slot = NoExporter THEN retired ELSE retired \cup {slot}
  /\ UNCHANGED <<chan, buf, posting, task, posted, handed, spans>>

(* export() of the next finished span: with no exporter installed it is gone. *)
Export ==
  /\ spans < MaxExports /\ spans' = spans + 1
  /\ IF slot = NoExporter
     THEN UNCHANGED <<chan, handed>>
     ELSE /\ chan' = [chan EXCEPT ![slot] = Append(@, spans')]
          /\ handed' = [handed EXCEPT ![slot] = Append(@, spans')]
  /\ UNCHANGED <<slot, retired, buf, posting, task, posted>>

(* flush(): a message behind the spans. *)
FlushExporter ==
  /\ slot # NoExporter /\ FlushMsg \notin Range(chan[slot])
  /\ chan' = [chan EXCEPT ![slot] = Append(@, FlushMsg)]
  /\ UNCHANGED <<slot, retired, buf, posting, task, posted, handed, spans>>

(* post(): the buffer is emptied before the request is sent; with nothing     *)
(* buffered it returns at once.                                               *)
Post(e, batch) ==
  /\ posting' = [posting EXCEPT ![e] = batch] /\ buf' = [buf EXCEPT ![e] = <<>>]
  /\ posted' = [posted EXCEPT ![e] = @ \o batch]

Idle(e) == task[e] = "loop" /\ posting[e] = <<>>

(* The task receives a span, and posts when the batch is full, or a flush. *)
TaskReceives(e) ==
  /\ Idle(e) /\ chan[e] # <<>> /\ chan' = [chan EXCEPT ![e] = Tail(@)]
  /\ LET m == Head(chan[e])
         b == IF m = FlushMsg THEN buf[e] ELSE Append(buf[e], m)
     IN IF m = FlushMsg \/ Len(b) >= BatchLimit
        THEN Post(e, b)
        ELSE buf' = [buf EXCEPT ![e] = b] /\ UNCHANGED <<posting, posted>>
  /\ UNCHANGED <<slot, retired, task, handed, spans>>

(* MUTANT: the closed channel ends the task without a last post. *)
TaskClosesUnflushed(e) ==
  /\ Idle(e) /\ e \in retired /\ chan[e] = <<>>
  /\ task' = [task EXCEPT ![e] = "ended"]
  /\ UNCHANGED <<slot, retired, chan, buf, posting, posted, handed, spans>>

(* All senders dropped and the channel drained: post what is left and stop. *)
TaskCloses(e) ==
  /\ Idle(e) /\ e \in retired /\ chan[e] = <<>>
  /\ task' = [task EXCEPT ![e] = IF buf[e] = <<>> THEN "ended" ELSE "last"]
  /\ Post(e, buf[e])
  /\ UNCHANGED <<slot, retired, chan, handed, spans>>

(* The ticker's arm of the select: it may win whenever the task is idle. *)
Tick(e) ==
  /\ Idle(e) /\ buf[e] # <<>> /\ Post(e, buf[e])
  /\ UNCHANGED <<slot, retired, chan, task, handed, spans>>

(* The request ends, by an answer, an error or the client's timeout: the      *)
(* result is ignored.                                                         *)
PostEnds(e) ==
  /\ posting[e] # <<>> /\ posting' = [posting EXCEPT ![e] = <<>>]
  /\ task' = [task EXCEPT ![e] = IF @ = "last" THEN "ended" ELSE @]
  /\ UNCHANGED <<slot, retired, chan, buf, posted, handed, spans>>

TaskStep(e) == Tick(e) \/ TaskReceives(e) \/ TaskCloses(e) \/ PostEnds(e)

OtlpNext == Export \/ FlushExporter \/ \E e \in Exporters : SetExporter(e) \/ TaskStep(e)
-----------------------------------------------------------------------------
Spans(s) == SelectSeq(s, LAMBDA m : m # FlushMsg)

(* A span handed to an exporter is at every moment in exactly one place, and  *)
(* the places keep the order: put in a request, buffered, or in the channel.  *)
(* A failed request loses its batch and never sends it twice.                 *)
SpansConserved ==
  \A e \in Exporters : handed[e] = posted[e] \o buf[e] \o Spans(chan[e])

(* No request carries more than BATCH_LIMIT spans, however far the channel    *)
(* runs ahead while a request is under way.                                   *)
BatchesBounded == \A e \in Exporters : Len(posting[e]) <= BatchLimit /\ Len(buf[e]) < BatchLimit

(* Every span handed to an exporter is put in a request in the end, also the  *)
(* last few of a batch that never fills.                                      *)
EverySpanPosted ==
  \A n \in 1..MaxExports : (\E e \in Exporters : n \in Range(handed[e])) ~> (\E e \in Exporters : n \in Range(posted[e]))

(* A replaced exporter posts everything it was handed before its task ends,   *)
(* and its task does end.                                                     *)
RetiredDrains ==
  \A e \in Exporters : e \in retired ~> (task[e] = "ended" /\ posted[e] = handed[e])

(* A span handed to an exporter is put in exactly one request of bounded      *)
(* size, and it is put in one, also when the exporter is replaced             *)
(* (obs/otlp.rs:68).                                                          *)
SpansExported ==
  []SpansConserved /\ []BatchesBounded /\ EverySpanPosted /\ RetiredDrains
=============================================================================
