------------------------------- MODULE Logger -------------------------------
(* The structured logger of log.rs: threads share one sink, written in place *)
(* under a mutex (Sink::Sync) or fed through a bounded channel to a writer   *)
(* thread (Sink::Async). A record is the pair of its thread and its number   *)
(* in that thread; what the lines look like is left out.                     *)
EXTENDS Naturals, Sequences, SequencesExt, FiniteSets

CONSTANTS
  Threads,      \* threads holding a clone of the logger
  Capacities,   \* channel capacities async_to is called with; 0 is a rendezvous
  MaxCalls,     \* bound on the calls of one thread
  Levels        \* severities, as numbers

ASSUME LoggerAssumption == Levels \subseteq Nat /\ Levels # {} /\ Capacities \subseteq Nat

VARIABLES
  sink,       \* "sync" or "async"
  cap,        \* the capacity of the asynchronous channel
  min,        \* the level floor of the logger the threads share
  maxLevel,   \* MAX_LEVEL, the global filter
  queue,      \* the channel: records and flush markers
  writer,     \* the writer thread: "up", "failed" after a write error, "done" otherwise
  out,        \* what has reached the writer, line by line
  dropped,    \* the drop counter
  caller,     \* what each thread is doing
  calls,      \* calls made by each thread
  accepted,   \* history: records handed to the sink, in the order it took them
  mark,       \* history: how many it had taken when a thread's flush marker was queued
  refused     \* history: records try_send gave back

logVars == <<sink, cap, min, maxLevel, queue, writer, out, dropped, caller, calls, accepted, mark, refused>>

Newline == <<"newline">>
LogRecord(t) == <<"record", t, calls[t] + 1>>
Marker(t) == <<"flush", t>>
IsMarker(c) == c[1] = "flush"

LogInit ==
  /\ sink \in {"sync", "async"} /\ cap \in (IF sink = "sync" THEN {0} ELSE Capacities)
  /\ min \in Levels /\ maxLevel \in Levels
  /\ queue = <<>> /\ writer = (IF sink = "sync" THEN "done" ELSE "up") /\ out = <<>> /\ dropped = 0
  /\ caller = [t \in Threads |-> "idle"] /\ calls = [t \in Threads |-> 0]
  /\ accepted = <<>> /\ mark = [t \in Threads |-> 0] /\ refused = {}

(* set_max_level: a relaxed store, at any time. *)
SetMaxLevel ==
  /\ \E l \in Levels \ {maxLevel} : maxLevel' = l
  /\ UNCHANGED <<sink, cap, min, queue, writer, out, dropped, caller, calls, accepted, mark, refused>>

Enabled(level) == level >= min /\ level >= maxLevel

(* Whether the channel takes one more command. A rendezvous channel takes    *)
(* one only while the writer waits for it.                                   *)
Room == writer = "up" /\ Len(queue) < (IF cap = 0 THEN 1 ELSE cap)

Called(t) == caller[t] = "idle" /\ calls[t] < MaxCalls /\ calls' = [calls EXCEPT ![t] = @ + 1]

(* log() below the logger's floor or the global level: nothing happens. *)
LogFiltered(t) ==
  /\ Called(t) /\ \E level \in Levels : ~Enabled(level)
  /\ UNCHANGED <<sink, cap, min, maxLevel, queue, writer, out, dropped, caller, accepted, mark, refused>>

(* log() to a synchronous sink takes the mutex and writes the line; errors of *)
(* the underlying writer are ignored, which may lose the line.                *)
LogSync(t) ==
  /\ sink = "sync" /\ Called(t) /\ \E level \in Levels : Enabled(level)
  /\ \A u \in Threads : caller[u] # "newline"
  /\ caller' = [caller EXCEPT ![t] = "newline"]
  /\ accepted' = Append(accepted, LogRecord(t))
  /\ out' = Append(out, LogRecord(t))
  /\ UNCHANGED <<sink, cap, min, maxLevel, queue, writer, dropped, mark, refused>>

(* ... and then the newline, and releases it. *)
LogSyncEnd(t) ==
  /\ caller[t] = "newline" /\ caller' = [caller EXCEPT ![t] = "idle"]
  /\ out' = Append(out, Newline)
  /\ UNCHANGED <<sink, cap, min, maxLevel, queue, writer, dropped, calls, accepted, mark, refused>>

(* log() to an asynchronous sink: try_send; a full queue, or a writer that is *)
(* gone, drops the record and counts it.                                      *)
LogAsync(t) ==
  /\ sink = "async" /\ Called(t) /\ \E level \in Levels : Enabled(level)
  /\ IF Room THEN queue' = Append(queue, LogRecord(t)) /\ accepted' = Append(accepted, LogRecord(t))
                  /\ UNCHANGED <<dropped, refused>>
             ELSE dropped' = dropped + 1 /\ refused' = refused \cup {LogRecord(t)}
                  /\ UNCHANGED <<queue, accepted>>
  /\ UNCHANGED <<sink, cap, min, maxLevel, writer, out, caller, mark>>

(* flush() on an asynchronous sink: a blocking send of a marker ... *)
Flush(t) ==
  /\ sink = "async" /\ Called(t) /\ caller' = [caller EXCEPT ![t] = "send"]
  /\ UNCHANGED <<sink, cap, min, maxLevel, queue, writer, out, dropped, accepted, mark, refused>>

(* ... which fails at once when the writer is gone, and waits for room ... *)
FlushSend(t) ==
  /\ caller[t] = "send"
  /\ \/ writer # "up" /\ caller' = [caller EXCEPT ![t] = "idle"] /\ UNCHANGED <<queue, mark>>
     \/ Room /\ caller' = [caller EXCEPT ![t] = "ack"] /\ queue' = Append(queue, Marker(t))
             /\ mark' = [mark EXCEPT ![t] = Len(accepted)]
  /\ UNCHANGED <<sink, cap, min, maxLevel, writer, out, dropped, calls, accepted, refused>>

(* MUTANT: the acknowledgement's sender survives a writer that fails. *)
FlushLostIgnored(t) ==
  /\ caller[t] = "ack" /\ writer = "done" /\ caller' = [caller EXCEPT ![t] = "idle"]
  /\ UNCHANGED <<sink, cap, min, maxLevel, queue, writer, out, dropped, calls, accepted, mark, refused>>

(* ... and then a wait for the acknowledgement, which ends with an error when *)
(* the writer goes away with the marker still in its queue.                   *)
FlushLost(t) ==
  /\ caller[t] = "ack" /\ writer # "up" /\ caller' = [caller EXCEPT ![t] = "idle"]
  /\ UNCHANGED <<sink, cap, min, maxLevel, queue, writer, out, dropped, calls, accepted, mark, refused>>

(* The writer thread takes the next command: it writes and flushes a record, *)
(* or acknowledges a marker.                                                 *)
WriterStep ==
  /\ writer = "up" /\ queue # <<>> /\ queue' = Tail(queue)
  /\ IF IsMarker(Head(queue)) THEN caller' = [caller EXCEPT ![Head(queue)[2]] = "idle"] /\ UNCHANGED out
                              ELSE out' = Append(out, Head(queue)) /\ UNCHANGED caller
  /\ UNCHANGED <<sink, cap, min, maxLevel, writer, dropped, calls, accepted, mark, refused>>

(* A write fails: the writer thread ends, and the channel with it. *)
WriterFails ==
  /\ writer = "up" /\ queue # <<>> /\ ~IsMarker(Head(queue))
  /\ writer' = "failed" /\ queue' = <<>>
  /\ UNCHANGED <<sink, cap, min, maxLevel, out, dropped, caller, calls, accepted, mark, refused>>

(* A thread drops its clone of the logger. *)
DropLogger(t) ==
  /\ caller[t] = "idle" /\ caller' = [caller EXCEPT ![t] = "dropped"]
  /\ UNCHANGED <<sink, cap, min, maxLevel, queue, writer, out, dropped, calls, accepted, mark, refused>>

(* The last sender is gone and the queue is empty: recv() fails, the writer ends. *)
WriterEnds ==
  /\ writer = "up" /\ queue = <<>> /\ \A t \in Threads : caller[t] = "dropped"
  /\ writer' = "done"
  /\ UNCHANGED <<sink, cap, min, maxLevel, queue, out, dropped, caller, calls, accepted, mark, refused>>

LogStep == WriterStep \/ WriterEnds \/ \E t \in Threads : LogSyncEnd(t) \/ FlushSend(t) \/ FlushLost(t)

LogNext ==
  \/ SetMaxLevel \/ WriterFails \/ LogStep
  \/ \E t \in Threads : LogFiltered(t) \/ LogSync(t) \/ LogAsync(t) \/ Flush(t) \/ DropLogger(t)
-----------------------------------------------------------------------------
(* The records that reached the writer, without the newlines of the sync sink. *)
Lines == SelectSeq(out, LAMBDA x : x # Newline)

(* Lines come out whole and in the order the sink took the records, from all  *)
(* threads together: log() holds the mutex over both writes of a line, and    *)
(* one thread drains the channel.                                             *)
LinesInOrder ==
  /\ IsPrefix(Lines, accepted)
  /\ sink = "sync" => \A i \in DOMAIN out : out[i] = Newline <=> i % 2 = 0

(* Every record that passed the filters is written, still queued, or counted  *)
(* by dropped(), as long as the writer thread has not met a write error; the  *)
(* writer outlives the last clone of the logger until the channel is empty.   *)
EveryRecordAccounted ==
  /\ dropped = Cardinality(refused)
  /\ sink = "async" /\ writer # "failed" => accepted = Lines \o SelectSeq(queue, LAMBDA c : ~IsMarker(c))

(* A flush that returns because the writer acknowledged it has everything     *)
(* written that the sink took before it: the marker queues behind it.         *)
FlushWrites ==
  [][\A t \in Threads : (caller[t] = "ack" /\ caller'[t] = "idle" /\ writer = "up") =>
        Len(Lines) >= mark[t]]_logVars

(* flush() always returns, whether the writer acknowledges it, dies before or *)
(* dies after the marker is queued.                                           *)
FlushReturns == \A t \in Threads : caller[t] \in {"send", "ack"} ~> caller[t] = "idle"

(* A log record is written in order, still queued, or counted as dropped, and *)
(* a flush returns with everything before it written (log.rs:261).            *)
LogKept == []LinesInOrder /\ []EveryRecordAccounted /\ FlushWrites /\ FlushReturns
=============================================================================
