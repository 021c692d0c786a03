----------------------------- MODULE RestClient -----------------------------
(* The retried calls of the REST client and resumed downloads.                *)
EXTENDS Naturals, Sequences

(* One RequestBuilder::send of rest/client/request.rs with the retry loop of  *)
(* clients/retry.rs, over a transport that may fail before or after the       *)
(* server has processed the request. Durations are in units; the widths of    *)
(* u32 and Duration are the constants MaxU32 and MaxDuration.                  *)

CONSTANTS
  MaxRetries,    \* the policy's max_retries
  Waits,         \* base waits
  Caps,          \* max_backoff values, NoCap for None
  NoCap,
  MaxU32, MaxDuration

(* Every wait and every cap is a Duration. *)
ASSUME RetryAssumption ==
  /\ MaxRetries \in Nat /\ MaxU32 \in Nat /\ MaxDuration \in Nat
  /\ Waits \subseteq 0..MaxDuration /\ Caps \subseteq (0..MaxDuration) \cup {NoCap}

Idempotent == {"GET", "HEAD", "PUT", "DELETE", "OPTIONS", "TRACE"}
Methods == {"GET", "PUT", "POST", "PATCH"}

VARIABLES
  builder,       \* the builder: [method, policy, wait, exponential, cap, deferred]
  loop,       \* where the call is
  attempt,    \* the retry loop's counter
  slept,      \* history: the waits slept, newest last
  processed,  \* history: how often the server processed the request
  outcome     \* what send() returned

callVars == <<builder, loop, attempt, slept, processed, outcome>>

Smaller(a, b) == IF a < b THEN a ELSE b

(* 2u32.saturating_pow, Duration::saturating_mul. *)
SaturatingPow2(n) == Smaller(2^n, MaxU32)
SaturatingMul(d, f) == Smaller(d * f, MaxDuration)

(* MUTANT: the cap is applied before scaling. *)
BackoffCapFirst(p, n) ==
  IF ~p.exponential THEN p.wait
  ELSE SaturatingMul(IF p.cap # NoCap THEN Smaller(p.wait, p.cap) ELSE p.wait, SaturatingPow2(n))

(* RetryPolicy::backoff_for *)
BackoffFor(p, n) ==
  IF ~p.exponential THEN p.wait
  ELSE LET scaled == SaturatingMul(p.wait, SaturatingPow2(n))
       IN IF p.cap # NoCap THEN Smaller(scaled, p.cap) ELSE scaled

(* send() retries only idempotent methods, and only with a policy. *)
Retries == builder.policy /\ builder.method \in Idempotent

Calls == [method : Methods, policy : BOOLEAN, wait : Waits, exponential : BOOLEAN, cap : Caps,
          deferred : BOOLEAN]

CallInit ==
  /\ builder \in Calls
  /\ loop = "built" /\ attempt = 0 /\ slept = <<>> /\ processed = 0 /\ outcome = "none"

(* A body that failed to encode, or a placeholder left in the path, fails     *)
(* before anything is sent.                                                   *)
Send ==
  /\ loop = "built"
  /\ IF builder.deferred THEN loop' = "done" /\ outcome' = "refused"
     ELSE loop' = "executing" /\ UNCHANGED outcome
  /\ UNCHANGED <<builder, attempt, slept, processed>>

(* execute_once: the exchange completes with any status, 5xx included. *)
Responds ==
  /\ loop = "executing"
  /\ \E status \in {"2xx", "5xx"} : outcome' = status
  /\ loop' = "done" /\ processed' = processed + 1
  /\ UNCHANGED <<builder, attempt, slept>>

(* execute_once fails with a transport error: is_retryable. *)
Breaks(p) ==
  /\ loop = "executing"
  /\ processed' = processed + p
  /\ IF Retries /\ attempt < MaxRetries
     THEN /\ slept' = Append(slept, BackoffFor(builder, attempt))
          /\ attempt' = attempt + 1 /\ UNCHANGED <<loop, outcome>>
     ELSE loop' = "done" /\ outcome' = "transport" /\ UNCHANGED <<attempt, slept>>
  /\ UNCHANGED builder

(* A request the library cannot build is not retried. *)
Invalid ==
  /\ loop = "executing" /\ attempt = 0
  /\ loop' = "done" /\ outcome' = "invalid"
  /\ UNCHANGED <<builder, attempt, slept, processed>>

CallNext == Send \/ Responds \/ Invalid \/ \E p \in {0, 1} : Breaks(p)

CallSpec == CallInit /\ [][CallNext]_callVars

-----------------------------------------------------------------------------
(* The retry loop hands a request that is not idempotent to the transport     *)
(* once, so nothing above it makes the server process it twice                *)
(* (request.rs:92).                                                           *)
NotIdempotentOnce == builder.method \notin Idempotent => processed <= 1 /\ attempt = 0

(* The waits never shrink, never exceed the cap, and saturate instead of      *)
(* wrapping however many retries the policy has (clients/retry.rs:42).        *)
BackoffSane ==
  /\ \A i \in 1..Len(slept) :
       /\ slept[i] <= MaxDuration
       /\ builder.exponential /\ builder.cap # NoCap => slept[i] <= builder.cap
       /\ i > 1 => slept[i] >= slept[i - 1]
  /\ builder.exponential /\ builder.cap = NoCap /\ Len(slept) > 1 =>
       slept[2] = 2 * slept[1] \/ slept[2] >= Smaller(MaxDuration, MaxU32)

(* What the retry loop may do to a server: only idempotent requests are sent  *)
(* again, after waits that grow up to their cap (rest/client/request.rs:92).  *)
RetriesBounded == NotIdempotentOnce /\ BackoffSane

-----------------------------------------------------------------------------
(* http/download.rs: download_to_file, called again after it failed or the    *)
(* process crashed, against a server that may ignore ranges, refuse, break    *)
(* off or replace the resource. A byte is <<version, position>>.              *)

CONSTANTS
  Size,         \* length of the resource
  MaxCalls,     \* bound on the calls
  MaxVersions   \* bound on the versions the server has had

ASSUME DownloadAssumption == Size \in Nat

VARIABLES
  version,    \* what the server serves now
  file,       \* the bytes on disk; <<>> also when there is no file
  transfer,   \* the call: [at, existing, body]; at is "idle", "asked" or "reading"
  tries,      \* history: calls made
  returned,   \* what the last call returned: [ok, total], or none
  mixed       \* history: whether the resource changed while a partial file was kept

dlVars == <<version, file, transfer, tries, returned, mixed>>

Resource(v) == [i \in 1..Size |-> <<v, i>>]
Idle0 == [at |-> "idle", existing |-> 0, body |-> <<>>]
NoResult == [ok |-> FALSE, total |-> 0]

DlInit == /\ version = 1 /\ file = <<>> /\ transfer = Idle0 /\ tries = 0
          /\ returned = NoResult /\ mixed = FALSE

(* The length on disk decides whether the request has a Range header. *)
Call ==
  /\ transfer.at = "idle" /\ tries < MaxCalls
  /\ tries' = tries + 1 /\ returned' = NoResult
  /\ transfer' = [at |-> "asked", existing |-> Len(file), body |-> <<>>]
  /\ UNCHANGED <<version, file, mixed>>

Reads(body, f) ==
  /\ transfer' = [transfer EXCEPT !.at = "reading", !.body = body]
  /\ file' = f

(* 206: the server honours the range; the body is appended. *)
Partial ==
  /\ transfer.at = "asked" /\ transfer.existing \in 1..(Size - 1)
  /\ Reads(SubSeq(Resource(version), transfer.existing + 1, Size), file)
  /\ UNCHANGED <<version, tries, returned, mixed>>

(* MUTANT: a 200 does not truncate. *)
WholeAppends ==
  /\ transfer.at = "asked" /\ Reads(Resource(version), file)
  /\ UNCHANGED <<version, tries, returned, mixed>>

(* Another 2xx: the file is started over. *)
Whole ==
  /\ transfer.at = "asked" /\ Reads(Resource(version), <<>>)
  /\ mixed' = FALSE
  /\ UNCHANGED <<version, tries, returned>>

(* 416: the offset is at the end; what is on disk is taken to be complete. *)
Unsatisfiable ==
  /\ transfer.at = "asked" /\ transfer.existing >= Size
  /\ transfer' = Idle0 /\ returned' = [ok |-> TRUE, total |-> transfer.existing]
  /\ UNCHANGED <<version, file, tries, mixed>>

(* Any other status, or no response at all. *)
Refused == /\ transfer.at = "asked" /\ transfer' = Idle0
           /\ UNCHANGED <<version, file, tries, returned, mixed>>

(* resp.chunk() and write_all of some of the rest. *)
Chunk(n) ==
  /\ transfer.at = "reading" /\ n \in 1..Len(transfer.body)
  /\ file' = file \o SubSeq(transfer.body, 1, n)
  /\ transfer' = [transfer EXCEPT !.body = SubSeq(@, n + 1, Len(@))]
  /\ UNCHANGED <<version, tries, returned, mixed>>

BodyEnds ==
  /\ transfer.at = "reading" /\ transfer.body = <<>>
  /\ transfer' = Idle0 /\ returned' = [ok |-> TRUE, total |-> Len(file)]
  /\ UNCHANGED <<version, file, tries, mixed>>

(* The connection ends before the declared length: chunk() answers None, so   *)
(* the call returns Ok with what it has.                                      *)
CutOff ==
  /\ transfer.at = "reading" /\ transfer.body # <<>>
  /\ transfer' = Idle0 /\ returned' = [ok |-> TRUE, total |-> Len(file)]
  /\ UNCHANGED <<version, file, tries, mixed>>

(* The body breaks off with an error, or the process dies and the call is     *)
(* made again: what was written stays.                                        *)
Broken == /\ transfer.at # "idle" /\ transfer' = Idle0
          /\ UNCHANGED <<version, file, tries, returned, mixed>>

(* The server replaces the resource; a body under way is the old one. *)
Replace ==
  /\ version < MaxVersions /\ version' = version + 1
  /\ mixed' = (mixed \/ file # <<>> \/ transfer.at = "reading")
  /\ UNCHANGED <<file, transfer, tries, returned>>

DlNext == \/ Call \/ Partial \/ Whole \/ Unsatisfiable \/ Refused
          \/ BodyEnds \/ CutOff \/ Broken \/ Replace \/ \E n \in 1..Size : Chunk(n)

DlSpec == DlInit /\ [][DlNext]_dlVars

-----------------------------------------------------------------------------
(* However often a download is cut off and called again, the bytes on disk    *)
(* are those of the resource up to some position, in order and without a gap  *)
(* or a repetition; only a resource replaced between two calls makes the file *)
(* a mixture of versions (http/download.rs:45, 58).                           *)
FileIsPrefix ==
  /\ \A i \in 1..Len(file) : file[i][2] = i
  /\ ~mixed => \A i \in 1..Len(file) : i <= Size /\ file[i] = Resource(version)[i]

(* The total returned is the length on disk, never more than the resource     *)
(* has; a call that returns less has lost nothing that the next one would not *)
(* fetch (http/download.rs:66, 82).                                           *)
TotalOnDisk == returned.ok /\ transfer.at = "idle" => returned.total = Len(file) /\ returned.total <= Size

(* An interrupted download can be resumed any number of times                 *)
(* (http/download.rs:45-82).                                                  *)
DownloadResumes == FileIsPrefix /\ TotalOnDisk
=============================================================================
