---------------------------- MODULE HttpService ----------------------------
(***************************************************************************)
(* What one call of Client::send promises its caller, with the connections, *)
(* the pool and the server left out: a request's handler runs at most twice,*)
(* a run never starts once the caller holds an answer, an answer is only    *)
(* given for a request that was run (or that the server refuses by its      *)
(* framing), and the call is settled once.                                  *)
(***************************************************************************)
EXTENDS Naturals

CONSTANT Requests      \* the calls of Client::send

VARIABLES refusable,   \* the requests the server may answer without its handler
          runs,        \* runs[r]: how often the handler has been run for r
          settled      \* settled[r]: "open", "answered" or "failed"

svars == <<refusable, runs, settled>>

SInit ==
  /\ refusable \in SUBSET Requests
  /\ runs = [r \in Requests |-> 0]
  /\ settled = [r \in Requests |-> "open"]

Run(r) ==
  /\ settled[r] # "answered"
  /\ runs[r] < 2
  /\ runs' = [runs EXCEPT ![r] = @ + 1]
  /\ UNCHANGED <<refusable, settled>>

Answer(r) ==
  /\ settled[r] = "open"
  /\ runs[r] > 0 \/ r \in refusable
  /\ settled' = [settled EXCEPT ![r] = "answered"]
  /\ UNCHANGED <<refusable, runs>>

Fail(r) ==
  /\ settled[r] = "open"
  /\ settled' = [settled EXCEPT ![r] = "failed"]
  /\ UNCHANGED <<refusable, runs>>

SNext == \E r \in Requests : Run(r) \/ Answer(r) \/ Fail(r)

SSpec == SInit /\ [][SNext]_svars
=============================================================================
