------------------------------ MODULE AioContext ------------------------------
(***************************************************************************)
(* phison_version: AIOAsyncIO wraps a libaio context.  A submission counts *)
(* a pending event whether or not io_submit accepted it; the sync calls    *)
(* loop over io_getevents until the count is zero, and the destructor      *)
(* synchronises before io_destroy.  Here its caller is any; AioMethod has   *)
(* the one in the repository.                                              *)
(*                                                                         *)
(* The io_* calls and the device are external: io_setup may find the       *)
(* system's contexts used up, io_submit takes at least max_nr requests,    *)
(* requests complete in any order, io_getevents returns any of the         *)
(* completed ones (at least min_nr = 1, or none after its timeout or an    *)
(* interrupt, which the loops answer by calling it again: no step of this  *)
(* module).                                                                *)
(***************************************************************************)
EXTENDS Integers, Sequences, FiniteSets

CONSTANTS
  MaxNr,          \* n_entries of the context
  MaxRequests,    \* bound on the number of submissions
  MayReject       \* may a caller pass io_submit a request it refuses?

Types == {"WRITE", "READ"}

ASSUME AioAssumption ==
  MaxNr \in Nat \ {0} /\ MaxRequests \in Nat /\ MayReject \in BOOLEAN

VARIABLES
  pc,             \* "user", in a call that waits: "sync_write", "sync_read",
                  \* "synchronize", "destructor"; or "destroyed"
  pending,        \* n_write_events and n_read_events
  requests,       \* every IOData so far: [type, st, calls]
  context         \* io_ctx: "open", "failed" in io_setup, or "closed"

vars == <<pc, pending, requests, context>>

-----------------------------------------------------------------------------

With(st) == {i \in DOMAIN requests : requests[i].st = st}
OfType(type) == {i \in DOMAIN requests : requests[i].type = type}
Outstanding == With("inflight") \union With("completed")

\* What each sync call waits for.
WaitsFor ==
  CASE pc = "sync_write"  -> {"WRITE"}
    [] pc = "sync_read"   -> {"READ"}
    [] pc \in {"synchronize", "destructor"} -> Types
    [] OTHER              -> {}

\* The constructor: the result of io_setup is not looked at.
Init ==
  /\ pc = "user"
  /\ pending = [t \in Types |-> 0]
  /\ requests = <<>>
  /\ context \in {"open", "failed"}

\* What io_submit may do with a request: its file, its offset and the context have
\* to be right, and a context that holds max_nr requests need not take another.
SubmitResults(valid) ==
  IF ~valid \/ context # "open" THEN {"rejected"}
  ELSE IF Cardinality(Outstanding) < MaxNr THEN {"inflight"}
  ELSE {"inflight", "rejected"}

\* (mutant) the result of io_submit is tested the wrong way round
Submit_Inverted(type, valid) ==
  /\ pc = "user" /\ Len(requests) < MaxRequests
  /\ \E st \in SubmitResults(valid) :
       /\ requests' = Append(requests, [type |-> type, st |-> st, calls |-> 0])
       /\ pending' = IF st = "rejected" THEN [pending EXCEPT ![type] = @ + 1] ELSE pending
  /\ UNCHANGED <<pc, context>>

\* write, read, writev and readv: the result of io_submit is not looked at.
Submit(type, valid) ==
  /\ pc = "user" /\ Len(requests) < MaxRequests
  /\ \E st \in SubmitResults(valid) :
       /\ requests' = Append(requests, [type |-> type, st |-> st, calls |-> 0])
       /\ pending' = [pending EXCEPT ![type] = @ + 1]
  /\ UNCHANGED <<pc, context>>

\* The device completes a request, successfully or not.
Complete(i) ==
  /\ context = "open" /\ i \in With("inflight")
  /\ requests' = [requests EXCEPT ![i].st = "completed"]
  /\ UNCHANGED <<pc, pending, context>>

Calls == {"sync_write", "sync_read", "synchronize", "destructor"}

Sync(call) ==
  /\ pc = "user"
  /\ pc' = call
  /\ UNCHANGED <<pending, requests, context>>

\* (mutant) an event is not taken from the ring
GetEvent_Again ==
  /\ \E t \in WaitsFor : pending[t] > 0
  /\ \E events \in SUBSET With("completed") :
       /\ Cardinality(events) \in 1 .. MaxNr
       /\ requests' = [i \in DOMAIN requests |->
                         IF i \in events THEN [requests[i] EXCEPT !.calls = @ + 1]
                         ELSE requests[i]]
       /\ pending' = [t \in Types |-> pending[t] - Cardinality(events \intersect OfType(t))]
  /\ UNCHANGED <<pc, context>>

\* (mutant) the events of both directions are taken from one count
GetEvent_OneCount ==
  /\ \E t \in WaitsFor : pending[t] > 0
  /\ \E events \in SUBSET With("completed") :
       /\ Cardinality(events) \in 1 .. MaxNr
       /\ requests' = [i \in DOMAIN requests |->
                         IF i \in events THEN [requests[i] EXCEPT !.st = "reaped", !.calls = @ + 1]
                         ELSE requests[i]]
       /\ pending' = [pending EXCEPT !["WRITE"] = @ - Cardinality(events)]
  /\ UNCHANGED <<pc, context>>

\* get_event: the events that io_getevents returned are counted down, whichever
\* direction the loop waits for, and their callbacks called.
GetEvent ==
  /\ \E t \in WaitsFor : pending[t] > 0
  /\ \E events \in SUBSET With("completed") :
       /\ Cardinality(events) \in 1 .. MaxNr
       /\ requests' = [i \in DOMAIN requests |->
                         IF i \in events THEN [requests[i] EXCEPT !.st = "reaped", !.calls = @ + 1]
                         ELSE requests[i]]
       /\ pending' = [t \in Types |-> pending[t] - Cardinality(events \intersect OfType(t))]
  /\ UNCHANGED <<pc, context>>

\* A sync call returns to its caller.
SyncReturns ==
  /\ pc \in Calls \ {"destructor"}
  /\ \A t \in WaitsFor : pending[t] <= 0
  /\ pc' = "user"
  /\ UNCHANGED <<pending, requests, context>>

\* (mutant) the destructor does not wait
Destroy_NoSync ==
  /\ pc = "destructor"
  /\ pc' = "destroyed"
  /\ context' = "closed"
  /\ UNCHANGED <<pending, requests>>

\* io_destroy, after the destructor's synchronize().
Destroy ==
  /\ pc = "destructor" /\ \A t \in WaitsFor : pending[t] <= 0
  /\ pc' = "destroyed"
  /\ context' = "closed"
  /\ UNCHANGED <<pending, requests>>

Done == pc = "destroyed" /\ UNCHANGED vars

\* A sync call that waits for a refused request never returns.
Hang ==
  /\ \E t \in WaitsFor : pending[t] > 0
  /\ Outstanding = {}
  /\ UNCHANGED vars

Next ==
  \/ \E type \in Types, valid \in {TRUE, ~MayReject} : Submit(type, valid)
  \/ \E i \in DOMAIN requests : Complete(i)
  \/ \E call \in Calls : Sync(call)
  \/ GetEvent \/ SyncReturns \/ Destroy \/ Hang \/ Done

Spec == Init /\ [][Next]_vars

\* The device completes every request, the thread in a sync call goes on.
FairSpec ==
  /\ Spec
  /\ WF_vars(\E i \in DOMAIN requests : Complete(i))
  /\ WF_vars(GetEvent) /\ WF_vars(SyncReturns) /\ WF_vars(Destroy)

-----------------------------------------------------------------------------
(* Properties                                                              *)

Request ==
  [type : Types, st : {"inflight", "completed", "reaped", "rejected"}, calls : Nat]

Rejected(type) == With("rejected") \intersect OfType(type)

TypeOK ==
  /\ pc \in {"user", "destroyed"} \union Calls
  /\ pending \in [Types -> Nat]
  /\ requests \in Seq(Request) /\ Len(requests) <= MaxRequests
  /\ context \in {"open", "failed", "closed"}

\* The counters of AIOAsyncIO cover what is outstanding: none is ever too small,
\* and one is too large by exactly the submissions that io_submit refused.
CountersCover ==
  \A t \in Types :
    pending[t] = Cardinality(Outstanding \intersect OfType(t)) + Cardinality(Rejected(t))

\* When a sync call returns, no request of the direction it waited for is under
\* way, so that its buffer and its file are free; and the context is destroyed
\* when none is at all.
SyncMeansComplete ==
  [][/\ (pc' = "user" /\ pc # "user") =>
          \A t \in WaitsFor : Outstanding \intersect OfType(t) = {}
     /\ context' = "closed" => Outstanding = {}]_vars

\* A sync call returns, if io_submit refused no request it waits for.
SyncTerminates ==
  (WaitsFor # {} /\ \A t \in WaitsFor : Rejected(t) = {}) ~> pc \in {"user", "destroyed"}
=============================================================================
