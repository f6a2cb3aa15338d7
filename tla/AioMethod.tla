------------------------------- MODULE AioMethod -------------------------------
(***************************************************************************)
(* phison_version: the transfer of parsefromFileName when it is built with *)
(* the libaio method, and the DeepSpeed handle above it.  Every call has a *)
(* context of its own for max_nr entries.  With libAIOasync 0 it submits   *)
(* one request, waits for it and destroys the context ("one"); with        *)
(* libAIOasync 1 it submits max_nr requests of the whole tensor, one after *)
(* the other on the device, waits, and keeps the context ("many").  The    *)
(* files are opens of the device (libAIOPhysical 1).                       *)
(*                                                                         *)
(* Client "any" is AioContext by itself, with whatever caller.             *)
(***************************************************************************)
EXTENDS AioContext

CONSTANTS
  Clients,        \* \subseteq {"any", "one", "many"}
  Tensors,        \* where a call transfers to: [lba, size], in blocks
  IntHalf,        \* an int holds -IntHalf .. IntHalf - 1 blocks
  MaxContexts,    \* how many contexts the system has
  MaxCalls        \* bound on the number of calls

ASSUME MethodAssumption ==
  /\ Clients \subseteq {"any", "one", "many"}
  /\ Tensors \subseteq [lba : Nat, size : Nat \ {0}]
  /\ IntHalf \in Nat \ {0} /\ MaxContexts \in Nat /\ MaxCalls \in Nat
  /\ Clients # {"any"} => MaxRequests >= MaxNr

VARIABLES
  client,
  at,             \* position in the call, or "idle" between two
  op, tensor,     \* its arguments
  offset,         \* the int of that name
  fdArray,        \* the requests whose file is open
  n,              \* the local that the callbacks count in
  contexts,       \* how many contexts the process holds
  calls,
  pendingOps      \* _num_pending_ops of the handle

callVars == <<op, tensor, offset, fdArray, n>>
methodVars == <<client, at, callVars, contexts, calls, pendingOps>>
allVars == <<vars, methodVars>>

NumRequests == IF client = "one" THEN 1 ELSE MaxNr

\* size_t to int
Wrap(k) == ((k + IntHalf) % (2 * IntHalf)) - IntHalf

\* The byte offset of the next request, in blocks; libaio takes it as signed.
Start == tensor.lba + offset

-----------------------------------------------------------------------------

MethodInit ==
  /\ Init
  /\ client \in Clients /\ at = "idle"
  /\ client # "any" => context = "open"
  /\ op = "READ" /\ tensor \in Tensors /\ offset = 0 /\ fdArray = {} /\ n = 0
  /\ contexts = 0 /\ calls = 0 /\ pendingOps = 0

\* The handle's four operations are one: count the operation, then call the layer
\* manager, which makes a new context.
NewCall ==
  /\ client # "any" /\ at = "idle" /\ calls < MaxCalls
  /\ pendingOps' = pendingOps + 1 /\ calls' = calls + 1
  /\ op' \in Types /\ tensor' \in Tensors
  /\ offset' = 0 /\ fdArray' = {} /\ n' = 0
  /\ pc' = "user" /\ pending' = [t \in Types |-> 0] /\ requests' = <<>>
  /\ IF contexts < MaxContexts
     THEN context' = "open" /\ contexts' = contexts + 1
     ELSE context' = "failed" /\ UNCHANGED contexts
  /\ at' = "submit"
  /\ UNCHANGED client

\* One pass of the loop.  A failed open is printed and its -1 submitted.
SubmitNext ==
  /\ at = "submit" /\ Len(requests) < NumRequests
  /\ \E opened \in {TRUE, ~MayReject} :
       /\ fdArray' = IF opened THEN fdArray \union {Len(requests) + 1} ELSE fdArray
       /\ Submit(op, opened /\ Start >= 0)
  /\ offset' = Wrap(offset + tensor.size)
  /\ UNCHANGED <<client, at, op, tensor, n, contexts, calls, pendingOps>>

\* (mutant) a write waits for the reads
WaitForAll_Swapped ==
  /\ at = "submit" /\ Len(requests) = NumRequests
  /\ Sync(IF op = "WRITE" THEN "sync_read" ELSE "sync_write")
  /\ at' = "wait"
  /\ UNCHANGED <<client, callVars, contexts, calls, pendingOps>>

WaitForAll ==
  /\ at = "submit" /\ Len(requests) = NumRequests
  /\ Sync(IF op = "WRITE" THEN "sync_write" ELSE "sync_read")
  /\ at' = "wait"
  /\ UNCHANGED <<client, callVars, contexts, calls, pendingOps>>

\* Each event's callback counts in n.
Event ==
  /\ at = "wait" /\ GetEvent
  /\ n' = n + Cardinality(With("completed")) - Cardinality(With("completed")')
  /\ UNCHANGED <<client, at, op, tensor, offset, fdArray, contexts, calls, pendingOps>>

AllDone ==
  /\ at = "wait" /\ SyncReturns
  /\ at' = "close"
  /\ UNCHANGED <<client, callVars, contexts, calls, pendingOps>>

\* close on every file; only a call of one request goes on to delete its context.
CloseFiles ==
  /\ at = "close"
  /\ fdArray' = {}
  /\ IF client = "one" THEN at' = "delete" /\ Sync("destructor")
     ELSE at' = "idle" /\ UNCHANGED vars
  /\ UNCHANGED <<client, op, tensor, offset, n, contexts, calls, pendingOps>>

\* (mutant) the context is not destroyed
DeleteContext_Kept ==
  /\ at = "delete" /\ Destroy
  /\ at' = "idle"
  /\ UNCHANGED <<client, callVars, contexts, calls, pendingOps>>

DeleteContext ==
  /\ at = "delete" /\ Destroy
  /\ at' = "idle"
  /\ contexts' = contexts - (IF context = "open" THEN 1 ELSE 0)
  /\ UNCHANGED <<client, callVars, calls, pendingOps>>

\* The handle's wait: all it counted were made synchronously.
Wait ==
  /\ at = "idle" /\ pendingOps > 0
  /\ pendingOps' = 0
  /\ UNCHANGED <<vars, client, at, callVars, contexts, calls>>

\* The device goes on whatever the program does.
Device == client # "any" /\ (\E i \in DOMAIN requests : Complete(i)) /\ UNCHANGED methodVars

MethodNext ==
  \/ client = "any" /\ Next /\ UNCHANGED methodVars
  \/ NewCall \/ SubmitNext \/ WaitForAll \/ Event \/ AllDone \/ CloseFiles \/ DeleteContext
  \/ Wait \/ Device
  \/ at = "wait" /\ Hang /\ UNCHANGED methodVars
  \/ calls = MaxCalls /\ at = "idle" /\ UNCHANGED allVars

MethodSpec == MethodInit /\ [][MethodNext]_allVars

\* As FairSpec; and a call goes on.
MethodFairSpec ==
  /\ MethodSpec
  /\ WF_allVars(client = "any" /\ (GetEvent \/ SyncReturns \/ Destroy) /\ UNCHANGED methodVars)
  /\ WF_allVars((\E i \in DOMAIN requests : Complete(i)) /\ UNCHANGED methodVars)
  /\ WF_allVars(SubmitNext \/ WaitForAll \/ Event \/ AllDone \/ CloseFiles \/ DeleteContext)

-----------------------------------------------------------------------------
(* Properties                                                              *)

MethodTypeOK ==
  /\ TypeOK
  /\ client \in Clients /\ at \in {"idle", "submit", "wait", "close", "delete"}
  /\ op \in Types /\ tensor \in Tensors
  /\ offset \in -IntHalf .. IntHalf - 1
  /\ fdArray \subseteq DOMAIN requests /\ n \in 0 .. MaxNr
  /\ contexts \in 0 .. MaxContexts /\ calls \in 0 .. MaxCalls /\ pendingOps \in 0 .. calls

\* Every accepted request has its callback called once, after its completion and
\* no matter which sync call took its event; a refused one never has.  A call of
\* the layer manager outlives its requests: while one is under way its file is
\* open, and the counter that its callback refers to is not out of scope; when the
\* files are closed all accepted ones have counted.  So what the handle's wait
\* reports is complete.
CallbacksInScope ==
  /\ \A i \in DOMAIN requests : requests[i].calls = IF requests[i].st = "reaped" THEN 1 ELSE 0
  /\ client # "any" => \A i \in Outstanding : at \in {"submit", "wait"} /\ i \in fdArray
  /\ at = "close" => n = Cardinality(With("reaped"))

\* The libaio method returns although its results are not looked at: with one
\* request whenever its file was opened, however many calls came before; with
\* many while the system has contexts, since none is given back, and while
\* no offset has wrapped to before the start of the device.
CallsReturn ==
  /\ SyncTerminates
  /\ (/\ at = "wait" /\ fdArray = DOMAIN requests
      /\ client = "many" =>
           /\ calls <= MaxContexts
           /\ \A k \in 0 .. MaxNr - 1 : tensor.lba + Wrap(k * tensor.size) >= 0)
     ~> at = "idle"
=============================================================================
