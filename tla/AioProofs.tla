------------------------------- MODULE AioProofs -------------------------------
(***************************************************************************)
(* Proofs about AioContext and its caller AioMethod: for any number of     *)
(* requests, entries, contexts and calls, any tensors and any width of the *)
(* int that offsets are kept in.                                           *)
(***************************************************************************)
EXTENDS AioMethod, FiniteSetTheorems, TLAPS

\* What the counter of a direction has to count: the requests of that direction
\* whose event was not taken, be they refused, under way or completed.
Unreaped(type) == {i \in DOMAIN requests : requests[i].type = type /\ requests[i].st # "reaped"}

CoverInv == \A t \in Types : pending[t] = Cardinality(Unreaped(t))

\* A callback is called when the event is taken.
CallInv ==
  \A i \in DOMAIN requests : requests[i].calls = IF requests[i].st = "reaped" THEN 1 ELSE 0

\* io_destroy comes last.
ClosedInv == context = "closed" => Outstanding = {}

\* Where a call of the layer manager is, and what it holds there.
CallPlace ==
  /\ at = "idle" => pc \in {"user", "destroyed"}
  /\ at \in {"submit", "close"} => pc = "user"
  /\ at = "wait" => pc = IF op = "WRITE" THEN "sync_write" ELSE "sync_read"
  /\ at = "delete" => pc = "destructor"
  /\ at # "idle" => /\ context \in {"open", "failed"}
                    /\ context = "open" => contexts > 0
                    /\ \A i \in DOMAIN requests : requests[i].type = op

\* The files and the counter of a call outlive its requests.
ScopeInv ==
  /\ Outstanding \subseteq fdArray
  /\ Outstanding # {} => at \in {"submit", "wait"}
  /\ n = Cardinality(With("reaped"))
  /\ Len(requests) <= NumRequests

AioInv ==
  /\ MethodTypeOK /\ CoverInv /\ CallInv /\ ClosedInv
  /\ client = "any" => at = "idle" /\ n = 0 /\ fdArray = {}
  /\ client # "any" => CallPlace /\ ScopeInv

\* The part of it that says nothing of the caller.
ContextInv == TypeOK /\ CoverInv /\ CallInv /\ ClosedInv

-----------------------------------------------------------------------------
(* The requests                                                            *)

\* Every set of requests is finite.
LEMMA RequestSets ==
  ASSUME TypeOK
  PROVE  /\ requests \in Seq(Request) /\ Len(requests) \in Nat
         /\ DOMAIN requests = 1 .. Len(requests)
         /\ \A i \in DOMAIN requests : requests[i] \in Request
         /\ \A T \in SUBSET DOMAIN requests :
              /\ IsFiniteSet(T) /\ Cardinality(T) \in Nat
              /\ Cardinality(T) <= Len(requests)
<1>1. requests \in Seq(Request) /\ Len(requests) \in Nat /\ DOMAIN requests = 1 .. Len(requests)
  BY DEF TypeOK
<1>2. IsFiniteSet(DOMAIN requests) /\ Cardinality(DOMAIN requests) = Len(requests)
  BY <1>1, FS_Interval
<1>3. ASSUME NEW T \in SUBSET DOMAIN requests
      PROVE  IsFiniteSet(T) /\ Cardinality(T) \in Nat /\ Cardinality(T) <= Len(requests)
  BY <1>2, FS_Subset, FS_CardinalityType
<1>4. \A i \in DOMAIN requests : requests[i] \in Request
  BY <1>1
<1> QED
  BY <1>1, <1>3, <1>4

\* A request whose event was taken.
LEMMA ReapedRequest ==
  ASSUME NEW r \in Request
  PROVE  LET s == [r EXCEPT !.st = "reaped", !.calls = @ + 1]
         IN  s \in Request /\ s.type = r.type /\ s.st = "reaped" /\ s.calls = r.calls + 1
<1>1. r.calls \in Nat /\ r.calls + 1 \in Nat
  BY DEF Request
<1> QED
  BY <1>1 DEF Request

\* The counters are right when they count what is not reaped: that is what is
\* outstanding and what was refused.
LEMMA CoverIsCountersCover ==
  ASSUME TypeOK, CoverInv
  PROVE  CountersCover
<1> SUFFICES ASSUME NEW t \in Types
             PROVE  pending[t] = Cardinality(Outstanding \intersect OfType(t)) + Cardinality(Rejected(t))
  BY DEF CountersCover
<1> DEFINE S == Outstanding \intersect OfType(t)
           R == Rejected(t)
<1>1. S \subseteq DOMAIN requests /\ R \subseteq DOMAIN requests
  BY DEF Outstanding, With, OfType, Rejected
<1>2. S \union R = Unreaped(t)
  <2>1. \A i \in DOMAIN requests : requests[i].st \in {"inflight", "completed", "reaped", "rejected"}
    BY RequestSets DEF Request
  <2> QED
    BY <2>1 DEF Outstanding, With, OfType, Rejected, Unreaped
<1>3. S \intersect R = {}
  BY DEF Outstanding, With, OfType, Rejected
<1> HIDE DEF S, R
<1>4. /\ IsFiniteSet(S) /\ IsFiniteSet(R)
      /\ Cardinality(S) \in Nat /\ Cardinality(R) \in Nat /\ Cardinality({}) = 0
  BY <1>1, RequestSets, FS_EmptySet
<1>5. Cardinality(Unreaped(t)) = Cardinality(S) + Cardinality(R)
  <2>1. Cardinality(S \union R)
          = Cardinality(S) + Cardinality(R) - Cardinality(S \intersect R)
    BY <1>4, FS_Union
  <2>2. Cardinality(S \intersect R) = 0 /\ Cardinality(S \union R) = Cardinality(Unreaped(t))
    BY <1>2, <1>3, <1>4
  <2> QED
    BY <1>4, <2>1, <2>2
<1> QED
  BY <1>5 DEF CoverInv, S, R

\* io_submit: one request more, which is under way only if it was valid.
LEMMA SubmitKeeps ==
  ASSUME ContextInv, NEW type \in Types, NEW valid \in BOOLEAN, Submit(type, valid)
  PROVE  /\ ContextInv'
         /\ Len(requests') = Len(requests) + 1
         /\ \A i \in DOMAIN requests : i \in DOMAIN requests' /\ requests'[i] = requests[i]
         /\ \A i \in DOMAIN requests' \ DOMAIN requests :
              i = Len(requests) + 1 /\ requests'[i].type = type
         /\ With("reaped")' = With("reaped")
         /\ Outstanding' = Outstanding \/ (valid /\ Outstanding' = Outstanding \union {Len(requests) + 1})
<1> DEFINE k == Len(requests) + 1
<1>1. TypeOK /\ CoverInv /\ CallInv /\ ClosedInv
  BY DEF ContextInv
<1>2. PICK st \in {"inflight", "rejected"} :
        /\ requests' = Append(requests, [type |-> type, st |-> st, calls |-> 0])
        /\ st = "inflight" => valid /\ context = "open"
  BY DEF Submit, SubmitResults
<1>3. /\ pc' = pc /\ context' = context /\ Len(requests) < MaxRequests
      /\ pending' = [pending EXCEPT ![type] = @ + 1]
  BY DEF Submit
<1>4. /\ requests \in Seq(Request) /\ Len(requests) \in Nat /\ DOMAIN requests = 1 .. Len(requests)
      /\ MaxRequests \in Nat
  BY <1>1, RequestSets, AioAssumption
<1>5. [type |-> type, st |-> st, calls |-> 0] \in Request
  BY DEF Request
<1>6. /\ requests' \in Seq(Request) /\ Len(requests') = k /\ DOMAIN requests' = DOMAIN requests \union {k}
      /\ k \notin DOMAIN requests
      /\ requests'[k] = [type |-> type, st |-> st, calls |-> 0]
      /\ \A i \in DOMAIN requests : requests'[i] = requests[i]
  BY <1>2, <1>4, <1>5
<1> HIDE DEF k
<1>7. TypeOK'
  BY <1>1, <1>3, <1>4, <1>6 DEF TypeOK, k
<1>8. CoverInv'
  <2>1. ASSUME NEW t \in Types, t # type PROVE Unreaped(t)' = Unreaped(t)
    BY <1>6, <2>1 DEF Unreaped
  <2>2. Unreaped(type)' = Unreaped(type) \union {k}
    BY <1>6 DEF Unreaped
  <2>3. k \notin Unreaped(type) /\ Unreaped(type) \in SUBSET DOMAIN requests
    BY <1>6 DEF Unreaped
  <2>4. Cardinality(Unreaped(type)') = Cardinality(Unreaped(type)) + 1
    BY <1>1, <2>2, <2>3, RequestSets, FS_AddElement
  <2>5. \A t \in Types : pending'[t] = IF t = type THEN pending[t] + 1 ELSE pending[t]
    BY <1>1, <1>3 DEF TypeOK
  <2>6. ASSUME NEW t \in Types PROVE pending'[t] = Cardinality(Unreaped(t)')
    <3>1. CASE t = type
      BY <1>1, <2>4, <2>5, <3>1 DEF CoverInv
    <3>2. CASE t # type
      BY <1>1, <2>1, <2>5, <3>2 DEF CoverInv
    <3> QED
      BY <3>1, <3>2
  <2> QED
    BY <2>6 DEF CoverInv
<1>9. CallInv'
  BY <1>1, <1>6 DEF CallInv
<1>10. With("reaped")' = With("reaped")
  BY <1>6 DEF With
<1>11. CASE st = "inflight"
  <2>1. Outstanding' = Outstanding \union {k}
    BY <1>6, <1>11 DEF Outstanding, With
  <2>2. ClosedInv'
    BY <1>2, <1>3, <1>11 DEF ClosedInv
  <2> QED
    BY <1>2, <1>6, <1>7, <1>8, <1>9, <1>10, <1>11, <2>1, <2>2 DEF ContextInv, k
<1>12. CASE st = "rejected"
  <2>1. Outstanding' = Outstanding
    BY <1>6, <1>12 DEF Outstanding, With
  <2>2. ClosedInv'
    BY <1>1, <1>3, <2>1 DEF ClosedInv
  <2> QED
    BY <1>6, <1>7, <1>8, <1>9, <1>10, <2>1, <2>2 DEF ContextInv, k
<1> QED
  BY <1>11, <1>12

\* The device completes a request.
LEMMA CompleteKeeps ==
  ASSUME ContextInv, NEW k \in DOMAIN requests, Complete(k)
  PROVE  /\ ContextInv'
         /\ Len(requests') = Len(requests) /\ DOMAIN requests' = DOMAIN requests
         /\ \A i \in DOMAIN requests : requests'[i].type = requests[i].type
         /\ With("reaped")' = With("reaped") /\ Outstanding' = Outstanding
<1>1. TypeOK /\ CoverInv /\ CallInv /\ ClosedInv
  BY DEF ContextInv
<1>2. /\ requests' = [requests EXCEPT ![k].st = "completed"] /\ requests[k].st = "inflight"
      /\ UNCHANGED <<pc, pending, context>> /\ context = "open"
  BY DEF Complete, With
<1>3. /\ requests \in Seq(Request) /\ Len(requests) \in Nat /\ DOMAIN requests = 1 .. Len(requests)
      /\ \A i \in DOMAIN requests : requests[i] \in Request
  BY <1>1, RequestSets
<1>4. /\ requests' \in Seq(Request) /\ Len(requests') = Len(requests)
      /\ DOMAIN requests' = DOMAIN requests
      /\ \A i \in DOMAIN requests : /\ requests'[i].type = requests[i].type
                                    /\ requests'[i].calls = requests[i].calls
                                    /\ requests'[i].st = IF i = k THEN "completed" ELSE requests[i].st
  <2> DEFINE u == [requests[k] EXCEPT !.st = "completed"]
  <2>1. requests' = [requests EXCEPT ![k] = u]
    BY <1>2
  <2>2. /\ u \in Request /\ u.type = requests[k].type /\ u.calls = requests[k].calls
        /\ u.st = "completed"
    BY <1>3 DEF Request
  <2> HIDE DEF u
  <2> QED
    BY <1>3, <2>1, <2>2
<1>5. TypeOK'
  BY <1>1, <1>2, <1>4 DEF TypeOK
<1>6. With("reaped")' = With("reaped") /\ Outstanding' = Outstanding
  BY <1>2, <1>4 DEF With, Outstanding
<1>7. \A t \in Types : Unreaped(t)' = Unreaped(t)
  BY <1>2, <1>4 DEF Unreaped
<1>8. CoverInv'
  BY <1>1, <1>2, <1>7 DEF CoverInv
<1>9. CallInv' /\ ClosedInv'
  BY <1>1, <1>2, <1>4 DEF CallInv, ClosedInv
<1> QED
  BY <1>4, <1>5, <1>6, <1>8, <1>9 DEF ContextInv

\* io_getevents and get_event: what is taken is counted down, once.
LEMMA GetEventKeeps ==
  ASSUME ContextInv, GetEvent
  PROVE  /\ ContextInv' /\ pc' = pc /\ context' = context
         /\ Len(requests') = Len(requests) /\ DOMAIN requests' = DOMAIN requests
         /\ \A i \in DOMAIN requests : requests'[i].type = requests[i].type
         /\ Outstanding' \subseteq Outstanding
         /\ Cardinality(With("reaped")') =
              Cardinality(With("reaped")) + Cardinality(With("completed"))
                - Cardinality(With("completed")')
<1>1. TypeOK /\ CoverInv /\ CallInv /\ ClosedInv
  BY DEF ContextInv
<1>2. PICK events \in SUBSET With("completed") :
        /\ requests' = [i \in DOMAIN requests |->
                          IF i \in events THEN [requests[i] EXCEPT !.st = "reaped", !.calls = @ + 1]
                          ELSE requests[i]]
        /\ pending' = [t \in Types |-> pending[t] - Cardinality(events \intersect OfType(t))]
  BY DEF GetEvent
<1>3. pc' = pc /\ context' = context
  BY DEF GetEvent
<1>4. /\ requests \in Seq(Request) /\ Len(requests) \in Nat /\ DOMAIN requests = 1 .. Len(requests)
      /\ \A i \in DOMAIN requests : requests[i] \in Request
      /\ \A T \in SUBSET DOMAIN requests : IsFiniteSet(T) /\ Cardinality(T) \in Nat
  BY <1>1, RequestSets
<1>5. events \subseteq DOMAIN requests /\ \A i \in events : requests[i].st = "completed"
  BY DEF With
<1>6. /\ DOMAIN requests' = DOMAIN requests
      /\ \A i \in DOMAIN requests :
           /\ requests'[i] \in Request /\ requests'[i].type = requests[i].type
           /\ requests'[i].st = IF i \in events THEN "reaped" ELSE requests[i].st
           /\ requests'[i].calls = IF i \in events THEN requests[i].calls + 1 ELSE requests[i].calls
  <2>1. DOMAIN requests' = DOMAIN requests
    BY <1>2
  <2>2. ASSUME NEW i \in DOMAIN requests, i \in events
        PROVE  /\ requests'[i] \in Request /\ requests'[i].type = requests[i].type
               /\ requests'[i].st = "reaped" /\ requests'[i].calls = requests[i].calls + 1
    <3>1. requests'[i] = [requests[i] EXCEPT !.st = "reaped", !.calls = @ + 1]
      BY <1>2, <2>2
    <3>2. requests[i] \in Request
      BY <1>4
    <3> QED
      BY <3>1, <3>2, ReapedRequest
  <2>3. ASSUME NEW i \in DOMAIN requests, i \notin events
        PROVE  requests'[i] = requests[i] /\ requests'[i] \in Request
    BY <1>2, <1>4, <2>3
  <2> QED
    BY <2>1, <2>2, <2>3
<1>7. requests' \in Seq(Request) /\ Len(requests') = Len(requests)
  <2>1. \A i \in 1 .. Len(requests) : requests'[i] \in Request
    BY <1>4, <1>6
  <2>2. requests' = [i \in 1 .. Len(requests) |-> requests'[i]]
    BY <1>2, <1>4
  <2>3. [i \in 1 .. Len(requests) |-> requests'[i]] \in Seq(Request)
    BY <1>4, <2>1
  <2>4. requests' \in Seq(Request)
    BY <2>2, <2>3
  <2>5. DOMAIN requests' = 1 .. Len(requests') /\ Len(requests') \in Nat
    BY <2>4
  <2> QED
    BY <1>4, <1>6, <2>4, <2>5
<1>8. ASSUME NEW t \in Types
      PROVE  /\ Unreaped(t)' = Unreaped(t) \ events
             /\ pending'[t] = Cardinality(Unreaped(t)')
  <2>1. Unreaped(t)' = Unreaped(t) \ events
    BY <1>6 DEF Unreaped
  <2>2. Unreaped(t) \intersect events = events \intersect OfType(t)
    BY <1>5 DEF Unreaped, OfType
  <2>3. IsFiniteSet(Unreaped(t))
    BY <1>4 DEF Unreaped
  <2>4. Cardinality(Unreaped(t) \ events)
          = Cardinality(Unreaped(t)) - Cardinality(Unreaped(t) \intersect events)
    BY <2>3, FS_Difference
  <2>5. pending'[t] = pending[t] - Cardinality(events \intersect OfType(t))
    BY <1>2
  <2>6. pending[t] = Cardinality(Unreaped(t))
    BY <1>1 DEF CoverInv
  <2> QED
    BY <2>1, <2>2, <2>4, <2>5, <2>6
<1>9. CoverInv'
  BY <1>8 DEF CoverInv
<1>10. TypeOK'
  <2>1. \A t \in Types : pending'[t] \in Nat
    <3> SUFFICES ASSUME NEW t \in Types PROVE pending'[t] \in Nat
      OBVIOUS
    <3>1. Unreaped(t)' \subseteq DOMAIN requests
      BY <1>8 DEF Unreaped
    <3> QED
      BY <1>4, <1>8, <3>1
  <2>2. pending' \in [Types -> Nat]
    BY <1>2, <2>1
  <2> QED
    BY <1>1, <1>3, <1>7, <2>2 DEF TypeOK
<1>11. CallInv'
  BY <1>1, <1>5, <1>6 DEF CallInv
<1>12. Outstanding' \subseteq Outstanding
  BY <1>6 DEF Outstanding, With
<1>13. ClosedInv'
  BY <1>1, <1>3, <1>12 DEF ClosedInv
<1>14. Cardinality(With("reaped")') =
         Cardinality(With("reaped")) + Cardinality(With("completed")) - Cardinality(With("completed")')
  <2> DEFINE R == With("reaped")
             C == With("completed")
  <2>1. R \subseteq DOMAIN requests /\ C \subseteq DOMAIN requests /\ R \intersect events = {}
        /\ C \intersect events = events
    BY <1>5 DEF With
  <2>2. With("reaped")' = R \union events /\ With("completed")' = C \ events
    BY <1>5, <1>6 DEF With
  <2> HIDE DEF R, C
  <2>3. IsFiniteSet(R) /\ IsFiniteSet(C) /\ IsFiniteSet(events) /\ Cardinality({}) = 0
        /\ Cardinality(R) \in Nat /\ Cardinality(C) \in Nat /\ Cardinality(events) \in Nat
    BY <1>4, <1>5, <2>1, FS_EmptySet
  <2>4. Cardinality(R \union events) = Cardinality(R) + Cardinality(events) - Cardinality({})
    BY <2>1, <2>3, FS_Union
  <2>5. Cardinality(C \ events) = Cardinality(C) - Cardinality(events)
    BY <2>1, <2>3, FS_Difference
  <2>6. Cardinality(R \union events) = Cardinality(R) + Cardinality(C) - Cardinality(C \ events)
    BY <2>3, <2>4, <2>5
  <2> QED
    BY <2>2, <2>6 DEF R, C
<1> QED
  BY <1>3, <1>6, <1>7, <1>9, <1>10, <1>11, <1>12, <1>13, <1>14 DEF ContextInv

\* A direction that has nothing pending has nothing under way.
LEMMA NothingPending ==
  ASSUME ContextInv, NEW t \in Types, pending[t] <= 0
  PROVE  Outstanding \intersect OfType(t) = {}
<1>1. Unreaped(t) \subseteq DOMAIN requests
  BY DEF Unreaped
<1>2. IsFiniteSet(Unreaped(t)) /\ Cardinality(Unreaped(t)) \in Nat
  BY <1>1, RequestSets DEF ContextInv
<1>3. Cardinality(Unreaped(t)) = 0
  BY <1>2 DEF ContextInv, CoverInv
<1>4. Unreaped(t) = {}
  BY <1>2, <1>3, FS_EmptySet
<1> QED
  BY <1>4 DEF Outstanding, With, OfType, Unreaped

\* Calling sync_write and the others, and returning from them, changes no request.
LEMMA ControlKeeps ==
  ASSUME ContextInv, (\E call \in Calls : Sync(call)) \/ SyncReturns \/ Destroy
  PROVE  /\ ContextInv' /\ UNCHANGED <<pending, requests>>
         /\ Outstanding' = Outstanding /\ With("reaped")' = With("reaped")
         /\ Destroy => Outstanding = {}
<1>1. TypeOK /\ CoverInv /\ CallInv /\ ClosedInv
  BY DEF ContextInv
<1>2. UNCHANGED <<pending, requests>> /\ pc' \in {"user", "destroyed"} \union Calls
      /\ context' \in {context, "closed"} /\ (context' # context => Destroy)
  BY DEF Sync, SyncReturns, Destroy
<1>3. Outstanding' = Outstanding /\ With("reaped")' = With("reaped")
  BY <1>2 DEF Outstanding, With
<1>4. ASSUME Destroy PROVE Outstanding = {}
  <2>1. \A t \in Types : Outstanding \intersect OfType(t) = {}
    BY <1>4, NothingPending DEF Destroy, WaitsFor
  <2>2. \A i \in DOMAIN requests : requests[i].type \in Types
    BY <1>1, RequestSets DEF Request
  <2> QED
    BY <2>1, <2>2 DEF Outstanding, With, OfType
<1>5. TypeOK' /\ CoverInv' /\ CallInv'
  BY <1>1, <1>2 DEF TypeOK, CoverInv, Unreaped, CallInv
<1>6. ClosedInv'
  BY <1>1, <1>2, <1>3, <1>4 DEF ClosedInv
<1> QED
  BY <1>2, <1>3, <1>4, <1>5, <1>6 DEF ContextInv

-----------------------------------------------------------------------------
(* The caller                                                              *)

\* The int offset stays one.
LEMMA WrapBounds ==
  ASSUME NEW k \in Int
  PROVE  Wrap(k) \in -IntHalf .. IntHalf - 1
<1>1. IntHalf \in Nat \ {0} /\ 2 * IntHalf \in Nat \ {0}
  BY MethodAssumption
<1>2. (k + IntHalf) % (2 * IntHalf) \in 0 .. 2 * IntHalf - 1
  BY <1>1
<1> QED
  BY <1>1, <1>2 DEF Wrap

LEMMA InitAioInv == MethodInit => AioInv
<1> SUFFICES ASSUME MethodInit PROVE AioInv
  OBVIOUS
<1> USE AioAssumption, MethodAssumption
<1>1. requests = <<>> /\ DOMAIN requests = {} /\ requests \in Seq(Request) /\ Len(requests) = 0
  BY DEF MethodInit, Init
<1>2. /\ \A t \in Types : Unreaped(t) = {}
      /\ With("reaped") = {} /\ Outstanding = {} /\ Cardinality({}) = 0
  BY <1>1, FS_EmptySet DEF Unreaped, With, Outstanding
<1>3. TypeOK /\ context \in {"open", "failed"} /\ pc = "user"
  BY <1>1 DEF MethodInit, Init, TypeOK
<1>4. CoverInv /\ CallInv /\ ClosedInv
  BY <1>1, <1>2 DEF MethodInit, Init, CoverInv, CallInv, ClosedInv
<1>5. MethodTypeOK
  BY <1>3 DEF MethodInit, MethodTypeOK, Types
<1>6. NumRequests \in Nat
  BY DEF NumRequests
<1>7. CallPlace
  BY <1>3 DEF MethodInit, CallPlace
<1>8. Cardinality(With("reaped")) = 0 /\ Len(requests) <= NumRequests
  <2>1. Cardinality(With("reaped")) = 0
    BY <1>2
  <2>2. 0 <= NumRequests
    BY <1>6
  <2> QED
    BY <1>1, <2>1, <2>2
<1>9. ScopeInv
  BY <1>2, <1>8 DEF MethodInit, ScopeInv
<1> QED
  BY <1>4, <1>5, <1>7, <1>9 DEF AioInv, MethodInit

\* Any caller of AIOAsyncIO.
LEMMA AnyKeeps ==
  ASSUME AioInv, client = "any", Next, UNCHANGED methodVars
  PROVE  AioInv'
<1>1. ContextInv /\ MethodTypeOK
  BY DEF AioInv, ContextInv, MethodTypeOK
<1>2. ContextInv'
  <2>1. ASSUME NEW type \in Types, NEW valid \in {TRUE, ~MayReject}, Submit(type, valid)
        PROVE  ContextInv'
    <3>1. valid \in BOOLEAN
      BY AioAssumption
    <3> QED
      BY <1>1, <2>1, <3>1, SubmitKeeps
  <2>2. ASSUME UNCHANGED vars PROVE ContextInv'
    BY <1>1, <2>2 DEF vars, ContextInv, TypeOK, CoverInv, Unreaped, CallInv, ClosedInv, Outstanding,
                      With
  <2> QED
    BY <1>1, <2>1, <2>2, CompleteKeeps, GetEventKeeps, ControlKeeps DEF Next, Hang, Done
<1>3. MethodTypeOK'
  BY <1>1, <1>2 DEF AioInv, MethodTypeOK, ContextInv, methodVars, callVars
<1> QED
  BY <1>2, <1>3 DEF AioInv, ContextInv, methodVars, callVars

\* A call of the layer manager starts with nothing under way.
LEMMA NewCallKeeps ==
  ASSUME AioInv, NewCall
  PROVE  AioInv'
<1> USE AioAssumption, MethodAssumption
<1>1. MethodTypeOK /\ client # "any" /\ client' = client
  BY DEF AioInv, NewCall
<1>2. requests' = <<>> /\ DOMAIN requests' = {} /\ requests' \in Seq(Request) /\ Len(requests') = 0
  BY DEF NewCall
<1>3. /\ \A t \in Types : Unreaped(t)' = {}
      /\ With("reaped")' = {} /\ Outstanding' = {} /\ Cardinality({}) = 0
  BY <1>2, FS_EmptySet DEF Unreaped, With, Outstanding
<1>4. TypeOK'
  BY <1>2 DEF NewCall, TypeOK
<1>5. CoverInv' /\ CallInv' /\ ClosedInv'
  BY <1>2, <1>3 DEF NewCall, CoverInv, CallInv, ClosedInv
<1>6. contexts' \in 0 .. MaxContexts /\ (context' = "open" => contexts' > 0)
  BY <1>1 DEF NewCall, MethodTypeOK
<1>7. MethodTypeOK'
  BY <1>1, <1>4, <1>6 DEF NewCall, MethodTypeOK
<1>8. NumRequests' \in Nat
  BY DEF NumRequests
<1>9. CallPlace'
  BY <1>2, <1>6 DEF NewCall, CallPlace
<1>10. Cardinality(With("reaped")') = 0 /\ Len(requests') <= NumRequests'
  <2>1. Cardinality(With("reaped")') = 0
    BY <1>3
  <2>2. 0 <= NumRequests'
    BY <1>8
  <2> QED
    BY <1>2, <2>1, <2>2
<1>11. ScopeInv'
  BY <1>3, <1>10 DEF NewCall, ScopeInv
<1> QED
  BY <1>1, <1>5, <1>7, <1>9, <1>11 DEF AioInv

LEMMA SubmitNextKeeps ==
  ASSUME AioInv, client # "any", SubmitNext
  PROVE  AioInv'
<1> DEFINE k == Len(requests) + 1
<1>1. /\ MethodTypeOK /\ ContextInv /\ CallPlace /\ ScopeInv
      /\ at = "submit" /\ Len(requests) < NumRequests
      /\ op \in Types /\ tensor \in [lba : Nat, size : Nat \ {0}] /\ offset \in Int
  BY MethodAssumption DEF AioInv, ContextInv, MethodTypeOK, SubmitNext
<1>2. PICK opened \in {TRUE, ~MayReject} :
        /\ fdArray' = IF opened THEN fdArray \union {k} ELSE fdArray
        /\ Submit(op, opened /\ Start >= 0)
  BY DEF SubmitNext
<1>3. /\ UNCHANGED <<client, at, op, tensor, n, contexts, calls, pendingOps>>
      /\ offset' = Wrap(offset + tensor.size)
  BY DEF SubmitNext
<1>4. (opened /\ Start >= 0) \in BOOLEAN
  OBVIOUS
<1>5. /\ ContextInv' /\ Len(requests') = k
      /\ \A i \in DOMAIN requests : i \in DOMAIN requests' /\ requests'[i] = requests[i]
      /\ \A i \in DOMAIN requests' \ DOMAIN requests : i = k /\ requests'[i].type = op
      /\ With("reaped")' = With("reaped")
      /\ Outstanding' = Outstanding
           \/ ((opened /\ Start >= 0) /\ Outstanding' = Outstanding \union {k})
  BY <1>1, <1>2, <1>4, SubmitKeeps
<1>6. pc' = pc /\ context' = context
  BY <1>2 DEF Submit
<1>7. Len(requests) \in Nat /\ NumRequests \in Nat
  BY <1>1, RequestSets, AioAssumption DEF ContextInv, NumRequests
<1>8. k \in DOMAIN requests'
  BY <1>5, <1>7, RequestSets DEF ContextInv, TypeOK
<1> HIDE DEF k
<1>9. offset' \in -IntHalf .. IntHalf - 1
  BY <1>1, <1>3, WrapBounds
<1>10. fdArray' \subseteq DOMAIN requests'
  BY <1>1, <1>2, <1>5, <1>8 DEF MethodTypeOK
<1>11. MethodTypeOK'
  BY <1>1, <1>3, <1>5, <1>9, <1>10 DEF MethodTypeOK, ContextInv
<1>12. CallPlace'
  <2>1. \A i \in DOMAIN requests' : requests'[i].type = op
    BY <1>1, <1>5 DEF CallPlace
  <2> QED
    BY <1>1, <1>3, <1>6, <2>1 DEF CallPlace
<1>13. ScopeInv'
  <2>1. Outstanding' \subseteq fdArray'
    BY <1>1, <1>2, <1>5 DEF ScopeInv
  <2>2. Len(requests') <= NumRequests'
    BY <1>1, <1>3, <1>5, <1>7 DEF NumRequests, k
  <2> QED
    BY <1>1, <1>3, <1>5, <2>1, <2>2 DEF ScopeInv
<1> QED
  BY <1>3, <1>5, <1>11, <1>12, <1>13 DEF AioInv, ContextInv

LEMMA EventKeeps ==
  ASSUME AioInv, client # "any", Event
  PROVE  AioInv'
<1>1. MethodTypeOK /\ ContextInv /\ CallPlace /\ ScopeInv /\ at = "wait"
  BY DEF AioInv, ContextInv, MethodTypeOK, Event
<1>2. /\ UNCHANGED <<client, at, op, tensor, offset, fdArray, contexts, calls, pendingOps>>
      /\ n' = n + Cardinality(With("completed")) - Cardinality(With("completed")')
  BY DEF Event
<1>3. /\ ContextInv' /\ pc' = pc /\ context' = context
      /\ Len(requests') = Len(requests) /\ DOMAIN requests' = DOMAIN requests
      /\ \A i \in DOMAIN requests : requests'[i].type = requests[i].type
      /\ Outstanding' \subseteq Outstanding
      /\ Cardinality(With("reaped")') =
           Cardinality(With("reaped")) + Cardinality(With("completed"))
             - Cardinality(With("completed")')
  BY <1>1, GetEventKeeps DEF Event
<1>4. n' = Cardinality(With("reaped")')
  BY <1>1, <1>2, <1>3 DEF ScopeInv
<1>5. Cardinality(With("reaped")') \in Nat /\ Cardinality(With("reaped")') <= Len(requests')
  <2>1. TypeOK' /\ With("reaped")' \subseteq DOMAIN requests'
    BY <1>3 DEF ContextInv, With
  <2>2. requests' \in Seq(Request) /\ Len(requests') \in Nat /\ DOMAIN requests' = 1 .. Len(requests')
    BY <2>1 DEF TypeOK
  <2>3. IsFiniteSet(DOMAIN requests') /\ Cardinality(DOMAIN requests') = Len(requests')
    BY <2>2, FS_Interval
  <2> QED
    BY <2>1, <2>3, FS_Subset, FS_CardinalityType
<1>6. n' \in 0 .. MaxNr
  <2>1. NumRequests \in Nat /\ NumRequests <= MaxNr /\ MaxNr \in Nat
    BY AioAssumption DEF NumRequests
  <2>2. Len(requests') <= NumRequests /\ Len(requests') \in Nat
    BY <1>1, <1>3, RequestSets DEF ScopeInv, ContextInv
  <2> QED
    BY <1>4, <1>5, <2>1, <2>2
<1>7. MethodTypeOK'
  BY <1>1, <1>2, <1>3, <1>6 DEF MethodTypeOK, ContextInv
<1>8. CallPlace'
  BY <1>1, <1>2, <1>3 DEF CallPlace
<1>9. ScopeInv'
  BY <1>1, <1>2, <1>3, <1>4 DEF ScopeInv, NumRequests
<1> QED
  BY <1>2, <1>3, <1>7, <1>8, <1>9 DEF AioInv, ContextInv

\* The device completes a request while the caller is anywhere.
LEMMA DeviceKeeps ==
  ASSUME AioInv, Device
  PROVE  AioInv'
<1>1. /\ MethodTypeOK /\ ContextInv /\ CallPlace /\ ScopeInv /\ client # "any"
      /\ UNCHANGED <<client, at, op, tensor, offset, fdArray, n, contexts, calls, pendingOps>>
  BY DEF AioInv, ContextInv, MethodTypeOK, Device, methodVars, callVars
<1>2. PICK k \in DOMAIN requests : Complete(k)
  BY DEF Device
<1>3. /\ ContextInv'
      /\ Len(requests') = Len(requests) /\ DOMAIN requests' = DOMAIN requests
      /\ \A i \in DOMAIN requests : requests'[i].type = requests[i].type
      /\ With("reaped")' = With("reaped") /\ Outstanding' = Outstanding
  BY <1>1, <1>2, CompleteKeeps
<1>4. pc' = pc /\ context' = context
  BY <1>2 DEF Complete
<1>5. MethodTypeOK'
  BY <1>1, <1>3 DEF MethodTypeOK, ContextInv
<1>6. CallPlace' /\ ScopeInv'
  BY <1>1, <1>3, <1>4 DEF CallPlace, ScopeInv, NumRequests
<1> QED
  BY <1>1, <1>3, <1>5, <1>6 DEF AioInv, ContextInv

\* When the loop over the events ends, none of the call's requests is under way.
LEMMA AllDoneMeansDone ==
  ASSUME AioInv, client # "any", AllDone
  PROVE  Outstanding = {}
<1>1. ContextInv /\ CallPlace /\ at = "wait" /\ op \in Types
  BY DEF AioInv, ContextInv, MethodTypeOK, AllDone
<1>2. WaitsFor = {op}
  BY <1>1 DEF CallPlace, WaitsFor, Types
<1>3. Outstanding \intersect OfType(op) = {}
  BY <1>1, <1>2, NothingPending DEF AllDone, SyncReturns
<1>4. \A i \in DOMAIN requests : requests[i].type = op
  BY <1>1 DEF CallPlace
<1> QED
  BY <1>3, <1>4 DEF Outstanding, With, OfType

LEMMA ControlStepKeeps ==
  ASSUME AioInv, client # "any", WaitForAll \/ AllDone \/ CloseFiles \/ DeleteContext
  PROVE  AioInv'
<1>1. MethodTypeOK /\ ContextInv /\ CallPlace /\ ScopeInv /\ op \in Types
  BY DEF AioInv, ContextInv, MethodTypeOK
<1>2. /\ ContextInv' /\ UNCHANGED <<pending, requests>>
      /\ Outstanding' = Outstanding /\ With("reaped")' = With("reaped")
  <2>1. CASE UNCHANGED vars
    BY <1>1, <2>1 DEF vars, ContextInv, TypeOK, CoverInv, Unreaped, CallInv, ClosedInv, Outstanding,
                      With
  <2>2. CASE (\E call \in Calls : Sync(call)) \/ SyncReturns \/ Destroy
    BY <1>1, <2>2, ControlKeeps
  <2>3. WaitForAll => \E call \in Calls : Sync(call)
    BY DEF WaitForAll, Calls
  <2>4. CloseFiles => (\E call \in Calls : Sync(call)) \/ UNCHANGED vars
    BY DEF CloseFiles, Calls
  <2> QED
    BY <2>1, <2>2, <2>3, <2>4 DEF AllDone, DeleteContext
<1>3. /\ UNCHANGED <<client, op, tensor, offset, n, calls, pendingOps>>
      /\ fdArray' = fdArray \/ fdArray' = {}
  BY DEF WaitForAll, AllDone, CloseFiles, DeleteContext, callVars
<1>4. contexts' \in 0 .. MaxContexts
  <2>1. contexts \in 0 .. MaxContexts /\ MaxContexts \in Nat
    BY <1>1, MethodAssumption DEF MethodTypeOK
  <2>2. CASE DeleteContext
    BY <1>1, <2>1, <2>2 DEF DeleteContext, CallPlace
  <2>3. CASE ~DeleteContext
    BY <2>1, <2>3 DEF WaitForAll, AllDone, CloseFiles
  <2> QED
    BY <2>2, <2>3
<1>5. at' \in {"idle", "submit", "wait", "close", "delete"}
  BY DEF WaitForAll, AllDone, CloseFiles, DeleteContext
<1>6. MethodTypeOK'
  BY <1>1, <1>2, <1>3, <1>4, <1>5 DEF MethodTypeOK, ContextInv
<1>7. CallPlace'
  BY <1>1, <1>2, <1>3
     DEF CallPlace, WaitForAll, AllDone, CloseFiles, DeleteContext, Sync, SyncReturns, Destroy,
         vars, Types
<1>8. ScopeInv'
  <2>1. WaitForAll => fdArray' = fdArray /\ at' = "wait"
    BY DEF WaitForAll, callVars
  <2>2. ~WaitForAll => Outstanding = {}
    <3>1. AllDone => Outstanding = {}
      BY AllDoneMeansDone
    <3>2. CloseFiles \/ DeleteContext => Outstanding = {}
      BY <1>1 DEF ScopeInv, CloseFiles, DeleteContext
    <3> QED
      BY <3>1, <3>2
  <2> QED
    BY <1>1, <1>2, <1>3, <2>1, <2>2 DEF ScopeInv, NumRequests
<1> QED
  BY <1>2, <1>3, <1>6, <1>7, <1>8 DEF AioInv, ContextInv

LEMMA WaitKeeps ==
  ASSUME AioInv, Wait \/ UNCHANGED allVars
  PROVE  AioInv'
<1>1. /\ UNCHANGED <<pc, pending, requests, context, client, at, op, tensor, offset, fdArray, n,
                     contexts, calls>>
      /\ pendingOps' \in {0, pendingOps}
  BY DEF Wait, allVars, vars, methodVars, callVars
<1>2. TypeOK' /\ CoverInv' /\ CallInv' /\ ClosedInv'
  BY <1>1 DEF AioInv, MethodTypeOK, TypeOK, CoverInv, Unreaped, CallInv, ClosedInv, Outstanding, With
<1>3. MethodTypeOK'
  BY <1>1, <1>2 DEF AioInv, MethodTypeOK
<1>4. client # "any" => CallPlace' /\ ScopeInv'
  BY <1>1 DEF AioInv, CallPlace, ScopeInv, Outstanding, With, NumRequests
<1> QED
  BY <1>1, <1>2, <1>3, <1>4 DEF AioInv

LEMMA StepKeepsAioInv == AioInv /\ [MethodNext]_allVars => AioInv'
<1> SUFFICES ASSUME AioInv, [MethodNext]_allVars PROVE AioInv'
  OBVIOUS
<1>1. ASSUME SubmitNext \/ WaitForAll \/ Event \/ AllDone \/ CloseFiles \/ DeleteContext
      PROVE  client # "any"
  BY <1>1 DEF AioInv, SubmitNext, WaitForAll, Event, AllDone, CloseFiles, DeleteContext
<1>2. CASE UNCHANGED allVars
  BY <1>2, WaitKeeps
<1>3. CASE at = "wait" /\ Hang /\ UNCHANGED methodVars
  BY <1>3, WaitKeeps DEF Hang, allVars
<1> QED
  BY <1>1, <1>2, <1>3, AnyKeeps, NewCallKeeps, SubmitNextKeeps, EventKeeps, DeviceKeeps,
     ControlStepKeeps, WaitKeeps DEF MethodNext

-----------------------------------------------------------------------------
(* The theorems                                                            *)

\* Every variable of the context and of its caller has its type: no counter is
\* negative, no context is given back twice, and n never passes max_nr.
THEOREM MethodTypeCorrect == MethodSpec => []MethodTypeOK
<1>1. AioInv => MethodTypeOK
  BY DEF AioInv
<1> QED
  BY <1>1, InitAioInv, StepKeepsAioInv, PTL DEF MethodSpec

\* The counters of AIOAsyncIO are never too small, and too large by the refused
\* submissions only (write, read, get_event).
THEOREM CountersAreExact == MethodSpec => []CountersCover
<1>1. AioInv => CountersCover
  BY CoverIsCountersCover DEF AioInv, MethodTypeOK
<1> QED
  BY <1>1, InitAioInv, StepKeepsAioInv, PTL DEF MethodSpec

\* Every accepted request has its callback called once, inside the call of the
\* layer manager that made it, while its file is open (parsefromFileName).
THEOREM CallbacksStayInScope == MethodSpec => []CallbacksInScope
<1>1. AioInv => CallbacksInScope
  BY DEF AioInv, CallInv, ScopeInv, CallPlace, CallbacksInScope
<1> QED
  BY <1>1, InitAioInv, StepKeepsAioInv, PTL DEF MethodSpec

\* No sync call returns, and no context is destroyed, with a request of its own
\* under way (sync_write, sync_read, synchronize, ~AIOAsyncIO).
THEOREM SyncIsComplete == MethodSpec => SyncMeansComplete
<1> DEFINE Complete1 ==
             /\ (pc' = "user" /\ pc # "user") =>
                  \A t \in WaitsFor : Outstanding \intersect OfType(t) = {}
             /\ context' = "closed" => Outstanding = {}
<1>1. AioInv /\ [MethodNext]_allVars => [Complete1]_vars
  <2> SUFFICES ASSUME AioInv, [MethodNext]_allVars, ~UNCHANGED vars PROVE Complete1
    OBVIOUS
  <2>1. ContextInv /\ (client # "any" => CallPlace)
    BY DEF AioInv, ContextInv, MethodTypeOK
  <2>2. CASE UNCHANGED <<pc, context>>
    BY <2>1, <2>2 DEF ContextInv, ClosedInv
  <2>3. CASE SyncReturns
    <3>1. \A t \in WaitsFor : t \in Types /\ pending[t] <= 0
      BY <2>3 DEF SyncReturns, WaitsFor, Types
    <3>2. \A t \in WaitsFor : Outstanding \intersect OfType(t) = {}
      BY <2>1, <3>1, NothingPending
    <3> QED
      BY <2>1, <2>3, <3>2 DEF SyncReturns, ContextInv, ClosedInv
  <2>4. CASE Destroy
    BY <2>1, <2>4, ControlKeeps DEF Destroy
  <2>5. CASE \E call \in Calls : Sync(call)
    BY <2>1, <2>5 DEF Sync, Calls, ContextInv, ClosedInv
  <2>6. CASE NewCall
    <3>1. pc # "user" => WaitsFor = {}
      BY <2>1, <2>6 DEF NewCall, CallPlace, WaitsFor
    <3> QED
      BY <2>6, <3>1 DEF NewCall
  <2> QED
    BY <2>2, <2>3, <2>4, <2>5, <2>6
       DEF MethodNext, Next, allVars, vars, Submit, Complete, GetEvent, SubmitNext, WaitForAll,
           Event, AllDone, CloseFiles, DeleteContext, Wait, Device, Hang, Done, Calls
<1> QED
  BY <1>1, InitAioInv, StepKeepsAioInv, PTL DEF MethodSpec, SyncMeansComplete

=============================================================================
