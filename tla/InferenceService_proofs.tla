----------------------- MODULE InferenceService_proofs -----------------------
(***************************************************************************)
(* Proofs about InferenceService for any number of batches, attempts and   *)
(* restarts: type correctness, the GPU's mutual exclusion, the order of    *)
(* the attempts of one batch, and the safety part of BatchCall.            *)
(***************************************************************************)
EXTENDS InferenceService, CommonLemmas

-----------------------------------------------------------------------------
(* Type correctness.                                                       *)

(* The types hold initially.                                               *)
LEMMA TypeInit == Init => TypeOK
<1> SUFFICES ASSUME Init PROVE TypeOK
  OBVIOUS
<1>1. gpuLock \in Semaphores(Handlers)
  BY NewLemma DEF Init
<1>2. 1 \in 1..MaxRetries /\ 0 \in 0..BatchTexts
  BY ServiceAssumption
<1>3. 0 \in 0..MaxRestarts
  BY ServiceAssumption
<1> QED
  BY <1>1, <1>2, <1>3 DEF Init, TypeOK, Gates

(* A handler that leaves the lock and answers keeps the types.             *)
LEMMA AnswerType ==
    ASSUME TypeOK, NEW h \in Handlers, NEW code \in {200, 500, 503}, Answer(h, code),
           UNCHANGED <<pass, out>>
    PROVE  TypeOK'
<1>1. gpuLock' \in Semaphores(Handlers)
  BY ReleaseLemma DEF Answer, TypeOK
<1>2. computed' \subseteq Handlers
  BY DEF Answer, TypeOK
<1> QED
  BY <1>1, <1>2 DEF Answer, TypeOK, callVars

(* Every step of a client keeps the types.                                 *)
LEMMA CallType ==
    ASSUME TypeOK, NEW c \in Calls, CallStep(c)
    PROVE  TypeOK'
<1>A. attempt[c] \in 1..MaxRetries
  BY DEF TypeOK
<1>H. Current(c) \in Handlers
  BY <1>A DEF Current, Handlers
<1>1. CASE Send(c)
  <2>1. gpuLock' \in Semaphores(Handlers)
    BY <1>1, <1>H, AcquireLemma DEF Send, TypeOK
  <2>2. handler' \in [Handlers -> {"none", "queued", "forward", "answered", "lost"}]
    BY <1>1, <1>H DEF Send, TypeOK
  <2>3. TurnedAway(c) \in {0, 401, 422, 501}
    BY DEF TurnedAway, TypeOK, Gates
  <2>4. status' \in [Handlers -> {0, 200, 401, 422, 500, 501, 503}]
    BY <1>1, <1>H, <2>3 DEF Send, TypeOK
  <2> QED
    BY <1>1, <2>1, <2>2, <2>4 DEF Send, TypeOK
<1>2. ASSUME TransientFailure(c), UNCHANGED serverVars PROVE TypeOK'
  <2>1. attempt[c] < MaxRetries => attempt[c] + 1 \in 1..MaxRetries
    BY <1>A, ServiceAssumption
  <2> QED
    BY <1>2, <2>1 DEF TransientFailure, serverVars, TypeOK
<1>3. CASE Refused(c) \/ TimedOut(c)
  BY <1>2, <1>3 DEF Refused, TimedOut
<1>4. CASE ConnectionReset(c)
  BY <1>4 DEF ConnectionReset, serverVars, TypeOK
<1>5. CASE Receive(c)
  <2>1. CASE TransientFailure(c)
    BY <1>2, <1>5, <2>1 DEF Receive
  <2>2. CASE ~TransientFailure(c)
    BY <1>5, <2>2 DEF Receive, serverVars, TypeOK
  <2> QED
    BY <2>1, <2>2
<1> QED
  BY <1>1, <1>3, <1>4, <1>5 DEF CallStep

(* Every step of a handler keeps the types.                                *)
LEMMA HandlerType ==
    ASSUME TypeOK, NEW h \in Handlers, HandlerStep(h)
    PROVE  TypeOK'
<1>O. out[h] \in 0..BatchTexts
  BY DEF TypeOK
<1>1. CASE GpuGranted(h)
  <2>1. gpuLock' \in Semaphores(Handlers)
    BY <1>1, ResumedLemma DEF GpuGranted, CanResume, TypeOK
  <2> QED
    BY <1>1, <2>1 DEF GpuGranted, callVars, TypeOK
<1>2. CASE ForwardChunk(h)
  <2>1. out[h] + ChunkSize(h) \in 0..BatchTexts
    BY <1>2, <1>O, ServiceAssumption DEF ForwardChunk, ChunkSize
  <2> QED
    BY <1>2, <2>1 DEF ForwardChunk, callVars, TypeOK
<1>3. CASE ForwardDone(h)
  BY <1>3, AnswerType DEF ForwardDone
<1>4. CASE OomRetry(h)
  <2>1. 0 \in 0..BatchTexts
    BY ServiceAssumption
  <2> QED
    BY <1>4, <2>1 DEF OomRetry, callVars, TypeOK
<1>5. CASE ForwardFails(h)
  BY <1>5, AnswerType DEF ForwardFails
<1> QED
  BY <1>1, <1>2, <1>3, <1>4, <1>5 DEF HandlerStep

(* Every step keeps the types.                                             *)
LEMMA TypeStep == TypeOK /\ [Next]_vars => TypeOK'
<1> SUFFICES ASSUME TypeOK, [Next]_vars PROVE TypeOK'
  OBVIOUS
<1>1. CASE Die
  <2>1. gpuLock' \in Semaphores(Handlers)
    BY <1>1, NewLemma DEF Die
  <2>2. restarts' \in 0..MaxRestarts /\ 0 \in 0..BatchTexts
    BY <1>1, ServiceAssumption DEF Die, TypeOK
  <2>3. handler' \in [Handlers -> {"none", "queued", "forward", "answered", "lost"}]
    BY <1>1 DEF Die
  <2>4. out' \in [Handlers -> 0..BatchTexts]
    BY <1>1, <2>2 DEF Die
  <2>5. /\ pass' \in [Handlers -> {1, 2}] /\ up' \in BOOLEAN
        /\ status' \in [Handlers -> {0, 200, 401, 422, 500, 501, 503}]
        /\ UNCHANGED <<gate, computed, callVars>>
    BY <1>1 DEF Die
  <2> QED
    BY <2>1, <2>2, <2>3, <2>4, <2>5 DEF callVars, TypeOK
<1>2. CASE ComeBack
  BY <1>2 DEF ComeBack, callVars, TypeOK
<1>3. CASE UNCHANGED vars
  BY <1>3 DEF vars, serverVars, callVars, TypeOK
<1> QED
  BY <1>1, <1>2, <1>3, CallType, HandlerType DEF Next, Quiet

(* Type correctness for any number of batches, attempts and restarts.      *)
THEOREM TypeCorrect == Spec => []TypeOK
BY TypeInit, TypeStep, PTL DEF Spec
-----------------------------------------------------------------------------
(* The GPU.  GpuExclusive counts the handlers on the GPU, so it is         *)
(* inductive together with the fact that they can be counted.              *)
GpuInv == IsFiniteSet(OnGpu) /\ GpuExclusive

(* When one handler moves, the number of handlers on the GPU follows it.   *)
LEMMA OnGpuLemma ==
    ASSUME TypeOK, IsFiniteSet(OnGpu), NEW h \in Handlers, NEW where,
           handler' = [handler EXCEPT ![h] = where]
    PROVE  /\ IsFiniteSet(OnGpu') /\ Cardinality(OnGpu) \in Nat
           /\ handler[h] = "forward" /\ where # "forward" =>
                Cardinality(OnGpu') = Cardinality(OnGpu) - 1
           /\ handler[h] # "forward" /\ where = "forward" =>
                Cardinality(OnGpu') = Cardinality(OnGpu) + 1
           /\ (handler[h] = "forward" <=> where = "forward") =>
                Cardinality(OnGpu') = Cardinality(OnGpu)
<1>1. OnGpu' = IF where = "forward" THEN OnGpu \cup {h} ELSE OnGpu \ {h}
  BY DEF OnGpu, TypeOK
<1>2. h \in OnGpu <=> handler[h] = "forward"
  BY DEF OnGpu
<1>3. Cardinality(OnGpu) \in Nat
  BY FS_CardinalityType
<1>4. /\ IsFiniteSet(OnGpu \cup {h})
      /\ Cardinality(OnGpu \cup {h}) =
           IF h \in OnGpu THEN Cardinality(OnGpu) ELSE Cardinality(OnGpu) + 1
  BY FS_AddElement
<1>5. /\ IsFiniteSet(OnGpu \ {h})
      /\ Cardinality(OnGpu \ {h}) =
           IF h \in OnGpu THEN Cardinality(OnGpu) - 1 ELSE Cardinality(OnGpu)
  BY FS_RemoveElement
<1> QED
  BY <1>1, <1>2, <1>3, <1>4, <1>5

(* A spare permit means that nobody is on the GPU.                         *)
LEMMA FreeLemma ==
    ASSUME TypeOK, GpuInv, Spare(gpuLock) > 0
    PROVE  OnGpu = {}
<1>1. Cardinality(OnGpu) \in Nat /\ Spare(gpuLock) \in Nat
  BY FS_CardinalityType, FieldsLemma DEF GpuInv, TypeOK
<1>2. Cardinality(OnGpu) = 0
  BY <1>1 DEF GpuInv, GpuExclusive
<1> QED
  BY <1>2, FS_EmptySet DEF GpuInv

(* The GPU is free initially.                                              *)
LEMMA GpuInit == Init => GpuInv
<1> SUFFICES ASSUME Init PROVE GpuInv
  OBVIOUS
<1>1. OnGpu = {}
  BY DEF Init, OnGpu
<1>2. Spare(gpuLock) = 1
  BY NewLemma DEF Init
<1> QED
  BY <1>1, <1>2, FS_EmptySet DEF GpuInv, GpuExclusive

(* A handler that answers gives the lock and the GPU back.                 *)
LEMMA AnswerGpu ==
    ASSUME TypeOK, GpuInv, NEW h \in Handlers, handler[h] = "forward",
           NEW code, Answer(h, code)
    PROVE  GpuInv'
<1>1. Spare(gpuLock) \in Nat /\ Spare(gpuLock') = Spare(gpuLock) + 1
  BY FieldsLemma, ReleaseLemma DEF Answer, TypeOK
<1>2. /\ IsFiniteSet(OnGpu') /\ Cardinality(OnGpu) \in Nat
      /\ Cardinality(OnGpu') = Cardinality(OnGpu) - 1
  <2> DEFINE where == "answered"
  <2>1. IsFiniteSet(OnGpu) /\ handler' = [handler EXCEPT ![h] = where]
    BY DEF Answer, GpuInv
  <2>2. where # "forward"
    OBVIOUS
  <2> HIDE DEF where
  <2> QED
    BY <2>1, <2>2, OnGpuLemma
<1> QED
  BY <1>1, <1>2 DEF GpuInv, GpuExclusive

(* A request that arrives takes a free lock and the GPU, or waits.         *)
LEMMA SendGpu ==
    ASSUME TypeOK, GpuInv, NEW c \in Calls, handler[Current(c)] = "none", Send(c)
    PROVE  GpuInv'
<1> DEFINE h == Current(c)
<1>1. h \in Handlers
  BY DEF TypeOK, Current, Handlers
<1>2. CASE TurnedAway(c) # 0
  <2>1. handler' = [handler EXCEPT ![h] = "answered"] /\ gpuLock' = gpuLock
    BY <1>2 DEF Send
  <2> QED
    BY <1>1, <2>1, OnGpuLemma DEF GpuInv, GpuExclusive
<1>3. CASE TurnedAway(c) = 0
  <2>1. /\ gpuLock' = Acquire(gpuLock, h)
        /\ handler' = [handler EXCEPT ![h] = IF Locked(gpuLock) THEN "queued" ELSE "forward"]
    BY <1>3 DEF Send
  <2>2. /\ Spare(gpuLock) \in Nat
        /\ Spare(gpuLock') = IF Locked(gpuLock) THEN Spare(gpuLock) ELSE Spare(gpuLock) - 1
    BY <1>1, <2>1, FieldsLemma, AcquireLemma DEF TypeOK
  <2>3. CASE Locked(gpuLock)
    <3>1. handler' = [handler EXCEPT ![h] = "queued"]
      BY <2>1, <2>3
    <3> QED
      BY <1>1, <2>2, <2>3, <3>1, OnGpuLemma DEF GpuInv, GpuExclusive
  <2>4. CASE ~Locked(gpuLock)
    <3>1. handler' = [handler EXCEPT ![h] = "forward"]
      BY <2>1, <2>4
    <3>2. /\ IsFiniteSet(OnGpu') /\ Cardinality(OnGpu) \in Nat
          /\ Cardinality(OnGpu') = Cardinality(OnGpu) + 1
      BY <1>1, <3>1, OnGpuLemma DEF GpuInv
    <3> QED
      BY <2>2, <2>4, <3>2 DEF GpuInv, GpuExclusive
  <2> QED
    BY <2>3, <2>4
<1> QED
  BY <1>2, <1>3

-----------------------------------------------------------------------------
(* The order of the attempts.                                              *)

(* An attempt that has not been sent has no handler.                       *)
Unsent(c, n) == n > attempt[c] \/ (n = attempt[c] /\ call[c] = "ready")

FreshInv == \A c \in Calls, n \in 1..MaxRetries : Unsent(c, n) => handler[<<c, n>>] = "none"

Queue == gpuLock.waiters

(* The queue holds the queued handlers, those of one batch in the order of *)
(* their attempts; hence none of them twice.                               *)
QueueInv ==
    /\ \A h \in Handlers :
          handler[h] = "queued" <=> \E i \in 1..Len(Queue) : Queue[i] = h
    /\ \A i, j \in 1..Len(Queue) :
          i < j /\ Queue[i][1] = Queue[j][1] => Queue[i][2] < Queue[j][2]

OrderInv == FreshInv /\ GpuInv /\ QueueInv /\ RetryNeverOvertakes

(* Nothing is sent or queued initially.                                    *)
LEMMA OrderInit == Init => OrderInv
<1> SUFFICES ASSUME Init PROVE OrderInv
  OBVIOUS
<1>1. GpuInv
  BY GpuInit
<1>2. FreshInv /\ RetryNeverOvertakes
  BY DEF Init, FreshInv, Handlers, RetryNeverOvertakes
<1>3. Queue = <<>> /\ Len(Queue) = 0
  BY DEF Init, NewSemaphore, Sem, Queue
<1>4. QueueInv
  BY <1>3 DEF QueueInv, Init
<1> QED
  BY <1>1, <1>2, <1>4 DEF OrderInv

(* The current attempt of a batch that is ready to be sent has no handler. *)
LEMMA CurrentLemma ==
    ASSUME TypeOK, FreshInv, NEW c \in Calls
    PROVE  /\ Current(c) \in Handlers /\ Current(c) = <<c, attempt[c]>>
           /\ attempt[c] \in 1..MaxRetries
           /\ call[c] = "ready" => handler[Current(c)] = "none"
BY DEF TypeOK, FreshInv, Unsent, Current, Handlers

(* Sending makes the current attempt sent; giving an attempt up makes the  *)
(* next one current, which has no handler either.                          *)
LEMMA FreshStep == TypeOK /\ FreshInv /\ [Next]_vars => FreshInv'
<1> SUFFICES ASSUME TypeOK, FreshInv, [Next]_vars,
                    NEW d \in Calls, NEW n \in 1..MaxRetries, Unsent(d, n)'
             PROVE  handler'[<<d, n>>] = "none"
  BY DEF FreshInv
<1> DEFINE g == <<d, n>>
<1>G. g \in Handlers
  BY DEF Handlers
<1>A. \A c \in Calls : attempt[c] \in Nat
  BY DEF TypeOK
<1>1. ASSUME NEW c \in Calls, Send(c) PROVE handler'[g] = "none"
  <2>1. attempt' = attempt /\ call' = [call EXCEPT ![c] = "waiting"]
    BY <1>1 DEF Send
  <2>2. Unsent(d, n) /\ handler[g] = "none"
    BY <1>G, <2>1 DEF Unsent, FreshInv, TypeOK
  <2>3. g # Current(c)
    BY <2>1, <1>A DEF Unsent, Current, TypeOK
  <2> QED
    BY <1>1, <1>G, <2>2, <2>3 DEF Send, TypeOK
<1>2. ASSUME NEW c \in Calls, TransientFailure(c), handler' = handler, call[c] \in {"ready", "waiting"}
      PROVE  handler'[g] = "none"
  BY <1>2, <1>A, <1>G DEF TransientFailure, Unsent, FreshInv, TypeOK
<1>3. ASSUME NEW c \in Calls, Refused(c) \/ TimedOut(c) \/ ConnectionReset(c) \/ Receive(c)
      PROVE  handler'[g] = "none"
  <2>1. handler' = handler /\ call[c] \in {"ready", "waiting"}
    BY <1>3 DEF Refused, TimedOut, ConnectionReset, Receive, serverVars
  <2>2. CASE TransientFailure(c)
    BY <1>2, <2>1, <2>2
  <2>3. CASE ~TransientFailure(c)
    BY <1>3, <2>1, <2>3, <1>A, <1>G
       DEF Refused, TimedOut, ConnectionReset, Receive, Unsent, FreshInv, TypeOK
  <2> QED
    BY <2>2, <2>3
<1>4. ASSUME NEW h \in Handlers, HandlerStep(h) PROVE handler'[g] = "none"
  <2>1. UNCHANGED <<call, attempt>> /\ handler[h] \in {"queued", "forward"}
    BY <1>4 DEF HandlerStep, GpuGranted, ForwardChunk, ForwardDone, OomRetry, ForwardFails,
                Answer, callVars
  <2>2. handler[g] = "none" /\ g # h
    BY <1>G, <2>1 DEF Unsent, FreshInv
  <2> QED
    BY <1>4, <1>G, <2>2 DEF HandlerStep, GpuGranted, ForwardChunk, ForwardDone, OomRetry,
                            ForwardFails, Answer, TypeOK
<1>5. CASE Die
  BY <1>5, <1>G DEF Die, callVars, Unsent, FreshInv
<1>6. CASE ComeBack \/ UNCHANGED vars
  BY <1>6, <1>G DEF ComeBack, vars, serverVars, callVars, Unsent, FreshInv
<1> QED
  BY <1>1, <1>3, <1>4, <1>5, <1>6 DEF Next, CallStep, Quiet

(* What the operations of the lock do to its queue.                        *)
LEMMA QueueLemma ==
    ASSUME NEW s \in Semaphores(Handlers), NEW h
    PROVE  /\ Acquire(s, h).waiters = IF Locked(s) THEN Append(s.waiters, h) ELSE s.waiters
           /\ Release(s).waiters = s.waiters
           /\ Resumed(s).waiters = Tail(s.waiters)
BY DEF Acquire, Release, Resumed, WakeNext, Leave, Sem

(* A handler that joins the queue was sent after all others of its batch.  *)
LEMMA JoinLemma ==
    ASSUME TypeOK, FreshInv, QueueInv, NEW c \in Calls, call[c] = "ready",
           Queue' = Append(Queue, Current(c)),
           handler' = [handler EXCEPT ![Current(c)] = "queued"]
    PROVE  QueueInv'
<1> DEFINE h == Current(c)
           w == Queue
<1>1. h \in Handlers /\ h = <<c, attempt[c]>> /\ attempt[c] \in 1..MaxRetries
      /\ handler[h] = "none"
  BY CurrentLemma
<1>2. w \in Seq(Handlers)
  BY FieldsLemma DEF TypeOK, Queue
<1>3. /\ Len(Queue') = Len(w) + 1 /\ Len(w) \in Nat
      /\ \A i \in 1..Len(w) : Queue'[i] = w[i]
      /\ Queue'[Len(w) + 1] = h
  BY <1>1, <1>2, AppendProperties
<1>4. \A i \in 1..Len(w) : w[i] \in Handlers /\ handler[w[i]] = "queued"
  BY <1>2, ElementOfSeq DEF QueueInv
<1>5. ASSUME NEW i \in 1..Len(w), w[i][1] = c PROVE w[i][2] < attempt[c]
  <2>1. w[i] = <<c, w[i][2]>> /\ w[i][2] \in 1..MaxRetries
    BY <1>4, <1>5 DEF Handlers
  <2>2. ~Unsent(c, w[i][2])
    BY <1>4, <2>1 DEF FreshInv
  <2> QED
    BY <1>1, <2>1, <2>2 DEF Unsent
<1>6. \A i, j \in 1..Len(Queue') :
         i < j /\ Queue'[i][1] = Queue'[j][1] => Queue'[i][2] < Queue'[j][2]
  <2> SUFFICES ASSUME NEW i \in 1..Len(Queue'), NEW j \in 1..Len(Queue'),
                      i < j, Queue'[i][1] = Queue'[j][1]
               PROVE  Queue'[i][2] < Queue'[j][2]
    OBVIOUS
  <2>1. i \in 1..Len(w) /\ Queue'[i] = w[i]
    BY <1>3
  <2>2. CASE j \in 1..Len(w)
    BY <1>3, <2>1, <2>2 DEF QueueInv
  <2>3. CASE j = Len(w) + 1
    BY <1>1, <1>3, <1>5, <2>1, <2>3
  <2> QED
    BY <1>3, <2>2, <2>3
<1>7. ASSUME NEW g \in Handlers
      PROVE  handler'[g] = "queued" <=> \E i \in 1..Len(Queue') : Queue'[i] = g
  <2>1. CASE g = h
    <3>1. handler'[g] = "queued"
      BY <1>1, <2>1 DEF TypeOK
    <3>2. Len(w) + 1 \in 1..Len(Queue')
      BY <1>3
    <3> QED
      BY <1>3, <2>1, <3>1, <3>2
  <2>2. CASE g # h
    <3>1. handler'[g] = handler[g]
      BY <2>2 DEF TypeOK
    <3>2. ASSUME NEW i \in 1..Len(w), w[i] = g PROVE \E j \in 1..Len(Queue') : Queue'[j] = g
      <4>1. i \in 1..Len(Queue') /\ Queue'[i] = g
        BY <1>3, <3>2
      <4> QED
        BY <4>1
    <3>3. ASSUME NEW j \in 1..Len(Queue'), Queue'[j] = g PROVE \E i \in 1..Len(w) : w[i] = g
      <4>1. j \in 1..Len(w)
        BY <1>3, <2>2, <3>3
      <4> QED
        BY <1>3, <3>3, <4>1
    <3> QED
      BY <3>1, <3>2, <3>3 DEF QueueInv
  <2> QED
    BY <2>1, <2>2
<1> QED
  BY <1>6, <1>7 DEF QueueInv

(* The head of the queue leaves it; it was there once.                     *)
LEMMA GrantLemma ==
    ASSUME TypeOK, QueueInv, NEW h \in Handlers, GpuGranted(h)
    PROVE  /\ QueueInv'
           /\ 1 \in 1..Len(Queue) /\ Queue[1] = h
<1> DEFINE w == Queue
<1>1. w \in Seq(Handlers) /\ Len(w) \in Nat /\ Len(w) > 0
  BY FieldsLemma DEF TypeOK, Queue, GpuGranted, CanResume
<1>2. w # <<>> /\ w[1] = h /\ Queue' = Tail(w)
  <2>1. gpuLock \in Semaphores(Handlers) /\ gpuLock' = Resumed(gpuLock) /\ Head(w) = h
    BY DEF GpuGranted, CanResume, Queue, TypeOK
  <2>2. Queue' = Tail(w)
    BY <2>1, QueueLemma DEF Queue
  <2>3. w # <<>>
    BY <1>1
  <2>4. Head(w) = w[1]
    BY <1>1, <2>3, HeadTailProperties
  <2> QED
    BY <2>1, <2>2, <2>3, <2>4
<1>3. Len(Queue') = Len(w) - 1 /\ \A i \in 1..Len(Queue') : Queue'[i] = w[i + 1]
  BY <1>1, <1>2, HeadTailProperties
<1>4. \A i \in 1..Len(Queue') : i + 1 \in 1..Len(w)
  BY <1>1, <1>3
<1>5. handler' = [handler EXCEPT ![h] = "forward"]
  BY DEF GpuGranted
<1>6. \A i, j \in 1..Len(Queue') :
         i < j /\ Queue'[i][1] = Queue'[j][1] => Queue'[i][2] < Queue'[j][2]
  BY <1>3, <1>4 DEF QueueInv
<1>7. \A i \in 1..Len(w) : i # 1 => w[i] # h
  <2> SUFFICES ASSUME NEW i \in 1..Len(w), i # 1, w[i] = h PROVE FALSE
    OBVIOUS
  <2>1. 1 < i /\ 1 \in 1..Len(w)
    BY <1>1
  <2>2. h[2] < h[2]
    BY <1>2, <2>1 DEF QueueInv
  <2>3. h[2] \in Nat
    BY DEF Handlers
  <2> QED
    BY <2>2, <2>3
<1>8. ASSUME NEW g \in Handlers
      PROVE  handler'[g] = "queued" <=> \E i \in 1..Len(Queue') : Queue'[i] = g
  <2>1. CASE g = h
    <3>1. handler'[g] = "forward"
      BY <1>5, <2>1 DEF TypeOK
    <3>2. \A i \in 1..Len(Queue') : i + 1 # 1 /\ Queue'[i] # h
      BY <1>1, <1>3, <1>4, <1>7
    <3> QED
      BY <2>1, <3>1, <3>2
  <2>2. CASE g # h
    <3>1. handler'[g] = handler[g]
      BY <1>5, <2>2 DEF TypeOK
    <3>2. ASSUME NEW i \in 1..Len(w), w[i] = g PROVE \E j \in 1..Len(Queue') : Queue'[j] = g
      <4>1. i - 1 \in 1..Len(Queue') /\ (i - 1) + 1 = i
        BY <1>1, <1>2, <1>3, <2>2, <3>2
      <4> QED
        BY <1>3, <3>2, <4>1
    <3>3. ASSUME NEW j \in 1..Len(Queue'), Queue'[j] = g PROVE \E i \in 1..Len(w) : w[i] = g
      BY <1>3, <1>4, <3>3
    <3> QED
      BY <3>1, <3>2, <3>3 DEF QueueInv
  <2> QED
    BY <2>1, <2>2
<1> QED
  BY <1>1, <1>2, <1>6, <1>8 DEF QueueInv

(* A step that moves no handler into or out of the queue.                  *)
LEMMA SameQueue ==
    ASSUME QueueInv, Queue' = Queue,
           \A h \in Handlers : handler'[h] = "queued" <=> handler[h] = "queued"
    PROVE  QueueInv'
BY DEF QueueInv

(* A step after which no handler newly waits for or uses the GPU.          *)
LEMMA SameOrder ==
    ASSUME RetryNeverOvertakes,
           \A g \in Handlers : /\ handler'[g] = "forward" => handler[g] = "forward"
                               /\ handler'[g] = "queued" => handler[g] = "queued"
    PROVE  RetryNeverOvertakes'
<1>1. \A c \in Calls, n \in 1..MaxRetries : <<c, n>> \in Handlers
  BY DEF Handlers
<1> QED
  BY <1>1 DEF RetryNeverOvertakes

(* The attempt that takes a free GPU leaves no earlier one of its batch    *)
(* behind: it found the queue empty or was its head.                       *)
LEMMA TakesGpu ==
    ASSUME TypeOK, OnGpu = {}, NEW h \in Handlers,
           handler' = [handler EXCEPT ![h] = "forward"],
           \A m \in 1..MaxRetries : m < h[2] => handler[<<h[1], m>>] # "queued"
    PROVE  RetryNeverOvertakes'
<1> SUFFICES ASSUME NEW c \in Calls, NEW m \in 1..MaxRetries, NEW n \in 1..MaxRetries,
                    m < n, handler'[<<c, n>>] = "forward"
             PROVE  handler'[<<c, m>>] \notin {"queued", "forward"}
  BY DEF RetryNeverOvertakes
<1>1. <<c, m>> \in Handlers /\ <<c, n>> \in Handlers
  BY DEF Handlers
<1>2. \A g \in Handlers : handler[g] # "forward"
  BY DEF OnGpu
<1>3. h = <<c, n>>
  BY <1>1, <1>2 DEF TypeOK
<1>4. handler'[<<c, m>>] = handler[<<c, m>>]
  BY <1>1, <1>3 DEF TypeOK
<1> QED
  BY <1>1, <1>2, <1>3, <1>4

(* A request keeps the order, however it is received.                      *)
LEMMA SendOrder ==
    ASSUME TypeOK, OrderInv, NEW c \in Calls, Send(c)
    PROVE  GpuInv' /\ QueueInv' /\ RetryNeverOvertakes'
<1> DEFINE h == Current(c)
<1>1. /\ h \in Handlers /\ h = <<c, attempt[c]>> /\ attempt[c] \in 1..MaxRetries
      /\ handler[h] = "none" /\ call[c] = "ready"
  BY CurrentLemma DEF Send, OrderInv
<1>2. GpuInv'
  BY <1>1, SendGpu DEF OrderInv
<1>3. CASE TurnedAway(c) # 0
  <2>1. handler' = [handler EXCEPT ![h] = "answered"] /\ gpuLock' = gpuLock
    BY <1>3 DEF Send
  <2>2. \A g \in Handlers : /\ handler'[g] = "queued" <=> handler[g] = "queued"
                            /\ handler'[g] = "forward" => handler[g] = "forward"
    BY <1>1, <2>1 DEF TypeOK
  <2>3. Queue' = Queue
    BY <2>1 DEF Queue
  <2> QED
    BY <1>2, <2>2, <2>3, SameQueue, SameOrder DEF OrderInv
<1>4. CASE TurnedAway(c) = 0 /\ Locked(gpuLock)
  <2>1. gpuLock' = Acquire(gpuLock, h) /\ handler' = [handler EXCEPT ![h] = "queued"]
    BY <1>4 DEF Send
  <2>2. gpuLock \in Semaphores(Handlers)
    BY DEF TypeOK
  <2>3. Queue' = Append(Queue, h)
    BY <1>4, <2>1, <2>2, QueueLemma DEF Queue
  <2>4. QueueInv'
    BY <1>1, <2>1, <2>3, JoinLemma DEF OrderInv
  <2>5. RetryNeverOvertakes'
    <3> SUFFICES ASSUME NEW d \in Calls, NEW m \in 1..MaxRetries, NEW n \in 1..MaxRetries,
                        m < n, handler'[<<d, n>>] = "forward"
                 PROVE  handler'[<<d, m>>] \notin {"queued", "forward"}
      BY DEF RetryNeverOvertakes
    <3>1. <<d, m>> \in Handlers /\ <<d, n>> \in Handlers
      BY DEF Handlers
    <3>2. handler[<<d, n>>] = "forward"
      BY <1>1, <2>1, <3>1 DEF TypeOK
    <3>3. <<d, m>> # h
      <4>1. ~Unsent(d, n)
        BY <3>2 DEF OrderInv, FreshInv
      <4> QED
        BY <1>1, <4>1 DEF Unsent
    <3>4. handler'[<<d, m>>] = handler[<<d, m>>]
      BY <2>1, <3>1, <3>3 DEF TypeOK
    <3> QED
      BY <3>2, <3>4 DEF OrderInv, RetryNeverOvertakes
  <2> QED
    BY <1>2, <2>4, <2>5
<1>5. CASE TurnedAway(c) = 0 /\ ~Locked(gpuLock)
  <2>1. gpuLock' = Acquire(gpuLock, h) /\ handler' = [handler EXCEPT ![h] = "forward"]
    BY <1>5 DEF Send
  <2>2. gpuLock \in Semaphores(Handlers)
    BY DEF TypeOK
  <2>3. Queue' = Queue
    BY <1>5, <2>1, <2>2, QueueLemma DEF Queue
  <2>4. Spare(gpuLock) > 0
    BY <1>5, <2>2, FieldsLemma DEF Locked
  <2>5. OnGpu = {}
    BY <2>4, FreeLemma DEF OrderInv
  <2>6. Len(Queue) = 0
    BY <1>5 DEF Locked, Queue
  <2>7. \A g \in Handlers : handler[g] # "queued"
    BY <2>6 DEF OrderInv, QueueInv
  <2>8. \A g \in Handlers : handler'[g] = "queued" <=> handler[g] = "queued"
    BY <1>1, <2>1, <2>7 DEF TypeOK
  <2>9. \A m \in 1..MaxRetries : m < h[2] => handler[<<h[1], m>>] # "queued"
    BY <1>1, <2>7 DEF Handlers
  <2>10. RetryNeverOvertakes'
    BY <1>1, <2>1, <2>5, <2>9, TakesGpu
  <2> QED
    BY <1>2, <2>3, <2>8, <2>10, SameQueue DEF OrderInv
<1> QED
  BY <1>3, <1>4, <1>5

(* The turn on the GPU that is handed over is the head's of the queue.     *)
LEMMA GrantOrder ==
    ASSUME TypeOK, OrderInv, NEW h \in Handlers, GpuGranted(h)
    PROVE  GpuInv' /\ QueueInv' /\ RetryNeverOvertakes'
<1>1. QueueInv' /\ 1 \in 1..Len(Queue) /\ Queue[1] = h
  BY GrantLemma DEF OrderInv
<1>2. /\ gpuLock \in Semaphores(Handlers) /\ gpuLock.granted > 0
      /\ gpuLock' = Resumed(gpuLock) /\ handler[h] = "queued"
      /\ handler' = [handler EXCEPT ![h] = "forward"]
  BY DEF GpuGranted, CanResume, TypeOK
<1>3. Spare(gpuLock) \in Nat /\ Spare(gpuLock) > 0
  BY <1>2, FieldsLemma
<1>4. OnGpu = {}
  BY <1>3, FreeLemma DEF OrderInv
<1>5. Spare(gpuLock') = Spare(gpuLock) - 1
  BY <1>2, ResumedLemma
<1>6. /\ IsFiniteSet(OnGpu') /\ Cardinality(OnGpu) \in Nat
      /\ Cardinality(OnGpu') = Cardinality(OnGpu) + 1
  BY <1>2, OnGpuLemma DEF OrderInv, GpuInv
<1>7. GpuInv'
  BY <1>3, <1>5, <1>6 DEF OrderInv, GpuInv, GpuExclusive
<1>8. ASSUME NEW m \in 1..MaxRetries, m < h[2], handler[<<h[1], m>>] = "queued" PROVE FALSE
  <2>1. <<h[1], m>> \in Handlers /\ h[2] \in Nat
    BY DEF Handlers
  <2>2. PICK i \in 1..Len(Queue) : Queue[i] = <<h[1], m>>
    BY <1>8, <2>1 DEF OrderInv, QueueInv
  <2>3. i # 1
    BY <1>1, <1>8, <2>1, <2>2
  <2>4. 1 < i
    BY <2>3
  <2>5. h[2] < m
    BY <1>1, <2>2, <2>4 DEF OrderInv, QueueInv
  <2> QED
    BY <1>8, <2>1, <2>5
<1>9. RetryNeverOvertakes'
  BY <1>2, <1>4, <1>8, TakesGpu
<1> QED
  BY <1>1, <1>7, <1>9

(* A handler that answers leaves the order as it was.                      *)
LEMMA AnswerOrder ==
    ASSUME TypeOK, OrderInv, NEW h \in Handlers, handler[h] = "forward",
           NEW code, Answer(h, code)
    PROVE  GpuInv' /\ QueueInv' /\ RetryNeverOvertakes'
<1>1. GpuInv'
  BY AnswerGpu DEF OrderInv
<1>2. gpuLock \in Semaphores(Handlers) /\ gpuLock' = Release(gpuLock)
  BY DEF Answer, TypeOK
<1>3. Queue' = Queue
  BY <1>2, QueueLemma DEF Queue
<1>4. \A g \in Handlers : /\ handler'[g] = "queued" <=> handler[g] = "queued"
                          /\ handler'[g] = "forward" => handler[g] = "forward"
  BY DEF Answer, TypeOK
<1> QED
  BY <1>1, <1>3, <1>4, SameQueue, SameOrder DEF OrderInv

(* Nobody is left on the GPU or in its queue by a death of the service.    *)
LEMMA DieOrder ==
    ASSUME Die
    PROVE  GpuInv' /\ QueueInv' /\ RetryNeverOvertakes'
<1>1. \A h \in Handlers : handler'[h] \in {"none", "lost"}
  BY DEF Die
<1>2. OnGpu' = {}
  BY <1>1 DEF OnGpu
<1>3. Spare(gpuLock') = 1
  BY NewLemma DEF Die
<1>4. GpuInv'
  BY <1>2, <1>3, FS_EmptySet DEF GpuInv, GpuExclusive
<1>5. Len(Queue') = 0
  BY DEF Die, NewSemaphore, Sem, Queue
<1>6. QueueInv'
  BY <1>1, <1>5 DEF QueueInv
<1>7. RetryNeverOvertakes'
  BY <1>1 DEF RetryNeverOvertakes, Handlers
<1> QED
  BY <1>4, <1>6, <1>7

(* A step that touches neither the lock nor a handler's place.             *)
LEMMA ElsewhereOrder ==
    ASSUME OrderInv, UNCHANGED <<gpuLock, handler>>
    PROVE  GpuInv' /\ QueueInv' /\ RetryNeverOvertakes'
BY DEF OrderInv, GpuInv, GpuExclusive, OnGpu, QueueInv, Queue, RetryNeverOvertakes

(* Every step keeps the order.                                             *)
LEMMA OrderStep == TypeOK /\ OrderInv /\ [Next]_vars => OrderInv'
<1> SUFFICES ASSUME TypeOK, OrderInv, [Next]_vars PROVE OrderInv'
  OBVIOUS
<1>1. FreshInv'
  BY FreshStep DEF OrderInv
<1> SUFFICES GpuInv' /\ QueueInv' /\ RetryNeverOvertakes'
  BY <1>1 DEF OrderInv
<1>2. ASSUME NEW c \in Calls, CallStep(c) PROVE GpuInv' /\ QueueInv' /\ RetryNeverOvertakes'
  <2>1. CASE Send(c)
    BY <2>1, SendOrder
  <2>2. CASE UNCHANGED <<gpuLock, handler>>
    BY <2>2, ElsewhereOrder
  <2> QED
    BY <1>2, <2>1, <2>2 DEF CallStep, Refused, TimedOut, ConnectionReset, Receive, serverVars
<1>3. ASSUME NEW h \in Handlers, HandlerStep(h)
      PROVE  GpuInv' /\ QueueInv' /\ RetryNeverOvertakes'
  <2>1. CASE GpuGranted(h)
    BY <2>1, GrantOrder
  <2>2. CASE ForwardChunk(h) \/ OomRetry(h)
    BY <2>2, ElsewhereOrder DEF ForwardChunk, OomRetry
  <2>3. CASE ForwardDone(h) \/ ForwardFails(h)
    BY <2>3, AnswerOrder DEF ForwardDone, ForwardFails
  <2> QED
    BY <1>3, <2>1, <2>2, <2>3 DEF HandlerStep
<1>4. CASE Die
  BY <1>4, DieOrder
<1>5. CASE ComeBack \/ UNCHANGED vars
  BY <1>5, ElsewhereOrder DEF ComeBack, vars, serverVars
<1> QED
  BY <1>2, <1>3, <1>4, <1>5 DEF Next, Quiet

(* The GPU runs one forward pass at a time, and its lock is never lost:    *)
(* not to an out-of-memory error, an orphaned handler or a restart.        *)
THEOREM GpuIsExclusive == Spec => []GpuExclusive
<1>1. TypeOK /\ OrderInv => GpuExclusive
  BY DEF OrderInv, GpuInv
<1> QED
  BY <1>1, TypeInit, TypeStep, OrderInit, OrderStep, PTL DEF Spec

(* A retry never computes before or beside the orphan it replaces, for any *)
(* number of batches and attempts.                                         *)
THEOREM RetriesKeepOrder == Spec => []RetryNeverOvertakes
<1>1. TypeOK /\ OrderInv => RetryNeverOvertakes
  BY DEF OrderInv
<1> QED
  BY <1>1, TypeInit, TypeStep, OrderInit, OrderStep, PTL DEF Spec

-----------------------------------------------------------------------------
(* The safety part of BatchCall.                                           *)

(* A handler computes its batch once, as the last thing it does, before it *)
(* says 200; and only /classify says 501.                                  *)
WorkInv ==
    /\ \A h \in computed : handler[h] \in {"answered", "lost"}
    /\ \A h \in Handlers : /\ status[h] = 200 => h \in computed
                           /\ status[h] = 501 => h[1] \in Classifies

(* No work is done initially.                                              *)
LEMMA WorkInit == Init => WorkInv
BY DEF Init, WorkInv

(* A step that moves no handler and writes no answer.                      *)
LEMMA SameWork ==
    ASSUME WorkInv, UNCHANGED <<handler, status, computed>>
    PROVE  WorkInv'
BY DEF WorkInv

(* The answer of a handler on the GPU: 200 is said after the computation.  *)
LEMMA AnswerWork ==
    ASSUME TypeOK, WorkInv, NEW h \in Handlers, handler[h] = "forward",
           NEW code \in {200, 500, 503}, Answer(h, code)
    PROVE  WorkInv'
<1>1. \A g \in computed' : handler'[g] \in {"answered", "lost"}
  BY DEF TypeOK, WorkInv, Answer
<1>2. ASSUME NEW g \in Handlers
      PROVE  (status'[g] = 200 => g \in computed') /\ (status'[g] = 501 => g[1] \in Classifies)
  <2>1. CASE g = h
    BY <2>1 DEF TypeOK, Answer
  <2>2. CASE g # h
    BY <2>2 DEF TypeOK, WorkInv, Answer
  <2> QED
    BY <2>1, <2>2
<1> QED
  BY <1>1, <1>2 DEF WorkInv

(* Every step keeps the relation of answers and computations.              *)
LEMMA WorkStep == TypeOK /\ OrderInv /\ WorkInv /\ [Next]_vars => WorkInv'
<1> SUFFICES ASSUME TypeOK, OrderInv, WorkInv, [Next]_vars PROVE WorkInv'
  OBVIOUS
<1>1. ASSUME NEW c \in Calls, Send(c) PROVE WorkInv'
  <2> DEFINE h == Current(c)
  <2>1. h \in Handlers /\ h = <<c, attempt[c]>> /\ handler[h] = "none"
    BY <1>1, CurrentLemma DEF OrderInv, Send
  <2>2. computed' = computed /\ h \notin computed
    BY <1>1, <2>1 DEF WorkInv, Send
  <2>3. \A g \in computed' : handler'[g] \in {"answered", "lost"}
    BY <1>1, <2>1, <2>2 DEF TypeOK, WorkInv, Send
  <2>4. TurnedAway(c) \in {0, 401, 422, 501} /\ (TurnedAway(c) = 501 => c \in Classifies)
    BY DEF TurnedAway, TypeOK, Gates, Calls
  <2>5. ASSUME NEW g \in Handlers
        PROVE  (status'[g] = 200 => g \in computed') /\ (status'[g] = 501 => g[1] \in Classifies)
    <3>1. CASE g = h /\ TurnedAway(c) # 0
      <4>1. status'[g] = TurnedAway(c)
        BY <1>1, <2>1, <3>1 DEF Send, TypeOK
      <4> QED
        BY <2>1, <2>4, <3>1, <4>1
    <3>2. CASE ~(g = h /\ TurnedAway(c) # 0)
      <4>1. status'[g] = status[g]
        BY <1>1, <3>2 DEF Send, TypeOK
      <4> QED
        BY <2>2, <4>1 DEF WorkInv
    <3> QED
      BY <3>1, <3>2
  <2> QED
    BY <2>3, <2>5 DEF WorkInv
<1>2. ASSUME NEW c \in Calls, CallStep(c) PROVE WorkInv'
  BY <1>1, <1>2, SameWork
     DEF CallStep, Refused, TimedOut, ConnectionReset, Receive, serverVars
<1>3. ASSUME NEW h \in Handlers, GpuGranted(h) PROVE WorkInv'
  <2>1. h \notin computed
    BY <1>3 DEF WorkInv, GpuGranted
  <2> QED
    BY <1>3, <2>1 DEF TypeOK, WorkInv, GpuGranted
<1>4. ASSUME NEW h \in Handlers, HandlerStep(h) PROVE WorkInv'
  BY <1>3, <1>4, SameWork, AnswerWork
     DEF HandlerStep, ForwardChunk, OomRetry, ForwardDone, ForwardFails
<1>5. CASE Die
  BY <1>5 DEF TypeOK, WorkInv, Die
<1>6. CASE ComeBack \/ UNCHANGED vars
  BY <1>6, SameWork DEF ComeBack, vars, serverVars
<1> QED
  BY <1>2, <1>4, <1>5, <1>6 DEF Next, Quiet

(* The computations of a batch are counted by its attempts.                *)
LEMMA ComputedLemma ==
    ASSUME TypeOK, NEW c \in Calls
    PROVE  /\ IsFiniteSet(Computed(c)) /\ Cardinality(Computed(c)) \in Nat
           /\ \A h \in Handlers : h[1] = c /\ h \notin Computed(c) =>
                /\ Cardinality(Computed(c)) < MaxRetries
                /\ Cardinality(Computed(c) \cup {h}) = Cardinality(Computed(c)) + 1
<1> DEFINE mine == {c} \X (1..MaxRetries)
<1>1. IsFiniteSet({c}) /\ Cardinality({c}) = 1
  BY FS_Singleton
<1>2. IsFiniteSet(1..MaxRetries) /\ Cardinality(1..MaxRetries) = MaxRetries
  BY FS_Interval, ServiceAssumption
<1>3. IsFiniteSet(mine) /\ Cardinality(mine) = MaxRetries
  <2>1. IsFiniteSet(mine) /\ Cardinality(mine) = Cardinality({c}) * Cardinality(1..MaxRetries)
    BY <1>1, <1>2, FS_Product
  <2>2. Cardinality(mine) = 1 * MaxRetries
    BY <1>1, <1>2, <2>1
  <2>3. 1 * MaxRetries = MaxRetries
    BY ServiceAssumption
  <2> QED
    BY <2>1, <2>2, <2>3
<1>4. Computed(c) \subseteq mine
  BY DEF TypeOK, Computed, Handlers
<1>5. IsFiniteSet(Computed(c)) /\ Cardinality(Computed(c)) \in Nat
  BY <1>3, <1>4, FS_Subset, FS_CardinalityType
<1>6. ASSUME NEW h \in Handlers, h[1] = c, h \notin Computed(c)
      PROVE  /\ Cardinality(Computed(c)) < MaxRetries
             /\ Cardinality(Computed(c) \cup {h}) = Cardinality(Computed(c)) + 1
  <2>1. h \in mine
    BY <1>6 DEF Handlers
  <2>2. Cardinality(Computed(c) \cup {h}) = Cardinality(Computed(c)) + 1
    BY <1>5, <1>6, FS_AddElement
  <2>3. Computed(c) \cup {h} \subseteq mine
    BY <1>4, <2>1
  <2>4. Cardinality(Computed(c) \cup {h}) <= MaxRetries
    BY <1>3, <2>3, FS_Subset
  <2> QED
    BY <1>5, <2>2, <2>4, ServiceAssumption
<1> QED
  BY <1>5, <1>6

(* The initial states are initial states of BatchCall.                     *)
LEMMA BatchInit == Init => Abstract!Init
<1> SUFFICES ASSUME Init PROVE Abstract!Init
  OBVIOUS
<1>1. Verdicts = [c \in Calls |-> "open"]
  BY DEF Init, Verdicts
<1>2. \A c \in Calls : Computed(c) = {}
  BY DEF Init, Computed
<1>3. Work = [c \in Calls |-> 0]
  BY <1>2, FS_EmptySet DEF Work
<1> QED
  BY <1>1, <1>3 DEF Abstract!Init

(* A step that changes no computation and at most one verdict.             *)
LEMMA DecideLemma ==
    ASSUME TypeOK, computed' = computed, NEW c \in Calls, call[c] \in {"ready", "waiting"},
           NEW answer \in {"ready", "waiting", "ok", "failed", "unsupported"},
           call' = [call EXCEPT ![c] = answer],
           answer = "ok" => Computed(c) # {},
           answer = "unsupported" => c \in Classifies
    PROVE  [Abstract!Next]_(Abstract!batchVars)
<1>1. Work' = Work
  BY DEF Work, Computed
<1>2. CASE answer \in {"ready", "waiting"}
  <2>1. Verdicts' = Verdicts
    BY <1>2 DEF TypeOK, Verdicts
  <2> QED
    BY <1>1, <2>1 DEF Abstract!batchVars
<1>3. CASE answer \in {"ok", "failed", "unsupported"}
  <2>1. Verdicts' = [Verdicts EXCEPT ![c] = answer] /\ Verdicts[c] = "open"
    <3>1. \A d \in Calls : call'[d] = IF d = c THEN answer ELSE call[d]
      BY DEF TypeOK
    <3>2. \A d \in Calls : Verdicts'[d] = IF d = c THEN answer ELSE Verdicts[d]
      BY <1>3, <3>1 DEF Verdicts
    <3> QED
      BY <3>2 DEF Verdicts
  <2>2. IsFiniteSet(Computed(c)) /\ Cardinality(Computed(c)) \in Nat
    BY ComputedLemma
  <2>3. answer = "ok" => Work[c] > 0
    BY <2>2, FS_EmptySet DEF Work
  <2>4. Abstract!Decide(c, answer)
    BY <1>1, <2>1, <2>3 DEF Abstract!Decide
  <2> QED
    BY <1>3, <2>4 DEF Abstract!Next, Abstract!Decided
<1> QED
  BY <1>2, <1>3

(* A handler computes its batch: one more computation of it.               *)
LEMMA ComputeLemma ==
    ASSUME TypeOK, WorkInv, NEW h \in Handlers, ForwardDone(h)
    PROVE  [Abstract!Next]_(Abstract!batchVars)
<1> DEFINE c == h[1]
<1>1. c \in Calls
  BY DEF Handlers
<1>2. computed' = computed \cup {h} /\ Verdicts' = Verdicts
  BY DEF ForwardDone, Answer, callVars, Verdicts
<1>3. h \notin Computed(c)
  BY DEF ForwardDone, WorkInv, Computed
<1>4. /\ Cardinality(Computed(c)) < MaxRetries
      /\ Cardinality(Computed(c) \cup {h}) = Cardinality(Computed(c)) + 1
  BY <1>1, <1>3, ComputedLemma
<1>5. Computed(c)' = Computed(c) \cup {h} /\ \A d \in Calls \ {c} : Computed(d)' = Computed(d)
  BY <1>2 DEF Computed
<1>6. Work' = [Work EXCEPT ![c] = @ + 1] /\ Work[c] < MaxRetries
  BY <1>1, <1>4, <1>5 DEF Work
<1> QED
  BY <1>1, <1>2, <1>6 DEF Abstract!Next, Abstract!Compute

(* Every step is one of BatchCall or changes nothing that it sees.         *)
LEMMA BatchStep ==
    TypeOK /\ OrderInv /\ WorkInv /\ [Next]_vars => [Abstract!Next]_(Abstract!batchVars)
<1> SUFFICES ASSUME TypeOK, OrderInv, WorkInv, [Next]_vars
             PROVE  [Abstract!Next]_(Abstract!batchVars)
  OBVIOUS
<1>1. ASSUME UNCHANGED <<call, computed>> PROVE [Abstract!Next]_(Abstract!batchVars)
  BY <1>1 DEF Abstract!batchVars, Verdicts, Work, Computed
<1>2. ASSUME NEW c \in Calls, TransientFailure(c), computed' = computed,
             call[c] \in {"ready", "waiting"}
      PROVE  [Abstract!Next]_(Abstract!batchVars)
  <2>1. PICK answer \in {"ready", "failed"} : call' = [call EXCEPT ![c] = answer]
    BY <1>2 DEF TransientFailure
  <2> QED
    BY <1>2, <2>1, DecideLemma
<1>3. ASSUME NEW c \in Calls, CallStep(c) PROVE [Abstract!Next]_(Abstract!batchVars)
  <2>1. computed' = computed /\ call[c] \in {"ready", "waiting"}
    BY <1>3 DEF CallStep, Send, Refused, TimedOut, ConnectionReset, Receive, serverVars
  <2>2. CASE TransientFailure(c)
    BY <1>2, <2>1, <2>2
  <2>3. CASE Send(c)
    <3>1. call' = [call EXCEPT ![c] = "waiting"]
      BY <2>3 DEF Send
    <3> QED
      BY <2>1, <3>1, DecideLemma
  <2>4. CASE ConnectionReset(c)
    <3>1. call' = [call EXCEPT ![c] = "failed"]
      BY <2>4 DEF ConnectionReset
    <3> QED
      BY <2>1, <3>1, DecideLemma
  <2>5. CASE Receive(c) /\ ~TransientFailure(c)
    <3>1. PICK answer \in {"ok", "failed", "unsupported"} :
             /\ call' = [call EXCEPT ![c] = answer]
             /\ answer = "ok" => status[Current(c)] = 200
             /\ answer = "unsupported" => status[Current(c)] = 501
      BY <2>5 DEF Receive
    <3>2. Current(c) \in Handlers /\ Current(c)[1] = c
      BY CurrentLemma DEF OrderInv
    <3>3. answer = "ok" => Computed(c) # {}
      BY <3>1, <3>2 DEF WorkInv, Computed
    <3>4. answer = "unsupported" => c \in Classifies
      BY <3>1, <3>2 DEF WorkInv
    <3> QED
      BY <2>1, <3>1, <3>3, <3>4, DecideLemma
  <2> QED
    BY <1>3, <2>2, <2>3, <2>4, <2>5 DEF CallStep, Refused, TimedOut
<1>4. ASSUME NEW h \in Handlers, HandlerStep(h) PROVE [Abstract!Next]_(Abstract!batchVars)
  <2>1. CASE ForwardDone(h)
    BY <2>1, ComputeLemma
  <2>2. CASE ~ForwardDone(h)
    <3>1. UNCHANGED <<call, computed>>
      BY <1>4, <2>2 DEF HandlerStep, GpuGranted, ForwardChunk, OomRetry, ForwardFails, Answer,
                        callVars
    <3> QED
      BY <1>1, <3>1
  <2> QED
    BY <2>1, <2>2
<1>5. CASE Die \/ ComeBack \/ UNCHANGED vars
  BY <1>1, <1>5 DEF Die, ComeBack, vars, serverVars, callVars
<1> QED
  BY <1>3, <1>4, <1>5 DEF Next, Quiet

(* Whatever times out, dies or is retried, a verdict is final, "ok" means  *)
(* computed work, "unsupported" is said of classifications only, and a     *)
(* batch costs at most MaxRetries computations.                            *)
THEOREM BatchCallSafety == Spec => Abstract!Safety
BY TypeInit, TypeStep, OrderInit, OrderStep, WorkInit, WorkStep, BatchInit, BatchStep, PTL
   DEF Spec, Abstract!Safety
=============================================================================
