--------------------------- MODULE AsyncSemaphore ---------------------------
(***************************************************************************)
(* asyncio.Semaphore as soc_agent uses it (LLMClient._semaphore, entered   *)
(* with "async with").  The class belongs to the Python standard library   *)
(* (3.11 or later), not to this repository; it is modelled from its use.   *)
(*                                                                         *)
(* A semaphore is a record: `permits` is the free count, `waiters` the     *)
(* FIFO of tasks suspended in acquire(), and the first `granted` of them   *)
(* have been handed a permit but have not been resumed by the event loop.  *)
(* A granted waiter still blocks newcomers: locked() holds while any       *)
(* waiter is queued.                                                       *)
(***************************************************************************)
EXTENDS Naturals, Sequences

(* The semaphores whose waiters are drawn from T.                          *)
Semaphores(T) ==
    {s \in [permits : Nat, waiters : Seq(T), granted : Nat] : s.granted <= Len(s.waiters)}

(* The permits that no running task owns.                                  *)
Spare(s) == s.permits + s.granted

Sem(p, w, g) == [permits |-> p, waiters |-> w, granted |-> g]

NewSemaphore(n) == Sem(n, <<>>, 0)

Locked(s) == s.permits = 0 \/ s.waiters # <<>>

(* acquire(): take a permit without yielding, or join the queue.           *)
Acquire(s, t) ==
    IF Locked(s) THEN Sem(s.permits, Append(s.waiters, t), s.granted)
                 ELSE Sem(s.permits - 1, s.waiters, s.granted)

(* _wake_up_next(): hand one free permit to the first ungranted waiter.    *)
WakeNext(s) ==
    IF s.granted < Len(s.waiters)
    THEN Sem(s.permits - 1, s.waiters, s.granted + 1)
    ELSE s

Release(s) == WakeNext(Sem(s.permits + 1, s.waiters, s.granted))

(* The oldest granted waiter leaves acquire(), owning its permit, and      *)
(* passes on any permit that became free while newcomers were held back.   *)
CanResume(s, t) == s.granted > 0 /\ Head(s.waiters) = t

Leave(s) == Sem(s.permits, Tail(s.waiters), s.granted - 1)

Resumed(s) == IF s.permits > 0 THEN WakeNext(Leave(s)) ELSE Leave(s)

(* Cancelling every suspended waiter: the ungranted ones leave the queue.  *)
CancelWaiters(s) == Sem(s.permits, SubSeq(s.waiters, 1, s.granted), s.granted)

(* A granted waiter that is resumed with CancelledError gives its permit   *)
(* back before it unwinds.                                                 *)
ResumedCancelled(s) == Release(Leave(s))
=============================================================================
