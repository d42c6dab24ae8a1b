------------------------------ MODULE LlmGate ------------------------------
(***************************************************************************)
(* Admission control of the model calls of one process                     *)
(* (app/services/llm_gate.py).  Every call holds a permit of `total`; a    *)
(* background call takes one of `background` first, so that some permits   *)
(* of total are only ever reachable by interactive calls.  A wait that     *)
(* runs out raises LlmBusy and gives back what the call holds.             *)
(***************************************************************************)
EXTENDS Integers, FiniteSets

CONSTANTS
    Callers,          \* threads that call the model
    TotalSetting,     \* llm_max_concurrent_self_hosted or _third_party
    ReservedSetting   \* llm_interactive_reserved_slots

ASSUME GateAssumption ==
    IsFiniteSet(Callers) /\ TotalSetting \in Int /\ ReservedSetting \in Int

\* _Gate.__init__ keeps both semaphores usable whatever the settings say.
AtLeast(x, low) == IF x < low THEN low ELSE x
AtMost(x, high) == IF x > high THEN high ELSE x

Cap      == AtLeast(TotalSetting, 1)
Reserved == AtMost(AtLeast(ReservedSetting, 0), Cap - 1)

VARIABLES
    pc,               \* where each thread is in slot()
    tier,             \* the tier of its current call
    totalFree,        \* permits left in total
    backgroundFree    \* permits left in background

vars == <<pc, tier, totalFree, backgroundFree>>

Init ==
    /\ pc = [c \in Callers |-> "out"]
    /\ tier = [c \in Callers |-> "interactive"]
    /\ totalFree = Cap
    /\ backgroundFree = Cap - Reserved

Goto(c, where) == pc' = [pc EXCEPT ![c] = where]

Enter(c) ==
    /\ pc[c] = "out"
    /\ \/ tier' = [tier EXCEPT ![c] = "interactive"] /\ Goto(c, "total")
       \/ tier' = [tier EXCEPT ![c] = "background"] /\ Goto(c, "background")
    /\ UNCHANGED <<totalFree, backgroundFree>>

\* Slip: a background call that goes straight for total.
Slip_AcquireBackground(c) ==
    /\ pc[c] = "background"
    /\ Goto(c, "total")
    /\ UNCHANGED <<tier, totalFree, backgroundFree>>

AcquireBackground(c) ==
    /\ pc[c] = "background" /\ backgroundFree > 0
    /\ backgroundFree' = backgroundFree - 1
    /\ Goto(c, "total")
    /\ UNCHANGED <<tier, totalFree>>

AcquireTotal(c) ==
    /\ pc[c] = "total" /\ totalFree > 0
    /\ totalFree' = totalFree - 1
    /\ Goto(c, "calling")
    /\ UNCHANGED <<tier, backgroundFree>>

\* A background call leaves through the release of its background permit.
Leave(c) == Goto(c, IF tier[c] = "background" THEN "unwind" ELSE "out")

\* Slip: LlmBusy raised past the finally of the background permit.
Slip_Busy(c) ==
    /\ pc[c] \in {"background", "total"}
    /\ Goto(c, "out")
    /\ UNCHANGED <<tier, totalFree, backgroundFree>>

\* Slip: the background permit waited for without a timeout.
Slip_Untimed(c) ==
    /\ pc[c] = "total" /\ Leave(c)
    /\ UNCHANGED <<tier, totalFree, backgroundFree>>

\* LlmBusy: the wait for a permit ran out.
Busy(c) ==
    /\ \/ pc[c] = "background" /\ Goto(c, "out")
       \/ pc[c] = "total" /\ Leave(c)
    /\ UNCHANGED <<tier, totalFree, backgroundFree>>

\* The model call returned or raised.
Called(c) ==
    /\ pc[c] = "calling"
    /\ totalFree' = totalFree + 1
    /\ Leave(c)
    /\ UNCHANGED <<tier, backgroundFree>>

Unwind(c) ==
    /\ pc[c] = "unwind"
    /\ backgroundFree' = backgroundFree + 1
    /\ Goto(c, "out")
    /\ UNCHANGED <<tier, totalFree>>

Next == \E c \in Callers :
    \/ Enter(c) \/ AcquireBackground(c) \/ AcquireTotal(c)
    \/ Busy(c) \/ Called(c) \/ Unwind(c)

Spec == Init /\ [][Next]_vars

\* A model call has a timeout of its own, and a waiting thread is either
\* admitted or told to give up.
Fairness == \A c \in Callers :
    /\ WF_vars(Called(c)) /\ WF_vars(Unwind(c))
    /\ WF_vars(AcquireBackground(c) \/ AcquireTotal(c) \/ Busy(c))

FairSpec == Spec /\ Fairness

-----------------------------------------------------------------------------
InTotal == {c \in Callers : pc[c] = "calling"}
InBackground == {c \in Callers : /\ tier[c] = "background"
                                 /\ pc[c] \in {"total", "calling", "unwind"}}

\* Types of the state; a semaphore's count never passes its bounds.
TypeOK ==
    /\ pc \in [Callers -> {"out", "background", "total", "calling", "unwind"}]
    /\ tier \in [Callers -> {"interactive", "background"}]
    /\ totalFree \in 0..Cap
    /\ backgroundFree \in 0..(Cap - Reserved)

\* No permit is lost or given back twice, on any way out of slot(): the
\* release of a BoundedSemaphore above its bound would raise into the caller.
PermitsConserved ==
    /\ totalFree = Cap - Cardinality(InTotal)
    /\ backgroundFree = (Cap - Reserved) - Cardinality(InBackground)

\* A pile of background calls never takes the reserved slots: while fewer
\* interactive calls than the reserve are in flight, another gets in at once.
Headroom ==
    Cardinality({c \in InTotal : tier[c] = "interactive"}) < Reserved
    => totalFree > 0

\* The two semaphores never block each other: when callers wait and nobody
\* holds a permit of total, one of the waiting callers can go on.
NoGridlock ==
    (\E c \in Callers : pc[c] \in {"background", "total"})
    => \/ \E c \in Callers : pc[c] \in {"calling", "unwind"}
       \/ \E c \in Callers : \/ pc[c] = "total" /\ totalFree > 0
                             \/ pc[c] = "background" /\ backgroundFree > 0

\* Every call leaves slot(): served or turned away, never left waiting.
EveryCallReturns == \A c \in Callers : pc[c] # "out" ~> pc[c] = "out"
=============================================================================
