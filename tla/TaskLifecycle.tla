--------------------------- MODULE TaskLifecycle ----------------------------
(***************************************************************************)
(* What the task table promises, seen together with those who execute      *)
(* tasks.  An executor is handed tasks while they are queued, accepts what *)
(* it was handed one at a time, and ends what it accepted, each once; it   *)
(* may forget a task at any time.  Operators queue a task again whenever   *)
(* they like, so that several executors can hold it; an executor that was  *)
(* overtaken still moves the task as if it were alone.  No message, batch  *)
(* or process is visible.                                                  *)
(***************************************************************************)
CONSTANTS Tasks, Executors

VARIABLES state,    \* of each task
          waiting,  \* tasks each executor was handed and has not accepted
          working   \* tasks each executor accepted and has not ended

vars == <<state, waiting, working>>

Init == /\ state = [t \in Tasks |-> "none"]
        /\ waiting = [x \in Executors |-> {}]
        /\ working = [x \in Executors |-> {}]

Free(x) == waiting[x] = {} /\ working[x] = {}

Queue(t) == /\ state' = [state EXCEPT ![t] = "queued"]
            /\ UNCHANGED <<waiting, working>>

\* An operator has an executor start at once.
QueueFor(x, t) == /\ Free(x)
                  /\ state' = [state EXCEPT ![t] = "queued"]
                  /\ waiting' = [waiting EXCEPT ![x] = {t}]
                  /\ UNCHANGED working

Take(x) == /\ Free(x)
           /\ \E T \in SUBSET {t \in Tasks : state[t] = "queued"} :
                waiting' = [waiting EXCEPT ![x] = T]
           /\ UNCHANGED <<state, working>>

\* An executor that does not learn that it was accepted forgets the task.
Accept(x, t) == /\ t \in waiting[x] /\ working[x] = {}
                /\ state' = [state EXCEPT ![t] = "running"]
                /\ waiting' = [waiting EXCEPT ![x] = @ \ {t}]
                /\ \/ working' = [working EXCEPT ![x] = {t}]
                   \/ UNCHANGED working

Refuse(x, t) == /\ t \in waiting[x]
                /\ state' = [state EXCEPT ![t] = "failed"]
                /\ waiting' = [waiting EXCEPT ![x] = @ \ {t}]
                /\ UNCHANGED working

End(x, t) == /\ t \in working[x]
             /\ \E outcome \in {"completed", "failed"} :
                  state' = [state EXCEPT ![t] = outcome]
             /\ working' = [working EXCEPT ![x] = {}]
             /\ UNCHANGED waiting

Forget(x) == /\ \E T \in SUBSET waiting[x] : waiting' = [waiting EXCEPT ![x] = T]
             /\ \/ working' = [working EXCEPT ![x] = {}]
                \/ UNCHANGED working
             /\ UNCHANGED state

Next == \/ \E t \in Tasks : Queue(t)
        \/ \E x \in Executors :
             \/ Take(x) \/ Forget(x)
             \/ \E t \in Tasks : QueueFor(x, t) \/ Accept(x, t) \/ Refuse(x, t) \/ End(x, t)

Spec == Init /\ [][Next]_vars
=============================================================================
