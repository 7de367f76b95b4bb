--------------------------- MODULE CryptoTaskQueue ---------------------------
(***************************************************************************)
(* services/crypto_task_queue.py: the pool of worker threads that runs the  *)
(* cryptographic work of the tabs and returns every result to the thread of *)
(* the window.                                                              *)
(*                                                                          *)
(* A worker does not run a task itself: to enforce a timeout it hands the   *)
(* task to a second pool of one thread, which all workers share and which   *)
(* the first of them creates without a lock, and waits for the result.  A   *)
(* task that timed out is not cancelled.  What a task computes, and whether *)
(* it ever ends, is left open.                                              *)
(***************************************************************************)
EXTENDS Integers, Sequences, FiniteSets

CONSTANTS Workers,   \* the worker threads (max_workers)
          MaxTasks   \* how many tasks are submitted

ASSUME WorkersAssumption == IsFiniteSet(Workers) /\ Workers # {}
ASSUME MaxTasksAssumption == MaxTasks \in Nat

VARIABLES is_running,       \* the queue accepts tasks
          submitted,        \* _task_count; the tasks are 1..submitted
          waiting,          \* the tasks no worker has taken yet
          worker,           \* what each worker is doing, and for which task
          inner_executor,   \* the attribute _inner_executor: 0, or the number of the pool it refers to
          inner,            \* the inner pools made so far: the tasks of each, and the one it runs
          result,           \* of the tasks whose function has ended
          after,            \* the callbacks root.after has been given
          root_alive,       \* the window has not been destroyed
          answered          \* the tasks whose callback has run, and what it was told

queueVars == <<is_running, submitted, waiting, worker, inner_executor, inner, result, after,
               root_alive, answered>>

Tasks == 1 .. MaxTasks
Idle == [pc |-> "idle", task |-> 0]
Answer(t, r) == [event |-> "answer", task |-> t, result |-> r]

\* __init__ and start
QueueInit ==
  /\ is_running = TRUE /\ root_alive = TRUE
  /\ submitted = 0 /\ waiting = <<>>
  /\ worker = [w \in Workers |-> Idle]
  /\ inner_executor = 0 /\ inner = <<>>
  /\ result = [t \in Tasks |-> "none"]
  /\ after = <<>>
  /\ answered = [t \in Tasks |-> "no"]

-----------------------------------------------------------------------------
\* submit: the number of the task is submitted'.  The priority is not used.
Submit ==
  /\ is_running /\ submitted < MaxTasks
  /\ submitted' = submitted + 1
  /\ waiting' = Append(waiting, submitted + 1)
  /\ UNCHANGED <<is_running, worker, inner_executor, inner, result, after, root_alive, answered>>

\* A worker of the pool takes the oldest task; shutdown(wait=False) leaves the tasks queued.
TakeTask(w) ==
  /\ worker[w].pc = "idle" /\ waiting # <<>>
  /\ worker' = [worker EXCEPT ![w] = [pc |-> "check", task |-> Head(waiting)]]
  /\ waiting' = Tail(waiting)
  /\ UNCHANGED <<is_running, submitted, inner_executor, inner, result, after, root_alive, answered>>

\* _execute_with_timeout: is there an inner pool?
CheckInner(w) ==
  /\ worker[w].pc = "check"
  /\ worker' = [worker EXCEPT ![w].pc = IF inner_executor = 0 THEN "create" ELSE "submit"]
  /\ UNCHANGED <<is_running, submitted, waiting, inner_executor, inner, result, after, root_alive, answered>>

\* The pool is made without a lock: a pool made in the meantime is replaced, and keeps its tasks.
CreateInner(w) ==
  /\ worker[w].pc = "create"
  /\ inner' = Append(inner, [queue |-> <<>>, running |-> 0])
  /\ inner_executor' = Len(inner) + 1
  /\ worker' = [worker EXCEPT ![w].pc = "submit"]
  /\ UNCHANGED <<is_running, submitted, waiting, result, after, root_alive, answered>>

\* inner_executor.submit; the clock of the timeout runs from here.
SubmitInner(w) ==
  /\ worker[w].pc = "submit"
  /\ inner' = [inner EXCEPT ![inner_executor].queue = Append(@, worker[w].task)]
  /\ worker' = [worker EXCEPT ![w].pc = "wait"]
  /\ UNCHANGED <<is_running, submitted, waiting, inner_executor, result, after, root_alive, answered>>

\* The one thread of an inner pool begins its oldest task, also one that has timed out.
StartTask(e) ==
  /\ inner[e].running = 0 /\ inner[e].queue # <<>>
  /\ inner' = [inner EXCEPT ![e] = [queue |-> Tail(@.queue), running |-> Head(@.queue)]]
  /\ UNCHANGED <<is_running, submitted, waiting, worker, inner_executor, result, after, root_alive, answered>>

\* The function ends, by returning or by an exception, also when nobody waits any longer.
EndTask(e, r) ==
  /\ inner[e].running # 0
  /\ result' = [result EXCEPT ![inner[e].running] = r]
  /\ inner' = [inner EXCEPT ![e].running = 0]
  /\ UNCHANGED <<is_running, submitted, waiting, worker, inner_executor, after, root_alive, answered>>

\* _on_done and _dispatch_to_main.  Once the window is destroyed root.after raises and the callback
\* is called on the worker's thread, where its first use of a widget raises.
OnDone(w, r) ==
  /\ IF root_alive
     THEN after' = Append(after, Answer(worker[w].task, r)) /\ UNCHANGED answered
     ELSE answered' = [answered EXCEPT ![worker[w].task] = "lost"] /\ UNCHANGED after
  /\ worker' = [worker EXCEPT ![w] = Idle]
  /\ UNCHANGED <<is_running, submitted, waiting, inner_executor, inner, result, root_alive>>

\* inner_future.result returns or raises what the function raised.
Deliver(w) ==
  /\ worker[w].pc = "wait" /\ result[worker[w].task] # "none"
  /\ OnDone(w, result[worker[w].task])

\* Mutant of TimeOut: a worker waits for as long as the thread of the inner pool has other work.
TimeOutWhenRunning(w) ==
  /\ worker[w].pc = "wait" /\ result[worker[w].task] = "none"
  /\ \E e \in DOMAIN inner : inner[e].running = worker[w].task
  /\ OnDone(w, "timeout")

\* inner_future.result raises FuturesTimeoutError: the task is neither cancelled nor removed.
TimeOut(w) ==
  /\ worker[w].pc = "wait" /\ result[worker[w].task] = "none"
  /\ OnDone(w, "timeout")

\* The window's thread runs the oldest callback; what it does is up to the tab.
RunAfter ==
  /\ root_alive /\ after # <<>>
  /\ after' = Tail(after)
  /\ answered' = IF Head(after).event = "answer"
                 THEN [answered EXCEPT ![Head(after).task] = Head(after).result] ELSE answered
  /\ UNCHANGED <<is_running, submitted, waiting, worker, inner_executor, inner, result, root_alive>>

\* drain, on the window's thread, which runs no callback meanwhile, until no task is
\* pending or five seconds have passed; then shutdown(wait=False).
Shutdown ==
  /\ is_running
  /\ is_running' = FALSE
  /\ UNCHANGED <<submitted, waiting, worker, inner_executor, inner, result, after, root_alive, answered>>

WorkerStep(w) == TakeTask(w) \/ CheckInner(w) \/ CreateInner(w) \/ SubmitInner(w) \/ Deliver(w) \/ TimeOut(w)
=============================================================================
