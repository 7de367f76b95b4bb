---------------------------- MODULE Desktop_proof ----------------------------
(***************************************************************************)
(* Proofs about Desktop, for any number of friends, messages, workers and   *)
(* tasks and any bounds: a text is encrypted only for the friend it was     *)
(* typed for, and once; and the mode shown beside a plaintext is that of    *)
(* its message.                                                             *)
(*                                                                          *)
(* All three rest on the discipline of the queue: a task is in one place of *)
(* the two chains                                                           *)
(*    waiting, a worker, after, answered             (its answer)           *)
(*    waiting, a worker, an inner pool, its result   (its function)         *)
(* at a time, so that it is run once and answered once, and an answer that  *)
(* is not a timeout is the function's result.                               *)
(***************************************************************************)
EXTENDS Desktop, SequenceTheorems, TLAPS

Results == {"none", "ok", "error"}
Answers == {"no", "ok", "error", "timeout", "lost"}
Callbacks == [event : {"answer", "friends"}, task : Nat, result : {"none", "ok", "error", "timeout"}]
Pools == [queue : Seq(Nat), running : Nat]
Counters == {"idle", "check", "create", "submit", "wait"}

QueueTypes ==
  /\ submitted \in 0 .. MaxTasks
  /\ waiting \in Seq(Nat)
  /\ worker \in [Workers -> [pc : Counters, task : Nat]]
  /\ inner \in Seq(Pools)
  /\ inner_executor \in 0 .. Len(inner)
  /\ result \in [Tasks -> Results]
  /\ after \in Seq(Callbacks)
  /\ root_alive \in BOOLEAN
  /\ answered \in [Tasks -> Answers]

\* The tasks that a worker has taken.
Taken == 1 .. submitted - Len(waiting)

\* Tasks wait in the order of their numbers, and those that wait are the last ones.
WaitingOrder ==
  /\ Len(waiting) <= submitted
  /\ \A i \in 1 .. Len(waiting) : waiting[i] = submitted - Len(waiting) + i

\* What a worker has is a task that is taken and not answered, and no other worker has it.
Has(w) == worker[w].pc # "idle"
WorkersApart ==
  \A w \in Workers :
    Has(w) => /\ worker[w].task \in Taken
              /\ answered[worker[w].task] = "no"
              /\ \A v \in Workers : Has(v) /\ v # w => worker[v].task # worker[w].task

\* An answer on its way is the only one to its task, which no worker has.
IsAnswer(i) == after[i].event = "answer"
AnswersApart ==
  \A i \in 1 .. Len(after) :
    IsAnswer(i) => /\ after[i].task \in Taken
                   /\ answered[after[i].task] = "no"
                   /\ \A w \in Workers : Has(w) => worker[w].task # after[i].task
                   /\ \A j \in 1 .. Len(after) : IsAnswer(j) /\ j # i => after[j].task # after[i].task

\* What a tab is told is that the task timed out, or what its function returned.
AnswersTrue ==
  /\ \A i \in 1 .. Len(after) :
       IsAnswer(i) => \/ after[i].result = "timeout"
                      \/ after[i].result \in {"ok", "error"} /\ result[after[i].task] = after[i].result
  /\ \A t \in Tasks : answered[t] \in {"ok", "error"} => result[t] = answered[t]
  /\ \A t \in Tasks : answered[t] = "lost" => ~root_alive

\* Only tasks that were taken have ended or been answered.
OnlyTaken == \A t \in Tasks : result[t] # "none" \/ answered[t] # "no" => t \in Taken

\* A task that an inner pool runs, or keeps, has not ended, and is there only once.
RunningApart ==
  \A e \in 1 .. Len(inner) :
    inner[e].running # 0 =>
      /\ inner[e].running \in Taken
      /\ result[inner[e].running] = "none"
      /\ \A d \in 1 .. Len(inner) : d # e => inner[d].running # inner[e].running

QueuedApart ==
  \A e \in 1 .. Len(inner) : \A i \in 1 .. Len(inner[e].queue) :
    /\ inner[e].queue[i] \in Taken
    /\ result[inner[e].queue[i]] = "none"
    /\ \A d \in 1 .. Len(inner) :
         /\ inner[d].running # inner[e].queue[i]
         /\ \A j \in 1 .. Len(inner[d].queue) :
              inner[d].queue[j] = inner[e].queue[i] => d = e /\ j = i

\* A task that a worker has not handed to an inner pool yet.
Holds(w) == worker[w].pc \in {"check", "create", "submit"}
HeldApart ==
  \A w \in Workers :
    Holds(w) => /\ result[worker[w].task] = "none"
                /\ worker[w].pc = "submit" => inner_executor # 0
                /\ \A e \in 1 .. Len(inner) :
                     /\ inner[e].running # worker[w].task
                     /\ \A i \in 1 .. Len(inner[e].queue) : inner[e].queue[i] # worker[w].task

QueueInv ==
  /\ QueueTypes /\ WaitingOrder /\ WorkersApart /\ AnswersApart /\ AnswersTrue
  /\ OnlyTaken /\ RunningApart /\ QueuedApart /\ HeldApart

-----------------------------------------------------------------------------
(* The tabs *)

WorkType == [kind : {"none", "send", "receive", "file"}, text : Nat \cup Message, to : Recipient]

TabTypes ==
  /\ work \in [Tasks -> WorkType]
  /\ wroteFor \in Seq(Recipient)
  /\ friend \in Recipient
  /\ box \in 0 .. Len(wroteFor)
  /\ drafts \in [Recipient -> 0 .. Len(wroteFor)]
  /\ busy \in BOOLEAN
  /\ MainRuns => root_alive

Sent == {t \in 1 .. submitted : work[t].kind = "send"}

\* What the box, the drafts and the tasks have is for the friend it was typed for.
ForWhom(x, f) == x # 0 => wroteFor[x] = f \/ x \in moved
TextsPlaced ==
  /\ ForWhom(box, friend)
  /\ \A f \in Recipient : f # friend => ForWhom(drafts[f], f)
  /\ \A t \in Sent : work[t].text \in 1 .. Len(wroteFor) /\ ForWhom(work[t].text, work[t].to)

\* Only functions that returned a ciphertext encrypted a text.
EncryptedSent == \A t \in encrypted : t \in Sent /\ result[t] = "ok"

Spared(x) == x \in moved \cup hasted

\* A text is in one place: the box, or the draft of one friend that is not chosen.
OnePlace ==
  \A f \in Recipient : f # friend /\ drafts[f] # 0 /\ drafts[f] \notin moved =>
    /\ drafts[f] # box
    /\ \A g \in Recipient : g # friend /\ g # f => drafts[g] # drafts[f]

\* While a text is being encrypted the tab is busy, with that text in the box.
BusyWithIt == \A t \in Sent : answered[t] = "no" => work[t].text \in hasted \/ (busy /\ box = work[t].text)

\* A text that was sent is gone.
SentIsGone ==
  \A t \in Sent : answered[t] = "ok" /\ ~Spared(work[t].text) =>
    /\ box # work[t].text
    /\ \A f \in Recipient : f # friend => drafts[f] # work[t].text

\* Of two tasks with one text, one was answered by an error or a timeout.
GaveUp(t) == answered[t] \in {"error", "timeout"}
OneTryLeft ==
  \A t, u \in Sent : t # u /\ work[t].text = work[u].text /\ ~Spared(work[t].text) => GaveUp(t) \/ GaveUp(u)

\* The mode that the service noted is that of every decryption that began, was not
\* answered and was not overtaken.
Begun(t) == result[t] # "none" \/ \E e \in 1 .. Len(inner) : inner[e].running = t
ModeNoted ==
  \A t \in 1 .. submitted :
    work[t].kind = "receive" /\ answered[t] = "no" /\ Begun(t) /\ t \notin overtaken
      => last_mode \in {None, work[t].text}

SendInv ==
  /\ TabTypes /\ TextsPlaced /\ EncryptedSent /\ OnePlace /\ BusyWithIt /\ SentIsGone /\ OneTryLeft

ShowInv == ModeNoted /\ LabelIsTrue

IInv == QueueInv /\ SendInv /\ ShowInv

-----------------------------------------------------------------------------
(* The queue *)

LEMMA QueueInitially == QueueInit => QueueInv
  <1> SUFFICES ASSUME QueueInit PROVE QueueInv
    OBVIOUS
  <1>1. QueueTypes
    BY MaxTasksAssumption DEF QueueInit, QueueTypes, Idle, Counters, Answers, Results
  <1>2. WaitingOrder /\ OnlyTaken /\ AnswersTrue /\ AnswersApart
    BY DEF QueueInit, WaitingOrder, OnlyTaken, AnswersTrue, AnswersApart
  <1>3. WorkersApart /\ HeldApart
    BY DEF QueueInit, WorkersApart, HeldApart, Has, Holds, Idle
  <1>4. RunningApart /\ QueuedApart
    BY DEF QueueInit, RunningApart, QueuedApart
  <1> QED
    BY <1>1, <1>2, <1>3, <1>4 DEF QueueInv

LEMMA SubmitKeeps ==
  ASSUME QueueInv, Submit PROVE QueueInv'
  <1> USE MaxTasksAssumption
  <1>1. QueueTypes'
    BY DEF QueueInv, QueueTypes, Submit
  <1>2. /\ Len(waiting') = Len(waiting) + 1
        /\ \A i \in 1 .. Len(waiting) : waiting'[i] = waiting[i]
        /\ waiting'[Len(waiting) + 1] = submitted + 1
    BY DEF QueueInv, QueueTypes, Submit
  <1>3. WaitingOrder' /\ Taken' = Taken
    <2>1. /\ submitted \in Nat /\ submitted' = submitted + 1 /\ Len(waiting) \in Nat
          /\ Len(waiting) <= submitted
          /\ \A i \in 1 .. Len(waiting) : waiting[i] = submitted - Len(waiting) + i
      BY DEF QueueInv, QueueTypes, WaitingOrder, Submit
    <2>2. submitted' - Len(waiting') = submitted - Len(waiting)
      BY <1>2, <2>1
    <2>3. \A i \in 1 .. Len(waiting') : waiting'[i] = submitted - Len(waiting) + i
      BY <1>2, <2>1
    <2> QED
      BY <1>2, <2>1, <2>2, <2>3 DEF WaitingOrder, Taken
  <1>4. WorkersApart'
    BY <1>3 DEF QueueInv, WorkersApart, Submit, Has
  <1>5. AnswersApart' /\ AnswersTrue'
    BY <1>3 DEF QueueInv, AnswersApart, AnswersTrue, Submit, Has, IsAnswer
  <1>6. OnlyTaken' /\ RunningApart' /\ QueuedApart' /\ HeldApart'
    BY <1>3 DEF QueueInv, OnlyTaken, RunningApart, QueuedApart, HeldApart, Submit, Holds
  <1> QED
    BY <1>1, <1>3, <1>4, <1>5, <1>6 DEF QueueInv

LEMMA TakeTaskKeeps ==
  ASSUME QueueInv, NEW w \in Workers, TakeTask(w) PROVE QueueInv'
  <1> USE MaxTasksAssumption
  <1> DEFINE h == Head(waiting)
  <1>1. /\ waiting \in Seq(Nat) /\ waiting # <<>> /\ waiting' = Tail(waiting)
        /\ submitted \in 0 .. MaxTasks /\ submitted' = submitted
        /\ worker' = [worker EXCEPT ![w] = [pc |-> "check", task |-> h]]
        /\ worker \in [Workers -> [pc : Counters, task : Nat]]
        /\ UNCHANGED <<is_running, submitted, inner_executor, inner, result, after, root_alive, answered>>
    BY DEF QueueInv, QueueTypes, TakeTask
  <1>2. /\ Len(waiting') = Len(waiting) - 1 /\ Len(waiting) \in Nat \ {0}
        /\ \A i \in 1 .. Len(waiting') : waiting'[i] = waiting[i + 1]
        /\ h = waiting[1] /\ h \in Nat /\ waiting' \in Seq(Nat)
    BY <1>1
  <1>3. h = submitted - Len(waiting) + 1 /\ Len(waiting) <= submitted
    BY <1>1, <1>2 DEF QueueInv, WaitingOrder
  <1>4. h \notin Taken /\ h \in Tasks /\ Taken' = Taken \cup {h} /\ WaitingOrder'
    <2>1. h \notin Taken /\ h \in Tasks /\ Taken' = Taken \cup {h}
      BY <1>1, <1>2, <1>3 DEF Taken, Tasks
    <2>2. WaitingOrder'
      BY <1>1, <1>2, <1>3 DEF QueueInv, WaitingOrder
    <2> QED
      BY <2>1, <2>2
  <1> HIDE DEF h
  <1>5. QueueTypes'
    <2>1. worker' \in [Workers -> [pc : Counters, task : Nat]]
      BY <1>1, <1>2 DEF Counters
    <2> QED
      BY <2>1, <1>1, <1>2 DEF QueueInv, QueueTypes
  <1>6. /\ worker'[w].pc = "check" /\ worker'[w].task = h
        /\ \A v \in Workers : v # w => worker'[v] = worker[v]
    BY <1>1
  <1>7. result[h] = "none" /\ answered[h] = "no"
    BY <1>4 DEF QueueInv, OnlyTaken
  <1>8. WorkersApart'
    <2> SUFFICES ASSUME NEW v \in Workers, Has(v)'
                 PROVE  /\ worker'[v].task \in Taken'
                        /\ answered'[worker'[v].task] = "no"
                        /\ \A u \in Workers : Has(u)' /\ u # v => worker'[u].task # worker'[v].task
      BY DEF WorkersApart
    <2>1. CASE v = w
      <3>1. ASSUME NEW u \in Workers, Has(u)', u # v PROVE worker'[u].task # h
        BY <3>1, <2>1, <1>6, <1>4 DEF QueueInv, WorkersApart, Has
      <3> QED
        BY <3>1, <2>1, <1>1, <1>4, <1>6, <1>7
    <2>2. CASE v # w
      BY <2>2, <1>1, <1>4, <1>6 DEF QueueInv, WorkersApart, Has
    <2> QED
      BY <2>1, <2>2
  <1>9. AnswersApart' /\ AnswersTrue'
    <2>1. AnswersApart'
      <3> SUFFICES ASSUME NEW i \in 1 .. Len(after), IsAnswer(i)
                   PROVE  /\ after[i].task \in Taken'
                          /\ answered[after[i].task] = "no"
                          /\ \A v \in Workers : Has(v)' => worker'[v].task # after[i].task
                          /\ \A j \in 1 .. Len(after) : IsAnswer(j) /\ j # i => after[j].task # after[i].task
        BY <1>1 DEF AnswersApart, IsAnswer
      <3>1. after[i].task \in Taken
        BY DEF QueueInv, AnswersApart
      <3>2. ASSUME NEW v \in Workers, Has(v)' PROVE worker'[v].task # after[i].task
        BY <3>1, <3>2, <1>4, <1>6 DEF QueueInv, AnswersApart, Has
      <3> QED
        BY <3>1, <3>2, <1>4 DEF QueueInv, AnswersApart
    <2>2. AnswersTrue'
      BY <1>1 DEF QueueInv, AnswersTrue, IsAnswer
    <2> QED
      BY <2>1, <2>2
  <1>10. OnlyTaken' /\ RunningApart' /\ QueuedApart'
    BY <1>1, <1>4 DEF QueueInv, OnlyTaken, RunningApart, QueuedApart
  <1>11. HeldApart'
    <2> SUFFICES ASSUME NEW v \in Workers, Holds(v)'
                 PROVE  /\ result[worker'[v].task] = "none"
                        /\ worker'[v].pc = "submit" => inner_executor # 0
                        /\ \A e \in 1 .. Len(inner) :
                             /\ inner[e].running # worker'[v].task
                             /\ \A i \in 1 .. Len(inner[e].queue) : inner[e].queue[i] # worker'[v].task
      BY <1>1 DEF HeldApart
    <2>1. CASE v = w
      <3>1. \A e \in 1 .. Len(inner) : \A i \in 1 .. Len(inner[e].queue) : inner[e].queue[i] # h
        BY <1>4 DEF QueueInv, QueuedApart
      <3>2. h # 0
        BY <1>4, MaxTasksAssumption DEF Tasks
      <3>3. \A e \in 1 .. Len(inner) : inner[e].running # h
        BY <1>4, <3>2 DEF QueueInv, RunningApart
      <3> QED
        BY <2>1, <3>1, <3>3, <1>6, <1>7
    <2>2. CASE v # w
      BY <2>2, <1>6 DEF QueueInv, HeldApart, Holds
    <2> QED
      BY <2>1, <2>2
  <1> QED
    BY <1>4, <1>5, <1>8, <1>9, <1>10, <1>11 DEF QueueInv

\* A step of a worker that keeps its task and does not touch the inner pools' tasks.
LEMMA CheckInnerKeeps ==
  ASSUME QueueInv, NEW w \in Workers, CheckInner(w) PROVE QueueInv'
  <1>1. /\ worker \in [Workers -> [pc : Counters, task : Nat]]
        /\ worker[w].pc = "check"
        /\ worker' = [worker EXCEPT ![w].pc = IF inner_executor = 0 THEN "create" ELSE "submit"]
        /\ UNCHANGED <<is_running, submitted, waiting, inner_executor, inner, result, after, root_alive, answered>>
    BY DEF QueueInv, QueueTypes, CheckInner
  <1>2. /\ worker' \in [Workers -> [pc : Counters, task : Nat]]
        /\ \A v \in Workers : worker'[v].task = worker[v].task
        /\ \A v \in Workers : v # w => worker'[v] = worker[v]
        /\ worker'[w].pc = IF inner_executor = 0 THEN "create" ELSE "submit"
    BY <1>1 DEF Counters
  <1>3. \A v \in Workers : /\ Has(v)' <=> Has(v)
                           /\ Holds(v)' <=> Holds(v)
    BY <1>1, <1>2 DEF Has, Holds
  <1>4. Taken' = Taken
    BY <1>1 DEF Taken
  <1>5. QueueTypes' /\ WaitingOrder'
    BY <1>1, <1>2 DEF QueueInv, QueueTypes, WaitingOrder
  <1>6. WorkersApart'
    BY <1>1, <1>2, <1>3, <1>4 DEF QueueInv, WorkersApart
  <1>7. AnswersApart' /\ AnswersTrue'
    BY <1>1, <1>2, <1>3, <1>4 DEF QueueInv, AnswersApart, AnswersTrue, IsAnswer
  <1>8. OnlyTaken' /\ RunningApart' /\ QueuedApart'
    BY <1>1, <1>4 DEF QueueInv, OnlyTaken, RunningApart, QueuedApart
  <1>9. HeldApart'
    <2>1. \A v \in Workers : worker'[v].pc = "submit" => inner_executor # 0 \/ worker[v].pc = "submit"
      BY <1>2
    <2> QED
      BY <1>1, <1>2, <1>3, <2>1 DEF QueueInv, HeldApart, Holds
  <1> QED
    BY <1>5, <1>6, <1>7, <1>8, <1>9 DEF QueueInv

LEMMA CreateInnerKeeps ==
  ASSUME QueueInv, NEW w \in Workers, CreateInner(w) PROVE QueueInv'
  <1> DEFINE new == [queue |-> <<>>, running |-> 0]
  <1>1. /\ worker \in [Workers -> [pc : Counters, task : Nat]]
        /\ worker[w].pc = "create"
        /\ worker' = [worker EXCEPT ![w].pc = "submit"]
        /\ inner \in Seq(Pools) /\ inner' = Append(inner, new) /\ inner_executor' = Len(inner) + 1
        /\ UNCHANGED <<is_running, submitted, waiting, result, after, root_alive, answered>>
    BY DEF QueueInv, QueueTypes, CreateInner
  <1>2. /\ worker' \in [Workers -> [pc : Counters, task : Nat]]
        /\ \A v \in Workers : worker'[v].task = worker[v].task
        /\ \A v \in Workers : v # w => worker'[v] = worker[v]
        /\ worker'[w].pc = "submit"
    BY <1>1 DEF Counters
  <1>3. \A v \in Workers : /\ Has(v)' <=> Has(v)
                           /\ Holds(v)' <=> Holds(v)
    BY <1>1, <1>2 DEF Has, Holds
  <1>4. Taken' = Taken
    BY <1>1 DEF Taken
  <1>5. /\ inner' \in Seq(Pools) /\ Len(inner') = Len(inner) + 1 /\ Len(inner) \in Nat
        /\ \A e \in 1 .. Len(inner) : inner'[e] = inner[e]
        /\ inner'[Len(inner) + 1].running = 0 /\ Len(inner'[Len(inner) + 1].queue) = 0
    <2>1. new \in Pools
      BY DEF Pools
    <2>2. Len(new.queue) = 0 /\ new.running = 0
      OBVIOUS
    <2> HIDE DEF new
    <2> QED
      BY <1>1, <2>1, <2>2
  <1>6. \A e \in 1 .. Len(inner') :
          \/ e \in 1 .. Len(inner) /\ inner'[e] = inner[e]
          \/ inner'[e].running = 0 /\ Len(inner'[e].queue) = 0
    <2>1. \A e \in 1 .. Len(inner') : e \in 1 .. Len(inner) \/ e = Len(inner) + 1
      BY <1>5
    <2> QED
      BY <1>5, <2>1
  <1>7. QueueTypes' /\ WaitingOrder'
    BY <1>1, <1>2, <1>5 DEF QueueInv, QueueTypes, WaitingOrder
  <1>8. WorkersApart'
    BY <1>1, <1>2, <1>3, <1>4 DEF QueueInv, WorkersApart
  <1>9. AnswersApart' /\ AnswersTrue'
    BY <1>1, <1>2, <1>3, <1>4 DEF QueueInv, AnswersApart, AnswersTrue, IsAnswer
  <1> HIDE DEF new
  <1>10. OnlyTaken'
    BY <1>1, <1>4 DEF QueueInv, OnlyTaken
  <1>11. RunningApart'
    BY <1>1, <1>4, <1>6 DEF QueueInv, RunningApart
  <1>12. QueuedApart'
    <2> SUFFICES ASSUME NEW e \in 1 .. Len(inner'), NEW i \in 1 .. Len(inner'[e].queue)
                 PROVE  /\ inner'[e].queue[i] \in Taken
                        /\ result[inner'[e].queue[i]] = "none"
                        /\ \A d \in 1 .. Len(inner') :
                             /\ inner'[d].running # inner'[e].queue[i]
                             /\ \A j \in 1 .. Len(inner'[d].queue) :
                                  inner'[d].queue[j] = inner'[e].queue[i] => d = e /\ j = i
      BY <1>1, <1>4 DEF QueuedApart
    <2>1. e \in 1 .. Len(inner) /\ inner'[e] = inner[e]
      BY <1>6
    <2>2. inner[e].queue[i] # 0
      BY <2>1 DEF QueueInv, QueuedApart, Taken
    <2> QED
      BY <2>1, <2>2, <1>6 DEF QueueInv, QueuedApart
  <1>13. HeldApart'
    <2>1. inner_executor' # 0
      BY <1>1, <1>5
    <2>2. \A v \in Workers : Holds(v) => worker[v].task # 0
      BY DEF QueueInv, WorkersApart, Has, Holds, Taken
    <2> QED
      BY <1>1, <1>2, <1>3, <1>6, <2>1, <2>2 DEF QueueInv, HeldApart
  <1> QED
    BY <1>7, <1>8, <1>9, <1>10, <1>11, <1>12, <1>13 DEF QueueInv

\* A task is queued once.
LEMMA QueuedOnce ==
  ASSUME QueueInv, NEW e \in 1 .. Len(inner), NEW i \in 1 .. Len(inner[e].queue),
         NEW d \in 1 .. Len(inner), NEW j \in 1 .. Len(inner[d].queue),
         inner[d].queue[j] = inner[e].queue[i]
  PROVE  d = e /\ j = i
  BY DEF QueueInv, QueuedApart

LEMMA SubmitInnerKeeps ==
  ASSUME QueueInv, NEW w \in Workers, SubmitInner(w) PROVE QueueInv'
  <1> DEFINE t == worker[w].task
             x == inner_executor
             n == Len(inner[x].queue) + 1
  <1>1. /\ worker \in [Workers -> [pc : Counters, task : Nat]]
        /\ worker[w].pc = "submit"
        /\ worker' = [worker EXCEPT ![w].pc = "wait"]
        /\ inner \in Seq(Pools)
        /\ inner' = [inner EXCEPT ![x].queue = Append(inner[x].queue, t)]
        /\ UNCHANGED <<is_running, submitted, waiting, inner_executor, result, after, root_alive, answered>>
    BY DEF QueueInv, QueueTypes, SubmitInner
  <1>2. /\ worker' \in [Workers -> [pc : Counters, task : Nat]]
        /\ \A v \in Workers : worker'[v].task = worker[v].task
        /\ \A v \in Workers : v # w => worker'[v] = worker[v]
        /\ worker'[w].pc = "wait"
    BY <1>1 DEF Counters
  <1>3. \A v \in Workers : /\ Has(v)' <=> Has(v)
                           /\ Holds(v)' => Holds(v) /\ v # w
    BY <1>1, <1>2 DEF Has, Holds
  <1>4. Taken' = Taken
    BY <1>1 DEF Taken
  <1>5. x \in 1 .. Len(inner) /\ Has(w) /\ Holds(w) /\ t \in Nat
    BY <1>1 DEF QueueInv, QueueTypes, HeldApart, Has, Holds
  <1>6. /\ t \in Taken /\ result[t] = "none"
        /\ \A e \in 1 .. Len(inner) : /\ inner[e].running # t
                                      /\ \A i \in 1 .. Len(inner[e].queue) : inner[e].queue[i] # t
    BY <1>5 DEF QueueInv, WorkersApart, HeldApart
  <1>7. /\ inner[x].queue \in Seq(Nat)
        /\ inner[x] \in Pools
    <2>1. inner[x] \in Pools
      BY <1>1, <1>5
    <2> QED
      BY <2>1 DEF Pools
  <1>8. /\ inner' \in Seq(Pools) /\ Len(inner') = Len(inner)
        /\ \A e \in 1 .. Len(inner) : inner'[e].running = inner[e].running
        /\ \A e \in 1 .. Len(inner) : e # x => inner'[e] = inner[e]
        /\ inner'[x].queue = Append(inner[x].queue, t)
    <2> Append(inner[x].queue, t) \in Seq(Nat)
      BY <1>5, <1>7
    <2>1. [inner[x] EXCEPT !.queue = Append(inner[x].queue, t)] \in Pools
      BY <1>7 DEF Pools
    <2>2. inner' = [inner EXCEPT ![x] = [inner[x] EXCEPT !.queue = Append(inner[x].queue, t)]]
      BY <1>1
    <2>3. [inner[x] EXCEPT !.queue = Append(inner[x].queue, t)].running = inner[x].running
      BY <1>5, <1>7 DEF Pools
    <2>4. [inner[x] EXCEPT !.queue = Append(inner[x].queue, t)].queue = Append(inner[x].queue, t)
      BY <1>5, <1>7 DEF Pools
    <2> QED
      BY <1>1, <1>5, <2>1, <2>2, <2>3, <2>4
  <1>9. /\ n \in Nat /\ Len(inner'[x].queue) = n /\ inner'[x].queue[n] = t
        /\ \A i \in 1 .. n : i # n => i \in 1 .. Len(inner[x].queue) /\ inner'[x].queue[i] = inner[x].queue[i]
    BY <1>5, <1>7, <1>8
  <1> HIDE DEF t, x, n
  \* The tasks that are queued now: those that were, and t as the last of pool x.
  <1>10. \A e \in 1 .. Len(inner) : \A i \in 1 .. Len(inner'[e].queue) :
           \/ i \in 1 .. Len(inner[e].queue) /\ inner'[e].queue[i] = inner[e].queue[i]
           \/ e = x /\ i = n /\ inner'[e].queue[i] = t
    BY <1>8, <1>9
  <1>11. QueueTypes' /\ WaitingOrder'
    BY <1>1, <1>2, <1>8 DEF QueueInv, QueueTypes, WaitingOrder
  <1>12. WorkersApart'
    BY <1>1, <1>2, <1>3, <1>4 DEF QueueInv, WorkersApart
  <1>13. AnswersApart' /\ AnswersTrue'
    BY <1>1, <1>2, <1>3, <1>4 DEF QueueInv, AnswersApart, AnswersTrue, IsAnswer
  <1>14. OnlyTaken'
    BY <1>1, <1>4 DEF QueueInv, OnlyTaken
  <1>15. RunningApart'
    BY <1>1, <1>4, <1>8 DEF QueueInv, RunningApart
  <1>16. QueuedApart'
    <2> SUFFICES ASSUME NEW e \in 1 .. Len(inner'), NEW i \in 1 .. Len(inner'[e].queue)
                 PROVE  /\ inner'[e].queue[i] \in Taken'
                        /\ result'[inner'[e].queue[i]] = "none"
                        /\ \A d \in 1 .. Len(inner') :
                             /\ inner'[d].running # inner'[e].queue[i]
                             /\ \A j \in 1 .. Len(inner'[d].queue) :
                                  inner'[d].queue[j] = inner'[e].queue[i] => d = e /\ j = i
      BY DEF QueuedApart
    <2> e \in 1 .. Len(inner) /\ Len(inner') = Len(inner)
      BY <1>8
    <2>1. inner'[e].queue[i] \in Taken /\ result[inner'[e].queue[i]] = "none"
      BY <1>6, <1>10 DEF QueueInv, QueuedApart
    <2>2. \A d \in 1 .. Len(inner) : inner'[d].running # inner'[e].queue[i]
      BY <1>6, <1>8, <1>10 DEF QueueInv, QueuedApart
    <2>3. ASSUME NEW d \in 1 .. Len(inner), NEW j \in 1 .. Len(inner'[d].queue),
                 inner'[d].queue[j] = inner'[e].queue[i]
          PROVE  d = e /\ j = i
      <3>1. CASE i \in 1 .. Len(inner[e].queue) /\ inner'[e].queue[i] = inner[e].queue[i]
        <4>1. inner[e].queue[i] # t
          BY <3>1, <1>6
        <4>2. j \in 1 .. Len(inner[d].queue) /\ inner'[d].queue[j] = inner[d].queue[j]
          BY <4>1, <3>1, <2>3, <1>10
        <4>3. inner[d].queue[j] = inner[e].queue[i]
          BY <4>2, <3>1, <2>3
        <4> QED
          BY <4>2, <4>3, <3>1, QueuedOnce
      <3>2. CASE e = x /\ i = n /\ inner'[e].queue[i] = t
        <4>1. ~(j \in 1 .. Len(inner[d].queue) /\ inner'[d].queue[j] = inner[d].queue[j])
          BY <3>2, <2>3, <1>6
        <4>2. d = x /\ j = n
          BY <4>1, <1>10
        <4> QED
          BY <3>2, <4>2
      <3> QED
        BY <3>1, <3>2, <1>10
    <2> QED
      BY <2>1, <2>2, <2>3, <1>1, <1>4
  <1>17. HeldApart'
    <2> SUFFICES ASSUME NEW v \in Workers, Holds(v)'
                 PROVE  /\ result[worker'[v].task] = "none"
                        /\ worker'[v].pc = "submit" => inner_executor # 0
                        /\ \A e \in 1 .. Len(inner) :
                             /\ inner[e].running # worker'[v].task
                             /\ \A i \in 1 .. Len(inner'[e].queue) : inner'[e].queue[i] # worker'[v].task
      BY <1>1, <1>8 DEF HeldApart
    <2>1. Holds(v) /\ v # w /\ worker'[v] = worker[v] /\ worker[v].task # t
      BY <1>2, <1>3, <1>5 DEF QueueInv, WorkersApart, Has, Holds, t
    <2> QED
      BY <2>1, <1>10 DEF QueueInv, HeldApart
  <1> QED
    BY <1>11, <1>12, <1>13, <1>14, <1>15, <1>16, <1>17 DEF QueueInv

LEMMA StartTaskKeeps ==
  ASSUME QueueInv, NEW e \in 1 .. Len(inner), StartTask(e)
  PROVE  /\ QueueInv'
         /\ inner[e].running = 0 /\ Head(inner[e].queue) \in Taken
         /\ Len(inner') = Len(inner)
         /\ \A d \in 1 .. Len(inner) : d # e => inner'[d] = inner[d]
         /\ inner'[e].running = Head(inner[e].queue)
  <1> DEFINE q == inner[e].queue
             h == Head(q)
  <1>1. /\ inner \in Seq(Pools) /\ q # <<>> /\ inner[e].running = 0
        /\ inner' = [inner EXCEPT ![e] = [queue |-> Tail(q), running |-> h]]
        /\ UNCHANGED <<is_running, submitted, waiting, worker, inner_executor, result, after, root_alive, answered>>
    BY DEF QueueInv, QueueTypes, StartTask
  <1>2. q \in Seq(Nat)
    <2>1. inner[e] \in Pools
      BY <1>1
    <2> QED
      BY <2>1 DEF Pools
  <1>3. /\ Tail(q) \in Seq(Nat) /\ Len(q) \in Nat \ {0} /\ Len(Tail(q)) = Len(q) - 1
        /\ h = q[1] /\ h \in Nat
        /\ \A i \in 1 .. Len(Tail(q)) : Tail(q)[i] = q[i + 1] /\ i + 1 \in 2 .. Len(q)
    BY <1>1, <1>2
  <1>4. /\ inner' \in Seq(Pools) /\ Len(inner') = Len(inner)
        /\ \A d \in 1 .. Len(inner) : d # e => inner'[d] = inner[d]
        /\ inner'[e].queue = Tail(q) /\ inner'[e].running = h
    <2>1. [queue |-> Tail(q), running |-> h] \in Pools
      BY <1>3 DEF Pools
    <2> QED
      BY <1>1, <2>1
  <1>5. Taken' = Taken
    BY <1>1 DEF Taken
  <1>6. 1 \in 1 .. Len(q)
    BY <1>3
  <1>7. /\ h \in Taken /\ result[h] = "none"
        /\ \A d \in 1 .. Len(inner) :
             /\ inner[d].running # h
             /\ \A j \in 1 .. Len(inner[d].queue) : inner[d].queue[j] = h => d = e /\ j = 1
    BY <1>3, <1>6 DEF QueueInv, QueuedApart
  \* Where a queued task was: one place later in pool e.
  <1>8. \A d \in 1 .. Len(inner) : \A i \in 1 .. Len(inner'[d].queue) :
          \/ d # e /\ inner'[d] = inner[d]
          \/ d = e /\ i + 1 \in 2 .. Len(inner[d].queue) /\ inner'[d].queue[i] = inner[d].queue[i + 1]
    BY <1>3, <1>4
  <1>9. \A d \in 1 .. Len(inner) : \A i \in 1 .. Len(inner'[d].queue) :
          \E k \in 1 .. Len(inner[d].queue) :
            /\ inner'[d].queue[i] = inner[d].queue[k] /\ (d = e => k # 1)
            /\ k = IF d = e THEN i + 1 ELSE i
    BY <1>8
  <1> HIDE DEF q, h
  <1>10. QueueTypes' /\ WaitingOrder'
    BY <1>1, <1>4 DEF QueueInv, QueueTypes, WaitingOrder
  <1>11. WorkersApart' /\ AnswersApart' /\ AnswersTrue' /\ OnlyTaken'
    <2>1. WorkersApart'
      BY <1>1, <1>5 DEF QueueInv, WorkersApart, Has
    <2>2. AnswersApart'
      BY <1>1, <1>5 DEF QueueInv, AnswersApart, Has, IsAnswer
    <2>3. AnswersTrue' /\ OnlyTaken'
      BY <1>1, <1>5 DEF QueueInv, AnswersTrue, OnlyTaken, IsAnswer
    <2> QED
      BY <2>1, <2>2, <2>3
  <1>12. RunningApart'
    BY <1>1, <1>4, <1>5, <1>7 DEF QueueInv, RunningApart
  <1>13. QueuedApart'
    <2> SUFFICES ASSUME NEW d \in 1 .. Len(inner'), NEW i \in 1 .. Len(inner'[d].queue)
                 PROVE  /\ inner'[d].queue[i] \in Taken'
                        /\ result'[inner'[d].queue[i]] = "none"
                        /\ \A c \in 1 .. Len(inner') :
                             /\ inner'[c].running # inner'[d].queue[i]
                             /\ \A j \in 1 .. Len(inner'[c].queue) :
                                  inner'[c].queue[j] = inner'[d].queue[i] => c = d /\ j = i
      BY DEF QueuedApart
    <2> d \in 1 .. Len(inner) /\ Len(inner') = Len(inner)
      BY <1>4
    <2>1. PICK k \in 1 .. Len(inner[d].queue) :
            /\ inner'[d].queue[i] = inner[d].queue[k] /\ (d = e => k # 1)
            /\ k = IF d = e THEN i + 1 ELSE i
      BY <1>9
    <2>2. inner[d].queue[k] \in Taken /\ result[inner[d].queue[k]] = "none"
      BY DEF QueueInv, QueuedApart
    <2>3. inner[d].queue[k] # h
      BY <2>1, <1>7
    <2>4. \A c \in 1 .. Len(inner) : inner'[c].running # inner[d].queue[k]
      BY <2>3, <1>4 DEF QueueInv, QueuedApart
    <2>5. ASSUME NEW c \in 1 .. Len(inner), NEW j \in 1 .. Len(inner'[c].queue),
                 inner'[c].queue[j] = inner[d].queue[k]
          PROVE  c = d /\ j = i
      <3>1. PICK l \in 1 .. Len(inner[c].queue) :
              /\ inner'[c].queue[j] = inner[c].queue[l]
              /\ l = IF c = e THEN j + 1 ELSE j
        BY <1>9
      <3>2. c = d /\ l = k
        BY <3>1, <2>5, QueuedOnce
      <3> QED
        BY <3>1, <3>2, <2>1
    <2>6. \A c \in 1 .. Len(inner') : \A j \in 1 .. Len(inner'[c].queue) :
            inner'[c].queue[j] = inner'[d].queue[i] => c = d /\ j = i
      BY <2>1, <2>5
    <2>7. \A c \in 1 .. Len(inner') : inner'[c].running # inner'[d].queue[i]
      BY <2>1, <2>4
    <2>8. inner'[d].queue[i] \in Taken' /\ result'[inner'[d].queue[i]] = "none"
      BY <2>1, <2>2, <1>1, <1>5
    <2> QED
      BY <2>6, <2>7, <2>8
  <1>14. HeldApart'
    <2> SUFFICES ASSUME NEW v \in Workers, Holds(v)'
                 PROVE  /\ result'[worker'[v].task] = "none"
                        /\ worker'[v].pc = "submit" => inner_executor' # 0
                        /\ \A d \in 1 .. Len(inner') :
                             /\ inner'[d].running # worker'[v].task
                             /\ \A i \in 1 .. Len(inner'[d].queue) : inner'[d].queue[i] # worker'[v].task
      BY DEF HeldApart
    <2> Holds(v)
      BY <1>1 DEF Holds
    <2>1. h # worker[v].task
      BY <1>3, <1>6 DEF QueueInv, HeldApart, q
    <2>2. \A d \in 1 .. Len(inner) : inner'[d].running # worker[v].task
      BY <2>1, <1>4 DEF QueueInv, HeldApart
    <2>3. ASSUME NEW d \in 1 .. Len(inner), NEW i \in 1 .. Len(inner'[d].queue)
          PROVE  inner'[d].queue[i] # worker[v].task
      <3>1. PICK k \in 1 .. Len(inner[d].queue) : inner'[d].queue[i] = inner[d].queue[k]
        BY <1>9
      <3> QED
        BY <3>1 DEF QueueInv, HeldApart
    <2>4. result[worker[v].task] = "none" /\ (worker[v].pc = "submit" => inner_executor # 0)
      BY DEF QueueInv, HeldApart
    <2>5. worker' = worker /\ result' = result /\ inner_executor' = inner_executor /\ Len(inner') = Len(inner)
      BY <1>1, <1>4
    <2> QED
      BY <2>2, <2>3, <2>4, <2>5
  <1> QED
    BY <1>1, <1>4, <1>7, <1>10, <1>11, <1>12, <1>13, <1>14 DEF QueueInv, h, q

LEMMA EndTaskKeeps ==
  ASSUME QueueInv, NEW e \in 1 .. Len(inner), NEW r \in {"ok", "error"}, EndTask(e, r)
  PROVE  /\ QueueInv'
         /\ inner[e].running \in Taken /\ result[inner[e].running] = "none"
         /\ result' = [result EXCEPT ![inner[e].running] = r] /\ inner[e].running \in Tasks
         /\ Len(inner') = Len(inner)
         /\ \A d \in 1 .. Len(inner) : d # e => inner'[d] = inner[d]
         /\ inner'[e].running = 0
  <1> DEFINE t == inner[e].running
  <1>1. /\ inner \in Seq(Pools) /\ t # 0
        /\ result \in [Tasks -> Results] /\ result' = [result EXCEPT ![t] = r]
        /\ inner' = [inner EXCEPT ![e].running = 0]
        /\ UNCHANGED <<is_running, submitted, waiting, worker, inner_executor, after, root_alive, answered>>
    BY DEF QueueInv, QueueTypes, EndTask
  <1>2. inner[e] \in Pools
    BY <1>1
  <1>3. /\ inner' \in Seq(Pools) /\ Len(inner') = Len(inner)
        /\ \A d \in 1 .. Len(inner) : d # e => inner'[d] = inner[d]
        /\ inner'[e].queue = inner[e].queue /\ inner'[e].running = 0
    <2>1. [inner[e] EXCEPT !.running = 0] \in Pools
      BY <1>2 DEF Pools
    <2>2. inner' = [inner EXCEPT ![e] = [inner[e] EXCEPT !.running = 0]]
      BY <1>1
    <2>3. /\ [inner[e] EXCEPT !.running = 0].queue = inner[e].queue
          /\ [inner[e] EXCEPT !.running = 0].running = 0
      BY <1>2 DEF Pools
    <2> QED
      BY <1>1, <2>1, <2>2, <2>3
  <1>4. Taken' = Taken
    BY <1>1 DEF Taken
  <1>5. /\ t \in Taken /\ result[t] = "none"
        /\ \A d \in 1 .. Len(inner) : d # e => inner[d].running # t
    BY <1>1 DEF QueueInv, RunningApart
  <1>6. t \in Tasks
    BY <1>5, MaxTasksAssumption DEF QueueInv, QueueTypes, WaitingOrder, Taken, Tasks
  <1>7. result' \in [Tasks -> Results] /\ \A u \in Tasks : u # t => result'[u] = result[u]
    BY <1>1 DEF Results
  <1>8. \A u \in Taken : u \in Tasks
    BY MaxTasksAssumption DEF QueueInv, QueueTypes, WaitingOrder, Taken, Tasks
  <1>9. \A d \in 1 .. Len(inner) : \A i \in 1 .. Len(inner[d].queue) : inner[d].queue[i] # t
    BY DEF QueueInv, QueuedApart
  <1>10. \A d \in 1 .. Len(inner) : inner'[d].queue = inner[d].queue
    BY <1>3
  <1>11. result'[t] = r
    BY <1>1, <1>6
  <1> HIDE DEF t
  <1>12. QueueTypes' /\ WaitingOrder'
    BY <1>1, <1>3, <1>7 DEF QueueInv, QueueTypes, WaitingOrder
  <1>13. WorkersApart' /\ AnswersApart'
    BY <1>1, <1>4 DEF QueueInv, WorkersApart, AnswersApart, Has, IsAnswer
  <1>14. AnswersTrue'
    <2>1. \A u \in Tasks : result[u] # "none" => result'[u] = result[u]
      BY <1>5, <1>7
    <2>2. \A i \in 1 .. Len(after) : IsAnswer(i) => after[i].task \in Tasks
      BY <1>8 DEF QueueInv, AnswersApart
    <2> QED
      BY <1>1, <2>1, <2>2 DEF QueueInv, AnswersTrue, IsAnswer
  <1>15. OnlyTaken'
    BY <1>1, <1>4, <1>5, <1>7 DEF QueueInv, OnlyTaken
  <1>16. RunningApart'
    <2> SUFFICES ASSUME NEW d \in 1 .. Len(inner'), inner'[d].running # 0
                 PROVE  /\ inner'[d].running \in Taken'
                        /\ result'[inner'[d].running] = "none"
                        /\ \A c \in 1 .. Len(inner') : c # d => inner'[c].running # inner'[d].running
      BY DEF RunningApart
    <2>1. d # e /\ d \in 1 .. Len(inner) /\ inner'[d] = inner[d]
      BY <1>3
    <2>2. inner[d].running \in Taken /\ result[inner[d].running] = "none"
      BY <2>1 DEF QueueInv, RunningApart
    <2>3. result'[inner[d].running] = "none"
      BY <2>1, <2>2, <1>5, <1>7, <1>8
    <2>4. ASSUME NEW c \in 1 .. Len(inner'), c # d PROVE inner'[c].running # inner'[d].running
      BY <2>1, <2>4, <1>3 DEF QueueInv, RunningApart
    <2> QED
      BY <2>1, <2>2, <2>3, <2>4, <1>4
  <1>17. QueuedApart'
    <2> SUFFICES ASSUME NEW d \in 1 .. Len(inner'), NEW i \in 1 .. Len(inner'[d].queue)
                 PROVE  /\ inner'[d].queue[i] \in Taken'
                        /\ result'[inner'[d].queue[i]] = "none"
                        /\ \A c \in 1 .. Len(inner') :
                             /\ inner'[c].running # inner'[d].queue[i]
                             /\ \A j \in 1 .. Len(inner'[c].queue) :
                                  inner'[c].queue[j] = inner'[d].queue[i] => c = d /\ j = i
      BY DEF QueuedApart
    <2>1. d \in 1 .. Len(inner) /\ i \in 1 .. Len(inner[d].queue) /\ inner'[d].queue[i] = inner[d].queue[i]
      BY <1>3, <1>10
    <2>2. inner[d].queue[i] \in Taken /\ result[inner[d].queue[i]] = "none"
      BY <2>1 DEF QueueInv, QueuedApart
    <2>3. result'[inner[d].queue[i]] = "none"
      BY <2>1, <2>2, <1>7, <1>8, <1>9
    <2>4. ASSUME NEW c \in 1 .. Len(inner') PROVE inner'[c].running # inner[d].queue[i]
      <3>1. c \in 1 .. Len(inner)
        BY <1>3
      <3>2. inner[c].running # inner[d].queue[i]
        BY <3>1, <2>1 DEF QueueInv, QueuedApart
      <3>3. inner[d].queue[i] # 0
        BY <2>2 DEF Taken
      <3> QED
        BY <3>1, <3>2, <3>3, <1>3
    <2>5. ASSUME NEW c \in 1 .. Len(inner'), NEW j \in 1 .. Len(inner'[c].queue),
                 inner'[c].queue[j] = inner[d].queue[i]
          PROVE  c = d /\ j = i
      <3>1. c \in 1 .. Len(inner) /\ j \in 1 .. Len(inner[c].queue) /\ inner[c].queue[j] = inner[d].queue[i]
        BY <2>5, <1>3, <1>10
      <3> QED
        BY <3>1, <2>1, QueuedOnce
    <2>6. inner'[d].queue[i] \in Taken' /\ result'[inner'[d].queue[i]] = "none"
      BY <2>1, <2>2, <2>3, <1>4
    <2>7. \A c \in 1 .. Len(inner') : inner'[c].running # inner'[d].queue[i]
      BY <2>1, <2>4
    <2>8. \A c \in 1 .. Len(inner') : \A j \in 1 .. Len(inner'[c].queue) :
            inner'[c].queue[j] = inner'[d].queue[i] => c = d /\ j = i
      BY <2>1, <2>5
    <2> QED
      BY <2>6, <2>7, <2>8
  <1>18. HeldApart'
    <2> SUFFICES ASSUME NEW v \in Workers, Holds(v)'
                 PROVE  /\ result'[worker'[v].task] = "none"
                        /\ worker'[v].pc = "submit" => inner_executor' # 0
                        /\ \A d \in 1 .. Len(inner') :
                             /\ inner'[d].running # worker'[v].task
                             /\ \A i \in 1 .. Len(inner'[d].queue) : inner'[d].queue[i] # worker'[v].task
      BY DEF HeldApart
    <2>1. Holds(v) /\ Has(v) /\ worker' = worker /\ inner_executor' = inner_executor /\ Len(inner') = Len(inner)
      BY <1>1, <1>3 DEF Holds, Has
    <2>2. /\ worker[v].task \in Tasks /\ worker[v].task # t /\ worker[v].task # 0
          /\ result[worker[v].task] = "none"
          /\ worker[v].pc = "submit" => inner_executor # 0
      BY <2>1, <1>8 DEF QueueInv, WorkersApart, HeldApart, t, Taken
    <2>3. \A d \in 1 .. Len(inner) :
            inner'[d].running # worker[v].task
      BY <2>1, <2>2, <1>3 DEF QueueInv, HeldApart
    <2>4. \A d \in 1 .. Len(inner) : \A i \in 1 .. Len(inner[d].queue) : inner[d].queue[i] # worker[v].task
      BY <2>1 DEF QueueInv, HeldApart
    <2> QED
      BY <2>1, <2>2, <2>3, <2>4, <1>7, <1>10
  <1> QED
    BY <1>1, <1>3, <1>5, <1>6, <1>12, <1>13, <1>14, <1>15, <1>16, <1>17, <1>18 DEF QueueInv, t

LEMMA OnDoneKeeps ==
  ASSUME QueueInv, NEW w \in Workers, worker[w].pc = "wait",
         NEW r, r = "timeout" \/ (r = result[worker[w].task] /\ r # "none"), OnDone(w, r)
  PROVE  QueueInv'
  <1> DEFINE t == worker[w].task
  <1>1. /\ worker \in [Workers -> [pc : Counters, task : Nat]] /\ after \in Seq(Callbacks)
        /\ worker' = [worker EXCEPT ![w] = Idle] /\ answered \in [Tasks -> Answers]
        /\ UNCHANGED <<is_running, submitted, waiting, inner_executor, inner, result, root_alive>>
    BY DEF QueueInv, QueueTypes, OnDone
  <1>2. /\ t \in Taken /\ answered[t] = "no" /\ Has(w) /\ Taken' = Taken
        /\ \A v \in Workers : Has(v) /\ v # w => worker[v].task # t
    BY <1>1 DEF QueueInv, WorkersApart, Has, Taken
  <1>3. t \in Tasks /\ t \in Nat /\ t # 0 /\ (result[t] \in Results)
    BY <1>2, MaxTasksAssumption DEF QueueInv, QueueTypes, WaitingOrder, Taken, Tasks
  <1>4. r \in {"ok", "error", "timeout"}
    <2>1. result[t] # "none" => result[t] \in {"ok", "error"}
      BY <1>3 DEF Results
    <2> QED
      BY <2>1
  <1>5. /\ worker' \in [Workers -> [pc : Counters, task : Nat]]
        /\ worker'[w].pc = "idle"
        /\ \A v \in Workers : v # w => worker'[v] = worker[v]
    BY <1>1 DEF Idle, Counters
  <1>6. \A v \in Workers : /\ Has(v)' => Has(v) /\ v # w /\ worker'[v] = worker[v]
                           /\ Holds(v)' => Holds(v) /\ v # w /\ worker'[v] = worker[v]
    BY <1>5 DEF Has, Holds
  <1>7. WaitingOrder' /\ RunningApart' /\ QueuedApart'
    <2>1. WaitingOrder'
      BY <1>1 DEF QueueInv, WaitingOrder
    <2>2. RunningApart'
      BY <1>1, <1>2 DEF QueueInv, RunningApart
    <2>3. QueuedApart'
      <3>1. QueuedApart
        BY DEF QueueInv
      <3>2. inner' = inner /\ result' = result /\ Taken' = Taken
        BY <1>1, <1>2
      <3> QED
        BY <3>1, <3>2 DEF QueuedApart
    <2> QED
      BY <2>1, <2>2, <2>3
  <1>8. HeldApart'
    BY <1>1, <1>6 DEF QueueInv, HeldApart
  <1>9. CASE root_alive
    <2>1. after' = Append(after, Answer(t, r)) /\ answered' = answered
      BY <1>9 DEF OnDone
    <2>2. /\ Answer(t, r) \in Callbacks /\ Answer(t, r).event = "answer"
          /\ Answer(t, r).task = t /\ Answer(t, r).result = r
      BY <1>3, <1>4 DEF Answer, Callbacks
    <2>3. /\ after' \in Seq(Callbacks) /\ Len(after') = Len(after) + 1 /\ Len(after) \in Nat
          /\ \A i \in 1 .. Len(after) : after'[i] = after[i]
          /\ after'[Len(after) + 1] = Answer(t, r)
      BY <1>1, <2>1, <2>2
    <2>4. \A i \in 1 .. Len(after') :
            \/ i \in 1 .. Len(after) /\ after'[i] = after[i]
            \/ i = Len(after) + 1 /\ after'[i].event = "answer" /\ after'[i].task = t /\ after'[i].result = r
      BY <2>2, <2>3
    <2>5. QueueTypes'
      BY <1>1, <1>5, <2>1, <2>3 DEF QueueInv, QueueTypes
    <2>6. WorkersApart' /\ OnlyTaken'
      BY <1>1, <1>2, <1>6, <2>1 DEF QueueInv, WorkersApart, OnlyTaken
    <2>7. AnswersApart'
      <3> SUFFICES ASSUME NEW i \in 1 .. Len(after'), IsAnswer(i)'
                   PROVE  /\ after'[i].task \in Taken'
                          /\ answered'[after'[i].task] = "no"
                          /\ \A v \in Workers : Has(v)' => worker'[v].task # after'[i].task
                          /\ \A j \in 1 .. Len(after') : IsAnswer(j)' /\ j # i => after'[j].task # after'[i].task
        BY DEF AnswersApart
      <3>1. CASE i \in 1 .. Len(after) /\ after'[i] = after[i]
        <4>1. /\ IsAnswer(i) /\ after[i].task \in Taken /\ answered[after[i].task] = "no" /\ after[i].task # t
              /\ \A v \in Workers : Has(v) => worker[v].task # after[i].task
              /\ \A j \in 1 .. Len(after) : IsAnswer(j) /\ j # i => after[j].task # after[i].task
          BY <3>1, <1>2 DEF QueueInv, AnswersApart, IsAnswer
        <4>2. ASSUME NEW j \in 1 .. Len(after'), IsAnswer(j)', j # i PROVE after'[j].task # after[i].task
          BY <4>1, <4>2, <2>4 DEF IsAnswer
        <4> QED
          BY <4>1, <4>2, <3>1, <1>2, <1>6, <2>1
      <3>2. CASE i = Len(after) + 1 /\ after'[i].task = t
        <4>1. ASSUME NEW j \in 1 .. Len(after'), IsAnswer(j)', j # i PROVE after'[j].task # t
          <5>1. j \in 1 .. Len(after) /\ after'[j] = after[j] /\ IsAnswer(j)
            BY <4>1, <3>2, <2>4 DEF IsAnswer
          <5> QED
            BY <5>1, <1>2 DEF QueueInv, AnswersApart
        <4> QED
          BY <4>1, <3>2, <1>2, <1>6, <2>1
      <3> QED
        BY <3>1, <3>2, <2>4
    <2>8. AnswersTrue'
      <3>1. \A i \in 1 .. Len(after') :
              IsAnswer(i)' => \/ after'[i].result = "timeout"
                              \/ after'[i].result \in {"ok", "error"} /\ result[after'[i].task] = after'[i].result
        BY <2>4, <1>4 DEF QueueInv, AnswersTrue, IsAnswer
      <3> QED
        BY <3>1, <2>1, <1>1 DEF QueueInv, AnswersTrue
    <2> QED
      BY <2>5, <2>6, <2>7, <2>8, <1>7, <1>8 DEF QueueInv
  <1>10. CASE ~root_alive
    <2>1. after' = after /\ answered' = [answered EXCEPT ![t] = "lost"]
      BY <1>10 DEF OnDone
    <2>2. /\ answered' \in [Tasks -> Answers] /\ answered'[t] = "lost"
          /\ \A u \in Tasks : u # t => answered'[u] = answered[u]
      BY <1>1, <1>3, <2>1 DEF Answers
    <2>3. QueueTypes'
      BY <1>1, <1>5, <2>1, <2>2 DEF QueueInv, QueueTypes
    <2>4. \A u \in Taken : u \in Tasks
      BY MaxTasksAssumption DEF QueueInv, QueueTypes, WaitingOrder, Taken, Tasks
    <2> HIDE DEF t
    <2>5. WorkersApart'
      <3> SUFFICES ASSUME NEW v \in Workers, Has(v)'
                   PROVE  /\ worker'[v].task \in Taken'
                          /\ answered'[worker'[v].task] = "no"
                          /\ \A u \in Workers : Has(u)' /\ u # v => worker'[u].task # worker'[v].task
        BY DEF WorkersApart
      <3>1. Has(v) /\ v # w /\ worker'[v] = worker[v] /\ worker[v].task # t
        BY <1>2, <1>6
      <3>2. worker[v].task \in Taken /\ answered[worker[v].task] = "no"
        BY <3>1 DEF QueueInv, WorkersApart
      <3>3. ASSUME NEW u \in Workers, Has(u)', u # v PROVE worker'[u].task # worker'[v].task
        BY <3>1, <3>3, <1>6 DEF QueueInv, WorkersApart
      <3> QED
        BY <3>1, <3>2, <3>3, <2>2, <2>4, <1>2
    <2>6. AnswersApart'
      <3>1. \A i \in 1 .. Len(after) : IsAnswer(i) => after[i].task # t /\ after[i].task \in Tasks
        BY <1>2, <2>4 DEF QueueInv, AnswersApart, t
      <3> QED
        BY <3>1, <2>1, <2>2, <1>2, <1>6 DEF QueueInv, AnswersApart, IsAnswer
    <2>7. AnswersTrue'
      BY <2>1, <2>2, <1>1, <1>10 DEF QueueInv, AnswersTrue, IsAnswer
    <2>8. OnlyTaken'
      BY <2>2, <1>1, <1>2 DEF QueueInv, OnlyTaken
    <2> QED
      BY <2>3, <2>5, <2>6, <2>7, <2>8, <1>7, <1>8 DEF QueueInv
  <1> QED
    BY <1>9, <1>10

LEMMA WorkerStepKeeps ==
  ASSUME QueueInv, NEW w \in Workers, WorkerStep(w) PROVE QueueInv'
  <1>1. CASE Deliver(w)
    BY <1>1, OnDoneKeeps DEF Deliver
  <1>2. CASE TimeOut(w)
    BY <1>2, OnDoneKeeps DEF TimeOut
  <1> QED
    BY <1>1, <1>2, TakeTaskKeeps, CheckInnerKeeps, CreateInnerKeeps, SubmitInnerKeeps DEF WorkerStep

\* The callback that the window runs next.
LEMMA RunAfterKeeps ==
  ASSUME QueueInv, RunAfter
  PROVE  /\ QueueInv'
         /\ after # <<>> /\ Head(after) \in Callbacks
         /\ Head(after).event = "answer" =>
              /\ Head(after).task \in Taken /\ answered[Head(after).task] = "no"
              /\ Head(after).result \in {"ok", "error", "timeout"}
              /\ Head(after).result # "timeout" => result[Head(after).task] = Head(after).result
              /\ answered' = [answered EXCEPT ![Head(after).task] = Head(after).result]
         /\ Head(after).event # "answer" => answered' = answered
  <1> DEFINE c == Head(after)
  <1>1. /\ after \in Seq(Callbacks) /\ after # <<>> /\ after' = Tail(after) /\ root_alive
        /\ answered \in [Tasks -> Answers]
        /\ answered' = IF c.event = "answer" THEN [answered EXCEPT ![c.task] = c.result] ELSE answered
        /\ UNCHANGED <<is_running, submitted, waiting, worker, inner_executor, inner, result, root_alive>>
    BY DEF QueueInv, QueueTypes, RunAfter
  <1>2. /\ Len(after) \in Nat \ {0} /\ after' \in Seq(Callbacks) /\ Len(after') = Len(after) - 1
        /\ c = after[1] /\ c \in Callbacks /\ 1 \in 1 .. Len(after)
        /\ \A i \in 1 .. Len(after') : after'[i] = after[i + 1] /\ i + 1 \in 1 .. Len(after) /\ i + 1 # 1
    BY <1>1
  <1>3. \A i \in 1 .. Len(after') : IsAnswer(i)' => IsAnswer(i + 1)
    BY <1>2 DEF IsAnswer
  <1>4. Taken' = Taken /\ \A u \in Taken : u \in Tasks
    BY <1>1, MaxTasksAssumption DEF QueueInv, QueueTypes, WaitingOrder, Taken, Tasks
  <1>5. ASSUME c.event = "answer"
        PROVE  /\ c.task \in Taken /\ c.task \in Tasks /\ answered[c.task] = "no"
               /\ c.result \in {"ok", "error", "timeout"}
               /\ c.result # "timeout" => result[c.task] = c.result
               /\ \A w \in Workers : Has(w) => worker[w].task # c.task
               /\ \A j \in 1 .. Len(after) : IsAnswer(j) /\ j # 1 => after[j].task # c.task
    <2>1. IsAnswer(1)
      BY <1>5, <1>2 DEF IsAnswer
    <2>2. /\ after[1].task \in Taken /\ answered[after[1].task] = "no"
          /\ \A w \in Workers : Has(w) => worker[w].task # after[1].task
          /\ \A j \in 1 .. Len(after) : IsAnswer(j) /\ j # 1 => after[j].task # after[1].task
      BY <2>1, <1>2 DEF QueueInv, AnswersApart
    <2>3. \/ after[1].result = "timeout"
          \/ after[1].result \in {"ok", "error"} /\ result[after[1].task] = after[1].result
      BY <2>1, <1>2 DEF QueueInv, AnswersTrue
    <2> QED
      BY <1>2, <1>4, <2>2, <2>3
  <1>6. answered' \in [Tasks -> Answers]
    BY <1>1, <1>5 DEF Answers
  <1>7. \A u \in Tasks : \/ answered'[u] = answered[u]
                         \/ c.event = "answer" /\ u = c.task /\ answered'[u] = c.result
    BY <1>1, <1>5
  <1> HIDE DEF c
  <1>8. QueueTypes' /\ WaitingOrder'
    BY <1>1, <1>2, <1>6 DEF QueueInv, QueueTypes, WaitingOrder
  <1>9. RunningApart' /\ QueuedApart' /\ HeldApart'
    BY <1>1, <1>4 DEF QueueInv, RunningApart, QueuedApart, HeldApart, Holds
  <1>10. WorkersApart'
    <2>1. \A w \in Workers : Has(w) => answered'[worker[w].task] = "no"
      BY <1>4, <1>5, <1>7 DEF QueueInv, WorkersApart
    <2> QED
      BY <2>1, <1>1, <1>4 DEF QueueInv, WorkersApart, Has
  <1>11. AnswersApart'
    <2> SUFFICES ASSUME NEW i \in 1 .. Len(after'), IsAnswer(i)'
                 PROVE  /\ after'[i].task \in Taken'
                        /\ answered'[after'[i].task] = "no"
                        /\ \A w \in Workers : Has(w)' => worker'[w].task # after'[i].task
                        /\ \A j \in 1 .. Len(after') : IsAnswer(j)' /\ j # i => after'[j].task # after'[i].task
      BY DEF AnswersApart
    <2>1. i + 1 \in 1 .. Len(after) /\ i + 1 # 1 /\ after'[i] = after[i + 1] /\ IsAnswer(i + 1)
      BY <1>2, <1>3
    <2>2. /\ after[i + 1].task \in Taken /\ answered[after[i + 1].task] = "no"
          /\ \A w \in Workers : Has(w) => worker[w].task # after[i + 1].task
      BY <2>1 DEF QueueInv, AnswersApart
    <2>3. answered'[after[i + 1].task] = "no"
      BY <2>1, <2>2, <1>4, <1>5, <1>7
    <2>4. ASSUME NEW j \in 1 .. Len(after'), IsAnswer(j)', j # i PROVE after'[j].task # after[i + 1].task
      <3>1. j + 1 \in 1 .. Len(after) /\ after'[j] = after[j + 1] /\ IsAnswer(j + 1) /\ j + 1 # i + 1
        BY <2>4, <1>2, <1>3
      <3> QED
        BY <3>1, <2>1 DEF QueueInv, AnswersApart
    <2> QED
      BY <2>1, <2>2, <2>3, <2>4, <1>1, <1>4 DEF Has
  <1>12. AnswersTrue'
    <2>1. \A i \in 1 .. Len(after') :
            IsAnswer(i)' => \/ after'[i].result = "timeout"
                            \/ after'[i].result \in {"ok", "error"} /\ result[after'[i].task] = after'[i].result
      BY <1>2, <1>3 DEF QueueInv, AnswersTrue
    <2>2. \A t \in Tasks : answered'[t] \in {"ok", "error"} => result[t] = answered'[t]
      BY <1>5, <1>7 DEF QueueInv, AnswersTrue
    <2>3. \A t \in Tasks : answered'[t] = "lost" => ~root_alive
      BY <1>5, <1>7 DEF QueueInv, AnswersTrue
    <2> QED
      BY <2>1, <2>2, <2>3, <1>1 DEF AnswersTrue
  <1>13. OnlyTaken'
    BY <1>1, <1>4, <1>5, <1>7 DEF QueueInv, OnlyTaken
  <1> QED
    BY <1>1, <1>2, <1>5, <1>8, <1>9, <1>10, <1>11, <1>12, <1>13 DEF QueueInv, c

LEMMA PublishKeeps ==
  ASSUME QueueInv, PublishFriends,
         UNCHANGED <<is_running, submitted, waiting, worker, inner_executor, inner, result, root_alive, answered>>
  PROVE  QueueInv'
  <1> DEFINE c == [event |-> "friends", task |-> 0, result |-> "none"]
  <1>1. c \in Callbacks /\ c.event = "friends"
    BY DEF Callbacks
  <1>2. after \in Seq(Callbacks) /\ after' = Append(after, c)
    BY DEF QueueInv, QueueTypes, PublishFriends
  <1> HIDE DEF c
  <1>3. /\ after' \in Seq(Callbacks) /\ Len(after') = Len(after) + 1 /\ Len(after) \in Nat
        /\ \A i \in 1 .. Len(after) : after'[i] = after[i]
        /\ after'[Len(after) + 1] = c
    BY <1>1, <1>2
  <1>4. \A i \in 1 .. Len(after') : IsAnswer(i)' => IsAnswer(i) /\ i \in 1 .. Len(after) /\ after'[i] = after[i]
    <2>1. \A i \in 1 .. Len(after') : i \in 1 .. Len(after) \/ i = Len(after) + 1
      BY <1>3
    <2> QED
      BY <2>1, <1>1, <1>3 DEF IsAnswer
  <1>5. QueueTypes' /\ WaitingOrder' /\ Taken' = Taken
    BY <1>3 DEF QueueInv, QueueTypes, WaitingOrder, Taken
  <1>6. WorkersApart'
    BY <1>5 DEF QueueInv, WorkersApart, Has
  <1>7. OnlyTaken' /\ RunningApart' /\ QueuedApart' /\ HeldApart'
    BY <1>5 DEF QueueInv, OnlyTaken, RunningApart, QueuedApart, HeldApart, Holds
  <1>8. AnswersApart' /\ AnswersTrue'
    BY <1>4, <1>5 DEF QueueInv, AnswersApart, AnswersTrue, Has
  <1> QED
    BY <1>5, <1>6, <1>7, <1>8 DEF QueueInv

LEMMA QuietKeeps ==
  ASSUME QueueInv, root_alive' = root_alive \/ root_alive' = FALSE,
         UNCHANGED <<submitted, waiting, worker, inner_executor, inner, result, after, answered>>
  PROVE  QueueInv'
  <1>1. QueueTypes' /\ WaitingOrder' /\ Taken' = Taken
    BY DEF QueueInv, QueueTypes, WaitingOrder, Taken
  <1>2. WorkersApart' /\ AnswersApart'
    BY <1>1 DEF QueueInv, WorkersApart, AnswersApart, IsAnswer, Has
  <1>3. AnswersTrue'
    BY DEF QueueInv, AnswersTrue, IsAnswer
  <1>4. OnlyTaken' /\ RunningApart' /\ QueuedApart' /\ HeldApart'
    BY <1>1 DEF QueueInv, OnlyTaken, RunningApart, QueuedApart, HeldApart, Holds
  <1> QED
    BY <1>1, <1>2, <1>3, <1>4 DEF QueueInv

-----------------------------------------------------------------------------
(* What the steps of the queue mean for the tabs *)

LEMMA TaskNumbers ==
  ASSUME QueueInv
  PROVE  /\ submitted \in Nat /\ MaxTasks \in Nat /\ submitted <= MaxTasks
         /\ \A t \in Taken : t \in 1 .. submitted
         /\ \A t \in 1 .. submitted : t \in Tasks
         /\ submitted + 1 \notin Taken
         /\ \A t \in 1 .. submitted + 1 : t \in 1 .. submitted \/ t = submitted + 1
  <1>1. submitted \in Nat /\ MaxTasks \in Nat /\ submitted <= MaxTasks /\ Len(waiting) \in Nat
    BY MaxTasksAssumption DEF QueueInv, QueueTypes
  <1> QED
    BY <1>1 DEF Taken, Tasks

\* A worker tells a tab nothing, except that an answer is lost with the window; and it begins no function.
LEMMA WorkerTells ==
  ASSUME QueueInv, NEW w \in Workers, WorkerStep(w)
  PROVE  /\ UNCHANGED <<submitted, result, root_alive>>
         /\ \A t \in Tasks : \/ answered'[t] = answered[t]
                             \/ answered[t] = "no" /\ answered'[t] = "lost"
         /\ \A t \in 1 .. submitted : Begun(t)' => Begun(t)
  <1>1. UNCHANGED <<submitted, result, root_alive>>
    BY DEF WorkerStep, TakeTask, CheckInner, CreateInner, SubmitInner, Deliver, TimeOut, OnDone
  <1>2. \/ answered' = answered
        \/ Has(w) /\ answered' = [answered EXCEPT ![worker[w].task] = "lost"]
    BY DEF WorkerStep, TakeTask, CheckInner, CreateInner, SubmitInner, Deliver, TimeOut, OnDone, Has
  <1>3. \A t \in Tasks : \/ answered'[t] = answered[t]
                         \/ answered[t] = "no" /\ answered'[t] = "lost"
    <2>1. Has(w) => answered[worker[w].task] = "no"
      BY DEF QueueInv, WorkersApart
    <2>2. answered \in [Tasks -> Answers]
      BY DEF QueueInv, QueueTypes
    <2> QED
      BY <1>2, <2>1, <2>2
  <1>4. ASSUME NEW t \in 1 .. submitted, NEW e \in 1 .. Len(inner'), inner'[e].running = t
        PROVE  \E d \in 1 .. Len(inner) : inner[d].running = t
    <2>1. CASE inner' = inner
      BY <2>1, <1>4
    <2>2. CASE CreateInner(w)
      <3> DEFINE new == [queue |-> <<>>, running |-> 0]
      <3>1. inner \in Seq(Pools) /\ inner' = Append(inner, new) /\ new.running = 0
        BY <2>2 DEF CreateInner, QueueInv, QueueTypes
      <3> HIDE DEF new
      <3>2. (e \in 1 .. Len(inner) /\ inner'[e] = inner[e]) \/ inner'[e] = new
        BY <3>1
      <3>3. t # 0
        BY TaskNumbers
      <3> QED
        BY <3>1, <3>2, <3>3, <1>4
    <2>3. CASE SubmitInner(w)
      <3> DEFINE x == inner_executor
      <3>1. /\ inner \in Seq(Pools)
            /\ inner' = [inner EXCEPT ![x].queue = Append(inner[x].queue, worker[w].task)]
        BY <2>3 DEF SubmitInner, QueueInv, QueueTypes
      <3>2. x \in 1 .. Len(inner)
        BY <2>3 DEF SubmitInner, QueueInv, QueueTypes, HeldApart, Holds
      <3> HIDE DEF x
      <3>3. inner[x] \in Pools /\ Len(inner') = Len(inner)
        BY <3>1, <3>2
      <3>4. [inner[x] EXCEPT !.queue = Append(inner[x].queue, worker[w].task)].running = inner[x].running
        BY <3>3 DEF Pools
      <3>5. inner'[e].running = inner[e].running
        BY <3>1, <3>2, <3>3, <3>4
      <3> QED
        BY <3>3, <3>5, <1>4
    <2> QED
      BY <2>1, <2>2, <2>3 DEF WorkerStep, TakeTask, CheckInner, Deliver, TimeOut, OnDone
  <1>5. ASSUME NEW t \in 1 .. submitted, Begun(t)' PROVE Begun(t)
    <2>1. CASE result'[t] # "none"
      BY <2>1, <1>1 DEF Begun
    <2>2. CASE \E e \in 1 .. Len(inner') : inner'[e].running = t
      BY <2>2, <1>4 DEF Begun
    <2> QED
      BY <1>5, <2>1, <2>2 DEF Begun
  <1> QED
    BY <1>1, <1>3, <1>5

\* A step that changes nothing of the encrypt tab and answers no encryption.
LEMMA SendKept ==
  ASSUME QueueInv, QueueInv', SendInv, UNCHANGED sendVars,
         \A t \in encrypted' : t \in encrypted \/ (t \in Sent /\ result'[t] = "ok"),
         submitted' >= submitted,
         work' \in [Tasks -> WorkType],
         \A t \in 1 .. submitted' : (t \in 1 .. submitted /\ work'[t] = work[t]) \/ work'[t].kind # "send",
         \A t \in 1 .. submitted : work'[t] = work[t],
         \A t \in Sent : \/ answered'[t] = answered[t]
                         \/ answered[t] = "no" /\ answered'[t] = "lost",
         \A t \in 1 .. submitted : result[t] # "none" => result'[t] = result[t],
         MainRuns' => root_alive'
  PROVE  SendInv'
  <1>1. Sent' = Sent /\ \A t \in Sent : work'[t] = work[t] /\ t \in 1 .. submitted
    <2>1. submitted \in Nat /\ submitted' \in Nat
      BY MaxTasksAssumption DEF QueueInv, QueueTypes
    <2>2. ASSUME NEW t \in Sent' PROVE t \in Sent
      BY <2>1, <2>2 DEF Sent
    <2>3. ASSUME NEW t \in Sent PROVE t \in Sent'
      BY <2>1, <2>3 DEF Sent
    <2> QED
      BY <2>2, <2>3 DEF Sent
  <1>2. TabTypes'
    BY DEF SendInv, TabTypes, sendVars
  <1>3. TextsPlaced'
    BY <1>1 DEF SendInv, TextsPlaced, ForWhom, sendVars
  <1>4. EncryptedSent'
    <2>1. \A t \in encrypted' : t \in Sent /\ result'[t] = "ok"
      BY <1>1 DEF SendInv, EncryptedSent
    <2> QED
      BY <2>1, <1>1 DEF EncryptedSent
  <1>5. OnePlace'
    BY DEF SendInv, OnePlace, sendVars
  <1>6. BusyWithIt'
    BY <1>1 DEF SendInv, BusyWithIt, sendVars
  <1>7. SentIsGone'
    BY <1>1 DEF SendInv, SentIsGone, Spared, sendVars
  <1>8. OneTryLeft'
    BY <1>1 DEF SendInv, OneTryLeft, Spared, GaveUp, sendVars
  <1> QED
    BY <1>2, <1>3, <1>4, <1>5, <1>6, <1>7, <1>8 DEF SendInv

\* A step that begins no decryption.
LEMMA ModeKept ==
  ASSUME QueueInv, QueueInv', ModeNoted, last_mode' \in {None, last_mode}, overtaken' = overtaken,
         \A t \in 1 .. submitted' : (t \in 1 .. submitted /\ work'[t] = work[t]) \/ ~Begun(t)',
         \A t \in 1 .. submitted : answered'[t] = "no" => answered[t] = "no",
         \A t \in 1 .. submitted : Begun(t)' => Begun(t)
  PROVE  ModeNoted'
  BY DEF ModeNoted

-----------------------------------------------------------------------------
(* Composing *)

LEMMA TypeTextSend ==
  ASSUME QueueInv, SendInv, TypeText PROVE SendInv'
  <1> DEFINE n == Len(wroteFor) + 1
  <1>1. /\ wroteFor \in Seq(Recipient) /\ friend \in Recipient /\ ~busy /\ box = 0
        /\ drafts \in [Recipient -> 0 .. Len(wroteFor)] /\ wroteFor' = Append(wroteFor, friend) /\ box' = n
        /\ UNCHANGED <<queueVars, work, friend, drafts, busy, moved, hasted, encrypted, phase>>
    BY DEF SendInv, TabTypes, TypeText
  <1>2. /\ wroteFor' \in Seq(Recipient) /\ Len(wroteFor') = n /\ n \in Nat /\ Len(wroteFor) \in Nat
        /\ \A x \in 1 .. Len(wroteFor) : wroteFor'[x] = wroteFor[x]
        /\ wroteFor'[n] = friend
    BY <1>1
  <1>3. Sent' = Sent /\ answered' = answered /\ result' = result
    BY <1>1 DEF Sent, queueVars
  <1>4. TabTypes'
    <2>1. drafts' \in [Recipient -> 0 .. Len(wroteFor')] /\ box' \in 0 .. Len(wroteFor')
      BY <1>1, <1>2
    <2> QED
      BY <2>1, <1>1, <1>2 DEF SendInv, TabTypes, MainRuns, queueVars
  <1>5. \A f \in Recipient : drafts[f] \in 0 .. Len(wroteFor) /\ drafts[f] # n
    BY <1>1, <1>2
  <1>6. \A t \in Sent : work[t].text \in 1 .. Len(wroteFor) /\ work[t].text # n
    BY <1>2 DEF SendInv, TextsPlaced
  <1>7. TextsPlaced'
    <2>1. ForWhom(box, friend)'
      BY <1>1, <1>2 DEF ForWhom
    <2>2. ASSUME NEW x \in 0 .. Len(wroteFor), NEW f \in Recipient, ForWhom(x, f)
          PROVE  x # 0 => wroteFor'[x] = f \/ x \in moved'
      BY <2>2, <1>1, <1>2 DEF ForWhom
    <2>3. \A f \in Recipient : f # friend => (drafts[f] # 0 => wroteFor'[drafts[f]] = f \/ drafts[f] \in moved')
      BY <2>2, <1>5 DEF SendInv, TextsPlaced
    <2>4. ASSUME NEW t \in Sent
          PROVE  /\ work[t].text \in 1 .. Len(wroteFor')
                 /\ wroteFor'[work[t].text] = work[t].to \/ work[t].text \in moved'
      <3>1. work[t].text \in 1 .. Len(wroteFor) /\ ForWhom(work[t].text, work[t].to)
        BY DEF SendInv, TextsPlaced
      <3> QED
        BY <3>1, <1>1, <1>2 DEF ForWhom
    <2> QED
      BY <2>1, <2>3, <2>4, <1>1, <1>3 DEF TextsPlaced, ForWhom
  <1> HIDE DEF n
  <1>8. EncryptedSent' /\ OneTryLeft'
    BY <1>1, <1>3 DEF SendInv, EncryptedSent, OneTryLeft, Spared, GaveUp
  <1>9. OnePlace'
    BY <1>1, <1>5 DEF SendInv, OnePlace
  <1>10. BusyWithIt'
    BY <1>1, <1>3 DEF SendInv, BusyWithIt
  <1>11. SentIsGone'
    BY <1>1, <1>3, <1>6 DEF SendInv, SentIsGone, Spared
  <1> QED
    BY <1>4, <1>7, <1>8, <1>9, <1>10, <1>11 DEF SendInv

LEMMA ClearInputSend ==
  ASSUME QueueInv, SendInv, ClearInput PROVE SendInv'
  <1>1. /\ box' = 0 /\ ~busy
        /\ UNCHANGED <<queueVars, work, friend, drafts, busy, wroteFor, moved, hasted, encrypted, phase>>
    BY DEF ClearInput
  <1>2. Sent' = Sent /\ answered' = answered /\ result' = result /\ root_alive' = root_alive
    BY <1>1 DEF Sent, queueVars
  <1>3. TabTypes'
    BY <1>1, <1>2 DEF SendInv, TabTypes, MainRuns
  <1>4. \A t \in Sent : work[t].text # 0
    BY DEF SendInv, TextsPlaced
  <1>5. TextsPlaced'
    BY <1>1, <1>2 DEF SendInv, TextsPlaced, ForWhom
  <1>6. EncryptedSent' /\ OneTryLeft'
    BY <1>1, <1>2 DEF SendInv, EncryptedSent, OneTryLeft, Spared, GaveUp
  <1>7. OnePlace'
    BY <1>1 DEF SendInv, OnePlace
  <1>8. BusyWithIt'
    BY <1>1, <1>2 DEF SendInv, BusyWithIt
  <1>9. SentIsGone'
    BY <1>1, <1>2, <1>4 DEF SendInv, SentIsGone, Spared
  <1> QED
    BY <1>3, <1>5, <1>6, <1>7, <1>8, <1>9 DEF SendInv

\* The friend changes: the box and the drafts exchange texts, unless the box is disabled, and then
\* its text is one of those that moved.
LEMMA SwapSend ==
  ASSUME QueueInv, SendInv, NEW new \in Recipient, new # friend, SwapFriend(new),
         UNCHANGED <<submitted, answered, result, root_alive, work, busy, wroteFor, hasted, encrypted, phase>>
  PROVE  SendInv'
  <1>1. /\ drafts \in [Recipient -> 0 .. Len(wroteFor)] /\ box \in 0 .. Len(wroteFor) /\ friend \in Recipient
        /\ drafts' = [drafts EXCEPT ![friend] = box] /\ friend' = new /\ busy \in BOOLEAN
        /\ box' = IF busy THEN box ELSE drafts'[new]
        /\ moved' = IF busy /\ new # friend THEN moved \cup ({box} \ {0}) ELSE moved
    BY DEF SendInv, TabTypes, SwapFriend
  <1>2. /\ drafts' \in [Recipient -> 0 .. Len(wroteFor)]
        /\ drafts'[friend] = box
        /\ \A f \in Recipient : f # friend => drafts'[f] = drafts[f]
        /\ box' \in 0 .. Len(wroteFor)
        /\ box' = IF busy THEN box ELSE drafts[new]
    BY <1>1
  <1>3. /\ \A x : x \in moved => x \in moved'
        /\ busy /\ box # 0 => box \in moved'
    BY <1>1
  <1>4. Sent' = Sent
    BY DEF Sent
  <1>5. TabTypes'
    BY <1>1, <1>2 DEF SendInv, TabTypes, MainRuns
  <1>6. TextsPlaced'
    <2>1. ForWhom(box, friend)'
      BY <1>1, <1>2, <1>3 DEF SendInv, TextsPlaced, ForWhom
    <2>2. \A f \in Recipient : f # new => (drafts'[f] # 0 => wroteFor[drafts'[f]] = f \/ drafts'[f] \in moved')
      BY <1>1, <1>2, <1>3 DEF SendInv, TextsPlaced, ForWhom
    <2>3. \A t \in Sent : /\ work[t].text \in 1 .. Len(wroteFor)
                          /\ work[t].text # 0 => wroteFor[work[t].text] = work[t].to \/ work[t].text \in moved'
      BY <1>3 DEF SendInv, TextsPlaced, ForWhom
    <2> QED
      BY <1>1, <1>4, <2>1, <2>2, <2>3 DEF TextsPlaced, ForWhom
  <1>7. EncryptedSent' /\ OneTryLeft'
    BY <1>3, <1>4 DEF SendInv, EncryptedSent, OneTryLeft, Spared, GaveUp
  <1>8. OnePlace'
    <2> SUFFICES ASSUME NEW f \in Recipient, f # new, drafts'[f] # 0, drafts'[f] \notin moved'
                 PROVE  /\ drafts'[f] # box'
                        /\ \A g \in Recipient : g # new /\ g # f => drafts'[g] # drafts'[f]
      BY <1>1 DEF OnePlace
    <2>1. CASE f = friend
      <3>1. drafts'[f] = box /\ box # 0 /\ box \notin moved /\ ~busy
        BY <2>1, <1>2, <1>3
      <3>2. \A g \in Recipient : g # friend => drafts[g] # box
        BY <3>1 DEF SendInv, OnePlace
      <3> QED
        BY <2>1, <3>1, <3>2, <1>2
    <2>2. CASE f # friend
      <3>1. drafts'[f] = drafts[f] /\ drafts[f] # 0 /\ drafts[f] \notin moved
        BY <2>2, <1>2, <1>3
      <3>2. /\ drafts[f] # box
            /\ \A g \in Recipient : g # friend /\ g # f => drafts[g] # drafts[f]
        BY <2>2, <3>1 DEF SendInv, OnePlace
      <3> QED
        BY <2>2, <3>1, <3>2, <1>2
    <2> QED
      BY <2>1, <2>2
  <1>9. BusyWithIt'
    BY <1>1, <1>4 DEF SendInv, BusyWithIt
  <1>10. SentIsGone'
    <2> SUFFICES ASSUME NEW t \in Sent, answered[t] = "ok", work[t].text \notin moved' \cup hasted
                 PROVE  /\ box' # work[t].text
                        /\ \A f \in Recipient : f # new => drafts'[f] # work[t].text
      BY <1>1, <1>4 DEF SentIsGone, Spared
    <2>1. /\ box # work[t].text
          /\ \A f \in Recipient : f # friend => drafts[f] # work[t].text
      BY <1>3 DEF SendInv, SentIsGone, Spared
    <2> QED
      BY <2>1, <1>2
  <1> QED
    BY <1>5, <1>6, <1>7, <1>8, <1>9, <1>10 DEF SendInv

LEMMA UpdateSend ==
  ASSUME QueueInv, QueueInv', SendInv, UpdateFriendList,
         UNCHANGED <<submitted, answered, result, root_alive, work, busy, logged, wroteFor, hasted, encrypted, phase>>
  PROVE  SendInv'
  <1>1. CASE friend = None
    <2>1. UNCHANGED <<sendVars, encrypted>>
      BY <1>1 DEF UpdateFriendList, sendVars
    <2>2. /\ submitted' >= submitted /\ submitted \in Nat
          /\ work' \in [Tasks -> WorkType]
          /\ MainRuns' => root_alive'
      BY TaskNumbers DEF SendInv, TabTypes, MainRuns
    <2> QED
      BY <2>1, <2>2, SendKept
  <1>2. CASE friend # None
    BY <1>2, SwapSend DEF UpdateFriendList, Recipient
  <1> QED
    BY <1>1, <1>2

LEMMA SendMessageSend ==
  ASSUME QueueInv, QueueInv', SendInv, NEW shortcut \in BOOLEAN, SendMessage(shortcut) PROVE SendInv'
  <1> DEFINE n == submitted + 1
  <1>1. /\ box # 0 /\ box \in 0 .. Len(wroteFor) /\ friend \in Recipient /\ n \in Tasks /\ submitted' = n
        /\ phase = "open" /\ root_alive
        /\ work' = [work EXCEPT ![n] = [kind |-> "send", text |-> box, to |-> friend]]
        /\ busy' = TRUE /\ hasted' = (IF busy THEN hasted \cup {box} ELSE hasted)
        /\ UNCHANGED <<friend, box, drafts, wroteFor, moved, phase, encrypted, answered, result, root_alive>>
    <2>1. phase = "open" /\ root_alive
      BY DEF SendMessage, Open, SendInv, TabTypes, MainRuns
    <2>2. n \in Tasks
      BY TaskNumbers DEF SendMessage, Submit, Tasks
    <2> QED
      BY <2>1, <2>2 DEF SendMessage, Submit, SendInv, TabTypes
  <1>2. work \in [Tasks -> WorkType]
    BY DEF SendInv, TabTypes
  <1>3. /\ work' \in [Tasks -> WorkType]
        /\ work'[n].kind = "send" /\ work'[n].text = box /\ work'[n].to = friend
        /\ \A t \in Tasks : t # n => work'[t] = work[t]
    <2>1. box \in Nat
      BY <1>1 DEF SendInv, TabTypes
    <2>2. [kind |-> "send", text |-> box, to |-> friend] \in WorkType
      BY <1>1, <2>1 DEF WorkType
    <2> QED
      BY <1>1, <1>2, <2>2
  <1>4. /\ n \notin Sent /\ Sent' = Sent \cup {n}
        /\ \A t \in Sent : t # n /\ t \in Tasks /\ work'[t] = work[t]
    <2>1. submitted \in Nat /\ \A t \in 1 .. submitted : t \in Tasks /\ t # n
      BY TaskNumbers
    <2>2. \A t \in Sent : t # n /\ t \in Tasks /\ work'[t] = work[t] /\ t \in 1 .. submitted
      BY <2>1, <1>3 DEF Sent
    <2>3. ASSUME NEW t \in Sent' PROVE t \in Sent \cup {n}
      BY <2>1, <2>3, <1>1, <1>3 DEF Sent
    <2>4. ASSUME NEW t \in Sent \cup {n} PROVE t \in Sent'
      <3>1. CASE t = n
        BY <3>1, <2>1, <1>1, <1>3 DEF Sent
      <3>2. CASE t \in Sent
        BY <3>2, <2>1, <2>2, <1>1 DEF Sent
      <3> QED
        BY <3>1, <3>2
    <2> QED
      BY <2>2, <2>3, <2>4
  <1>5. answered[n] = "no"
    BY <1>1, TaskNumbers DEF QueueInv, OnlyTaken
  <1>6. \A x : x \in hasted => x \in hasted'
    BY <1>1
  <1> HIDE DEF n
  <1>7. TabTypes'
    BY <1>1, <1>3 DEF SendInv, TabTypes, MainRuns
  <1>8. TextsPlaced'
    <2>1. ForWhom(box, friend) /\ \A f \in Recipient : f # friend => ForWhom(drafts[f], f)
      BY DEF SendInv, TextsPlaced
    <2>2. ASSUME NEW t \in Sent' PROVE work'[t].text \in 1 .. Len(wroteFor) /\ ForWhom(work'[t].text, work'[t].to)
      BY <2>1, <1>1, <1>3, <1>4 DEF SendInv, TextsPlaced
    <2> QED
      BY <2>1, <2>2, <1>1 DEF TextsPlaced, ForWhom
  <1>9. EncryptedSent'
    BY <1>1, <1>4 DEF SendInv, EncryptedSent
  <1>10. OnePlace'
    BY <1>1 DEF SendInv, OnePlace
  <1>11. BusyWithIt'
    <2>1. ASSUME NEW t \in Sent, answered[t] = "no" PROVE work[t].text \in hasted' \/ box = work[t].text
      BY <2>1, <1>6 DEF SendInv, BusyWithIt
    <2> QED
      BY <2>1, <1>1, <1>3, <1>4 DEF BusyWithIt
  <1>12. SentIsGone'
    BY <1>1, <1>4, <1>5, <1>6 DEF SendInv, SentIsGone, Spared
  \* All earlier tasks with this text have given up.
  <1>13. ASSUME NEW t \in Sent, work[t].text = box, box \notin moved \cup hasted' PROVE GaveUp(t)
    <2>1. ~busy /\ box \notin hasted
      BY <1>1, <1>13
    <2>2. answered[t] # "no"
      BY <1>13, <2>1 DEF SendInv, BusyWithIt
    <2>3. answered[t] # "ok"
      BY <1>13, <2>1 DEF SendInv, SentIsGone, Spared
    <2>4. answered[t] # "lost"
      BY <1>1, <1>4 DEF QueueInv, AnswersTrue
    <2>5. answered[t] \in Answers
      BY <1>4 DEF QueueInv, QueueTypes
    <2> QED
      BY <2>2, <2>3, <2>4, <2>5 DEF Answers, GaveUp
  <1>14. OneTryLeft'
    <2> SUFFICES ASSUME NEW t \in Sent', NEW u \in Sent', t # u, work'[t].text = work'[u].text,
                        work'[t].text \notin moved \cup hasted'
                 PROVE  GaveUp(t) \/ GaveUp(u)
      BY <1>1 DEF OneTryLeft, Spared, GaveUp
    <2>1. CASE t \in Sent /\ u \in Sent
      BY <2>1, <1>4, <1>6 DEF SendInv, OneTryLeft, Spared
    <2>2. CASE t = n
      <3>1. u \in Sent /\ work[u].text = box /\ box \notin moved \cup hasted'
        BY <2>2, <1>3, <1>4
      <3> QED
        BY <3>1, <1>13
    <2>3. CASE u = n
      <3>1. t \in Sent /\ work[t].text = box /\ box \notin moved \cup hasted'
        BY <2>3, <1>3, <1>4
      <3> QED
        BY <3>1, <1>13
    <2> QED
      BY <2>1, <2>2, <2>3, <1>4
  <1> QED
    BY <1>7, <1>8, <1>9, <1>10, <1>11, <1>12, <1>14 DEF SendInv

\* The answer to an encryption: its text leaves the box, unless another one was being encrypted.
LEMMA AnsweredSend ==
  ASSUME QueueInv, QueueInv', SendInv, RunAfter, Head(after).event = "answer",
         work[Head(after).task].kind = "send", SendAnswered(Head(after).task, Head(after).result),
         UNCHANGED <<friend, drafts, wroteFor, moved, work, encrypted, phase>>
  PROVE  SendInv'
  <1> DEFINE t == Head(after).task
             r == Head(after).result
  <1>1. /\ t \in Taken /\ answered[t] = "no" /\ answered' = [answered EXCEPT ![t] = r]
        /\ r \in {"ok", "error", "timeout"}
    BY RunAfterKeeps
  <1>2. t \in Sent /\ Sent' = Sent /\ t \in Tasks /\ \A u \in Sent : u \in Tasks /\ u \in 1 .. submitted
    BY <1>1, TaskNumbers DEF Sent, RunAfter
  <1>3. /\ busy' = FALSE /\ box' = (IF r = "ok" THEN 0 ELSE box) /\ hasted' = hasted \cup BeingEncrypted(t)
        /\ UNCHANGED <<result, root_alive, submitted>>
    BY DEF SendAnswered, RunAfter
  <1>4. answered'[t] = r /\ \A u \in Sent : u # t => answered'[u] = answered[u]
    BY <1>1, <1>2 DEF QueueInv, QueueTypes
  <1>5. \A u \in Sent : u # t /\ answered[u] = "no" => work[u].text \in hasted'
    BY <1>2, <1>3 DEF BeingEncrypted, Sent
  <1>6. /\ \A x : x \in hasted => x \in hasted'
        /\ \A u \in Sent : work[u].text # 0
    BY <1>3 DEF SendInv, TextsPlaced
  <1> HIDE DEF t, r
  <1>7. TabTypes'
    <2>1. box \in 0 .. Len(wroteFor) /\ Len(wroteFor) \in Nat
      BY DEF SendInv, TabTypes
    <2>2. box' \in 0 .. Len(wroteFor)
      BY <2>1, <1>3
    <2> QED
      BY <2>2, <1>3 DEF SendInv, TabTypes, MainRuns
  <1>8. TextsPlaced'
    BY <1>2, <1>3 DEF SendInv, TextsPlaced, ForWhom
  <1>9. EncryptedSent'
    BY <1>2, <1>3 DEF SendInv, EncryptedSent
  <1>10. OnePlace'
    BY <1>3 DEF SendInv, OnePlace
  <1>11. BusyWithIt'
    BY <1>1, <1>2, <1>4, <1>5 DEF BusyWithIt
  <1>12. SentIsGone'
    <2> SUFFICES ASSUME NEW u \in Sent, answered'[u] = "ok", work[u].text \notin moved \cup hasted'
                 PROVE  /\ box' # work[u].text
                        /\ \A f \in Recipient : f # friend => drafts[f] # work[u].text
      BY <1>2 DEF SentIsGone, Spared
    <2>1. CASE u = t
      <3>1. box = work[u].text
        BY <2>1, <1>1, <1>6 DEF SendInv, BusyWithIt
      <3>2. box' = 0
        BY <2>1, <1>3, <1>4
      <3> QED
        BY <3>1, <3>2, <1>6 DEF SendInv, OnePlace
    <2>2. CASE u # t
      BY <2>2, <1>3, <1>4, <1>6 DEF SendInv, SentIsGone, Spared
    <2> QED
      BY <2>1, <2>2
  <1>13. OneTryLeft'
    <2>1. \A u \in Sent : GaveUp(u) => GaveUp(u)'
      BY <1>1, <1>4 DEF GaveUp
    <2> QED
      BY <2>1, <1>2, <1>6 DEF SendInv, OneTryLeft, Spared
  <1> QED
    BY <1>7, <1>8, <1>9, <1>10, <1>11, <1>12, <1>13 DEF SendInv

-----------------------------------------------------------------------------
(* The functions *)

LEMMA DomainInner == ASSUME QueueInv PROVE DOMAIN inner = 1 .. Len(inner)
  BY DEF QueueInv, QueueTypes

LEMMA StartWorkKeeps ==
  ASSUME QueueInv, SendInv, ShowInv, NEW e \in DOMAIN inner, StartWork(e)
  PROVE  QueueInv' /\ SendInv' /\ ShowInv'
  <1> DEFINE t == Head(inner[e].queue)
             begun == {u \in 1 .. submitted : /\ work[u].kind = "receive" /\ answered[u] = "no"
                                              /\ result[u] # "none" \/ \E d \in DOMAIN inner : inner[d].running = u}
  <1>1. e \in 1 .. Len(inner) /\ StartTask(e)
    BY DomainInner DEF StartWork
  <1>2. /\ QueueInv' /\ t \in Taken
        /\ Len(inner') = Len(inner)
        /\ \A d \in 1 .. Len(inner) : d # e => inner'[d] = inner[d]
        /\ inner'[e].running = t
    BY <1>1, StartTaskKeeps
  <1>3. /\ UNCHANGED <<work, sendVars, showVars, phase, encrypted, submitted, answered, result, root_alive>>
        /\ IF work[t].kind = "receive"
           THEN last_mode' = work[t].text /\ overtaken' = overtaken \cup begun
           ELSE UNCHANGED <<last_mode, overtaken>>
    BY DEF StartWork, StartTask
  <1>4. \A u \in 1 .. submitted : Begun(u) /\ work[u].kind = "receive" /\ answered[u] = "no" => u \in begun
    BY DomainInner DEF Begun
  <1> HIDE DEF t, begun
  <1>5. SendInv'
    <2>1. /\ work' \in [Tasks -> WorkType]
          /\ MainRuns' => root_alive'
      BY <1>3 DEF SendInv, TabTypes, MainRuns
    <2>2. submitted' >= submitted
      BY <1>3, TaskNumbers
    <2>3. UNCHANGED sendVars
      BY <1>3
    <2> QED
      BY <1>2, <1>3, <2>1, <2>2, <2>3, SendKept
  <1>6. \A u \in 1 .. submitted : Begun(u)' => Begun(u) \/ u = t
    <2> SUFFICES ASSUME NEW u \in 1 .. submitted, Begun(u)' PROVE Begun(u) \/ u = t
      OBVIOUS
    <2>1. CASE result'[u] # "none"
      BY <2>1, <1>3 DEF Begun
    <2>2. ASSUME NEW d \in 1 .. Len(inner'), inner'[d].running = u PROVE Begun(u) \/ u = t
      BY <2>2, <1>2 DEF Begun
    <2> QED
      BY <2>1, <2>2 DEF Begun
  <1>7. ModeNoted'
    <2> SUFFICES ASSUME NEW u \in 1 .. submitted, work[u].kind = "receive", answered[u] = "no", Begun(u)',
                        u \notin overtaken'
                 PROVE  last_mode' \in {None, work[u].text}
      BY <1>3 DEF ModeNoted
    <2>1. CASE work[t].kind = "receive"
      BY <2>1, <1>3, <1>4, <1>6
    <2>2. CASE work[t].kind # "receive"
      BY <2>2, <1>3, <1>6 DEF ShowInv, ModeNoted
    <2> QED
      BY <2>1, <2>2
  <1>8. LabelIsTrue'
    BY <1>3 DEF ShowInv, LabelIsTrue, showVars
  <1> QED
    BY <1>2, <1>5, <1>7, <1>8 DEF ShowInv

LEMMA EndWorkKeeps ==
  ASSUME QueueInv, SendInv, ShowInv, NEW e \in DOMAIN inner, NEW r \in {"ok", "error"}, EndWork(e, r)
  PROVE  QueueInv' /\ SendInv' /\ ShowInv'
  <1> DEFINE t == inner[e].running
  <1>1. e \in 1 .. Len(inner) /\ EndTask(e, r)
    BY DomainInner DEF EndWork
  <1>2. /\ QueueInv' /\ t \in Taken /\ t \in Tasks /\ result[t] = "none"
        /\ result' = [result EXCEPT ![t] = r]
        /\ Len(inner') = Len(inner)
        /\ \A d \in 1 .. Len(inner) : d # e => inner'[d] = inner[d]
        /\ inner'[e].running = 0
    BY <1>1, EndTaskKeeps
  <1>3. /\ UNCHANGED <<work, sendVars, showVars, phase, overtaken, last_mode, submitted, answered, root_alive>>
        /\ encrypted' = IF work[t].kind = "send" /\ r = "ok" THEN encrypted \cup {t} ELSE encrypted
    BY DEF EndWork, EndTask
  <1>4. /\ t \in 1 .. submitted /\ result'[t] = r
        /\ \A u \in Tasks : u # t => result'[u] = result[u]
        /\ \A u \in 1 .. submitted : u \in Tasks /\ u # 0
    BY <1>2, TaskNumbers DEF QueueInv, QueueTypes
  <1>5. Begun(t)
    BY <1>1 DEF Begun
  <1> HIDE DEF t
  <1>6. SendInv'
    <2>1. /\ work' \in [Tasks -> WorkType]
          /\ MainRuns' => root_alive'
      BY <1>3 DEF SendInv, TabTypes, MainRuns
    <2>2. submitted' >= submitted
      BY <1>3, TaskNumbers
    <2>3. UNCHANGED sendVars
      BY <1>3
    <2>4. \A u \in encrypted' : u \in encrypted \/ (u \in Sent /\ result'[u] = "ok")
      BY <1>3, <1>4 DEF Sent
    <2>5. \A u \in 1 .. submitted : result[u] # "none" => result'[u] = result[u]
      BY <1>2, <1>4
    <2> QED
      BY <1>2, <1>3, <2>1, <2>2, <2>3, <2>4, <2>5, SendKept
  <1>7. \A u \in 1 .. submitted : Begun(u)' => Begun(u)
    <2> SUFFICES ASSUME NEW u \in 1 .. submitted, Begun(u)' PROVE Begun(u)
      OBVIOUS
    <2>1. CASE result'[u] # "none"
      BY <2>1, <1>4, <1>5 DEF Begun
    <2>2. ASSUME NEW d \in 1 .. Len(inner'), inner'[d].running = u PROVE Begun(u)
      BY <2>2, <1>2, <1>4 DEF Begun
    <2> QED
      BY <2>1, <2>2 DEF Begun
  <1>8. ModeNoted'
    BY <1>2, <1>3, <1>7, ModeKept DEF ShowInv
  <1>9. LabelIsTrue'
    BY <1>3 DEF ShowInv, LabelIsTrue, showVars
  <1> QED
    BY <1>2, <1>6, <1>8, <1>9 DEF ShowInv

-----------------------------------------------------------------------------
(* The other steps *)

\* A new task has not begun.
LEMMA NewTaskMode ==
  ASSUME QueueInv, QueueInv', ModeNoted, Submit, UNCHANGED <<last_mode, overtaken>>,
         \A t \in 1 .. submitted : work'[t] = work[t]
  PROVE  ModeNoted'
  <1>1. /\ submitted' = submitted + 1 /\ UNCHANGED <<result, inner, answered>>
        /\ submitted + 1 \in Tasks
    BY TaskNumbers DEF Submit, Tasks
  <1>2. \A t : Begun(t)' = Begun(t)
    BY <1>1 DEF Begun
  <1>3. ~Begun(submitted + 1)
    <2>1. result[submitted + 1] = "none"
      BY <1>1, TaskNumbers DEF QueueInv, OnlyTaken
    <2>2. \A e \in 1 .. Len(inner) : inner[e].running # submitted + 1
      BY TaskNumbers DEF QueueInv, RunningApart
    <2> QED
      BY <2>1, <2>2 DEF Begun
  <1>4. \A t \in 1 .. submitted' : (t \in 1 .. submitted /\ work'[t] = work[t]) \/ ~Begun(t)'
    <2>1. \A t \in 1 .. submitted + 1 : t \in 1 .. submitted \/ t = submitted + 1
      BY TaskNumbers
    <2> QED
      BY <2>1, <1>1, <1>2, <1>3
  <1> QED
    BY <1>1, <1>2, <1>4, ModeKept

\* A task that is not an encryption.
LEMMA OtherTaskSend ==
  ASSUME QueueInv, QueueInv', SendInv, Submit, NEW x \in WorkType, x.kind # "send",
         work' = [work EXCEPT ![submitted + 1] = x], UNCHANGED <<sendVars, encrypted, phase>>
  PROVE  SendInv' /\ \A t \in 1 .. submitted : work'[t] = work[t]
  <1>1. /\ submitted' = submitted + 1 /\ UNCHANGED <<result, answered, root_alive>>
        /\ submitted + 1 \in Tasks /\ submitted' >= submitted
    BY TaskNumbers DEF Submit, Tasks
  <1>2. work \in [Tasks -> WorkType] /\ work' \in [Tasks -> WorkType] /\ work'[submitted + 1].kind # "send"
    BY <1>1 DEF SendInv, TabTypes, WorkType
  <1>3. \A t \in 1 .. submitted : work'[t] = work[t]
    BY <1>2, TaskNumbers
  <1>4. \A t \in 1 .. submitted' : (t \in 1 .. submitted /\ work'[t] = work[t]) \/ work'[t].kind # "send"
    <2>1. \A t \in 1 .. submitted + 1 : t \in 1 .. submitted \/ t = submitted + 1
      BY TaskNumbers
    <2> QED
      BY <2>1, <1>1, <1>2, <1>3
  <1>5. MainRuns' => root_alive'
    BY <1>1 DEF SendInv, TabTypes, MainRuns
  <1>6. SendInv'
    BY <1>1, <1>2, <1>3, <1>4, <1>5, SendKept DEF WorkType
  <1> QED
    BY <1>3, <1>6

\* A step that leaves the queue and the encrypt tab alone.
LEMMA ElsewhereKeeps ==
  ASSUME QueueInv, QueueInv', SendInv, ModeNoted, last_mode' \in {None, last_mode},
         UNCHANGED <<submitted, answered, result, inner, work, sendVars, encrypted, overtaken>>,
         MainRuns' => root_alive'
  PROVE  SendInv' /\ ModeNoted'
  <1>1. work' \in [Tasks -> WorkType] /\ submitted' >= submitted
    BY TaskNumbers DEF SendInv, TabTypes, WorkType
  <1>2. SendInv'
    BY <1>1, SendKept DEF WorkType
  <1>3. \A t : Begun(t)' = Begun(t)
    BY DEF Begun
  <1> QED
    BY <1>2, <1>3, ModeKept

LEMMA UserKeeps ==
  ASSUME IInv, UserStep PROVE IInv'
  <1> USE DEF IInv, ShowInv
  <1>a. (MainRuns => root_alive) /\ work \in [Tasks -> WorkType]
    BY DEF SendInv, TabTypes, WorkType
  <1>b. \A t : UNCHANGED <<result, inner>> => Begun(t)' = Begun(t)
    BY DEF Begun
  <1>1. CASE TypeText \/ ClearInput
    <2>1. UNCHANGED <<queueVars, work, last_mode, overtaken, showVars>>
      BY <1>1 DEF TypeText, ClearInput
    <2>2. QueueInv'
      BY <2>1, QuietKeeps DEF queueVars
    <2>3. SendInv'
      BY <1>1, TypeTextSend, ClearInputSend
    <2>4. ModeNoted' /\ LabelIsTrue'
      BY <2>1, <2>2, <1>b, ModeKept DEF queueVars, LabelIsTrue, showVars
    <2> QED
      BY <2>2, <2>3, <2>4
  <1>2. CASE SelectTab \/ \E new \in Recipient : ChangeFriend(new)
    <2>1. UNCHANGED <<queueVars, work, last_mode, overtaken, showVars, busy, logged, wroteFor, hasted, encrypted, phase>>
      BY <1>2 DEF SelectTab, ChangeFriend
    <2>2. QueueInv'
      BY <2>1, QuietKeeps DEF queueVars
    <2>3. SendInv'
      <3>1. UNCHANGED <<submitted, answered, result, root_alive>>
        BY <2>1 DEF queueVars
      <3>2. CASE SelectTab
        BY <3>1, <3>2, <2>1, <2>2, UpdateSend DEF SelectTab
      <3>3. CASE \E new \in Recipient : ChangeFriend(new)
        <4>1. PICK new \in Recipient : ChangeFriend(new)
          BY <3>3
        <4> QED
          BY <4>1, <3>1, <2>1, SwapSend DEF ChangeFriend
      <3> QED
        BY <1>2, <3>2, <3>3
    <2>4. ModeNoted' /\ LabelIsTrue'
      BY <2>1, <2>2, <1>b, ModeKept DEF queueVars, LabelIsTrue, showVars
    <2> QED
      BY <2>2, <2>3, <2>4
  <1>3. CASE \E shortcut \in BOOLEAN : SendMessage(shortcut)
    <2>1. PICK shortcut \in BOOLEAN : SendMessage(shortcut)
      BY <1>3
    <2>2. Submit /\ UNCHANGED <<last_mode, overtaken, showVars>>
      BY <2>1 DEF SendMessage
    <2>3. QueueInv'
      BY <2>2, SubmitKeeps
    <2>4. SendInv'
      BY <2>1, <2>3, SendMessageSend
    <2>5. \A t \in 1 .. submitted : work'[t] = work[t]
      BY <2>1, <1>a, TaskNumbers DEF SendMessage
    <2>6. ModeNoted' /\ LabelIsTrue'
      BY <2>2, <2>3, <2>5, NewTaskMode DEF LabelIsTrue, showVars
    <2> QED
      BY <2>3, <2>4, <2>6
  <1>4. CASE SubmitFile \/ \E m \in Message : ReceiveMessage(m)
    <2>1. Submit /\ UNCHANGED <<last_mode, overtaken, sendVars, encrypted, phase, shown, label, mixed>>
      BY <1>4 DEF SubmitFile, ReceiveMessage, showVars
    <2>2. QueueInv'
      BY <2>1, SubmitKeeps
    <2>3. \E x \in WorkType : x.kind # "send" /\ work' = [work EXCEPT ![submitted + 1] = x]
      <3>1. CASE SubmitFile
        <4>1. submitted + 1 \in Tasks
          BY <2>1, TaskNumbers DEF Submit, Tasks
        <4>2. work[submitted + 1] \in WorkType
          BY <4>1, <1>a
        <4> DEFINE x == [work[submitted + 1] EXCEPT !.kind = "file"]
        <4>3. x \in WorkType /\ x.kind = "file"
          BY <4>2 DEF WorkType
        <4>4. work' = [work EXCEPT ![submitted + 1] = x]
          BY <3>1 DEF SubmitFile
        <4> QED
          BY <4>3, <4>4
      <3>2. CASE \E m \in Message : ReceiveMessage(m)
        <4>1. PICK m \in Message : ReceiveMessage(m)
          BY <3>2
        <4> DEFINE x == [kind |-> "receive", text |-> m, to |-> None]
        <4>2. x \in WorkType /\ x.kind = "receive"
          BY DEF WorkType, Recipient
        <4>3. work' = [work EXCEPT ![submitted + 1] = x]
          BY <4>1 DEF ReceiveMessage
        <4> QED
          BY <4>2, <4>3
      <3> QED
        BY <1>4, <3>1, <3>2
    <2>4. SendInv' /\ \A t \in 1 .. submitted : work'[t] = work[t]
      BY <2>1, <2>2, <2>3, OtherTaskSend
    <2>5. ModeNoted' /\ LabelIsTrue'
      BY <2>1, <2>2, <2>4, NewTaskMode DEF LabelIsTrue
    <2> QED
      BY <2>2, <2>4, <2>5
  <1>5. CASE FriendListChanged \/ RequestUnlock
    <2>1. /\ PublishFriends
          /\ UNCHANGED <<is_running, submitted, waiting, worker, inner_executor, inner, result, root_alive, answered>>
          /\ UNCHANGED <<work, sendVars, encrypted, overtaken, showVars>>
          /\ last_mode' \in {None, last_mode} /\ (MainRuns' => MainRuns)
      BY <1>5 DEF FriendListChanged, RequestUnlock, MainRuns, Open
    <2>2. QueueInv'
      BY <2>1, PublishKeeps
    <2>3. SendInv' /\ ModeNoted'
      BY <2>1, <2>2, <1>a, ElsewhereKeeps
    <2> QED
      BY <2>1, <2>2, <2>3 DEF LabelIsTrue, showVars
  <1>6. CASE \/ ClearDecrypted(FALSE)
             \/ \E outcome \in {"done", "emptied", "refused"} : Copy(outcome)
             \/ EmergencyLock \/ OnClose
    <2>1. /\ UNCHANGED <<queueVars, work, sendVars, encrypted, overtaken, last_mode>>
          /\ UNCHANGED showVars \/ shown' = None
          /\ MainRuns' => MainRuns
      BY <1>6 DEF ClearDecrypted, ClearOutput, Copy, EmergencyLock, OnClose, MainRuns, Open
    <2>2. QueueInv'
      BY <2>1, QuietKeeps DEF queueVars
    <2>3. UNCHANGED <<submitted, answered, result, inner, root_alive>>
      BY <2>1 DEF queueVars
    <2>4. SendInv' /\ ModeNoted'
      BY <2>1, <2>2, <2>3, <1>a, ElsewhereKeeps
    <2> QED
      BY <2>1, <2>2, <2>4 DEF LabelIsTrue, showVars
  <1> QED
    BY <1>1, <1>2, <1>3, <1>4, <1>5, <1>6 DEF UserStep

LEMMA CallbackKeeps ==
  ASSUME IInv, RunCallback PROVE IInv'
  <1> USE DEF IInv, ShowInv
  <1> DEFINE c == Head(after)
             kind == IF c.event = "answer" THEN work[c.task].kind ELSE "event"
  <1>1. /\ RunAfter
        /\ UNCHANGED <<submitted, result, inner, root_alive, work, last_mode, phase, encrypted, overtaken>>
        /\ \/ kind = "event" /\ UpdateFriendList /\ UNCHANGED <<busy, logged, wroteFor, hasted, showVars>>
           \/ /\ kind = "send" /\ SendAnswered(c.task, c.result)
              /\ UNCHANGED <<friend, drafts, wroteFor, moved, showVars>>
           \/ /\ kind = "receive" /\ UNCHANGED sendVars
              /\ IF c.result = "ok" THEN \E on \in BOOLEAN : ShowDecrypted(c.task, on) ELSE ReceiveFailed
           \/ kind = "file" /\ UNCHANGED <<sendVars, showVars>>
    BY DEF RunCallback, RunAfter
  <1>2. /\ QueueInv' /\ c \in Callbacks
        /\ c.event = "answer" =>
              /\ c.task \in Taken /\ answered[c.task] = "no" /\ c.result \in {"ok", "error", "timeout"}
              /\ c.result # "timeout" => result[c.task] = c.result
              /\ answered' = [answered EXCEPT ![c.task] = c.result]
        /\ c.event # "answer" => answered' = answered
    BY <1>1, RunAfterKeeps
  <1>3. (MainRuns' => root_alive') /\ work \in [Tasks -> WorkType] /\ submitted' >= submitted
    BY <1>1, TaskNumbers DEF SendInv, TabTypes, WorkType, MainRuns
  <1>4. \A t \in Tasks : \/ answered'[t] = answered[t]
                         \/ c.event = "answer" /\ t = c.task /\ answered'[t] # "no"
    BY <1>2 DEF QueueInv, QueueTypes
  <1>5. ModeNoted'
    <2>1. \A t \in 1 .. submitted : answered'[t] = "no" => answered[t] = "no"
      BY <1>4, TaskNumbers
    <2>2. \A t : Begun(t)' = Begun(t)
      BY <1>1 DEF Begun
    <2> QED
      BY <2>1, <2>2, <1>1, <1>2, ModeKept
  <1>6. CASE kind = "event"
    <2>1. c.event # "answer"
      <3>1. c.event = "answer" => c.task \in Tasks
        BY <1>2, TaskNumbers
      <3>2. c.event = "answer" => work[c.task].kind # "event"
        BY <3>1, <1>3 DEF WorkType
      <3> QED
        BY <3>2, <1>6
    <2>2. UpdateFriendList /\ UNCHANGED <<busy, logged, wroteFor, hasted, showVars>>
      BY <1>1, <1>6
    <2>3. SendInv'
      BY <2>1, <2>2, <1>1, <1>2, UpdateSend
    <2> QED
      BY <2>2, <2>3, <1>2, <1>5 DEF LabelIsTrue, showVars
  <1>7. CASE kind = "send"
    <2>1. /\ c.event = "answer" /\ work[c.task].kind = "send" /\ SendAnswered(c.task, c.result)
          /\ UNCHANGED <<friend, drafts, wroteFor, moved, showVars>>
      BY <1>1, <1>7
    <2>2. SendInv'
      BY <2>1, <1>1, <1>2, AnsweredSend
    <2> QED
      BY <2>1, <2>2, <1>2, <1>5 DEF LabelIsTrue, showVars
  <1>8. CASE kind \in {"receive", "file"}
    <2>1. c.event = "answer" /\ work[c.task].kind = kind /\ UNCHANGED sendVars
      BY <1>1, <1>8
    <2>2. \A t \in Sent : answered'[t] = answered[t]
      BY <2>1, <1>4, <1>8, TaskNumbers DEF Sent
    <2>3. SendInv'
      BY <2>1, <2>2, <1>1, <1>2, <1>3, SendKept DEF WorkType
    <2>4. CASE kind = "receive" /\ c.result = "ok"
      <3>1. PICK on \in BOOLEAN : ShowDecrypted(c.task, on)
        BY <2>4, <1>1
      <3>2. /\ shown' = work[c.task].text /\ label' = last_mode /\ mixed' = (c.task \in overtaken)
        BY <3>1 DEF ShowDecrypted
      <3>3. Begun(c.task) /\ answered[c.task] = "no" /\ c.task \in 1 .. submitted
        BY <2>1, <2>4, <1>2, TaskNumbers DEF Begun
      <3>4. c.task \notin overtaken => last_mode \in {None, work[c.task].text}
        BY <3>3, <2>1, <2>4 DEF ModeNoted
      <3>5. LabelIsTrue'
        BY <3>2, <3>4 DEF LabelIsTrue
      <3> QED
        BY <3>5, <2>3, <1>2, <1>5
    <2>5. CASE ~(kind = "receive" /\ c.result = "ok")
      <3>1. ReceiveFailed \/ UNCHANGED showVars
        BY <2>5, <1>1, <1>8
      <3>2. LabelIsTrue'
        BY <3>1 DEF LabelIsTrue, showVars, ReceiveFailed
      <3> QED
        BY <3>2, <2>3, <1>2, <1>5
    <2> QED
      BY <2>4, <2>5
  <1> QED
    BY <1>1, <1>6, <1>7, <1>8

LEMMA WorkerKeeps ==
  ASSUME IInv, NEW w \in Workers, WorkerRuns(w) PROVE IInv'
  <1> USE DEF IInv, ShowInv
  <1>1. /\ WorkerStep(w)
        /\ UNCHANGED <<work, sendVars, showVars, encrypted, last_mode, overtaken, phase>>
    BY DEF WorkerRuns, tabVars, sendVars, showVars
  <1>2. QueueInv'
    BY <1>1, WorkerStepKeeps
  <1>3. /\ UNCHANGED <<submitted, result, root_alive>>
        /\ \A t \in Tasks : \/ answered'[t] = answered[t]
                            \/ answered[t] = "no" /\ answered'[t] = "lost"
        /\ \A t \in 1 .. submitted : Begun(t)' => Begun(t)
    BY <1>1, WorkerTells
  <1>4. /\ (MainRuns' => root_alive') /\ work' \in [Tasks -> WorkType] /\ submitted' >= submitted
    BY <1>1, <1>3, TaskNumbers DEF SendInv, TabTypes, WorkType, MainRuns
  <1>5. \A t \in 1 .. submitted : \/ answered'[t] = answered[t]
                                  \/ answered[t] = "no" /\ answered'[t] = "lost"
    BY <1>3, TaskNumbers
  <1>6. SendInv'
    <2>1. \A t \in Sent : t \in 1 .. submitted
      BY DEF Sent
    <2> QED
      BY <2>1, <1>1, <1>2, <1>3, <1>4, <1>5, SendKept DEF WorkType
  <1>7. ModeNoted'
    BY <1>1, <1>2, <1>3, <1>5, ModeKept
  <1> QED
    BY <1>1, <1>2, <1>6, <1>7 DEF LabelIsTrue, showVars

LEMMA ElseKeeps ==
  ASSUME IInv, ClearDecrypted(TRUE) \/ ClipboardDue \/ ClearClipboard \/ ShutdownQueue \/ DestroyRoot
  PROVE  IInv'
  <1> USE DEF IInv, ShowInv
  <1>1. /\ UNCHANGED <<submitted, waiting, worker, inner_executor, inner, result, after, answered>>
        /\ UNCHANGED <<work, sendVars, encrypted, overtaken, last_mode>>
        /\ UNCHANGED showVars \/ shown' = None
    BY DEF ClearDecrypted, ClearOutput, ClipboardDue, ClearClipboard, ShutdownQueue, Shutdown, DestroyRoot,
           queueVars, tabVars, sendVars, showVars
  <1>2. root_alive' = root_alive \/ root_alive' = FALSE
    BY DEF ClearDecrypted, ClipboardDue, ClearClipboard, ShutdownQueue, Shutdown, DestroyRoot, queueVars
  <1>3. MainRuns' => root_alive'
    <2>1. MainRuns => root_alive
      BY DEF SendInv, TabTypes
    <2>2. CASE ClearDecrypted(TRUE) \/ ClipboardDue \/ ClearClipboard
      BY <2>1, <2>2 DEF ClearDecrypted, ClipboardDue, ClearClipboard, queueVars, MainRuns
    <2>3. CASE ShutdownQueue \/ DestroyRoot
      <3>1. phase' = "closed"
        BY <2>3 DEF ShutdownQueue, DestroyRoot, tabVars
      <3> QED
        BY <3>1 DEF MainRuns
    <2> QED
      BY <2>2, <2>3
  <1>4. QueueInv'
    BY <1>1, <1>2, QuietKeeps
  <1>5. SendInv' /\ ModeNoted'
    BY <1>1, <1>3, <1>4, ElsewhereKeeps
  <1> QED
    BY <1>1, <1>4, <1>5 DEF LabelIsTrue, showVars

LEMMA InitGood == Init => IInv
  <1> SUFFICES ASSUME Init PROVE IInv
    OBVIOUS
  <1>1. QueueInv
    BY QueueInitially DEF Init
  <1>2. submitted = 0 /\ Sent = {}
    BY DEF Init, QueueInit, Sent
  <1>3. TabTypes
    <2>1. NoWork \in WorkType
      BY DEF NoWork, WorkType, Recipient
    <2>2. work \in [Tasks -> WorkType]
      BY <2>1 DEF Init
    <2>3. wroteFor = <<>> /\ Len(wroteFor) = 0 /\ wroteFor \in Seq(Recipient)
      BY DEF Init
    <2>4. friend \in Recipient /\ box = 0 /\ busy = FALSE /\ root_alive = TRUE
      BY DEF Init, QueueInit, Recipient
    <2>5. drafts \in [Recipient -> 0 .. Len(wroteFor)] /\ box \in 0 .. Len(wroteFor)
      <3>1. 0 \in 0 .. Len(wroteFor)
        BY <2>3
      <3>2. drafts = [f \in Recipient |-> 0]
        BY DEF Init
      <3> QED
        BY <3>1, <3>2, <2>4
    <2> QED
      BY <2>2, <2>3, <2>4, <2>5 DEF TabTypes
  <1>4. TextsPlaced /\ EncryptedSent /\ OnePlace /\ BusyWithIt /\ SentIsGone /\ OneTryLeft
    <2>1. box = 0 /\ encrypted = {} /\ \A f \in Recipient : drafts[f] = 0
      BY DEF Init
    <2> QED
      BY <1>2, <2>1 DEF TextsPlaced, ForWhom, EncryptedSent, OnePlace, BusyWithIt, SentIsGone, OneTryLeft
  <1>5. ModeNoted /\ LabelIsTrue
    BY <1>2 DEF Init, ModeNoted, LabelIsTrue
  <1> QED
    BY <1>1, <1>3, <1>4, <1>5 DEF IInv, SendInv, ShowInv

LEMMA NextKeeps == IInv /\ [Next]_vars => IInv'
  <1> SUFFICES ASSUME IInv, [Next]_vars PROVE IInv'
    OBVIOUS
  <1>1. CASE UserStep
    BY <1>1, UserKeeps
  <1>2. CASE InnerStep
    <2>1. PICK e \in DOMAIN inner : StartWork(e) \/ \E r \in {"ok", "error"} : EndWork(e, r)
      BY <1>2 DEF InnerStep
    <2> QED
      BY <2>1, StartWorkKeeps, EndWorkKeeps DEF IInv
  <1>3. CASE \E w \in Workers : WorkerRuns(w)
    BY <1>3, WorkerKeeps
  <1>4. CASE RunCallback
    BY <1>4, CallbackKeeps
  <1>5. CASE ClearDecrypted(TRUE) \/ ClipboardDue \/ ClearClipboard \/ ShutdownQueue \/ DestroyRoot
    BY <1>5, ElseKeeps
  <1>6. CASE UNCHANGED vars
    <2>1. /\ UNCHANGED <<submitted, waiting, worker, inner_executor, inner, result, after, answered, root_alive>>
          /\ UNCHANGED <<work, sendVars, encrypted, overtaken, last_mode, showVars, phase>>
      BY <1>6 DEF vars, queueVars, tabVars, sendVars, showVars
    <2>2. QueueInv'
      BY <2>1, QuietKeeps DEF IInv
    <2>3. MainRuns' => root_alive'
      BY <2>1 DEF IInv, SendInv, TabTypes, MainRuns
    <2>4. SendInv' /\ ModeNoted'
      BY <2>1, <2>2, <2>3, ElsewhereKeeps DEF IInv, ShowInv
    <2> QED
      BY <2>1, <2>2, <2>4 DEF IInv, ShowInv, LabelIsTrue, showVars
  <1> QED
    BY <1>1, <1>2, <1>3, <1>4, <1>5, <1>6 DEF Next

(* The queue and the tabs keep their invariant in every step.               *)
THEOREM DesktopInductive == Spec => []IInv
  BY InitGood, NextKeeps, PTL DEF Spec

-----------------------------------------------------------------------------
(* encrypt_tab.py: the text that send_message takes from the box is for the *)
(* friend that is chosen, however often the friend changes, the list is     *)
(* refreshed, the window is locked or encryptions fail, unless the friend   *)
(* changed while the text was being encrypted.                              *)
THEOREM TextsReachTheirFriend == Spec => []RightRecipient
  <1>1. IInv => RightRecipient
    BY DEF IInv, SendInv, EncryptedSent, TextsPlaced, ForWhom, RightRecipient
  <1> QED
    BY <1>1, DesktopInductive, PTL

(* encrypt_tab.py and crypto_task_queue.py: a text is encrypted once, with  *)
(* any number of workers, inner pools and repeated attempts, unless it was  *)
(* sent again, or moved, during its encryption, or an attempt timed out.    *)
THEOREM TextsEncryptedOnce == Spec => []EncryptedOnce
  <1>1. ASSUME IInv PROVE EncryptedOnce
    <2> SUFFICES ASSUME NEW t \in encrypted, NEW u \in encrypted, t # u, work[t].text = work[u].text,
                        work[t].text \notin moved \cup hasted
                 PROVE  "timeout" \in {answered[t], answered[u]}
      BY DEF EncryptedOnce
    <2>1. t \in Sent /\ u \in Sent /\ result[t] = "ok" /\ result[u] = "ok"
      BY <1>1 DEF IInv, SendInv, EncryptedSent
    <2>2. GaveUp(t) \/ GaveUp(u)
      BY <1>1, <2>1 DEF IInv, SendInv, OneTryLeft, Spared
    <2>3. \A v \in Sent : v \in Tasks
      BY <1>1, TaskNumbers DEF IInv, Sent
    <2>4. answered[t] # "error" /\ answered[u] # "error"
      BY <1>1, <2>1, <2>3 DEF IInv, QueueInv, AnswersTrue
    <2> QED
      BY <2>2, <2>4 DEF GaveUp
  <1> QED
    BY <1>1, DesktopInductive, PTL

(* decrypt_tab.py and encryption_service.py: the mode shown beside a        *)
(* plaintext is that of its message, or none, although every decryption     *)
(* notes its mode in the same attribute, unless another decryption began    *)
(* before the result was shown.                                             *)
THEOREM LabelsAreTrue == Spec => []LabelIsTrue
  <1>1. IInv => LabelIsTrue
    BY DEF IInv, ShowInv
  <1> QED
    BY <1>1, DesktopInductive, PTL
=============================================================================
