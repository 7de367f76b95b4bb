---------------------------- MODULE RatchetService ----------------------------
(***************************************************************************)
(* How services/ratchet_service.py keeps ratchet states: every operation   *)
(* loads the state of a friend from the database, advances it and buffers  *)
(* the result in _dirty_states; a timer writes the buffer to the database  *)
(* some seconds later, in a thread of its own and without the friend's     *)
(* lock.  Sessions are started and deleted directly in the database.  The  *)
(* process may crash, and it may be closed.                                *)
(*                                                                         *)
(* A ratchet state is reduced to its session, the number of its next       *)
(* message and the set of messages it has decrypted; what RatchetState     *)
(* does with keys is the subject of RatchetSession.  The friend's lock is  *)
(* exclusive here; FriendLocks says when it is.                            *)
(***************************************************************************)
EXTENDS Integers, Sequences, FiniteSets

CONSTANTS
  Friends,       \* names in the friends table
  Threads,       \* worker threads that run encrypt_message and decrypt_message
  Flushers,      \* bound: timer threads that can be flushing at the same time
  Incoming,      \* messages a friend may hand to decrypt_message
  MaxSessions,   \* bound: sessions started with a friend
  MaxSends,      \* bound: messages encrypted
  MaxReads,      \* bound: messages decrypted
  MaxFailures,   \* bound: failed database writes
  MaxRestarts    \* bound: how often the process ends or is killed and starts again

Main == "main"        \* the GUI thread, which flushes once more on closing
Outgoing == "outgoing" \* marks an operation that encrypts

ASSUME ServiceConstants ==
  /\ Main \notin Flushers /\ Outgoing \notin Incoming /\ "nobody" \notin Threads
  /\ MaxSessions \in Nat \ {0}
  /\ {MaxSends, MaxReads, MaxFailures, MaxRestarts} \subseteq Nat

VARIABLES
  db,         \* ratchet_state_json of each friend
  dirty,      \* _dirty_states
  armed,      \* _flush_timer refers to a live timer
  pending,    \* timers that have not fired yet, referred to or not
  flush,      \* the flushes under way: what is still to save, what failed
  lock,       \* the thread inside the friend's critical section
  work,       \* what each worker thread is doing
  sessions,   \* how many sessions were started with each friend
  ended,      \* the sessions deleted or replaced while no state of the friend was about
  wire,       \* <<friend, session, number>> of each message encrypted, in order
  read,       \* <<friend, session, message>> of each message decrypted, in order
  phase,      \* "running", "flushing" or "closing"
  failures, restarts

vars == <<db, dirty, armed, pending, flush, lock, work, sessions, ended, wire, read,
          phase, failures, restarts>>

State == [sess : Nat, snd : Nat, rcv : SUBSET Incoming]
NoState == [sess |-> 0, snd |-> 0, rcv |-> {}]
NewSession(s) == [sess |-> s, snd |-> 0, rcv |-> {}]

Clean == [f \in Friends |-> NoState]
NoFlush == [busy |-> FALSE, todo |-> Clean, failed |-> Clean]
Nobody == "nobody"
Idle == [pc |-> "idle"]

Init ==
  /\ db = [f \in Friends |-> NewSession(1)]
  /\ dirty = Clean
  /\ armed = FALSE
  /\ pending = 0
  /\ flush = [k \in Flushers \cup {Main} |-> NoFlush]
  /\ lock = [f \in Friends |-> Nobody]
  /\ work = [t \in Threads |-> Idle]
  /\ sessions = [f \in Friends |-> 1]
  /\ ended = [f \in Friends |-> {}]
  /\ wire = <<>>
  /\ read = <<>>
  /\ phase = "running"
  /\ failures = 0
  /\ restarts = 0

-----------------------------------------------------------------------------
(* encrypt_message and decrypt_message.                                    *)

\* _acquire_friend_lock; msg is Outgoing, or the message to decrypt.
Begin(t, f, msg) ==
  /\ work[t] = Idle
  /\ lock[f] = Nobody
  /\ IF msg = Outgoing THEN Len(wire) < MaxSends ELSE Len(read) < MaxReads
  /\ lock' = [lock EXCEPT ![f] = t]
  /\ work' = [work EXCEPT ![t] = [pc |-> "load", friend |-> f, msg |-> msg]]
  /\ UNCHANGED <<db, dirty, armed, pending, flush, sessions, ended, wire, read, phase,
                 failures, restarts>>

\* The operation ends and the finally clause releases the lock.
Finish(t) ==
  /\ lock' = [lock EXCEPT ![work[t].friend] = Nobody]
  /\ work' = [work EXCEPT ![t] = Idle]

\* get_ratchet_state: always from the database, never from the buffer.
Load(t) ==
  /\ work[t].pc = "load"
  /\ db[work[t].friend] # NoState
  /\ work' = [work EXCEPT ![t] = [pc |-> "use", friend |-> work[t].friend,
                                  msg |-> work[t].msg, state |-> db[work[t].friend]]]
  /\ UNCHANGED <<db, dirty, armed, pending, flush, lock, sessions, ended, wire, read, phase,
                 failures, restarts>>

\* RatchetNotFoundError: there is no session.
LoadFails(t) ==
  /\ work[t].pc = "load"
  /\ db[work[t].friend] = NoState
  /\ Finish(t)
  /\ UNCHANGED <<db, dirty, armed, pending, flush, sessions, ended, wire, read, phase,
                 failures, restarts>>

\* _mark_dirty, its first half: the new state replaces the buffered one.
MarkDirty(t, state) ==
  /\ dirty' = [dirty EXCEPT ![work[t].friend] = state]
  /\ work' = [work EXCEPT ![t] = [pc |-> "arm", friend |-> work[t].friend]]

\* state.encrypt and _mark_dirty
Encrypt(t) ==
  /\ work[t].pc = "use" /\ work[t].msg = Outgoing
  /\ wire' = Append(wire, <<work[t].friend, work[t].state.sess, work[t].state.snd>>)
  /\ MarkDirty(t, [work[t].state EXCEPT !.snd = @ + 1])
  /\ UNCHANGED <<db, armed, pending, flush, lock, sessions, ended, read, phase, failures,
                 restarts>>

\* state.decrypt of a message this state has not decrypted, and _mark_dirty
Decrypt(t) ==
  /\ work[t].pc = "use" /\ work[t].msg # Outgoing
  /\ work[t].msg \notin work[t].state.rcv
  /\ read' = Append(read, <<work[t].friend, work[t].state.sess, work[t].msg>>)
  /\ MarkDirty(t, [work[t].state EXCEPT !.rcv = @ \cup {work[t].msg}])
  /\ UNCHANGED <<db, armed, pending, flush, lock, sessions, ended, wire, phase, failures,
                 restarts>>

\* state.decrypt raises: nothing is buffered.
DecryptFails(t) ==
  /\ work[t].pc = "use" /\ work[t].msg # Outgoing
  /\ work[t].msg \in work[t].state.rcv
  /\ Finish(t)
  /\ UNCHANGED <<db, dirty, armed, pending, flush, sessions, ended, wire, read, phase,
                 failures, restarts>>

\* Mutant of EnsureFlushTimer: no timer is started.
EnsureFlushTimerNot(t) ==
  /\ work[t].pc = "arm"
  /\ Finish(t)
  /\ UNCHANGED <<db, dirty, armed, pending, flush, sessions, ended, wire, read, phase,
                 failures, restarts>>

\* _ensure_flush_timer, then the operation returns.
EnsureFlushTimer(t) ==
  /\ work[t].pc = "arm"
  /\ armed' = TRUE
  /\ pending' = IF armed THEN pending ELSE pending + 1
  /\ Finish(t)
  /\ UNCHANGED <<db, dirty, flush, sessions, ended, wire, read, phase, failures, restarts>>

-----------------------------------------------------------------------------
(* flush_dirty_states.                                                     *)

\* Mutant of TakeDirty: the reference to the timer that fired is kept.
TakeDirtyKeepsTimer(k) ==
  /\ ~flush[k].busy
  /\ flush' = [flush EXCEPT ![k] = [busy |-> TRUE, todo |-> dirty, failed |-> Clean]]
  /\ dirty' = Clean
  /\ UNCHANGED armed

\* The buffer is copied and emptied and the timer forgotten, under _dirty_lock.
TakeDirty(k) ==
  /\ ~flush[k].busy
  /\ flush' = [flush EXCEPT ![k] = [busy |-> TRUE, todo |-> dirty, failed |-> Clean]]
  /\ dirty' = Clean
  /\ armed' = FALSE

\* The timer fires in its own thread.
TimerFires(k) ==
  /\ pending > 0
  /\ TakeDirty(k)
  /\ pending' = pending - 1
  /\ UNCHANGED <<db, lock, work, sessions, ended, wire, read, phase, failures, restarts>>

\* save_ratchet_state of one buffered state, without the friend's lock.
Save(k, f) ==
  /\ flush[k].todo[f] # NoState
  /\ db' = [db EXCEPT ![f] = flush[k].todo[f]]
  /\ flush' = [flush EXCEPT ![k].todo[f] = NoState]
  /\ UNCHANGED <<dirty, armed, pending, lock, work, sessions, ended, wire, read, phase,
                 failures, restarts>>

\* save_ratchet_state raises (database locked, no storage key): kept in remaining_dirty.
SaveFails(k, f) ==
  /\ flush[k].todo[f] # NoState
  /\ failures < MaxFailures
  /\ failures' = failures + 1
  /\ flush' = [flush EXCEPT ![k].failed[f] = flush[k].todo[f], ![k].todo[f] = NoState]
  /\ UNCHANGED <<db, dirty, armed, pending, lock, work, sessions, ended, wire, read, phase,
                 restarts>>

\* _dirty_states.update(remaining_dirty), without _dirty_lock and without a timer.
FlushEnds(k) ==
  /\ flush[k].busy /\ flush[k].todo = Clean
  /\ dirty' = [f \in Friends |-> IF flush[k].failed[f] # NoState THEN flush[k].failed[f]
                                 ELSE dirty[f]]
  /\ flush' = [flush EXCEPT ![k] = NoFlush]
  /\ phase' = IF k = Main THEN "closing" ELSE phase
  /\ UNCHANGED <<db, armed, pending, lock, work, sessions, ended, wire, read, failures,
                 restarts>>

-----------------------------------------------------------------------------
(* Sessions, and the life of the process.                                  *)

\* No state of f is buffered, being flushed or in use by a worker.
Quiet(f) ==
  /\ dirty[f] = NoState
  /\ \A k \in DOMAIN flush : flush[k].todo[f] = NoState /\ flush[k].failed[f] = NoState
  /\ \A t \in Threads : work[t].pc = "use" => work[t].friend # f

EndSessions(f) == ended' = [ended EXCEPT ![f] = IF Quiet(f) THEN 1 .. sessions[f] ELSE @]

\* Mutant of InitRatchet: the position of the old session is kept.
InitRatchetKeepsPosition(f) ==
  /\ phase = "running" /\ sessions[f] < MaxSessions
  /\ db' = [db EXCEPT ![f].sess = sessions[f] + 1]
  /\ sessions' = [sessions EXCEPT ![f] = @ + 1]
  /\ EndSessions(f)
  /\ UNCHANGED <<dirty, armed, pending, flush, lock, work, wire, read, phase, failures,
                 restarts>>

\* init_ratchet_alice / init_ratchet_bob: the new state goes straight to the database.
InitRatchet(f) ==
  /\ phase = "running" /\ sessions[f] < MaxSessions
  /\ db' = [db EXCEPT ![f] = NewSession(sessions[f] + 1)]
  /\ sessions' = [sessions EXCEPT ![f] = @ + 1]
  /\ EndSessions(f)
  /\ UNCHANGED <<dirty, armed, pending, flush, lock, work, wire, read, phase, failures,
                 restarts>>

\* Mutant of DeleteRatchet: the UPDATE is not committed.
DeleteRatchetUncommitted(f) ==
  /\ phase = "running" /\ db[f] # NoState
  /\ EndSessions(f)
  /\ UNCHANGED <<db, dirty, armed, pending, flush, lock, work, sessions, wire, read, phase,
                 failures, restarts>>

\* delete_ratchet: the column becomes NULL; the buffer is not touched.
DeleteRatchet(f) ==
  /\ phase = "running" /\ db[f] # NoState
  /\ db' = [db EXCEPT ![f] = NoState]
  /\ EndSessions(f)
  /\ UNCHANGED <<dirty, armed, pending, flush, lock, work, sessions, wire, read, phase,
                 failures, restarts>>

\* Mutant of Shutdown: a timer is cancelled without asking whether there is one.
ShutdownCancels ==
  /\ phase = "running" /\ restarts < MaxRestarts
  /\ TakeDirty(Main)
  /\ phase' = "flushing"
  /\ pending' = pending - 1
  /\ UNCHANGED <<db, lock, work, sessions, ended, wire, read, failures, restarts>>

\* The window is closed: ServiceOrchestrator.shutdown flushes on the GUI thread, while
\* tasks that were queued before still run.
Shutdown ==
  /\ phase = "running" /\ restarts < MaxRestarts
  /\ TakeDirty(Main)
  /\ phase' = "flushing"
  /\ UNCHANGED <<db, pending, lock, work, sessions, ended, wire, read, failures, restarts>>

\* What a new process starts with.
FreshMemory ==
  /\ dirty' = Clean
  /\ armed' = FALSE
  /\ pending' = 0
  /\ flush' = [k \in DOMAIN flush |-> NoFlush]
  /\ lock' = [f \in Friends |-> Nobody]
  /\ work' = [t \in Threads |-> Idle]
  /\ phase' = "running"

\* The process may end once the flush on closing is done and the workers are idle;
\* timer threads are daemons and die with it.
MayExit == phase = "closing" /\ \A t \in Threads : work[t] = Idle

\* The process ends and is started again later.
ExitAndRestart ==
  /\ MayExit
  /\ FreshMemory
  /\ restarts' = restarts + 1
  /\ UNCHANGED <<db, sessions, ended, wire, read, failures>>

\* The process is killed at any point and started again.
Crash ==
  /\ restarts < MaxRestarts
  /\ FreshMemory
  /\ restarts' = restarts + 1
  /\ UNCHANGED <<db, sessions, ended, wire, read, failures>>

Operation(t) ==
  Load(t) \/ LoadFails(t) \/ Encrypt(t) \/ Decrypt(t) \/ DecryptFails(t)
  \/ EnsureFlushTimer(t)

FlushStep(k) ==
  \/ \E f \in Friends : Save(k, f)
  \/ \E f \in Friends : SaveFails(k, f)
  \/ FlushEnds(k)

Next ==
  \/ \E t \in Threads, f \in Friends, msg \in Incoming \cup {Outgoing} : Begin(t, f, msg)
  \/ \E t \in Threads : Operation(t)
  \/ \E k \in Flushers : TimerFires(k)
  \/ \E k \in Flushers \cup {Main} : FlushStep(k)
  \/ \E f \in Friends : InitRatchet(f) \/ DeleteRatchet(f)
  \/ Shutdown
  \/ ExitAndRestart
  \/ Crash

\* Running threads are scheduled and timers fire; nothing obliges a user to act.
Fairness ==
  /\ \A t \in Threads : WF_vars(Operation(t))
  /\ \A k \in Flushers : WF_vars(TimerFires(k))
  /\ \A k \in Flushers \cup {Main} : WF_vars(FlushStep(k))

Spec == Init /\ [][Next]_vars
FairSpec == Spec /\ Fairness

-----------------------------------------------------------------------------
(* Correctness.                                                            *)

\* Type invariant.
TypeOK ==
  /\ db \in [Friends -> State]
  /\ dirty \in [Friends -> State]
  /\ armed \in BOOLEAN
  /\ pending \in Nat
  /\ \A k \in Flushers \cup {Main} :
       flush[k] \in [busy : BOOLEAN, todo : [Friends -> State], failed : [Friends -> State]]
  /\ lock \in [Friends -> Threads \cup {Nobody}]
  /\ \A t \in Threads : work[t].pc \in {"idle", "load", "use", "arm"}
  /\ sessions \in [Friends -> 1 .. MaxSessions]
  /\ ended \in [Friends -> SUBSET (1 .. MaxSessions)]
  /\ phase \in {"running", "flushing", "closing"}

\* A buffered state has a timer that will write it, or a worker about to start one,
\* unless a write failed (_mark_dirty / _ensure_flush_timer against a timer that fires
\* between the two and against the flush on closing).
DirtyHasTimer ==
  (failures = 0 /\ dirty # Clean) =>
    (armed /\ pending > 0) \/ \E t \in Threads : work[t].pc = "arm"

\* Wherever a state waits to be stored, and in the database, its position is that of a
\* message really encrypted and of messages really decrypted, in its own session.
PositionsAreReal ==
  LET Held(f) == {db[f], dirty[f]} \cup {flush[k].todo[f] : k \in DOMAIN flush}
                 \cup {flush[k].failed[f] : k \in DOMAIN flush}
  IN  \A f \in Friends : \A s \in Held(f) :
        /\ s.snd > 0 => \E i \in DOMAIN wire : wire[i] = <<f, s.sess, s.snd - 1>>
        /\ \A m \in s.rcv : \E i \in DOMAIN read : read[i] = <<f, s.sess, m>>

\* "Defer persistence - flush periodically or on shutdown": what is buffered leaves the
\* buffer, also when the window is closed meanwhile; what is buffered again after a failed
\* write leaves it once a timer is started.
BufferDrains ==
  \A f \in Friends :
    dirty[f] # NoState /\ (failures = 0 \/ pending > 0) ~> dirty[f] = NoState

\* "Per-friend locks ensure that concurrent encrypt/decrypt operations for the same
\* friend do not corrupt chain counters": no message number is used twice in a session.
NoNumberReuse == \A i, j \in DOMAIN wire : wire[i] = wire[j] => i = j

\* "This effectively terminates the Double Ratchet session": a session deleted or replaced
\* while no state of the friend was buffered, in a flush or in use never comes back,
\* whatever is buffered, flushed late or lost afterwards.
EndedStaysEnded == \A f \in Friends : db[f].sess \notin ended[f]
=============================================================================
