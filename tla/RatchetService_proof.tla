------------------------ MODULE RatchetService_proof ------------------------
(***************************************************************************)
(* Proofs about RatchetService for any friends, workers, timer threads and *)
(* incoming messages, and any number of sessions, messages, failed writes  *)
(* and restarts.                                                           *)
(***************************************************************************)
EXTENDS RatchetService, TLAPS

\* What a worker is doing, by its program counter.
Working ==
  {Idle}
    \cup [pc : {"load"}, friend : Friends, msg : Incoming \cup {Outgoing}]
    \cup [pc : {"use"}, friend : Friends, msg : Incoming \cup {Outgoing}, state : State]
    \cup [pc : {"arm"}, friend : Friends]

Flush == [busy : BOOLEAN, todo : [Friends -> State], failed : [Friends -> State]]

\* The types of all variables, the parts of a worker and of a flush included.
Types ==
  /\ db \in [Friends -> State]
  /\ dirty \in [Friends -> State]
  /\ armed \in BOOLEAN
  /\ pending \in Nat
  /\ flush \in [Flushers \cup {Main} -> Flush]
  /\ lock \in [Friends -> Threads \cup {Nobody}]
  /\ work \in [Threads -> Working]
  /\ sessions \in [Friends -> 1 .. MaxSessions]
  /\ ended \in [Friends -> SUBSET (1 .. MaxSessions)]
  /\ wire \in Seq(Friends \X Nat \X Nat)
  /\ read \in Seq(Friends \X Nat \X Incoming)
  /\ phase \in {"running", "flushing", "closing"}
  /\ failures \in Nat
  /\ restarts \in Nat

\* A timer that is referred to has not fired, and without a failed write no flush
\* has anything to put back.
Timers ==
  /\ armed => pending > 0
  /\ failures = 0 => \A k \in Flushers \cup {Main} : flush[k].failed = Clean

\* A state that is filed for f, given the messages encrypted (w) and decrypted (r), the
\* number of sessions started (n) and those ended at rest (e): its position was really
\* reached, and its session was started and did not end at rest.
Real(w, r, f, s) ==
  /\ s.snd > 0 => \E i \in DOMAIN w : w[i] = <<f, s.sess, s.snd - 1>>
  /\ \A m \in s.rcv : \E i \in DOMAIN r : r[i] = <<f, s.sess, m>>

Lives(n, e, s) == s.sess <= n /\ s.sess \notin e

Good(w, r, n, e, f, s) == Real(w, r, f, s) /\ Lives(n, e, s)

Filed(f, s) == Good(wire, read, sessions[f], ended[f], f, s)

\* So is every state in the database, in the buffer, in a flush and in use.
StatesGood ==
  /\ \A f \in Friends : Filed(f, db[f]) /\ Filed(f, dirty[f])
  /\ \A f \in Friends, k \in Flushers \cup {Main} :
       Filed(f, flush[k].todo[f]) /\ Filed(f, flush[k].failed[f])
  /\ \A t \in Threads : work[t].pc = "use" => Filed(work[t].friend, work[t].state)

EndedStarted == \A f \in Friends : ended[f] \subseteq 1 .. sessions[f]

\* The inductive invariant.
IInv == Types /\ Timers /\ DirtyHasTimer /\ StatesGood /\ EndedStarted

-----------------------------------------------------------------------------
(* States *)

LEMMA NoStateTyped ==
  /\ NoState \in State /\ Clean \in [Friends -> State] /\ NoFlush \in Flush
  /\ \A f \in Friends : Clean[f] = NoState /\ NoFlush.todo[f] = NoState /\ NoFlush.failed[f] = NoState
  BY DEF NoState, State, Clean, NoFlush, Flush

\* No state is as good as any.
LEMMA NoStateGood ==
  ASSUME NEW w, NEW r, NEW n \in Nat, NEW e \in SUBSET (1 .. n), NEW f
  PROVE  Good(w, r, n, e, f, NoState)
  BY DEF Good, Real, Lives, NoState

LEMMA NoStateFiled ==
  ASSUME Types, EndedStarted, NEW f \in Friends
  PROVE  Filed(f, NoState)
  BY NoStateGood, ServiceConstants DEF Filed, Types, EndedStarted

\* Further messages leave a state good.
LEMMA GoodStays ==
  ASSUME NEW w, NEW r, NEW w2, NEW r2, NEW n, NEW e, NEW f, NEW s, Good(w, r, n, e, f, s),
         \A i \in DOMAIN w : i \in DOMAIN w2 /\ w2[i] = w[i],
         \A i \in DOMAIN r : i \in DOMAIN r2 /\ r2[i] = r[i]
  PROVE  Good(w2, r2, n, e, f, s)
  BY DEF Good, Real

\* A log keeps its entries, and the new one is its last.
LEMMA LogGrows ==
  ASSUME NEW M, NEW w \in Seq(M), NEW x \in M
  PROVE  /\ \A i \in DOMAIN w : i \in DOMAIN Append(w, x) /\ Append(w, x)[i] = w[i]
         /\ Len(w) + 1 \in DOMAIN Append(w, x) /\ Append(w, x)[Len(w) + 1] = x
  OBVIOUS

\* A worker's record, read back.
LEMMA WorkingFields ==
  ASSUME Types, NEW t \in Threads
  PROVE  /\ work[t].pc \in {"idle", "load", "use", "arm"}
         /\ work[t].pc # "idle" => work[t].friend \in Friends
         /\ work[t].pc \in {"load", "use"} => work[t].msg \in Incoming \cup {Outgoing}
         /\ work[t].pc = "use" => work[t].state \in State
  BY DEF Types, Working, Idle

-----------------------------------------------------------------------------
(* The initial states *)

LEMMA InitIInv == Init => IInv
  <1> SUFFICES ASSUME Init PROVE IInv
    OBVIOUS
  <1> USE ServiceConstants
  <1>1. \A f \in Friends : NewSession(1) \in State /\ Good(wire, read, 1, {}, f, NewSession(1))
    BY DEF Good, Real, Lives, NewSession, State
  <1>2. Types
    <2>1. db \in [Friends -> State] /\ dirty \in [Friends -> State]
      BY <1>1, NoStateTyped DEF Init
    <2>2. flush \in [Flushers \cup {Main} -> Flush]
      BY NoStateTyped DEF Init
    <2>3. work \in [Threads -> Working]
      BY DEF Init, Working
    <2>4. sessions \in [Friends -> 1 .. MaxSessions]
      BY DEF Init
    <2>5. wire \in Seq(Friends \X Nat \X Nat) /\ read \in Seq(Friends \X Nat \X Incoming)
      BY DEF Init
    <2>6. lock \in [Friends -> Threads \cup {Nobody}] /\ ended \in [Friends -> SUBSET (1 .. MaxSessions)]
      BY DEF Init
    <2>7. armed \in BOOLEAN /\ pending \in Nat /\ failures \in Nat /\ restarts \in Nat
      BY DEF Init
    <2>8. phase \in {"running", "flushing", "closing"}
      BY DEF Init
    <2> QED BY <2>1, <2>2, <2>3, <2>4, <2>5, <2>6, <2>7, <2>8 DEF Types
  <1>3. EndedStarted
    BY DEF Init, EndedStarted
  <1>4. Timers /\ DirtyHasTimer
    BY DEF Init, Timers, DirtyHasTimer, NoFlush
  <1>5. StatesGood
    BY <1>1, <1>2, <1>3, NoStateFiled, NoStateTyped DEF Init, StatesGood, Filed, Idle
  <1> QED BY <1>2, <1>3, <1>4, <1>5 DEF IInv

-----------------------------------------------------------------------------
(* The steps of a worker *)

LEMMA BeginPreserves ==
  ASSUME IInv, NEW t \in Threads, NEW f \in Friends, NEW msg \in Incoming \cup {Outgoing},
         Begin(t, f, msg)
  PROVE  IInv'
  <1> USE DEF IInv, Begin
  <1>1. work'[t].pc = "load" /\ \A u \in Threads \ {t} : work'[u] = work[u]
    BY DEF Types
  <1>2. Types'
    BY DEF Types, Working
  <1>3. work[t].pc = "idle"
    BY DEF Idle
  <1>4. Timers' /\ EndedStarted'
    BY DEF Timers, EndedStarted
  <1>5. DirtyHasTimer'
    BY <1>1, <1>3 DEF DirtyHasTimer
  <1>6. StatesGood'
    BY <1>1 DEF StatesGood, Filed
  <1> QED BY <1>2, <1>4, <1>5, <1>6

LEMMA LoadPreserves ==
  ASSUME IInv, NEW t \in Threads, Load(t)
  PROVE  IInv'
  <1> USE DEF IInv, Load
  <1>1. work[t].friend \in Friends /\ work[t].msg \in Incoming \cup {Outgoing}
    BY WorkingFields
  <1>2. /\ work'[t] = [pc |-> "use", friend |-> work[t].friend, msg |-> work[t].msg,
                       state |-> db[work[t].friend]]
        /\ \A u \in Threads \ {t} : work'[u] = work[u]
    BY DEF Types
  <1>3. Types'
    BY <1>1 DEF Types, Working
  <1>4. Timers' /\ EndedStarted'
    BY DEF Timers, EndedStarted
  <1>5. DirtyHasTimer'
    BY <1>2 DEF DirtyHasTimer
  <1>6. StatesGood'
    BY <1>1, <1>2 DEF StatesGood, Filed
  <1> QED BY <1>3, <1>4, <1>5, <1>6

\* An operation that ends without a new state.
LEMMA FinishPreserves ==
  ASSUME IInv, NEW t \in Threads, work[t].pc \in {"load", "use"}, Finish(t),
         UNCHANGED <<db, dirty, armed, pending, flush, sessions, ended, wire, read, phase,
                     failures, restarts>>
  PROVE  IInv'
  <1> USE DEF IInv, Finish
  <1>1. work'[t].pc = "idle" /\ \A u \in Threads \ {t} : work'[u] = work[u]
    BY DEF Types, Idle
  <1>2. Types'
    BY WorkingFields DEF Types, Working, Nobody
  <1>3. Timers' /\ EndedStarted'
    BY DEF Timers, EndedStarted
  <1>4. DirtyHasTimer'
    BY <1>1 DEF DirtyHasTimer
  <1>5. StatesGood'
    BY <1>1 DEF StatesGood, Filed
  <1> QED BY <1>2, <1>3, <1>4, <1>5

\* A new state is buffered, and its worker is about to see to a timer.
LEMMA MarkDirtyWorks ==
  ASSUME Types, NEW t \in Threads, work[t].pc = "use", NEW s \in State, MarkDirty(t, s)
  PROVE  /\ dirty' \in [Friends -> State] /\ work' \in [Threads -> Working]
         /\ work'[t].pc = "arm" /\ \A u \in Threads \ {t} : work'[u] = work[u]
         /\ \A f \in Friends : dirty'[f] = IF f = work[t].friend THEN s ELSE dirty[f]
  <1>1. work[t].friend \in Friends
    BY WorkingFields
  <1>2. [pc |-> "arm", friend |-> work[t].friend] \in Working
    BY <1>1 DEF Working
  <1> QED BY <1>1, <1>2 DEF MarkDirty, Types

LEMMA EncryptPreserves ==
  ASSUME IInv, NEW t \in Threads, Encrypt(t)
  PROVE  IInv'
  <1> DEFINE g == work[t].friend
             s == work[t].state
             new == [s EXCEPT !.snd = @ + 1]
             x == <<g, s.sess, s.snd>>
             M == Friends \X Nat \X Nat
  <1> USE DEF IInv
  <1>1. g \in Friends /\ s \in State /\ work[t].pc = "use"
    BY WorkingFields DEF Encrypt
  <1>2. new \in State /\ x \in M
    BY <1>1 DEF State
  <1>3. /\ dirty' \in [Friends -> State] /\ work' \in [Threads -> Working]
        /\ work'[t].pc = "arm" /\ \A u \in Threads \ {t} : work'[u] = work[u]
        /\ \A f \in Friends : dirty'[f] = IF f = g THEN new ELSE dirty[f]
    BY <1>1, <1>2, MarkDirtyWorks DEF Encrypt
  <1>4. wire \in Seq(M) /\ wire' = Append(wire, x) /\ read' = read /\ UNCHANGED <<sessions, ended>>
    BY DEF Encrypt, Types
  <1>5. Types'
    BY <1>2, <1>3, <1>4 DEF Types, Encrypt
  <1>6. Timers' /\ EndedStarted' /\ DirtyHasTimer'
    BY <1>3 DEF Encrypt, Timers, EndedStarted, DirtyHasTimer
  <1>7. \A f \in Friends : \A z : Filed(f, z) => Good(wire', read', sessions'[f], ended'[f], f, z)
    <2>1. \A i \in DOMAIN wire : i \in DOMAIN wire' /\ wire'[i] = wire[i]
      BY <1>2, <1>4, LogGrows
    <2> QED BY <2>1, <1>4, GoodStays DEF Filed
  <1>8. Good(wire', read', sessions'[g], ended'[g], g, new)
    <2>1. Good(wire', read', sessions'[g], ended'[g], g, s)
      BY <1>1, <1>7 DEF StatesGood
    <2>2. new.sess = s.sess /\ new.rcv = s.rcv /\ new.snd - 1 = s.snd
      BY <1>1 DEF State
    <2>3. Len(wire) + 1 \in DOMAIN wire' /\ wire'[Len(wire) + 1] = x
      BY <1>2, <1>4, LogGrows
    <2> QED BY <2>1, <2>2, <2>3 DEF Good, Real, Lives
  <1>9. StatesGood'
    <2>1. UNCHANGED <<db, flush>>
      BY DEF Encrypt
    <2>2. \A f \in Friends : Filed(f, db[f])' /\ Filed(f, dirty[f])'
      BY <2>1, <1>3, <1>7, <1>8 DEF StatesGood, Filed
    <2>3. \A f \in Friends, k \in Flushers \cup {Main} :
            Filed(f, flush[k].todo[f])' /\ Filed(f, flush[k].failed[f])'
      BY <2>1, <1>7 DEF StatesGood, Filed
    <2>4. \A u \in Threads : work'[u].pc = "use" => Filed(work[u].friend, work[u].state)'
      BY <1>3, <1>7, WorkingFields DEF StatesGood, Filed
    <2> QED BY <2>2, <2>3, <2>4 DEF StatesGood
  <1> QED BY <1>5, <1>6, <1>9

LEMMA DecryptPreserves ==
  ASSUME IInv, NEW t \in Threads, Decrypt(t)
  PROVE  IInv'
  <1> DEFINE g == work[t].friend
             s == work[t].state
             m == work[t].msg
             new == [s EXCEPT !.rcv = @ \cup {m}]
             x == <<g, s.sess, m>>
             M == Friends \X Nat \X Incoming
  <1> USE DEF IInv
  <1>1. g \in Friends /\ s \in State /\ m \in Incoming /\ work[t].pc = "use"
    BY WorkingFields DEF Decrypt
  <1>2. new \in State /\ x \in M
    BY <1>1 DEF State
  <1>3. /\ dirty' \in [Friends -> State] /\ work' \in [Threads -> Working]
        /\ work'[t].pc = "arm" /\ \A u \in Threads \ {t} : work'[u] = work[u]
        /\ \A f \in Friends : dirty'[f] = IF f = g THEN new ELSE dirty[f]
    BY <1>1, <1>2, MarkDirtyWorks DEF Decrypt
  <1>4. read \in Seq(M) /\ read' = Append(read, x) /\ wire' = wire /\ UNCHANGED <<sessions, ended>>
    BY DEF Decrypt, Types
  <1>5. Types'
    BY <1>2, <1>3, <1>4 DEF Types, Decrypt
  <1>6. Timers' /\ EndedStarted' /\ DirtyHasTimer'
    BY <1>3 DEF Decrypt, Timers, EndedStarted, DirtyHasTimer
  <1>7. \A f \in Friends : \A z : Filed(f, z) => Good(wire', read', sessions'[f], ended'[f], f, z)
    <2>1. \A i \in DOMAIN read : i \in DOMAIN read' /\ read'[i] = read[i]
      BY <1>2, <1>4, LogGrows
    <2> QED BY <2>1, <1>4, GoodStays DEF Filed
  <1>8. Good(wire', read', sessions'[g], ended'[g], g, new)
    <2>1. Good(wire', read', sessions'[g], ended'[g], g, s)
      BY <1>1, <1>7 DEF StatesGood
    <2>2. new.sess = s.sess /\ new.rcv = s.rcv \cup {m} /\ new.snd = s.snd
      BY <1>1 DEF State
    <2>3. Len(read) + 1 \in DOMAIN read' /\ read'[Len(read) + 1] = x
      BY <1>2, <1>4, LogGrows
    <2> QED BY <2>1, <2>2, <2>3 DEF Good, Real, Lives
  <1>9. StatesGood'
    <2>1. UNCHANGED <<db, flush>>
      BY DEF Decrypt
    <2>2. \A f \in Friends : Filed(f, db[f])' /\ Filed(f, dirty[f])'
      BY <2>1, <1>3, <1>7, <1>8 DEF StatesGood, Filed
    <2>3. \A f \in Friends, k \in Flushers \cup {Main} :
            Filed(f, flush[k].todo[f])' /\ Filed(f, flush[k].failed[f])'
      BY <2>1, <1>7 DEF StatesGood, Filed
    <2>4. \A u \in Threads : work'[u].pc = "use" => Filed(work[u].friend, work[u].state)'
      BY <1>3, <1>7, WorkingFields DEF StatesGood, Filed
    <2> QED BY <2>2, <2>3, <2>4 DEF StatesGood
  <1> QED BY <1>5, <1>6, <1>9

LEMMA EnsureFlushTimerPreserves ==
  ASSUME IInv, NEW t \in Threads, EnsureFlushTimer(t)
  PROVE  IInv'
  <1> USE DEF IInv, EnsureFlushTimer, Finish
  <1>1. work'[t].pc = "idle" /\ \A u \in Threads \ {t} : work'[u] = work[u]
    BY DEF Types, Idle
  <1>2. Types'
    BY WorkingFields DEF Types, Working, Nobody
  <1>3. Timers' /\ EndedStarted'
    BY DEF Timers, EndedStarted, Types
  <1>4. DirtyHasTimer'
    BY <1>3 DEF DirtyHasTimer, Timers
  <1>5. StatesGood'
    BY <1>1 DEF StatesGood, Filed
  <1> QED BY <1>2, <1>3, <1>4, <1>5

LEMMA OperationPreserves ==
  ASSUME IInv, NEW t \in Threads, Operation(t)
  PROVE  IInv'
  <1>1. CASE LoadFails(t)
    BY <1>1, FinishPreserves DEF LoadFails
  <1>2. CASE DecryptFails(t)
    BY <1>2, FinishPreserves DEF DecryptFails
  <1> QED BY <1>1, <1>2, LoadPreserves, EncryptPreserves, DecryptPreserves,
             EnsureFlushTimerPreserves DEF Operation

-----------------------------------------------------------------------------
(* The steps of a flush *)

\* The buffer moves to a flush, whoever takes it.
LEMMA TakeDirtyPreserves ==
  ASSUME IInv, NEW k \in Flushers \cup {Main}, TakeDirty(k), pending' \in Nat,
         phase' \in {"running", "flushing", "closing"},
         UNCHANGED <<db, lock, work, sessions, ended, wire, read, failures, restarts>>
  PROVE  IInv'
  <1> USE DEF IInv, TakeDirty
  <1>1. /\ flush'[k] = [busy |-> TRUE, todo |-> dirty, failed |-> Clean]
        /\ \A j \in (Flushers \cup {Main}) \ {k} : flush'[j] = flush[j]
    BY DEF Types
  <1>2. Types'
    <2>1. [busy |-> TRUE, todo |-> dirty, failed |-> Clean] \in Flush
      BY NoStateTyped DEF Types, Flush
    <2>2. flush' \in [Flushers \cup {Main} -> Flush] /\ dirty' \in [Friends -> State]
      BY <2>1, NoStateTyped DEF Types
    <2> QED BY <2>2 DEF Types
  <1>3. Timers' /\ EndedStarted' /\ DirtyHasTimer'
    BY <1>1 DEF Timers, EndedStarted, DirtyHasTimer
  <1>4. StatesGood'
    <2>1. \A f \in Friends : Filed(f, NoState) /\ Clean[f] = NoState
      BY NoStateFiled, NoStateTyped
    <2>2. \A f \in Friends, j \in Flushers \cup {Main} :
            Filed(f, flush'[j].todo[f]) /\ Filed(f, flush'[j].failed[f])
      BY <1>1, <2>1 DEF StatesGood
    <2> QED BY <2>1, <2>2 DEF StatesGood, Filed
  <1> QED BY <1>2, <1>3, <1>4

\* What one flush has to save, or has failed to save, changes, and what is stored.
LEMMA FlushPartPreserves ==
  ASSUME IInv, NEW k \in Flushers \cup {Main},
         flush' \in [Flushers \cup {Main} -> Flush],
         \A j \in (Flushers \cup {Main}) \ {k} : flush'[j] = flush[j],
         \A f \in Friends : Filed(f, flush'[k].todo[f]) /\ Filed(f, flush'[k].failed[f]),
         failures' \in Nat, failures' = 0 => failures = 0 /\ flush'[k].failed = flush[k].failed,
         db' \in [Friends -> State], \A f \in Friends : Filed(f, db'[f]),
         UNCHANGED <<dirty, armed, pending, lock, work, sessions, ended, wire, read, phase,
                     restarts>>
  PROVE  IInv'
  <1> USE DEF IInv
  <1>1. Types'
    BY DEF Types
  <1>2. Timers' /\ EndedStarted' /\ DirtyHasTimer'
    BY DEF Timers, EndedStarted, DirtyHasTimer
  <1>3. StatesGood'
    BY DEF StatesGood, Filed
  <1> QED BY <1>1, <1>2, <1>3

\* A flush after the state of f was saved, and after it could not be.
Saved(w, f) == [w EXCEPT !.todo[f] = NoState]
Kept(w, f) == [w EXCEPT !.failed[f] = w.todo[f], !.todo[f] = NoState]

LEMMA FlushParts ==
  ASSUME NEW w \in Flush, NEW f \in Friends
  PROVE  /\ Saved(w, f) \in Flush /\ Kept(w, f) \in Flush
         /\ Saved(w, f).failed = w.failed
         /\ Saved(w, f).todo = [w.todo EXCEPT ![f] = NoState]
         /\ Kept(w, f).failed = [w.failed EXCEPT ![f] = w.todo[f]]
         /\ Kept(w, f).todo = [w.todo EXCEPT ![f] = NoState]
  BY NoStateTyped DEF Flush, Saved, Kept

LEMMA SavePreserves ==
  ASSUME IInv, NEW k \in Flushers \cup {Main}, NEW f \in Friends,
         Save(k, f) \/ SaveFails(k, f)
  PROVE  IInv'
  <1> USE DEF IInv
  <1>1. /\ flush[k] \in Flush /\ flush[k].todo[f] \in State
        /\ flush[k].todo \in [Friends -> State] /\ flush[k].failed \in [Friends -> State]
    BY DEF Types, Flush
  <1>2. \A g \in Friends : /\ Filed(g, flush[k].todo[g]) /\ Filed(g, flush[k].failed[g])
                           /\ Filed(g, db[g]) /\ Filed(g, NoState)
    BY NoStateFiled DEF StatesGood
  <1>3. CASE Save(k, f)
    <2>1. flush' = [flush EXCEPT ![k] = Saved(flush[k], f)]
      BY <1>3 DEF Save, Saved
    <2>2. /\ flush'[k].failed = flush[k].failed
          /\ flush'[k].todo = [flush[k].todo EXCEPT ![f] = NoState]
          /\ flush' \in [Flushers \cup {Main} -> Flush]
          /\ \A j \in (Flushers \cup {Main}) \ {k} : flush'[j] = flush[j]
      BY <2>1, <1>1, FlushParts DEF Types
    <2>3. db' \in [Friends -> State] /\ \A g \in Friends : Filed(g, db'[g])
      BY <1>1, <1>2, <1>3 DEF Save, Types
    <2>4. \A g \in Friends : Filed(g, flush'[k].todo[g]) /\ Filed(g, flush'[k].failed[g])
      BY <1>1, <1>2, <2>2
    <2>5. failures' = failures /\ failures \in Nat
      BY <1>3 DEF Save, Types
    <2>6. UNCHANGED <<dirty, armed, pending, lock, work, sessions, ended, wire, read, phase,
                      restarts>>
      BY <1>3 DEF Save
    <2> QED BY <2>2, <2>3, <2>4, <2>5, <2>6, FlushPartPreserves
  <1>4. CASE SaveFails(k, f)
    <2>1. flush' = [flush EXCEPT ![k] = Kept(flush[k], f)]
      BY <1>4 DEF SaveFails, Types, Kept
    <2>2. /\ flush'[k].failed = [flush[k].failed EXCEPT ![f] = flush[k].todo[f]]
          /\ flush'[k].todo = [flush[k].todo EXCEPT ![f] = NoState]
          /\ flush' \in [Flushers \cup {Main} -> Flush]
          /\ \A j \in (Flushers \cup {Main}) \ {k} : flush'[j] = flush[j]
      BY <2>1, <1>1, FlushParts DEF Types
    <2>3. db' \in [Friends -> State] /\ \A g \in Friends : Filed(g, db'[g])
      BY <1>2, <1>4 DEF SaveFails, Types
    <2>4. \A g \in Friends : Filed(g, flush'[k].todo[g]) /\ Filed(g, flush'[k].failed[g])
      BY <1>1, <1>2, <2>2
    <2>5. failures' \in Nat /\ failures' # 0
      BY <1>4 DEF SaveFails, Types
    <2>6. UNCHANGED <<dirty, armed, pending, lock, work, sessions, ended, wire, read, phase,
                      restarts>>
      BY <1>4 DEF SaveFails
    <2> QED BY <2>2, <2>3, <2>4, <2>5, <2>6, FlushPartPreserves
  <1> QED BY <1>3, <1>4

LEMMA FlushEndsPreserves ==
  ASSUME IInv, NEW k \in Flushers \cup {Main}, FlushEnds(k)
  PROVE  IInv'
  <1> USE DEF IInv, FlushEnds
  <1>1. flush'[k] = NoFlush /\ \A j \in (Flushers \cup {Main}) \ {k} : flush'[j] = flush[j]
    BY DEF Types
  <1>2. flush[k].failed \in [Friends -> State]
    BY DEF Types, Flush
  <1>3. Types'
    <2>1. flush' \in [Flushers \cup {Main} -> Flush]
      BY NoStateTyped DEF Types
    <2>2. dirty' \in [Friends -> State]
      BY <1>2 DEF Types
    <2> QED BY <2>1, <2>2 DEF Types
  <1>4. Timers' /\ EndedStarted'
    BY <1>1 DEF Timers, EndedStarted, NoFlush
  <1>5. DirtyHasTimer'
    <2>1. SUFFICES ASSUME failures = 0 PROVE dirty' = dirty
      BY DEF DirtyHasTimer
    <2>2. \A f \in Friends : flush[k].failed[f] = NoState
      BY <2>1, NoStateTyped DEF Timers
    <2>3. \A f \in Friends : dirty'[f] = dirty[f]
      BY <2>2
    <2> QED BY <2>3, <1>3 DEF Types
  <1>6. StatesGood'
    <2>1. \A f \in Friends : Filed(f, dirty'[f])
      BY DEF StatesGood
    <2>2. \A f \in Friends, j \in Flushers \cup {Main} :
            Filed(f, flush'[j].todo[f]) /\ Filed(f, flush'[j].failed[f])
      BY <1>1, NoStateFiled, NoStateTyped DEF StatesGood
    <2> QED BY <2>1, <2>2 DEF StatesGood, Filed
  <1> QED BY <1>3, <1>4, <1>5, <1>6

-----------------------------------------------------------------------------
(* Sessions, and the life of the process *)

\* A session of f ends, and perhaps another begins.  When the states of f are at rest all
\* sessions so far end and no state of them is left; otherwise none counts as ended.
LEMMA SessionPreserves ==
  ASSUME IInv, NEW f \in Friends, EndSessions(f),
         sessions' \in [Friends -> 1 .. MaxSessions], sessions'[f] >= sessions[f],
         db' \in [Friends -> State],
         \A g \in Friends \ {f} : sessions'[g] = sessions[g] /\ db'[g] = db[g],
         db'[f] # NoState => db'[f] = NewSession(sessions[f] + 1) /\ sessions'[f] > sessions[f],
         UNCHANGED <<dirty, armed, pending, flush, lock, work, wire, read, phase, failures,
                     restarts>>
  PROVE  IInv'
  <1> USE DEF IInv
  <1>1. sessions[f] \in Nat /\ sessions'[f] \in Nat /\ sessions[f] <= MaxSessions /\ MaxSessions \in Nat
    BY ServiceConstants DEF Types
  <1>2. /\ ended'[f] = IF Quiet(f) THEN 1 .. sessions[f] ELSE ended[f]
        /\ \A g \in Friends \ {f} : ended'[g] = ended[g]
        /\ ended' \in [Friends -> SUBSET (1 .. MaxSessions)]
    BY <1>1 DEF EndSessions, Types
  <1>3. Types'
    BY <1>2 DEF Types
  <1>4. EndedStarted'
    <2>1. ended'[f] \subseteq 1 .. sessions'[f]
      BY <1>1, <1>2 DEF EndedStarted
    <2> QED BY <2>1, <1>2 DEF EndedStarted
  <1>5. Timers' /\ DirtyHasTimer'
    BY DEF Timers, DirtyHasTimer
  <1>6. Filed(f, NoState)'
    BY <1>3, <1>4, <1>1, NoStateGood DEF Filed, EndedStarted
  <1>7. Filed(f, db[f])'
    <2>1. CASE db'[f] = NewSession(sessions[f] + 1) /\ sessions'[f] > sessions[f]
      <3>1. db'[f].snd = 0 /\ db'[f].rcv = {} /\ db'[f].sess = sessions[f] + 1
        BY <2>1 DEF NewSession
      <3>2. ended'[f] \subseteq 1 .. sessions[f]
        BY <1>2 DEF EndedStarted
      <3> QED BY <3>1, <3>2, <2>1, <1>1 DEF Filed, Good, Real, Lives
    <2> QED BY <2>1, <1>6
  <1>8. ASSUME NEW s \in State, Filed(f, s), ~ Quiet(f)
        PROVE  Good(wire', read', sessions'[f], ended'[f], f, s)
    BY <1>8, <1>1, <1>2 DEF Filed, Good, Real, Lives, State
  <1>9. ASSUME NEW g \in Friends, g # f, NEW s, Filed(g, s)
        PROVE  Good(wire', read', sessions'[g], ended'[g], g, s)
    BY <1>9, <1>2 DEF Filed
  <1>10. StatesGood'
    <2>1. \A g \in Friends : Filed(g, db[g])'
      BY <1>7, <1>9 DEF StatesGood, Filed
    <2>2. \A g \in Friends : Filed(g, dirty[g])'
      <3>1. Filed(f, dirty[f])'
        BY <1>6, <1>8 DEF StatesGood, Filed, Quiet, Types
      <3> QED BY <3>1, <1>9 DEF StatesGood, Filed
    <2>3. \A g \in Friends, k \in Flushers \cup {Main} :
            Filed(g, flush[k].todo[g])' /\ Filed(g, flush[k].failed[g])'
      <3> SUFFICES ASSUME NEW g \in Friends, NEW k \in Flushers \cup {Main}
                   PROVE  Filed(g, flush[k].todo[g])' /\ Filed(g, flush[k].failed[g])'
        OBVIOUS
      <3>1. flush[k].todo[g] \in State /\ flush[k].failed[g] \in State /\ k \in DOMAIN flush
        BY DEF Types, Flush
      <3>2. CASE g # f
        BY <3>2, <1>9 DEF StatesGood, Filed
      <3>3. CASE g = f /\ Quiet(f)
        BY <3>1, <3>3, <1>6 DEF Quiet, Filed
      <3>4. CASE g = f /\ ~ Quiet(f)
        BY <3>1, <3>4, <1>8 DEF StatesGood, Filed
      <3> QED BY <3>2, <3>3, <3>4
    <2>4. \A t \in Threads : work'[t].pc = "use" => Filed(work[t].friend, work[t].state)'
      <3> SUFFICES ASSUME NEW t \in Threads, work[t].pc = "use"
                   PROVE  Filed(work[t].friend, work[t].state)'
        OBVIOUS
      <3>1. work[t].friend \in Friends /\ work[t].state \in State
        BY WorkingFields
      <3>2. CASE work[t].friend # f
        BY <3>1, <3>2, <1>9 DEF StatesGood, Filed
      <3>3. CASE work[t].friend = f
        <4>1. ~ Quiet(f)
          BY <3>3 DEF Quiet
        <4> QED BY <4>1, <3>1, <3>3, <1>8 DEF StatesGood, Filed
      <3> QED BY <3>2, <3>3
    <2> QED BY <2>1, <2>2, <2>3, <2>4 DEF StatesGood
  <1> QED BY <1>3, <1>4, <1>5, <1>10

LEMMA InitRatchetPreserves ==
  ASSUME IInv, NEW f \in Friends, InitRatchet(f)
  PROVE  IInv'
  <1>1. sessions[f] \in Nat /\ sessions[f] + 1 \in 1 .. MaxSessions
    BY ServiceConstants DEF InitRatchet, IInv, Types
  <1>2. NewSession(sessions[f] + 1) \in State
    BY <1>1 DEF NewSession, State
  <1>3. /\ sessions' \in [Friends -> 1 .. MaxSessions] /\ sessions'[f] > sessions[f]
        /\ db' \in [Friends -> State] /\ db'[f] = NewSession(sessions[f] + 1)
        /\ \A g \in Friends \ {f} : sessions'[g] = sessions[g] /\ db'[g] = db[g]
    BY <1>1, <1>2 DEF InitRatchet, IInv, Types
  <1> QED BY <1>1, <1>3, SessionPreserves DEF InitRatchet

LEMMA DeleteRatchetPreserves ==
  ASSUME IInv, NEW f \in Friends, DeleteRatchet(f)
  PROVE  IInv'
  <1>1. /\ sessions' \in [Friends -> 1 .. MaxSessions] /\ sessions'[f] >= sessions[f]
        /\ db' \in [Friends -> State] /\ db'[f] = NoState
        /\ \A g \in Friends \ {f} : sessions'[g] = sessions[g] /\ db'[g] = db[g]
    BY NoStateTyped, ServiceConstants DEF DeleteRatchet, IInv, Types
  <1>2. /\ EndSessions(f)
        /\ UNCHANGED <<dirty, armed, pending, flush, lock, work, wire, read, phase, failures,
                       restarts>>
    BY DEF DeleteRatchet
  <1> QED BY <1>1, <1>2, SessionPreserves

\* A new process keeps what the database holds and forgets the rest.
LEMMA FreshMemoryPreserves ==
  ASSUME IInv, FreshMemory, restarts' \in Nat,
         UNCHANGED <<db, sessions, ended, wire, read, failures>>
  PROVE  IInv'
  <1> USE DEF IInv, FreshMemory
  <1>1. /\ \A k \in Flushers \cup {Main} : flush'[k] = NoFlush
        /\ \A t \in Threads : work'[t].pc = "idle"
    BY DEF Types, Idle
  <1>2. Types'
    <2>1. dirty' \in [Friends -> State] /\ flush' \in [Flushers \cup {Main} -> Flush]
      BY NoStateTyped DEF Types
    <2>2. work' \in [Threads -> Working] /\ lock' \in [Friends -> Threads \cup {Nobody}]
      BY DEF Working
    <2> QED BY <2>1, <2>2 DEF Types
  <1>3. Timers' /\ EndedStarted' /\ DirtyHasTimer'
    <2>1. NoFlush.failed = Clean
      BY DEF NoFlush
    <2>2. \A k \in Flushers \cup {Main} : flush'[k].failed = Clean
      BY <1>1, <2>1
    <2> QED BY <2>2 DEF Timers, EndedStarted, DirtyHasTimer
  <1>4. StatesGood'
    BY <1>1, NoStateFiled, NoStateTyped DEF StatesGood, Filed
  <1> QED BY <1>2, <1>3, <1>4

-----------------------------------------------------------------------------
(* The invariant *)

LEMMA NextPreserves == IInv /\ [Next]_vars => IInv'
  <1> SUFFICES ASSUME IInv, [Next]_vars PROVE IInv'
    OBVIOUS
  <1>1. CASE UNCHANGED vars
    BY <1>1 DEF vars, IInv, Types, Timers, DirtyHasTimer, StatesGood, Filed, EndedStarted
  <1>2. ASSUME NEW k \in Flushers, TimerFires(k) PROVE IInv'
    <2>1. pending' \in Nat /\ phase' \in {"running", "flushing", "closing"}
      BY <1>2 DEF TimerFires, IInv, Types
    <2> QED BY <2>1, <1>2, TakeDirtyPreserves DEF TimerFires
  <1>3. CASE Shutdown
    <2>1. pending' \in Nat /\ phase' \in {"running", "flushing", "closing"}
      BY <1>3 DEF Shutdown, IInv, Types
    <2> QED BY <2>1, <1>3, TakeDirtyPreserves DEF Shutdown
  <1>4. CASE ExitAndRestart \/ Crash
    <2>1. restarts' \in Nat
      BY <1>4 DEF ExitAndRestart, Crash, IInv, Types
    <2> QED BY <2>1, <1>4, FreshMemoryPreserves DEF ExitAndRestart, Crash
  <1>5. ASSUME NEW k \in Flushers \cup {Main}, FlushStep(k) PROVE IInv'
    BY <1>5, SavePreserves, FlushEndsPreserves DEF FlushStep
  <1>6. ASSUME NEW t \in Threads, NEW f \in Friends, NEW msg \in Incoming \cup {Outgoing},
               Begin(t, f, msg)
        PROVE  IInv'
    BY <1>6, BeginPreserves
  <1>7. ASSUME NEW t \in Threads, Operation(t) PROVE IInv'
    BY <1>7, OperationPreserves
  <1>8. ASSUME NEW f \in Friends, InitRatchet(f) \/ DeleteRatchet(f) PROVE IInv'
    BY <1>8, InitRatchetPreserves, DeleteRatchetPreserves
  <1> QED BY <1>1, <1>2, <1>3, <1>4, <1>5, <1>6, <1>7, <1>8 DEF Next

LEMMA Invariance == Spec => []IInv
  BY InitIInv, NextPreserves, PTL DEF Spec

\* Types: every buffer, flush and worker of the service is well formed, whatever the order
\* in which workers, timers, deletions, crashes and restarts interleave.
THEOREM ServiceTypes == Spec => []TypeOK
  <1>1. IInv => TypeOK
    <2> SUFFICES ASSUME IInv PROVE TypeOK
      OBVIOUS
    <2>1. \A t \in Threads : work[t].pc \in {"idle", "load", "use", "arm"}
      BY WorkingFields DEF IInv
    <2> QED BY <2>1 DEF IInv, Types, TypeOK, Flush
  <1> QED BY <1>1, Invariance, PTL

\* _mark_dirty and _ensure_flush_timer: as long as no write failed, a state in
\* _dirty_states has a live timer or a worker about to start one.
THEOREM BufferedHasTimer == Spec => []DirtyHasTimer
  BY Invariance, PTL DEF IInv

\* get_ratchet_state, flush_dirty_states, save_ratchet_state: no interleaving, crash or
\* failed write stores or buffers a position of a session that no message reached.
THEOREM StoredPositionsReal == Spec => []PositionsAreReal
  <1>1. IInv => PositionsAreReal
    <2> SUFFICES ASSUME IInv PROVE PositionsAreReal
      OBVIOUS
    <2>1. DOMAIN flush = Flushers \cup {Main}
      BY DEF IInv, Types
    <2> QED BY <2>1 DEF IInv, StatesGood, Filed, Good, Real, PositionsAreReal
  <1> QED BY <1>1, Invariance, PTL

\* delete_ratchet and init_ratchet_*: a session that ended while no state of the friend was
\* buffered, in a flush or in use is never stored again.
THEOREM SessionsStayEnded == Spec => []EndedStaysEnded
  <1>1. IInv => EndedStaysEnded
    BY DEF IInv, StatesGood, Filed, Good, Lives, EndedStaysEnded
  <1> QED BY <1>1, Invariance, PTL
=============================================================================
