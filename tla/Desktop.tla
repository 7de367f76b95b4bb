------------------------------- MODULE Desktop -------------------------------
(***************************************************************************)
(* The window: composing and sending (views/encrypt_tab.py), decrypting and *)
(* showing (views/decrypt_tab.py), the clipboard (clipboard_service.py),    *)
(* the events that refresh the tabs (event_bus.py), and the emergency lock, *)
(* the unlock and the close (app.py, service_orchestrator.py,               *)
(* application_controller.py), over the task queue.                         *)
(*                                                                          *)
(* A text is the number under which it was typed; an encrypted message is   *)
(* named by the mode it was made in.  What encryption does to keys and      *)
(* sessions is the subject of Messaging and RatchetService.                 *)
(***************************************************************************)
EXTENDS CryptoTaskQueue

CONSTANTS Friend,      \* the friends
          Message,     \* encrypted messages, named by their mode
          Instance,    \* the instances that are explored: see bound
          None         \* no friend is chosen; nothing is shown

ASSUME NoneAssumption == None \notin Friend \cup Message

VARIABLES bound,       \* the instance, chosen at the start
          work,        \* the function and the arguments of each task
          friend,      \* encrypt tab: the friend chosen (_current_friend and friend_combo)
          box,         \* the text in msg_input, 0 if it is empty
          drafts,      \* _drafts
          busy,        \* _busy: a message is being encrypted, msg_input is disabled
          logged,      \* the sent log is not empty
          shown,       \* decrypt tab: the message whose plaintext is displayed
          label,       \* the mode it is said to have
          timer,       \* an auto-clear is scheduled (_autoclear_after_id)
          last_mode,   \* EncryptionService.last_decrypt_mode
          clip,        \* the clipboard: empty, a text of this program, or one that is kept since
                       \*   clearing it failed and nothing tries again
          clipTimer,   \* ClipboardService._timer is waiting
          clearing,    \* a timer has fired and its thread is about to clear the clipboard
          phase,       \* of the window: open, locked, draining, closed
          wroteFor,    \* history: the friend chosen when each text was typed
          encrypted,   \* history: the tasks that encrypted a text
          moved,       \* history: the texts in the box when the friend changed during an encryption
          hasted,      \* history: the texts sent by the shortcut during an encryption, and those
                       \*   still being encrypted when the answer of another task enabled the tab
          timed,       \* history: the plaintext was shown with auto-clear on
          failed,      \* history: a decryption has failed since it was shown
          overtaken,   \* history: the decryptions during which another one began
          mixed,       \* history: the plaintext shown is of such a decryption
          count        \* how often the user changed a friend, locked, copied

tabVars == <<bound, work, friend, box, drafts, busy, logged, shown, label, timer, last_mode, clip,
             clipTimer, clearing, phase, wroteFor, encrypted, moved, hasted, timed, failed,
             overtaken, mixed, count>>
sendVars == <<friend, box, drafts, busy, logged, wroteFor, moved, hasted>>
showVars == <<shown, label, timer, timed, failed, mixed>>
clipVars == <<clip, clipTimer, clearing>>
vars == <<queueVars, tabVars>>

NoWork == [kind |-> "none", text |-> 0, to |-> None]
Recipient == Friend \cup {None}
Open == phase = "open"

\* The window's thread runs callbacks unless it is draining the queue or has ended.
MainRuns == phase \in {"open", "locked"}

Counted(what) == count[what] < bound[what] /\ count' = [count EXCEPT ![what] = @ + 1]

-----------------------------------------------------------------------------
(* Composing *)

\* The user types a text for the friend chosen; msg_input accepts it unless it is disabled.
TypeText ==
  /\ Open /\ ~busy /\ box = 0 /\ Len(wroteFor) < bound.texts
  /\ wroteFor' = Append(wroteFor, friend)
  /\ box' = Len(wroteFor) + 1
  /\ UNCHANGED <<queueVars, bound, work, friend, drafts, busy, logged, moved, hasted, showVars, clipVars,
            last_mode, phase, encrypted, overtaken, count>>

\* clear_input, by the button or by Escape: nothing happens to a disabled msg_input.
ClearInput ==
  /\ Open /\ box # 0 /\ ~busy
  /\ box' = 0
  /\ UNCHANGED <<queueVars, bound, work, friend, drafts, busy, logged, wroteFor, moved, hasted, showVars,
            clipVars, last_mode, phase, encrypted, overtaken, count>>

\* Mutant of SwapFriend: the text stays in the box.
SwapFriendKeepsBox(new) ==
  /\ drafts' = [drafts EXCEPT ![friend] = box]
  /\ friend' = new
  /\ box' = box
  /\ moved' = IF busy /\ new # friend THEN moved \cup ({box} \ {0}) ELSE moved

\* _swap_friend: the text is kept as the draft of the friend it was typed for and replaced by
\* the draft of the new one.  While msg_input is disabled, delete and insert do nothing.
SwapFriend(new) ==
  /\ drafts' = [drafts EXCEPT ![friend] = box]
  /\ friend' = new
  /\ box' = IF busy THEN box ELSE drafts'[new]
  /\ moved' = IF busy /\ new # friend THEN moved \cup ({box} \ {0}) ELSE moved

\* _on_friend_changed: friend_combo is not disabled during an encryption.
ChangeFriend(new) ==
  /\ Open /\ new # friend
  /\ SwapFriend(new)
  /\ Counted("changes")
  /\ UNCHANGED <<queueVars, bound, work, busy, logged, wroteFor, hasted, showVars, clipVars, last_mode,
            phase, encrypted, overtaken>>

\* _update_friend_list: back to "(none)", with the drafts swapped.
UpdateFriendList ==
  IF friend = None THEN UNCHANGED <<drafts, friend, box, moved>> ELSE SwapFriend(None)

\* _on_tab_changed: the encrypt tab is selected.
SelectTab ==
  /\ Open /\ friend # None
  /\ UpdateFriendList
  /\ Counted("changes")
  /\ UNCHANGED <<queueVars, bound, work, busy, logged, wroteFor, hasted, showVars, clipVars, last_mode,
            phase, encrypted, overtaken>>

\* A friend is added, removed or changed: publish(FRIEND_LIST_CHANGED), by way of root.after.
PublishFriends ==
  after' = Append(after, [event |-> "friends", task |-> 0, result |-> "none"])

FriendListChanged ==
  /\ Open
  /\ PublishFriends
  /\ Counted("changes")
  /\ UNCHANGED <<is_running, submitted, waiting, worker, inner_executor, inner, result, root_alive, answered,
            bound, work, sendVars, showVars, clipVars, last_mode, phase, encrypted, overtaken>>

\* send_message by the button, which is disabled during an encryption, or by Control-Return,
\* which is not.  The text and the friend are those of this moment.
SendMessage(shortcut) ==
  /\ Open /\ box # 0
  /\ busy => shortcut
  /\ friend # None \/ bound.secret
  /\ Submit /\ submitted < bound.tasks
  /\ work' = [work EXCEPT ![submitted + 1] = [kind |-> "send", text |-> box, to |-> friend]]
  /\ busy' = TRUE
  /\ hasted' = IF busy THEN hasted \cup {box} ELSE hasted
  /\ UNCHANGED <<bound, friend, box, drafts, logged, wroteFor, moved, showVars, clipVars, last_mode, phase,
            encrypted, overtaken, count>>

\* The texts of the other encryptions that have not been answered.
BeingEncrypted(t) ==
  {work[u].text : u \in {v \in 1 .. submitted : v # t /\ work[v].kind = "send" /\ answered[v] = "no"}}

\* Mutant of SendAnswered: the text that was sent stays in the box.
SendAnsweredKeepsText(t, r) ==
  /\ busy' = FALSE
  /\ box' = box
  /\ logged' = (logged \/ r = "ok")
  /\ hasted' = hasted \cup BeingEncrypted(t)

\* _on_success with _log_sent, and _on_error: the tab is enabled again, also when another text
\* is being encrypted; a text that was encrypted is logged, and msg_input is emptied.
SendAnswered(t, r) ==
  /\ busy' = FALSE
  /\ box' = IF r = "ok" THEN 0 ELSE box
  /\ logged' = (logged \/ r = "ok")
  /\ hasted' = hasted \cup BeingEncrypted(t)

-----------------------------------------------------------------------------
(* Decrypting *)

\* receive_message: the button is disabled during a decryption; Control-Return and
\* decrypt_from_clipboard are not.
ReceiveMessage(m) ==
  /\ Open /\ "receive" \in bound.kinds
  /\ Submit /\ submitted < bound.tasks
  /\ work' = [work EXCEPT ![submitted + 1] = [kind |-> "receive", text |-> m, to |-> None]]
  /\ timer' = FALSE
  /\ UNCHANGED <<bound, sendVars, shown, label, timed, failed, mixed, clipVars, last_mode, phase, encrypted,
            overtaken, count>>

\* Mutant of ShowDecrypted: without a mode the label is left alone.
ShowDecryptedKeepsLabel(t, on) ==
  /\ shown' = work[t].text
  /\ label' = IF last_mode = None THEN label ELSE last_mode
  /\ timer' = on /\ timed' = on
  /\ failed' = FALSE
  /\ mixed' = (t \in overtaken)

\* _on_success and _show_decrypted; on: auto-clear is chosen.  The mode is the one the
\* service noted last.
ShowDecrypted(t, on) ==
  /\ shown' = work[t].text
  /\ label' = last_mode
  /\ timer' = on /\ timed' = on
  /\ failed' = FALSE
  /\ mixed' = (t \in overtaken)

\* _on_error: the labels are emptied, the plaintext shown before remains, and the
\* auto-clear that receive_message cancelled is not scheduled again.
ReceiveFailed ==
  /\ label' = None
  /\ failed' = TRUE
  /\ UNCHANGED <<shown, timer, timed, mixed>>

\* Mutant of ClearOutput: the output is emptied only by the button.
ClearOutputByButton(due) ==
  /\ shown # None /\ (IF due THEN timer ELSE Open)
  /\ timer' = FALSE
  /\ IF due THEN UNCHANGED <<shown, label, timed, failed, mixed>>
     ELSE shown' = None /\ label' = None /\ timed' = FALSE /\ failed' = FALSE /\ mixed' = FALSE

\* _clear_output: the auto-clear is due, or the user clears the tab.
ClearOutput(due) ==
  /\ shown # None /\ (IF due THEN timer ELSE Open)
  /\ timer' = FALSE
  /\ shown' = None /\ label' = None
  /\ timed' = FALSE /\ failed' = FALSE /\ mixed' = FALSE

ClearDecrypted(due) ==
  /\ MainRuns
  /\ ClearOutput(due)
  /\ UNCHANGED <<queueVars, bound, work, sendVars, clipVars, last_mode, phase, encrypted, overtaken, count>>

\* The file tab submits a file.
SubmitFile ==
  /\ Open /\ "file" \in bound.kinds
  /\ Submit /\ submitted < bound.tasks
  /\ work' = [work EXCEPT ![submitted + 1].kind = "file"]
  /\ UNCHANGED <<bound, sendVars, showVars, clipVars, last_mode, phase, encrypted, overtaken, count>>

-----------------------------------------------------------------------------
(* The threads of the queue, and the callbacks *)

\* A decryption begins: the service notes its mode, before it decrypts.
StartWork(e) ==
  /\ StartTask(e)
  /\ LET t == Head(inner[e].queue)
         begun == {u \in 1 .. submitted : /\ work[u].kind = "receive" /\ answered[u] = "no"
                                          /\ result[u] # "none" \/ \E d \in DOMAIN inner : inner[d].running = u}
     IN  IF work[t].kind = "receive"
         THEN last_mode' = work[t].text /\ overtaken' = overtaken \cup begun
         ELSE UNCHANGED <<last_mode, overtaken>>
  /\ UNCHANGED <<bound, work, sendVars, showVars, clipVars, phase, encrypted, count>>

\* A function ends; encrypt_base64 has made a ciphertext, whether or not anyone waits for it.
EndWork(e, r) ==
  /\ EndTask(e, r)
  /\ encrypted' = IF work[inner[e].running].kind = "send" /\ r = "ok"
                  THEN encrypted \cup {inner[e].running} ELSE encrypted
  /\ UNCHANGED <<bound, work, sendVars, showVars, clipVars, last_mode, phase, overtaken, count>>

WorkerRuns(w) == w \in bound.workers /\ WorkerStep(w) /\ UNCHANGED tabVars

\* The window's thread calls the handler of an event or the callback of a task.
RunCallback ==
  /\ MainRuns
  /\ RunAfter
  /\ LET c == Head(after)
         kind == IF c.event = "answer" THEN work[c.task].kind ELSE "event"
     IN  \/ /\ kind = "event"
            /\ UpdateFriendList
            /\ UNCHANGED <<busy, logged, wroteFor, hasted, showVars>>
         \/ /\ kind = "send"
            /\ SendAnswered(c.task, c.result)
            /\ UNCHANGED <<friend, drafts, wroteFor, moved, showVars>>
         \/ /\ kind = "receive"
            /\ IF c.result = "ok" THEN \E on \in BOOLEAN : ShowDecrypted(c.task, on) ELSE ReceiveFailed
            /\ UNCHANGED sendVars
         \/ /\ kind = "file"
            /\ UNCHANGED <<sendVars, showVars>>
  /\ UNCHANGED <<bound, work, clipVars, last_mode, phase, encrypted, overtaken, count>>

-----------------------------------------------------------------------------
(* The clipboard *)

\* ClipboardService.copy, from the sent log or the plaintext: a timer that is waiting is replaced.
\* Without access to the clipboard its text is left, or has been emptied already.
Copy(outcome) ==
  /\ Open /\ (shown # None \/ logged)
  /\ clip' = CASE outcome = "done" -> "text" [] outcome = "emptied" -> "empty" [] OTHER -> clip
  /\ clipTimer' = (outcome = "done" \/ clipTimer)
  /\ Counted("copies")
  /\ UNCHANGED <<queueVars, bound, work, sendVars, showVars, clearing, last_mode, phase, encrypted, overtaken>>

\* The timer is due; from here cancel has no effect.
ClipboardDue ==
  /\ clipTimer
  /\ clipTimer' = FALSE /\ clearing' = TRUE
  /\ UNCHANGED <<queueVars, bound, work, sendVars, showVars, clip, last_mode, phase, encrypted, overtaken, count>>

\* ClipboardService.clear: an error is logged and the text stays.
Clear(ok) ==
  clip' = IF ok THEN "empty"
          ELSE IF clip = "text" /\ ~clipTimer' /\ ~clearing' THEN "kept" ELSE clip

\* The same, on the timer's thread.
ClearClipboard ==
  /\ clearing
  /\ clearing' = FALSE /\ UNCHANGED clipTimer
  /\ \E ok \in BOOLEAN : Clear(ok)
  /\ UNCHANGED <<queueVars, bound, work, sendVars, showVars, last_mode, phase, encrypted, overtaken, count>>

\* ClipboardService.shutdown
ClipboardShutdown == clipTimer' = FALSE /\ UNCHANGED clearing /\ \E ok \in BOOLEAN : Clear(ok)

-----------------------------------------------------------------------------
(* Lock, unlock and close *)

\* _emergency_lock: the keys are wiped and the overlay takes all input; the queue goes on.
EmergencyLock ==
  /\ Open
  /\ phase' = "locked"
  /\ ClipboardShutdown
  /\ Counted("locks")
  /\ UNCHANGED <<queueVars, bound, work, sendVars, showVars, last_mode, encrypted, overtaken>>

\* _request_unlock and _request_recovery_unlock: rebuild_services gives the tabs new services
\* and publishes SERVICES_REBUILT.
RequestUnlock ==
  /\ phase = "locked"
  /\ phase' = "open"
  /\ last_mode' = None
  /\ PublishFriends
  /\ UNCHANGED <<is_running, submitted, waiting, worker, inner_executor, inner, result, root_alive, answered,
                 bound, work, sendVars, showVars, clipVars, encrypted, overtaken, count>>

\* on_close until the queue is drained: the clipboard is cleared, the keys are wiped.
OnClose ==
  /\ MainRuns /\ bound.close
  /\ phase' = "draining"
  /\ ClipboardShutdown
  /\ UNCHANGED <<queueVars, bound, work, sendVars, showVars, last_mode, encrypted, overtaken, count>>

\* ApplicationController.shutdown: drain has ended or given up.
ShutdownQueue ==
  /\ phase = "draining"
  /\ Shutdown
  /\ phase' = "closed"
  /\ UNCHANGED <<bound, work, sendVars, showVars, clipVars, last_mode, encrypted, overtaken, count>>

\* root.destroy
DestroyRoot ==
  /\ phase = "closed" /\ root_alive
  /\ root_alive' = FALSE
  /\ UNCHANGED <<is_running, submitted, waiting, worker, inner_executor, inner, result, after, answered, tabVars>>

-----------------------------------------------------------------------------
Init ==
  /\ QueueInit
  /\ bound \in Instance
  /\ work = [t \in Tasks |-> NoWork]
  /\ friend = None /\ box = 0 /\ drafts = [f \in Recipient |-> 0] /\ busy = FALSE /\ logged = FALSE
  /\ shown = None /\ label = None /\ timer = FALSE /\ last_mode = None
  /\ clip = "empty" /\ clipTimer = FALSE /\ clearing = FALSE
  /\ phase = "open"
  /\ wroteFor = <<>> /\ encrypted = {} /\ moved = {} /\ hasted = {}
  /\ timed = FALSE /\ failed = FALSE /\ overtaken = {} /\ mixed = FALSE
  /\ count = [what \in {"changes", "locks", "copies"} |-> 0]

InnerStep == \E e \in DOMAIN inner : StartWork(e) \/ \E r \in {"ok", "error"} : EndWork(e, r)

UserStep ==
  \/ TypeText \/ ClearInput \/ SelectTab \/ FriendListChanged \/ SubmitFile
  \/ \E new \in Recipient : ChangeFriend(new)
  \/ \E shortcut \in BOOLEAN : SendMessage(shortcut)
  \/ \E m \in Message : ReceiveMessage(m)
  \/ ClearDecrypted(FALSE)
  \/ \E outcome \in {"done", "emptied", "refused"} : Copy(outcome)
  \/ EmergencyLock \/ RequestUnlock \/ OnClose

Next ==
  \/ UserStep
  \/ InnerStep
  \/ \E w \in Workers : WorkerRuns(w)
  \/ RunCallback \/ ClearDecrypted(TRUE)
  \/ ClipboardDue \/ ClearClipboard
  \/ ShutdownQueue \/ DestroyRoot

\* Threads are scheduled, the window's thread runs what root.after was given, and time passes; nothing
\* is assumed of the user, or of the functions: they may never end.
Fairness ==
  /\ \A w \in Workers : WF_vars(WorkerRuns(w))
  /\ WF_vars(RunCallback)
  /\ WF_vars(ClearDecrypted(TRUE))
  /\ WF_vars(ClipboardDue)
  /\ WF_vars(ClearClipboard)

Spec == Init /\ [][Next]_vars /\ Fairness

-----------------------------------------------------------------------------
(* A tab that submits a task hears of it, so that it is enabled again: the  *)
(* callback runs although functions may hang, also in the one thread that   *)
(* all tasks share, unless the window is closed first.                      *)
Answered == \A t \in Tasks : (t <= submitted) ~> (answered[t] # "no" \/ ~MainRuns)

(* A text is encrypted only for the friend that was chosen when it was      *)
(* typed.  The exception is a text that was being encrypted when the friend *)
(* changed, by the user, a refresh of the list or an unlock: the disabled   *)
(* box keeps it, and if the encryption fails it is offered to the new one.  *)
RightRecipient ==
  \A t \in encrypted : work[t].to = wroteFor[work[t].text] \/ work[t].text \in moved

(* A text is encrypted once, although failed attempts are repeated.  The    *)
(* exceptions: it was sent again by the shortcut while it was being         *)
(* encrypted, the answer to such a second task enabled the tab under it, it *)
(* became a draft while it was being encrypted, or an attempt was reported  *)
(* as timed out, since its function runs all the same.                      *)
EncryptedOnce ==
  \A t, u \in encrypted :
    t # u /\ work[t].text = work[u].text =>
      \/ work[t].text \in moved \cup hasted
      \/ "timeout" \in {answered[t], answered[u]}

(* Plaintext does not stay: what is shown with auto-clear on is removed or  *)
(* replaced, also while the window is locked, unless a later decryption     *)
(* failed; and what was copied leaves the clipboard, also when a copy fails *)
(* later, unless the last attempt to clear it fails.                        *)
PlaintextIsCleared ==
  /\ (shown # None /\ timed) ~> (~timed \/ failed \/ ~MainRuns)
  /\ (clip = "text") ~> (clip # "text")

(* The mode shown beside a plaintext is the one its message was made in, or *)
(* none, unless another decryption began before its result was shown.       *)
LabelIsTrue == shown # None => label \in {None, shown} \/ mixed
=============================================================================
