------------------------------ MODULE MCDesktop ------------------------------
(***************************************************************************)
(* Instances of Desktop.                                                    *)
(***************************************************************************)
EXTENDS Desktop

CONSTANTS w1, w2, alice, bob, pqc, legacy

Quiet == [texts |-> 0, changes |-> 0, locks |-> 0, copies |-> 0, kinds |-> {}, secret |-> FALSE,
          close |-> FALSE, workers |-> {w1, w2}, tasks |-> 2]

\* Texts for friends that are changed, refreshed and sent again; one worker.
Sending == [Quiet EXCEPT !.texts = 1, !.changes = 2, !.locks = 1, !.secret = TRUE, !.workers = {w1}]

\* Decryptions that overlap, and a lock.
Receiving == [Quiet EXCEPT !.locks = 1, !.kinds = {"receive"}]

\* The clipboard.
Copying == [Quiet EXCEPT !.locks = 1, !.copies = 2, !.kinds = {"receive"}, !.close = TRUE,
                         !.workers = {w1}, !.tasks = 1]

\* Three files for two workers, and closing.
Closing == [Quiet EXCEPT !.kinds = {"file"}, !.close = TRUE, !.tasks = 3]

MCInstance == {Sending, Receiving, Copying, Closing}
=============================================================================
