----------------------------- MODULE MCMessaging -----------------------------
(***************************************************************************)
(* Instances of Messaging, and of the records it extends.                   *)
(***************************************************************************)
EXTENDS Messaging

CONSTANTS alice, bob

MCUser == {alice, bob}

Each(a, b) == [u \in MCUser |-> IF u = alice THEN a ELSE b]

Quiet == [op |-> {}, step |-> Each(0, 0), added |-> TRUE, global |-> Each(1, 2), exchange |-> {},
          kem |-> {}, paste |-> {0}, lag |-> Each(0, 0), time |-> 0, msg |-> 0, mode |-> {},
          lifetime |-> {0}, name |-> FALSE, file |-> 0]

\* The updates of one user, who works on two of them at a time.
Updates ==
  [Quiet EXCEPT !.op = {"add", "remove", "ecdh", "init", "reset", "importSig", "delegated", "reload", "genSig"},
                !.step = Each(5, 1), !.added = FALSE, !.exchange = {1}]

\* The records of two users, and the messages they could send.
Records ==
  [Quiet EXCEPT !.op = {"ecdh", "init", "pubkeys", "genSig", "rotate"},
                !.step = Each(3, 2), !.exchange = {1}, !.name = TRUE]

\* Encapsulated secrets and files.
Secrets ==
  [Quiet EXCEPT !.op = {"genPqc", "pubkeys", "secret", "global", "reload"}, !.step = Each(3, 2),
                !.kem = {1}, !.file = 1]

\* Updates by a delegate, and a global secret made in an exchange.
Delegate ==
  [Quiet EXCEPT !.op = {"genPqc", "genSig", "delegated", "global", "rotate", "reload"},
                !.step = Each(3, 2), !.exchange = {1}]

\* Messages while the clocks are set and stand still.
Clocks ==
  [Quiet EXCEPT !.op = {"reload"}, !.step = Each(1, 1), !.lag = Each(1, 0), !.time = 4, !.msg = 1,
                !.mode = {"rsa"}, !.lifetime = {0, 1}]

MCInstance == {Updates, Records, Secrets, Delegate, Clocks}
=============================================================================
