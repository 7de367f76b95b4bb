---------------------------- MODULE RatchetSession ----------------------------
(***************************************************************************)
(* Two users who talk through RatchetService.encrypt_message and           *)
(* decrypt_message over a channel that loses, duplicates and reorders.     *)
(*                                                                         *)
(* A message stays in `sent' for ever and may be handed to the receiver    *)
(* any number of times and at any moment, so a message that is never       *)
(* handed over is lost.  Each call loads the stored state, runs the        *)
(* RatchetState method on it and stores the result; a call that raises     *)
(* stores nothing.  Here a stored state is the one the next call loads:    *)
(* RatchetService models the deferred writes that break that assumption.   *)
(***************************************************************************)
EXTENDS DoubleRatchet

CONSTANT MaxSends   \* bound: how many messages a user sends

ASSUME SendsAssumption == MaxSends \in Nat

VARIABLES
  store,     \* friends.ratchet_state_json of each user
  sent,      \* every message ever produced
  sends,     \* how many messages each user produced
  inbox,     \* the messages each user decrypted, in order
  nextKey    \* the next key pair X25519PrivateKey.generate() returns

vars == <<store, sent, sends, inbox, nextKey>>

Party == {"alice", "bob"}
Peer(p) == IF p = "alice" THEN "bob" ELSE "alice"

\* A payload is named by who sent it and the how-manieth of that user it is.
Message == [from : Party, id : Nat, num : Nat, prev : Nat, dh : Key, mk : ChainKey]

Accepted(p) == {inbox[p][i] : i \in DOMAIN inbox[p]}

\* The X25519 pairs of the ECDH exchange are 0 (bob) and 1 (alice).
InitialState(p) == IF p = "alice" THEN InitializeAsAlice(0, 1) ELSE InitializeAsBob(1, 0)

Init ==
  /\ store = [p \in Party |-> InitialState(p)]
  /\ sent = {}
  /\ sends = [p \in Party |-> 0]
  /\ inbox = [p \in Party |-> <<>>]
  /\ nextKey = 2

\* RatchetService.encrypt_message
EncryptMessage(p) ==
  LET open == OpenSendChain(Reload(store[p]), nextKey)
  IN  /\ sends[p] < MaxSends
      /\ store' = [store EXCEPT ![p] = AfterEncrypt(open)]
      /\ sent' = sent \cup
           {[from |-> p, id |-> sends[p], num |-> MessageOf(open).num,
             prev |-> MessageOf(open).prev, dh |-> MessageOf(open).dh,
             mk |-> MessageOf(open).mk]}
      /\ sends' = [sends EXCEPT ![p] = @ + 1]
      /\ nextKey' = IF open.dh_priv = nextKey THEN nextKey + 1 ELSE nextKey
      /\ UNCHANGED inbox

\* RatchetService.decrypt_message, when it returns a plaintext
DecryptMessage(p, m) ==
  LET res == Decrypt(Reload(store[p]), m, nextKey)
  IN  /\ m.from = Peer(p)
      /\ res.ok
      /\ store' = [store EXCEPT ![p] = res.state]
      /\ inbox' = [inbox EXCEPT ![p] = Append(@, m)]
      /\ nextKey' = IF res.state.dh_priv = nextKey THEN nextKey + 1 ELSE nextKey
      /\ UNCHANGED <<sent, sends>>

\* RatchetService.decrypt_message, when it raises: the mutated copy is dropped.
RejectMessage(p, m) ==
  /\ m.from = Peer(p)
  /\ ~Decrypt(Reload(store[p]), m, nextKey).ok
  /\ UNCHANGED vars

Next ==
  \/ \E p \in Party : EncryptMessage(p)
  \/ \E p \in Party, m \in sent : DecryptMessage(p, m)
  \/ \E p \in Party, m \in sent : RejectMessage(p, m)

Spec == Init /\ [][Next]_vars

-----------------------------------------------------------------------------
(* Correctness.                                                            *)

\* Types of the send side: what the proofs need.
SendTypeOK ==
  /\ nextKey \in Nat
  /\ sent \subseteq Message
  /\ sends \in [Party -> Nat]
  /\ DOMAIN store = Party
  /\ \A p \in Party :
       /\ DOMAIN store[p] = StateFields
       /\ store[p].dh_priv \in Key
       /\ store[p].dh_pub_remote \in Key
       /\ store[p].root_key \in RootKey
       /\ store[p].send_chain_key \in ChainKey
       /\ store[p].send_msg_num \in Nat
       /\ store[p].prev_send_chain_len \in Nat

\* Type invariant: every stored state has the attributes RatchetState declares.
TypeOK ==
  /\ SendTypeOK
  /\ \A p \in Party :
       /\ store[p].recv_chain_key \in ChainKey
       /\ store[p].recv_msg_num \in Nat
       /\ \A k \in DOMAIN store[p].skipped :
            k \in Key \X Nat /\ store[p].skipped[k] \in ChainKey
       /\ store[p].order \in Seq(Key \X Nat)
       /\ inbox[p] \in Seq(sent)

\* No message key ever encrypts two payloads, whatever the channel does to the
\* messages that drive the ratchet (double_ratchet.py encrypt / dh_ratchet_step).
NoKeyReuse == \A m1, m2 \in sent : m1.mk = m2.mk => m1 = m2

\* No two payloads carry the same (public key, number), the pair under which the
\* receiver files skipped keys.
NoHeaderReuse ==
  \A m1, m2 \in sent : (m1.dh = m2.dh /\ m1.num = m2.num) => m1 = m2

\* A payload is returned to the receiver at most once, however often the channel
\* repeats it (double_ratchet.py decrypt: popped keys and stepped chains).
NoReplay ==
  \A p \in Party : \A i, j \in DOMAIN inbox[p] : inbox[p][i] = inbox[p][j] => i = j

\* Forward secrecy: the stored state of a user no longer yields the key of any
\* message already decrypted, by a skipped key nor by stepping the chain.
ForwardSecrecy ==
  \A p \in Party : \A m \in Accepted(p) :
    /\ \A k \in DOMAIN store[p].skipped : store[p].skipped[k] # m.mk
    /\ ~(/\ store[p].recv_chain_key.root = m.mk.root
         /\ store[p].recv_chain_key.step <= m.mk.step)

\* The skipped-key store never exceeds its cap (MAX_SKIPPED_KEYS), across any
\* sequence of loads, gaps and ratchet steps.
SkippedKeysBounded ==
  \A p \in Party : Cardinality(DOMAIN store[p].skipped) <= MAX_SKIPPED_KEYS

\* How many keys the delivery of m to p has to skip, in each of the two chains.
Gap(p, m) ==
  LET st == store[p]
      Pos(n) == IF n > 0 THEN n ELSE 0
  IN  IF m.dh = st.dh_pub_remote THEN [old |-> 0, new |-> Pos(m.num - st.recv_msg_num)]
      ELSE [old |-> IF st.recv_chain_key = NoChain THEN 0 ELSE Pos(m.prev - st.recv_msg_num),
            new |-> m.num]

\* m is on its way to p, was not decrypted yet, and skips no more keys than
\* MAX_SKIP_DISTANCE allows.
InFlight(p, m) ==
  /\ m.from = Peer(p)
  /\ m \notin Accepted(p)
  /\ Gap(p, m).old <= MAX_SKIP_DISTANCE
  /\ Gap(p, m).new <= MAX_SKIP_DISTANCE

\* The receiver has moved past m, in the chain of m or to a newer chain.
Passed(p, m) ==
  \/ m.dh < store[p].dh_pub_remote
  \/ m.dh = store[p].dh_pub_remote /\ m.num < store[p].recv_msg_num

\* Enough messages were sent to fill the store, and the key of m is not in it.
MayBeEvicted(p, m) ==
  /\ Passed(p, m)
  /\ <<m.dh, m.num>> \notin DOMAIN store[p].skipped
  /\ sends[m.from] > MAX_SKIPPED_KEYS

HasRoom(p, m) ==
  Cardinality(DOMAIN store[p].skipped) + Gap(p, m).old + Gap(p, m).new <= MAX_SKIPPED_KEYS

\* Neither user has decrypted a message of a chain its sender had already left.
NoStaleChainYet ==
  \A p \in Party : \A i, j \in DOMAIN inbox[p] :
    i < j => inbox[p][i].dh <= inbox[p][j].dh

\* Until a message of an abandoned chain is decrypted for the first time, every
\* message in flight can be decrypted, late or early, in the current chain, in an
\* abandoned one or in one not seen yet, if the store has room for the gap.
InFlightDecryptable ==
  NoStaleChainYet =>
    \A p \in Party : \A m \in sent :
      InFlight(p, m) /\ HasRoom(p, m) /\ ~MayBeEvicted(p, m)
        => Decrypt(Reload(store[p]), m, nextKey).ok

\* decrypt's docstring, "Decrypt a message, handling out-of-order delivery": the
\* same without the proviso, so that a late message of an abandoned chain leaves
\* the session able to decrypt what follows.
OutOfOrderDelivery ==
  \A p \in Party : \A m \in sent :
    InFlight(p, m) /\ HasRoom(p, m) /\ ~MayBeEvicted(p, m)
      => Decrypt(Reload(store[p]), m, nextKey).ok
=============================================================================
