---------------------------- MODULE DoubleRatchet ----------------------------
(***************************************************************************)
(* The state of one side of a Double Ratchet conversation                  *)
(* (services/double_ratchet.py, class RatchetState) and what its methods   *)
(* do to it, as operators on a record.                                     *)
(*                                                                         *)
(* Cryptography is symbolic.  A key pair is a natural number (the order in *)
(* which the pairs were generated), so a public key and its private key    *)
(* are the same number and a Diffie-Hellman output is the SET of the two   *)
(* numbers, which is why both sides compute the same one.  A root key is   *)
(* the sequence of the outputs mixed into it.  A chain key is the root key *)
(* it was derived with and how often it was stepped, and the message key   *)
(* obtained by a step is named by the chain key it was derived from.  Two  *)
(* keys are equal exactly when they were derived in the same way.          *)
(***************************************************************************)
EXTENDS Integers, Sequences, FiniteSets, Functions

CONSTANTS MAX_SKIPPED_KEYS, MAX_SKIP_DISTANCE

ASSUME SkipLimits == /\ MAX_SKIPPED_KEYS \in Nat \ {0}
                     /\ MAX_SKIP_DISTANCE \in Nat

Key == Nat
DHOutput == SUBSET Key
RootKey == Seq(DHOutput)
ChainKey == [root : RootKey, step : Nat]

\* A chain key attribute that is None: no real chain has an empty root.
NoChain == [root |-> <<>>, step |-> 0]

DH(a, b) == {a, b}

\* _hkdf_rk: both halves of the output are named by the same derivation.
HkdfRoot(rk, dh) == Append(rk, dh)
HkdfChain(rk, dh) == [root |-> Append(rk, dh), step |-> 0]

\* _hkdf_ck, n times over: the chain key after n steps.
Step(ck, n) == [ck EXCEPT !.step = @ + n]

\* The attributes of RatchetState; skipped is skipped_keys, order is
\* _skipped_key_order.
StateFields ==
  {"dh_priv", "dh_pub_remote", "root_key", "send_chain_key", "recv_chain_key",
   "send_msg_num", "recv_msg_num", "prev_send_chain_len", "skipped", "order"}

\* What both initialisers do: the first root key, the counters, no skipped key.
NewState(local, remote, send, recv) ==
  [dh_priv |-> local, dh_pub_remote |-> remote,
   root_key |-> HkdfRoot(<<>>, DH(local, remote)),
   send_chain_key |-> send, recv_chain_key |-> recv,
   send_msg_num |-> 0, recv_msg_num |-> 0, prev_send_chain_len |-> 0,
   skipped |-> <<>>, order |-> <<>>]

\* The initiator can send at once and has no receiving chain.
InitializeAsAlice(bob_dh_pub, local_dh_priv) ==
  NewState(local_dh_priv, bob_dh_pub,
           HkdfChain(<<>>, DH(local_dh_priv, bob_dh_pub)), NoChain)

\* The responder can receive at once and has no sending chain.
InitializeAsBob(alice_dh_pub, local_dh_priv) ==
  NewState(local_dh_priv, alice_dh_pub,
           NoChain, HkdfChain(<<>>, DH(local_dh_priv, alice_dh_pub)))

\* Mutant of DhRatchetStep: the length of the old chain is one short.
DhRatchetStepShort(st, remote_pub, fresh) ==
  LET rk1 == HkdfRoot(st.root_key, DH(st.dh_priv, remote_pub))
  IN  [st EXCEPT !.recv_chain_key = HkdfChain(st.root_key, DH(st.dh_priv, remote_pub)),
                 !.prev_send_chain_len = st.send_msg_num - 1,
                 !.send_msg_num = 0,
                 !.recv_msg_num = 0,
                 !.dh_priv = fresh,
                 !.dh_pub_remote = remote_pub,
                 !.root_key = HkdfRoot(rk1, DH(fresh, remote_pub)),
                 !.send_chain_key = HkdfChain(rk1, DH(fresh, remote_pub))]

\* Two root steps: the peer's new key gives the receiving chain, a fresh key
\* pair of ours gives the sending chain.
DhRatchetStep(st, remote_pub, fresh) ==
  LET rk1 == HkdfRoot(st.root_key, DH(st.dh_priv, remote_pub))
  IN  [st EXCEPT !.recv_chain_key = HkdfChain(st.root_key, DH(st.dh_priv, remote_pub)),
                 !.prev_send_chain_len = st.send_msg_num,
                 !.send_msg_num = 0,
                 !.recv_msg_num = 0,
                 !.dh_priv = fresh,
                 !.dh_pub_remote = remote_pub,
                 !.root_key = HkdfRoot(rk1, DH(fresh, remote_pub)),
                 !.send_chain_key = HkdfChain(rk1, DH(fresh, remote_pub))]

-----------------------------------------------------------------------------
(* Encryption.                                                             *)

\* A side whose sending chain is None first ratchets it with a fresh pair.
OpenSendChain(st, fresh) ==
  IF st.send_chain_key # NoChain THEN st
  ELSE [st EXCEPT !.dh_priv = fresh,
                  !.root_key = HkdfRoot(st.root_key, DH(fresh, st.dh_pub_remote)),
                  !.send_chain_key = HkdfChain(st.root_key, DH(fresh, st.dh_pub_remote)),
                  !.prev_send_chain_len = st.send_msg_num,
                  !.send_msg_num = 0]

\* The header of the message that an opened state sends, and its key.  The
\* header is the associated data of the AEAD, so it cannot be separated from mk.
MessageOf(open) ==
  [num |-> open.send_msg_num, prev |-> open.prev_send_chain_len,
   dh |-> open.dh_priv, mk |-> open.send_chain_key]

\* Mutants of AfterEncrypt: the chain key, or the number, is not advanced.
AfterEncryptSameKey(open) == [open EXCEPT !.send_msg_num = @ + 1]
AfterEncryptSameNumber(open) == [open EXCEPT !.send_chain_key = Step(@, 1)]

\* The state after the message was produced.
AfterEncrypt(open) ==
  [open EXCEPT !.send_chain_key = Step(@, 1), !.send_msg_num = @ + 1]

-----------------------------------------------------------------------------
(* Decryption.  The skipped-key store is handled as a record of its own:   *)
(* ok turns FALSE where the code raises.                                   *)

\* Mutant of StoreSkippedKey: no cap.
StoreSkippedKeyUncapped(s, key, mk) ==
  [s EXCEPT !.keys = [k \in DOMAIN s.keys \cup {key} |-> IF k = key THEN mk ELSE s.keys[k]],
            !.order = Append(@, key)]

\* _store_skipped_key: at the cap the head of the order list is evicted, and
\* list.pop(0) raises IndexError when that list is empty.
StoreSkippedKey(s, key, mk) ==
  LET full == Cardinality(DOMAIN s.keys) >= MAX_SKIPPED_KEYS
      kept == IF full THEN Restrict(s.keys, DOMAIN s.keys \ {Head(s.order)}) ELSE s.keys
  IN  IF ~s.ok \/ (full /\ s.order = <<>>) THEN [s EXCEPT !.ok = FALSE]
      ELSE [keys |-> [k \in DOMAIN kept \cup {key} |-> IF k = key THEN mk ELSE kept[k]],
            order |-> Append(IF full THEN Tail(s.order) ELSE s.order, key),
            ok |-> TRUE]

\* The store after the next 0, 1, 2, ... keys of chain ck, numbered from `from', were filed.
Filed(s, ck, pub, from) ==
  LET after[j \in Nat] == IF j = 0 THEN s
                          ELSE StoreSkippedKey(after[j - 1], <<pub, from + j - 1>>, Step(ck, j - 1))
  IN  after

\* The keys of chain ck numbered from .. until-1 go into the store, unless there
\* are more of them than the skip distance allows.
SkipUntil(s, ck, pub, from, until) ==
  IF until - from > MAX_SKIP_DISTANCE THEN [s EXCEPT !.ok = FALSE]
  ELSE IF until <= from THEN s ELSE Filed(s, ck, pub, from)[until - from]

\* Mutant of SkipRecvChain: the rest of the old chain is not filed.
SkipRecvChainNot(s, st, until) == s

\* _skip_recv_chain: what is left of the chain that a DH ratchet step abandons.
SkipRecvChain(s, st, until) ==
  IF st.recv_chain_key = NoChain THEN s
  ELSE SkipUntil(s, st.recv_chain_key, st.dh_pub_remote, st.recv_msg_num, until)

\* A header with another public key than the current one forces a ratchet step.
Ratcheted(st, m, fresh) ==
  IF m.dh # st.dh_pub_remote THEN DhRatchetStep(st, m.dh, fresh) ELSE st

\* Mutant of TakeSkippedKey: the key stays in the store.
TakeSkippedKeyCopy(r, s, hdr) == [r EXCEPT !.skipped = s.keys, !.order = s.order]

\* The key filed under hdr is taken out of the store s.
TakeSkippedKey(r, s, hdr) ==
  [r EXCEPT !.skipped = Restrict(s.keys, DOMAIN s.keys \ {hdr}), !.order = s.order]

\* Mutant of StepRecvChain: the chain key stays at the message just decrypted.
StepRecvChainLate(r, s, ahead) ==
  [r EXCEPT !.skipped = s.keys, !.order = s.order,
            !.recv_chain_key = Step(r.recv_chain_key, ahead),
            !.recv_msg_num = r.recv_msg_num + ahead + 1]

\* The receiving chain moves on past a message that is `ahead' steps away.
StepRecvChain(r, s, ahead) ==
  [r EXCEPT !.skipped = s.keys, !.order = s.order,
            !.recv_chain_key = Step(r.recv_chain_key, ahead + 1),
            !.recv_msg_num = r.recv_msg_num + ahead + 1]

\* decrypt: the new state, and ok when a plaintext is returned.  The AEAD accepts
\* exactly when the key the receiver arrives at is the one the sender used.  Keys
\* of the old chain are filed and the ratchet step is taken before the store is
\* looked up.
Decrypt(st, m, fresh) ==
  LET s0 == [keys |-> st.skipped, order |-> st.order, ok |-> TRUE]
      s1 == IF m.dh # st.dh_pub_remote THEN SkipRecvChain(s0, st, m.prev) ELSE s0
      r == Ratcheted(st, m, fresh)
      hdr == <<m.dh, m.num>>
      ahead == IF m.num > r.recv_msg_num THEN m.num - r.recv_msg_num ELSE 0
      s2 == SkipUntil(s1, r.recv_chain_key, m.dh, r.recv_msg_num, m.num)
  IN  IF hdr \in DOMAIN s1.keys
      THEN [ok |-> s1.ok /\ s1.keys[hdr] = m.mk,
            state |-> TakeSkippedKey(r, s1, hdr)]
      ELSE [ok |-> /\ s2.ok
                   /\ r.recv_chain_key # NoChain
                   /\ Step(r.recv_chain_key, ahead) = m.mk,
            state |-> StepRecvChain(r, s2, ahead)]

\* deserialize(serialize(st)): every field survives but the eviction order, which
\* serialize() leaves out and deserialize() starts empty.
Reload(st) == [st EXCEPT !.order = <<>>]
=============================================================================
