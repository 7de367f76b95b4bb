------------------------- MODULE RatchetSession_proof -------------------------
(***************************************************************************)
(* Proofs about RatchetSession for every number of messages and every      *)
(* limit on skipped keys: no message key and no header is ever used twice, *)
(* no payload is returned twice, no key outlives its use, the store of     *)
(* skipped keys keeps its cap, and a message in flight can be decrypted.   *)
(*                                                                         *)
(* The argument for the senders is about freshness.  Each sending chain is *)
(* opened with a key pair generated at that moment, so its root key ends   *)
(* with a Diffie-Hellman output whose larger key is the sender's own and   *)
(* was never used before.  Within a chain the messages are numbered by the *)
(* chain steps.                                                            *)
(*                                                                         *)
(* The argument for the receivers is about what a stored state can still   *)
(* derive (Forgets).  Filing a key and stepping the chain leave it true    *)
(* one key at a time, so it holds for any number of skipped keys by        *)
(* induction along Filed; a ratchet step makes the root key longer, so the *)
(* new chain meets no key of an old one.                                   *)
(*                                                                         *)
(* That a message decrypts is a fact about both sides (Agree): the root    *)
(* keys differ by at most the one output mixed in with a key the other     *)
(* side has not seen, the receiving chain is the peer's sending chain, the *)
(* numbers of a chain have no gap, and what the receiver moved past is     *)
(* decrypted or filed.  It lasts until the first message of an abandoned   *)
(* chain is decrypted, which is why SyncInv has that premise.              *)
(***************************************************************************)
EXTENDS RatchetSession, WellFoundedInduction, FiniteSetTheorems, TLAPS

\* The key pair generated when the chain of root key rk was opened is `own': it
\* is mixed in last, with a key that already existed.
OpenedWith(rk, own) ==
  /\ rk # <<>>
  /\ \E r \in Key : r < own /\ rk[Len(rk)] = DH(own, r)

\* Key pairs in use have been generated, and by one user only.
KeysOwned ==
  /\ \A p \in Party : store[p].dh_priv < nextKey /\ store[p].dh_pub_remote < nextKey
  /\ store["alice"].dh_priv # store["bob"].dh_priv
  /\ \A m \in sent : m.dh < nextKey /\ m.dh # store[Peer(m.from)].dh_priv

\* The current sending chain of each user was opened with the user's current pair
\* and its position is the next message number.
SendChainFresh ==
  \A p \in Party : store[p].send_chain_key # NoChain =>
    /\ OpenedWith(store[p].send_chain_key.root, store[p].dh_priv)
    /\ store[p].send_chain_key.step = store[p].send_msg_num

\* What is known of the messages produced so far.
SentNumbered ==
  /\ \A m \in sent : OpenedWith(m.mk.root, m.dh) /\ m.mk.step = m.num
  /\ \A m \in sent : m.dh = store[m.from].dh_priv =>
       store[m.from].send_chain_key # NoChain /\ m.num < store[m.from].send_msg_num
  /\ \A m1, m2 \in sent : m1.dh = m2.dh => m1.from = m2.from

\* The inductive invariant.
IInv == SendTypeOK /\ KeysOwned /\ SendChainFresh /\ SentNumbered /\ NoHeaderReuse

-----------------------------------------------------------------------------
\* What Append does to the end of a root key.
LEMMA AppendLast ==
  ASSUME NEW rk \in RootKey, NEW d \in DHOutput
  PROVE  /\ Append(rk, d) \in RootKey
         /\ Append(rk, d) # <<>>
         /\ Append(rk, d)[Len(Append(rk, d))] = d
  BY DEF RootKey

\* A Diffie-Hellman output with a key older than the other determines the newer one.
LEMMA NewerKey ==
  ASSUME NEW a \in Key, NEW b \in Key, NEW r \in Key, NEW s \in Key,
         r < a, s < b, DH(a, r) = DH(b, s)
  PROVE  a = b
  BY DEF DH, Key

\* The attributes that encryption reads.
SendSide(st) ==
  <<st.dh_priv, st.dh_pub_remote, st.root_key, st.send_chain_key,
    st.send_msg_num, st.prev_send_chain_len>>

\* The same attributes after dh_ratchet_step.
RatchetedSendSide(st, pub, fresh) ==
  LET rk1 == Append(st.root_key, DH(st.dh_priv, pub))
  IN  <<fresh, pub, Append(rk1, DH(fresh, pub)),
        [root |-> Append(rk1, DH(fresh, pub)), step |-> 0], 0, st.send_msg_num>>

\* dh_ratchet_step replaces the whole send side.
LEMMA RatchetStepSendSide ==
  ASSUME NEW st, NEW pub, NEW fresh, DOMAIN st = StateFields
  PROVE  /\ DOMAIN DhRatchetStep(st, pub, fresh) = StateFields
         /\ SendSide(DhRatchetStep(st, pub, fresh)) = RatchetedSendSide(st, pub, fresh)
  BY DEF DhRatchetStep, SendSide, RatchetedSendSide, HkdfRoot, HkdfChain, StateFields

\* Taking a skipped key and stepping the receiving chain leave the send side alone.
LEMMA ReceiveSendSide ==
  ASSUME NEW r, NEW s, NEW x, DOMAIN r = StateFields
  PROVE  /\ DOMAIN TakeSkippedKey(r, s, x) = StateFields
         /\ SendSide(TakeSkippedKey(r, s, x)) = SendSide(r)
         /\ DOMAIN StepRecvChain(r, s, x) = StateFields
         /\ SendSide(StepRecvChain(r, s, x)) = SendSide(r)
<1>1. /\ DOMAIN TakeSkippedKey(r, s, x) = StateFields
      /\ SendSide(TakeSkippedKey(r, s, x)) = SendSide(r)
  BY DEF SendSide, StateFields, TakeSkippedKey
<1>2. /\ DOMAIN StepRecvChain(r, s, x) = StateFields
      /\ SendSide(StepRecvChain(r, s, x)) = SendSide(r)
  BY DEF SendSide, StateFields, StepRecvChain
<1> QED
  BY <1>1, <1>2

\* decrypt leaves the send side alone or replaces it by one ratchet step.
LEMMA DecryptSendSide ==
  ASSUME NEW st, NEW m, NEW fresh, DOMAIN st = StateFields
  PROVE  /\ DOMAIN Decrypt(st, m, fresh).state = StateFields
         /\ \/ SendSide(Decrypt(st, m, fresh).state) = SendSide(st)
            \/ SendSide(Decrypt(st, m, fresh).state) = RatchetedSendSide(st, m.dh, fresh)
<1> DEFINE r == Ratcheted(st, m, fresh)
<1>1. /\ DOMAIN r = StateFields
      /\ \/ SendSide(r) = SendSide(st)
         \/ SendSide(r) = RatchetedSendSide(st, m.dh, fresh)
  BY RatchetStepSendSide DEF Ratcheted
<1>2. \E s, x : \/ Decrypt(st, m, fresh).state = TakeSkippedKey(r, s, x)
               \/ Decrypt(st, m, fresh).state = StepRecvChain(r, s, x)
  BY DEF Decrypt
<1> HIDE DEF r
<1> QED
  BY <1>1, <1>2, ReceiveSendSide

\* A state is loaded without change to what encryption reads.
LEMMA ReloadSendSide ==
  ASSUME NEW st, DOMAIN st = StateFields
  PROVE  DOMAIN Reload(st) = StateFields /\ SendSide(Reload(st)) = SendSide(st)
  BY DEF Reload, SendSide, StateFields

\* A state that is loaded, and its sending chain opened if it had none.
LEMMA OpenSendSide ==
  ASSUME NEW st, NEW fresh, DOMAIN st = StateFields
  PROVE  LET open == OpenSendChain(Reload(st), fresh)
             rk == Append(st.root_key, DH(fresh, st.dh_pub_remote))
         IN  /\ DOMAIN open = StateFields
             /\ st.send_chain_key # NoChain => SendSide(open) = SendSide(st)
             /\ st.send_chain_key = NoChain => SendSide(open) =
                  <<fresh, st.dh_pub_remote, rk, [root |-> rk, step |-> 0], 0,
                    st.send_msg_num>>
<1> DEFINE ld == Reload(st)
<1>1. DOMAIN ld = StateFields /\ SendSide(ld) = SendSide(st)
  BY ReloadSendSide
<1> HIDE DEF ld
<1>2. CASE st.send_chain_key # NoChain
  BY <1>1, <1>2 DEF OpenSendChain, SendSide, ld
<1>3. CASE st.send_chain_key = NoChain
  BY <1>1, <1>3 DEF OpenSendChain, SendSide, StateFields, HkdfRoot, HkdfChain, ld
<1> QED
  BY <1>2, <1>3

\* Producing a message steps the sending chain once.
LEMMA AfterEncryptSendSide ==
  ASSUME NEW o, DOMAIN o = StateFields
  PROVE  /\ DOMAIN AfterEncrypt(o) = StateFields
         /\ SendSide(AfterEncrypt(o)) =
              <<o.dh_priv, o.dh_pub_remote, o.root_key, Step(o.send_chain_key, 1),
                o.send_msg_num + 1, o.prev_send_chain_len>>
  BY DEF AfterEncrypt, SendSide, StateFields

-----------------------------------------------------------------------------
\* The initial sessions satisfy the invariant.
LEMMA InitIInv == Init => IInv
<1> SUFFICES ASSUME Init PROVE IInv
  OBVIOUS
<1> DEFINE rk == Append(<<>>, DH(1, 0))
<1>1. <<>> \in RootKey /\ DH(1, 0) \in DHOutput /\ DH(1, 0) = DH(0, 1)
  BY DEF RootKey, DHOutput, DH, Key
<1>2. /\ rk \in RootKey
      /\ rk # <<>>
      /\ rk[Len(rk)] = DH(1, 0)
  BY <1>1, AppendLast
<1> HIDE DEF rk
<1>3. store["alice"] = NewState(1, 0, [root |-> rk, step |-> 0], NoChain)
  BY DEF Init, InitialState, InitializeAsAlice, HkdfChain, Party, rk
<1>4. store["bob"] = NewState(0, 1, NoChain, [root |-> rk, step |-> 0])
  BY <1>1 DEF Init, InitialState, InitializeAsBob, HkdfChain, Party, rk
<1>5. NoChain \in ChainKey /\ [root |-> rk, step |-> 0] \in ChainKey
  BY <1>1, <1>2 DEF NoChain, ChainKey
<1>6. SendTypeOK
  <2>1. \A p \in Party : store[p].root_key = rk
    BY <1>1, <1>3, <1>4 DEF NewState, HkdfRoot, Party, rk
  <2> QED
    BY <1>2, <1>3, <1>4, <1>5, <2>1
    DEF SendTypeOK, Init, NewState, Party, Key, StateFields, Message
<1>7. KeysOwned
  BY <1>3, <1>4 DEF KeysOwned, Init, NewState, Party
<1>8. SendChainFresh
  <2>1. OpenedWith(rk, 1)
    BY <1>2 DEF OpenedWith, Key
  <2> QED
    BY <2>1, <1>3, <1>4 DEF SendChainFresh, NewState, Party
<1> QED
  BY <1>6, <1>7, <1>8 DEF IInv, SentNumbered, NoHeaderReuse, Init

\* A step in which p's send side becomes that of d, by a ratchet step driven by the
\* public key pub of some message, or not at all.
LEMMA ReceivePreserves ==
  ASSUME IInv, NEW p \in Party, NEW m \in sent, NEW d,
         DOMAIN d = StateFields,
         \/ SendSide(d) = SendSide(store[p])
         \/ SendSide(d) = RatchetedSendSide(store[p], m.dh, nextKey),
         store' = [store EXCEPT ![p] = d],
         nextKey' = IF d.dh_priv = nextKey THEN nextKey + 1 ELSE nextKey,
         sent' = sent, sends' = sends
  PROVE  IInv'
<1> USE DEF IInv
<1>a. /\ nextKey \in Nat
      /\ m.dh \in Key /\ m.dh < nextKey
      /\ store[p].dh_priv \in Key /\ store[p].dh_priv < nextKey
      /\ store[p].root_key \in RootKey
      /\ store[p].send_msg_num \in Nat
  BY DEF SendTypeOK, KeysOwned, Message
<1>b. store'[p] = d /\ \A q \in Party \ {p} : store'[q] = store[q]
  BY DEF SendTypeOK
<1>1. CASE SendSide(d) = SendSide(store[p])
  <2>1. nextKey' = nextKey
    BY <1>1, <1>a DEF SendSide, Key
  <2>2. \A q \in Party : SendSide(store'[q]) = SendSide(store[q])
    BY <1>1, <1>b
  <2>3. SendTypeOK'
    BY <2>1, <2>2, <1>b DEF SendTypeOK, SendSide
  <2>4. KeysOwned' /\ SendChainFresh' /\ SentNumbered' /\ NoHeaderReuse'
    BY <2>1, <2>2 DEF KeysOwned, SendChainFresh, SentNumbered, NoHeaderReuse, SendSide,
       SendTypeOK, Message, Party, Peer
  <2> QED
    BY <2>3, <2>4
<1>2. CASE SendSide(d) = RatchetedSendSide(store[p], m.dh, nextKey)
  <2> DEFINE rk1 == Append(store[p].root_key, DH(store[p].dh_priv, m.dh))
             rk == Append(rk1, DH(nextKey, m.dh))
  <2>1. rk1 \in RootKey
    BY <1>a, AppendLast DEF DH, DHOutput, Key
  <2>2. rk \in RootKey /\ rk # <<>> /\ rk[Len(rk)] = DH(nextKey, m.dh)
    BY <1>a, <2>1, AppendLast DEF DH, DHOutput, Key
  <2>3. /\ d.dh_priv = nextKey /\ d.dh_pub_remote = m.dh /\ d.root_key = rk
        /\ d.send_chain_key = [root |-> rk, step |-> 0]
        /\ d.send_msg_num = 0 /\ d.prev_send_chain_len = store[p].send_msg_num
    BY <1>2 DEF SendSide, RatchetedSendSide
  <2>4. nextKey' = nextKey + 1
    BY <2>3
  <2> HIDE DEF rk
  <2>5. SendTypeOK'
    <3>1. [root |-> rk, step |-> 0] \in ChainKey
      BY <2>2 DEF ChainKey
    <3>2. nextKey \in Key /\ nextKey' \in Key
      BY <2>4 DEF SendTypeOK, Key
    <3> QED
      BY <1>a, <1>b, <2>2, <2>3, <3>1, <3>2 DEF SendTypeOK
  <2>6. KeysOwned'
    BY <1>a, <1>b, <2>3, <2>4 DEF KeysOwned, SendTypeOK, Message, Party, Peer, Key
  <2>7. SendChainFresh'
    <3>1. OpenedWith(rk, nextKey)
      BY <1>a, <2>2 DEF OpenedWith
    <3> QED
      BY <3>1, <1>b, <2>3 DEF SendChainFresh
  <2>8. SentNumbered' /\ NoHeaderReuse'
    BY <1>a, <1>b, <2>3 DEF SentNumbered, NoHeaderReuse, KeysOwned, SendTypeOK, Message,
       Key, Party
  <2> QED
    BY <2>5, <2>6, <2>7, <2>8
<1> QED
  BY <1>1, <1>2

\* decrypt_message preserves the invariant.
LEMMA DecryptPreserves ==
  ASSUME IInv, NEW p \in Party, NEW m \in sent, DecryptMessage(p, m)
  PROVE  IInv'
<1> DEFINE ld == Reload(store[p])
           d == Decrypt(ld, m, nextKey).state
<1>1. DOMAIN ld = StateFields /\ SendSide(ld) = SendSide(store[p])
  BY ReloadSendSide DEF IInv, SendTypeOK
<1>2. /\ DOMAIN d = StateFields
      /\ \/ SendSide(d) = SendSide(ld)
         \/ SendSide(d) = RatchetedSendSide(ld, m.dh, nextKey)
  BY <1>1, DecryptSendSide
<1>3. RatchetedSendSide(ld, m.dh, nextKey) = RatchetedSendSide(store[p], m.dh, nextKey)
  BY <1>1 DEF RatchetedSendSide, SendSide
<1>4. /\ store' = [store EXCEPT ![p] = d]
      /\ nextKey' = IF d.dh_priv = nextKey THEN nextKey + 1 ELSE nextKey
      /\ sent' = sent /\ sends' = sends
  BY DEF DecryptMessage
<1> HIDE DEF d
<1> QED
  BY <1>1, <1>2, <1>3, <1>4, ReceivePreserves

\* What is true of the sending chain a message is about to be produced on: it was
\* opened with the pair o.dh_priv, and every message of that pair has a smaller number.
ReadyToSend(p, o, next) ==
  /\ DOMAIN o = StateFields
  /\ o.dh_priv \in Key /\ o.dh_pub_remote \in Key /\ o.root_key \in RootKey
  /\ o.send_chain_key \in ChainKey /\ o.send_msg_num \in Nat
  /\ o.prev_send_chain_len \in Nat
  /\ next \in Nat /\ nextKey <= next /\ o.dh_priv < next /\ o.dh_pub_remote < next
  /\ OpenedWith(o.send_chain_key.root, o.dh_priv)
  /\ o.send_chain_key.step = o.send_msg_num
  /\ o.dh_priv # store[Peer(p)].dh_priv
  /\ \A m \in sent : m.dh = o.dh_priv => m.from = p /\ m.num < o.send_msg_num

\* Loading a state and opening its sending chain makes it ready.
LEMMA OpenReady ==
  ASSUME IInv, NEW p \in Party,
         NEW o, o = OpenSendChain(Reload(store[p]), nextKey)
  PROVE  ReadyToSend(p, o, IF o.dh_priv = nextKey THEN nextKey + 1 ELSE nextKey)
<1> DEFINE st == store[p]
           rk == Append(st.root_key, DH(nextKey, st.dh_pub_remote))
<1> USE DEF IInv
<1>a. /\ DOMAIN st = StateFields /\ nextKey \in Nat
      /\ st.dh_priv \in Key /\ st.dh_priv < nextKey
      /\ st.dh_pub_remote \in Key /\ st.dh_pub_remote < nextKey
      /\ st.root_key \in RootKey /\ st.send_chain_key \in ChainKey
      /\ st.send_msg_num \in Nat /\ st.prev_send_chain_len \in Nat
  BY DEF SendTypeOK, KeysOwned
<1>b. \A m \in sent : m.dh \in Key /\ m.dh < nextKey /\ m.from \in Party
  BY DEF SendTypeOK, KeysOwned, Message
<1>c. store[Peer(p)].dh_priv \in Key /\ store[Peer(p)].dh_priv < nextKey
  BY DEF SendTypeOK, KeysOwned, Peer, Party
<1>1. /\ DOMAIN o = StateFields
      /\ st.send_chain_key # NoChain => SendSide(o) = SendSide(st)
      /\ st.send_chain_key = NoChain => SendSide(o) =
           <<nextKey, st.dh_pub_remote, rk, [root |-> rk, step |-> 0], 0, st.send_msg_num>>
  BY <1>a, OpenSendSide
<1>2. CASE st.send_chain_key # NoChain
  <2>1. \A m \in sent : m.dh = st.dh_priv => m.from = p /\ m.num < st.send_msg_num
    BY <1>b DEF KeysOwned, SentNumbered, Peer, Party
  <2> QED
    BY <1>1, <1>2, <1>a, <2>1
    DEF ReadyToSend, SendSide, SendChainFresh, KeysOwned, Key, Peer, Party
<1>3. CASE st.send_chain_key = NoChain
  <2>1. rk \in RootKey /\ rk # <<>> /\ rk[Len(rk)] = DH(nextKey, st.dh_pub_remote)
    BY <1>a, AppendLast DEF DH, DHOutput, Key
  <2>2. OpenedWith(rk, nextKey)
    BY <1>a, <2>1 DEF OpenedWith
  <2> HIDE DEF rk
  <2>3. /\ o.dh_priv = nextKey /\ o.dh_pub_remote = st.dh_pub_remote /\ o.root_key = rk
        /\ o.send_chain_key = [root |-> rk, step |-> 0]
        /\ o.send_msg_num = 0 /\ o.prev_send_chain_len = st.send_msg_num
    BY <1>1, <1>3 DEF SendSide
  <2> QED
    BY <1>1, <1>a, <1>b, <1>c, <2>1, <2>2, <2>3 DEF ReadyToSend, Key, ChainKey
<1> QED
  BY <1>2, <1>3

\* encrypt_message preserves the invariant.
LEMMA EncryptPreserves ==
  ASSUME IInv, NEW p \in Party, EncryptMessage(p)
  PROVE  IInv'
<1> DEFINE o == OpenSendChain(Reload(store[p]), nextKey)
           d == AfterEncrypt(o)
           new == [from |-> p, id |-> sends[p], num |-> o.send_msg_num,
                   prev |-> o.prev_send_chain_len, dh |-> o.dh_priv,
                   mk |-> o.send_chain_key]
<1>1. /\ store' = [store EXCEPT ![p] = d]
      /\ sent' = sent \cup {new}
      /\ sends' = [sends EXCEPT ![p] = @ + 1]
      /\ nextKey' = IF o.dh_priv = nextKey THEN nextKey + 1 ELSE nextKey
  BY DEF EncryptMessage, MessageOf
<1>2. ReadyToSend(p, o, nextKey')
  BY <1>1, OpenReady
<1>3. /\ DOMAIN d = StateFields
      /\ d.dh_priv = o.dh_priv /\ d.dh_pub_remote = o.dh_pub_remote
      /\ d.root_key = o.root_key /\ d.send_chain_key = Step(o.send_chain_key, 1)
      /\ d.send_msg_num = o.send_msg_num + 1
      /\ d.prev_send_chain_len = o.prev_send_chain_len
  BY <1>2, AfterEncryptSendSide DEF ReadyToSend, SendSide
<1> HIDE DEF o, d
<1>4. /\ Step(o.send_chain_key, 1) \in ChainKey
      /\ Step(o.send_chain_key, 1).root = o.send_chain_key.root
      /\ Step(o.send_chain_key, 1).step = o.send_msg_num + 1
  BY <1>2 DEF ReadyToSend, Step, ChainKey
<1>5. store'[p] = d /\ \A q \in Party \ {p} : store'[q] = store[q]
  BY <1>1 DEF IInv, SendTypeOK
<1>6. sends[p] \in Nat /\ new \in Message
  BY <1>2 DEF IInv, SendTypeOK, ReadyToSend, Message
<1>7. SendTypeOK'
  BY <1>1, <1>2, <1>3, <1>4, <1>5, <1>6 DEF IInv, SendTypeOK, ReadyToSend
<1>8. KeysOwned'
  <2>1. \A q \in Party : store'[q].dh_priv < nextKey' /\ store'[q].dh_pub_remote < nextKey'
    BY <1>2, <1>3, <1>5 DEF IInv, KeysOwned, SendTypeOK, ReadyToSend, Key
  <2>2. store'["alice"].dh_priv # store'["bob"].dh_priv
    BY <1>2, <1>3, <1>5 DEF ReadyToSend, Party, Peer
  <2>3. \A m \in sent : m.dh < nextKey' /\ m.dh # store'[Peer(m.from)].dh_priv
    BY <1>2, <1>3, <1>5 DEF IInv, KeysOwned, SendTypeOK, ReadyToSend, Key, Message, Party, Peer
  <2>4. new.dh < nextKey' /\ new.dh # store'[Peer(new.from)].dh_priv
    BY <1>2, <1>5 DEF ReadyToSend, Party, Peer
  <2> QED
    BY <1>1, <2>1, <2>2, <2>3, <2>4 DEF KeysOwned
<1>9. SendChainFresh'
  BY <1>2, <1>3, <1>4, <1>5 DEF IInv, SendChainFresh, ReadyToSend
<1>10. SentNumbered'
  <2>1. \A m \in sent' : OpenedWith(m.mk.root, m.dh) /\ m.mk.step = m.num
    BY <1>1, <1>2 DEF IInv, SentNumbered, ReadyToSend
  <2>2. d.send_chain_key # NoChain
    BY <1>2, <1>3, <1>4 DEF ReadyToSend, OpenedWith, NoChain
  <2>3. \A m \in sent' : m.dh = store'[m.from].dh_priv =>
          store'[m.from].send_chain_key # NoChain /\ m.num < store'[m.from].send_msg_num
    BY <1>1, <1>2, <1>3, <1>5, <2>2 DEF IInv, SentNumbered, SendTypeOK, ReadyToSend, Message
  <2>4. \A m1, m2 \in sent' : m1.dh = m2.dh => m1.from = m2.from
    BY <1>1, <1>2 DEF IInv, SentNumbered, ReadyToSend
  <2> QED
    BY <2>1, <2>3, <2>4 DEF SentNumbered
<1>11. NoHeaderReuse'
  BY <1>1, <1>2 DEF IInv, NoHeaderReuse, ReadyToSend, SendTypeOK, Message
<1> QED
  BY <1>7, <1>8, <1>9, <1>10, <1>11 DEF IInv

-----------------------------------------------------------------------------
\* The invariant holds in every state of the conversation.
THEOREM InvariantHolds == Spec => []IInv
<1>1. IInv /\ [Next]_vars => IInv'
  <2> SUFFICES ASSUME IInv, [Next]_vars PROVE IInv'
    OBVIOUS
  <2>1. ASSUME NEW p \in Party, EncryptMessage(p) PROVE IInv'
    BY <2>1, EncryptPreserves
  <2>2. ASSUME NEW p \in Party, NEW m \in sent, DecryptMessage(p, m) PROVE IInv'
    BY <2>2, DecryptPreserves
  <2>3. CASE UNCHANGED vars
    BY <2>3 DEF vars, IInv, SendTypeOK, KeysOwned, SendChainFresh, SentNumbered,
       NoHeaderReuse, OpenedWith
  <2>4. ASSUME NEW p \in Party, NEW m \in sent, RejectMessage(p, m) PROVE IInv'
    BY <2>3, <2>4 DEF RejectMessage
  <2> QED
    BY <2>1, <2>2, <2>3, <2>4 DEF Next
<1> QED
  BY <1>1, InitIInv, PTL DEF Spec

\* No message key encrypts two payloads, for any number of messages, any limits on
\* skipped keys and any behaviour of the channel (RatchetState.encrypt, decrypt).
THEOREM KeysAreNeverReused == Spec => []NoKeyReuse
<1>1. IInv => NoKeyReuse
  <2> SUFFICES ASSUME IInv, NEW m1 \in sent, NEW m2 \in sent, m1.mk = m2.mk
               PROVE  m1 = m2
    BY DEF NoKeyReuse
  <2>1. m1.dh \in Key /\ m2.dh \in Key
    BY DEF IInv, SendTypeOK, Message
  <2>2. m1.dh = m2.dh
    BY <2>1, NewerKey DEF IInv, SentNumbered, OpenedWith
  <2> QED
    BY <2>2 DEF IInv, SentNumbered, NoHeaderReuse
<1> QED
  BY <1>1, InvariantHolds, PTL

\* No two payloads carry the same public key and number, so the receiver never files
\* two skipped keys under one entry.
THEOREM HeadersAreNeverReused == Spec => []NoHeaderReuse
<1>1. IInv => NoHeaderReuse
  BY DEF IInv
<1> QED
  BY <1>1, InvariantHolds, PTL
-----------------------------------------------------------------------------
(* The receiving side: what decrypt files in the skipped-key store, and    *)
(* that neither the store nor the chain gives a used key again.            *)

\* Induction over the natural numbers, for a set.
LEMMA SetInduction ==
  ASSUME NEW S, 0 \in S, \A n \in Nat : n \in S => n + 1 \in S
  PROVE  Nat \subseteq S
<1> DEFINE T == Nat \ S
           R == OpToRel(<, Nat)
<1>1. IsWellFoundedOn(R, Nat)
  BY NatLessThanWellFounded
<1>2. \A x, y \in Nat : y < x => <<y, x>> \in R
  BY DEF OpToRel
<1> SUFFICES ASSUME T # {} PROVE FALSE
  OBVIOUS
<1> HIDE DEF R
<1>3. PICK x \in T : \A y \in T : ~ (<<y, x>> \in R)
  BY <1>1, WFMin
<1>4. x \in Nat /\ x # 0 /\ x \notin S
  OBVIOUS
<1>5. x - 1 \in Nat /\ x - 1 < x /\ x = (x - 1) + 1
  BY <1>4
<1>6. x - 1 \notin T
  BY <1>2, <1>3, <1>4, <1>5
<1>7. x - 1 \in S
  BY <1>5, <1>6
<1>8. (x - 1) + 1 \in S
  BY <1>5, <1>7
<1> QED
  BY <1>4, <1>5, <1>8

\* Filing one more key: the next value of the recursive function of Filed.
FileNext(acc, j, ck, pub, from) ==
  StoreSkippedKey(acc, <<pub, from + j - 1>>, Step(ck, j - 1))

\* g is the first n values of that function.
Filing(g, n, s, ck, pub, from) ==
  g = [i \in 0 .. n |-> IF i = 0 THEN s ELSE FileNext(g[i - 1], i, ck, pub, from)]

\* The first n values exist, for every n.
LEMMA FilingExists ==
  ASSUME NEW s, NEW ck, NEW pub, NEW from
  PROVE  \A n \in Nat : \E g : Filing(g, n, s, ck, pub, from)
<1> DEFINE Add(acc, j) == FileNext(acc, j, ck, pub, from)
           S == {n \in Nat : \E g : Filing(g, n, s, ck, pub, from)}
<1>1. 0 \in S
  <2> DEFINE g == [i \in 0 .. 0 |-> s]
  <2>1. Filing(g, 0, s, ck, pub, from)
    BY DEF Filing
  <2> QED
    BY <2>1
<1>2. ASSUME NEW n \in Nat, n \in S PROVE n + 1 \in S
  <2>1. PICK g : Filing(g, n, s, ck, pub, from)
    BY <1>2
  <2> DEFINE h == [i \in 0 .. n + 1 |-> IF i = n + 1 THEN Add(g[n], n + 1) ELSE g[i]]
  <2>2. ASSUME NEW i \in 0 .. n + 1 PROVE h[i] = IF i = 0 THEN s ELSE Add(h[i - 1], i)
    <3>1. CASE i = n + 1
      <4>1. /\ h[i] = Add(g[n], n + 1) /\ i # 0 /\ i - 1 = n
            /\ n \in 0 .. n + 1 /\ n # n + 1
        BY <3>1
      <4>2. h[n] = g[n]
        BY <4>1
      <4> HIDE DEF h
      <4> QED
        BY <3>1, <4>1, <4>2
    <3>2. CASE i # n + 1
      <4>1. h[i] = g[i] /\ i \in 0 .. n
        BY <3>2
      <4>2. g[i] = IF i = 0 THEN s ELSE Add(g[i - 1], i)
        BY <4>1, <2>1 DEF Filing
      <4>3. i # 0 => h[i - 1] = g[i - 1]
        BY <4>1
      <4> HIDE DEF h
      <4> QED
        BY <4>1, <4>2, <4>3
    <3> QED
      BY <3>1, <3>2
  <2>3. h = [i \in 0 .. n + 1 |-> h[i]]
    OBVIOUS
  <2> HIDE DEF h
  <2>4. Filing(h, n + 1, s, ck, pub, from)
    BY <2>2, <2>3 DEF Filing
  <2> QED
    BY <2>4
<1> HIDE DEF S
<1>3. Nat \subseteq S
  BY <1>1, <1>2, SetInduction
<1> QED
  BY <1>3 DEF S

\* Two beginnings of that function agree where both are defined.
LEMMA FilingUnique ==
  ASSUME NEW s, NEW ck, NEW pub, NEW from, NEW g, NEW h, NEW n \in Nat, NEW k \in Nat,
         Filing(g, n, s, ck, pub, from), Filing(h, k, s, ck, pub, from), n <= k
  PROVE  \A i \in 0 .. n : g[i] = h[i]
<1> DEFINE S == {i \in Nat : i <= n => g[i] = h[i]}
<1>1. 0 \in S
  BY DEF Filing
<1>2. ASSUME NEW i \in Nat, i \in S PROVE i + 1 \in S
  <2>1. SUFFICES ASSUME i + 1 <= n PROVE g[i + 1] = h[i + 1]
    OBVIOUS
  <2>2. /\ i + 1 \in 0 .. n /\ i + 1 \in 0 .. k
        /\ (i + 1) - 1 = i /\ i <= n /\ i + 1 # 0
    BY <2>1
  <2>3. g[i + 1] = FileNext(g[i], i + 1, ck, pub, from)
    BY <2>2 DEF Filing
  <2>4. h[i + 1] = FileNext(h[i], i + 1, ck, pub, from)
    BY <2>2 DEF Filing
  <2>5. g[i] = h[i]
    BY <1>2, <2>2
  <2> QED
    BY <2>3, <2>4, <2>5
<1> HIDE DEF S
<1>3. Nat \subseteq S
  BY <1>1, <1>2, SetInduction
<1> QED
  BY <1>3 DEF S

\* Filed satisfies the equation it is defined by.
LEMMA FiledDef ==
  ASSUME NEW s, NEW ck, NEW pub, NEW from \in Nat
  PROVE  /\ Filed(s, ck, pub, from)[0] = s
         /\ \A j \in Nat : Filed(s, ck, pub, from)[j + 1] =
              StoreSkippedKey(Filed(s, ck, pub, from)[j], <<pub, from + j>>, Step(ck, j))
<1> DEFINE Add(acc, j) == FileNext(acc, j, ck, pub, from)
           G(n) == CHOOSE g : Filing(g, n, s, ck, pub, from)
           F == [n \in Nat |-> G(n)[n]]
<1>1. \A n \in Nat : Filing(G(n), n, s, ck, pub, from)
  BY FilingExists
<1> HIDE DEF G
<1>2. ASSUME NEW j \in Nat PROVE F[j] = IF j = 0 THEN s ELSE Add(F[j - 1], j)
  <2>1. CASE j = 0
    BY <2>1, <1>1 DEF Filing
  <2>2. CASE j # 0
    <3>1. j - 1 \in Nat /\ j - 1 <= j /\ j \in 0 .. j /\ j - 1 \in 0 .. j - 1
      BY <2>2
    <3>2. G(j)[j] = Add(G(j)[j - 1], j)
      BY <2>2, <3>1, <1>1 DEF Filing
    <3>3. G(j - 1)[j - 1] = G(j)[j - 1]
      BY <3>1, <1>1, FilingUnique
    <3>4. F[j] = G(j)[j] /\ F[j - 1] = G(j - 1)[j - 1]
      BY <3>1
    <3> HIDE DEF F
    <3> QED
      BY <2>2, <3>2, <3>3, <3>4
  <2> QED
    BY <2>1, <2>2
<1>3. F = [j \in Nat |-> F[j]]
  OBVIOUS
<1> HIDE DEF F
<1>4. F = [j \in Nat |-> IF j = 0 THEN s
             ELSE StoreSkippedKey(F[j - 1], <<pub, from + j - 1>>, Step(ck, j - 1))]
  BY <1>2, <1>3 DEF FileNext
<1> DEFINE H == Filed(s, ck, pub, from)
<1>5. H = [j \in Nat |-> IF j = 0 THEN s
             ELSE StoreSkippedKey(H[j - 1], <<pub, from + j - 1>>, Step(ck, j - 1))]
  BY <1>4 DEF Filed
<1> HIDE DEF H
<1>6. H[0] = s
  BY <1>5
<1>7. ASSUME NEW j \in Nat
      PROVE  H[j + 1] = StoreSkippedKey(H[j], <<pub, from + j>>, Step(ck, j))
  <2>1. j + 1 \in Nat /\ j + 1 # 0 /\ (j + 1) - 1 = j
    OBVIOUS
  <2>2. H[j + 1] = StoreSkippedKey(H[j], <<pub, from + (j + 1) - 1>>, Step(ck, j))
    BY <1>5, <2>1
  <2>3. from + (j + 1) - 1 = from + j
    OBVIOUS
  <2> QED
    BY <2>2, <2>3
<1> QED
  BY <1>6, <1>7 DEF H

-----------------------------------------------------------------------------
\* What one call of _store_skipped_key leaves of the store, when it does not raise.
LEMMA StoredOne ==
  ASSUME NEW s, NEW key, NEW mk, DOMAIN s = {"keys", "order", "ok"},
         NEW t, t = StoreSkippedKey(s, key, mk), t.ok
  PROVE  /\ DOMAIN t = {"keys", "order", "ok"}
         /\ s.ok
         /\ key \in DOMAIN t.keys /\ t.keys[key] = mk
         /\ \A k \in DOMAIN t.keys : k # key => k \in DOMAIN s.keys /\ t.keys[k] = s.keys[k]
         /\ Cardinality(DOMAIN s.keys) >= MAX_SKIPPED_KEYS =>
              /\ s.order # <<>>
              /\ DOMAIN t.keys = (DOMAIN s.keys \ {Head(s.order)}) \cup {key}
              /\ t.order = Append(Tail(s.order), key)
         /\ ~(Cardinality(DOMAIN s.keys) >= MAX_SKIPPED_KEYS) =>
              /\ DOMAIN t.keys = DOMAIN s.keys \cup {key}
              /\ t.order = Append(s.order, key)
<1> DEFINE full == Cardinality(DOMAIN s.keys) >= MAX_SKIPPED_KEYS
           kept == IF full THEN [k \in DOMAIN s.keys \ {Head(s.order)} |-> s.keys[k]] ELSE s.keys
           put == [k \in DOMAIN kept \cup {key} |-> IF k = key THEN mk ELSE kept[k]]
<1>1. s.ok /\ ~(full /\ s.order = <<>>)
  BY DEF StoreSkippedKey
<1>2. t = [keys |-> put, order |-> Append(IF full THEN Tail(s.order) ELSE s.order, key),
           ok |-> TRUE]
  BY <1>1 DEF StoreSkippedKey, Restrict
<1>3. /\ DOMAIN kept = IF full THEN DOMAIN s.keys \ {Head(s.order)} ELSE DOMAIN s.keys
      /\ \A k \in DOMAIN kept : kept[k] = s.keys[k]
  OBVIOUS
<1> HIDE DEF kept, full
<1>4. /\ DOMAIN put = DOMAIN kept \cup {key}
      /\ put[key] = mk
      /\ \A k \in DOMAIN kept : k # key => put[k] = kept[k]
  OBVIOUS
<1> HIDE DEF put
<1>5. t.keys = put /\ DOMAIN t = {"keys", "order", "ok"}
      /\ t.order = Append(IF full THEN Tail(s.order) ELSE s.order, key)
  BY <1>2
<1> QED
  BY <1>1, <1>3, <1>4, <1>5 DEF full

\* A store that a call refused stays refused.
LEMMA StoredOk ==
  ASSUME NEW s, NEW key, NEW mk, DOMAIN s = {"keys", "order", "ok"},
         StoreSkippedKey(s, key, mk).ok
  PROVE  s.ok
  BY DEF StoreSkippedKey

\* The order list names filed keys, each once, and only keys filed since the state was
\* loaded: those of `others', and those of pub numbered below n.  The store is in its cap.
StoreFits(s, pub, n, others) ==
  /\ DOMAIN s = {"keys", "order", "ok"}
  /\ IsFiniteSet(DOMAIN s.keys)
  /\ Cardinality(DOMAIN s.keys) <= MAX_SKIPPED_KEYS
  /\ s.order \in Seq(Key \X Nat)
  /\ \A i \in 1 .. Len(s.order) : s.order[i] \in DOMAIN s.keys
  /\ \A i, j \in 1 .. Len(s.order) : s.order[i] = s.order[j] => i = j
  /\ \A i \in 1 .. Len(s.order) :
       s.order[i][1] \in others \/ (s.order[i][1] = pub /\ s.order[i][2] < n)

\* The elements of a sequence with one more at its end.
LEMMA AppendShape ==
  ASSUME NEW S, NEW o \in Seq(S), NEW key \in S, NEW q, q = Append(o, key)
  PROVE  /\ q \in Seq(S) /\ Len(q) = Len(o) + 1 /\ q[Len(q)] = key
         /\ \A i \in 1 .. Len(q) : i # Len(q) => i \in 1 .. Len(o) /\ q[i] = o[i]
  OBVIOUS

\* The elements of a sequence that lost its head and got one more at its end.
LEMMA RotateShape ==
  ASSUME NEW S, NEW o \in Seq(S), o # <<>>, NEW key \in S, NEW q, q = Append(Tail(o), key)
  PROVE  /\ q \in Seq(S) /\ Len(q) = Len(o) /\ q[Len(q)] = key
         /\ \A i \in 1 .. Len(q) : i # Len(q) => i + 1 \in 1 .. Len(o) /\ q[i] = o[i + 1]
<1> DEFINE u == Tail(o)
<1>1. u \in Seq(S) /\ Len(u) = Len(o) - 1 /\ Len(o) \in Nat \ {0}
  OBVIOUS
<1>2. \A i \in 1 .. Len(u) : u[i] = o[i + 1]
  OBVIOUS
<1> HIDE DEF u
<1>3. /\ q \in Seq(S) /\ Len(q) = Len(u) + 1 /\ q[Len(q)] = key
      /\ \A i \in 1 .. Len(q) : i # Len(q) => i \in 1 .. Len(u) /\ q[i] = u[i]
  <2>1. q = Append(u, key)
    BY DEF u
  <2> QED
    BY <2>1, <1>1, AppendShape
<1>4. ASSUME NEW i \in 1 .. Len(q), i # Len(q)
      PROVE  i + 1 \in 1 .. Len(o) /\ q[i] = o[i + 1]
  <2>1. i \in 1 .. Len(u) /\ q[i] = u[i]
    BY <1>3, <1>4
  <2> QED
    BY <2>1, <1>1, <1>2
<1> QED
  BY <1>1, <1>3, <1>4

\* Filing the key numbered n of pub keeps the order list in step with the store, and the
\* store in its cap: what is evicted is a key the store has.
LEMMA StoreFitsNext ==
  ASSUME NEW s, NEW mk, NEW pub \in Key, NEW n \in Nat, NEW others, pub \notin others,
         StoreFits(s, pub, n, others),
         NEW t, t = StoreSkippedKey(s, <<pub, n>>, mk), t.ok
  PROVE  StoreFits(t, pub, n + 1, others)
<1> DEFINE key == <<pub, n>>
           full == Cardinality(DOMAIN s.keys) >= MAX_SKIPPED_KEYS
           o == s.order
           q == t.order
<1>a. key \in Key \X Nat /\ o \in Seq(Key \X Nat) /\ Len(o) \in Nat
  BY DEF StoreFits
<1>b. /\ DOMAIN t = {"keys", "order", "ok"}
      /\ key \in DOMAIN t.keys
      /\ full => /\ o # <<>>
                 /\ DOMAIN t.keys = (DOMAIN s.keys \ {Head(o)}) \cup {key}
                 /\ q = Append(Tail(o), key)
      /\ ~full => /\ DOMAIN t.keys = DOMAIN s.keys \cup {key}
                  /\ q = Append(o, key)
  <2>1. DOMAIN s = {"keys", "order", "ok"}
    BY DEF StoreFits
  <2> QED
    BY <2>1, StoredOne
<1>c. \A i \in 1 .. Len(o) :
        /\ o[i] \in DOMAIN s.keys
        /\ o[i] # key
        /\ o[i][1] \in others \/ (o[i][1] = pub /\ o[i][2] < n + 1)
        /\ \A j \in 1 .. Len(o) : o[i] = o[j] => i = j
  <2> SUFFICES ASSUME NEW i \in 1 .. Len(o)
               PROVE  /\ o[i] \in DOMAIN s.keys
                      /\ o[i] # key
                      /\ o[i][1] \in others \/ (o[i][1] = pub /\ o[i][2] < n + 1)
                      /\ \A j \in 1 .. Len(o) : o[i] = o[j] => i = j
    OBVIOUS
  <2>1. o[i] \in Key \X Nat
    BY <1>a
  <2>2. o[i][1] \in others \/ (o[i][1] = pub /\ o[i][2] < n)
    BY DEF StoreFits
  <2>3. o[i] # key
    BY <2>1, <2>2
  <2> QED
    BY <2>1, <2>2, <2>3 DEF StoreFits
<1>d. IsFiniteSet(DOMAIN s.keys) /\ Cardinality(DOMAIN s.keys) <= MAX_SKIPPED_KEYS
      /\ Cardinality(DOMAIN s.keys) \in Nat /\ MAX_SKIPPED_KEYS \in Nat \ {0}
  BY FS_CardinalityType, SkipLimits DEF StoreFits
<1> HIDE DEF key, full, o, q
<1>1. CASE full
  <2>1. /\ q \in Seq(Key \X Nat) /\ Len(q) = Len(o) /\ q[Len(q)] = key
        /\ \A i \in 1 .. Len(q) : i # Len(q) => i + 1 \in 1 .. Len(o) /\ q[i] = o[i + 1]
    <3>1. o # <<>> /\ q = Append(Tail(o), key)
      BY <1>1, <1>b
    <3> DEFINE K == Key \X Nat
    <3>2. o \in Seq(K) /\ key \in K
      BY <1>a
    <3> HIDE DEF K
    <3>3. /\ q \in Seq(K) /\ Len(q) = Len(o) /\ q[Len(q)] = key
          /\ \A i \in 1 .. Len(q) : i # Len(q) => i + 1 \in 1 .. Len(o) /\ q[i] = o[i + 1]
      BY <3>1, <3>2, RotateShape
    <3> QED
      BY <3>3 DEF K
  <2>2. Head(o) = o[1] /\ 1 \in 1 .. Len(o)
    BY <1>1, <1>a, <1>b
  <2>3. ASSUME NEW i \in 1 .. Len(q), i # Len(q)
        PROVE  /\ q[i] \in DOMAIN t.keys
               /\ q[i] # key
               /\ q[i][1] \in others \/ (q[i][1] = pub /\ q[i][2] < n + 1)
               /\ \A j \in 1 .. Len(q) : j # Len(q) /\ q[i] = q[j] => i = j
    <3>1. i + 1 \in 1 .. Len(o) /\ q[i] = o[i + 1]
      BY <2>1, <2>3
    <3>2. o[i + 1] # o[1]
      BY <1>c, <2>2, <3>1
    <3>3. q[i] \in DOMAIN t.keys
      BY <3>1, <3>2, <2>2, <1>1, <1>b, <1>c
    <3>4. /\ q[i] # key
          /\ q[i][1] \in others \/ (q[i][1] = pub /\ q[i][2] < n + 1)
      BY <3>1, <1>c
    <3>5. ASSUME NEW j \in 1 .. Len(q), j # Len(q), q[i] = q[j] PROVE i = j
      <4>1. j + 1 \in 1 .. Len(o) /\ q[j] = o[j + 1]
        BY <2>1, <3>5
      <4>2. i + 1 = j + 1
        BY <4>1, <3>1, <3>5, <1>c
      <4> QED
        BY <4>2
    <3> QED
      BY <3>3, <3>4, <3>5
  <2>4. IsFiniteSet(DOMAIN t.keys) /\ Cardinality(DOMAIN t.keys) <= MAX_SKIPPED_KEYS
    <3> DEFINE D == DOMAIN s.keys \ {Head(o)}
    <3>1. IsFiniteSet(D) /\ Cardinality(D) = Cardinality(DOMAIN s.keys) - 1
      BY <1>c, <1>d, <2>2, FS_RemoveElement
    <3> HIDE DEF D
    <3>2. /\ IsFiniteSet(D \cup {key})
          /\ \/ Cardinality(D \cup {key}) = Cardinality(D)
             \/ Cardinality(D \cup {key}) = Cardinality(D) + 1
      BY <3>1, FS_AddElement
    <3>3. DOMAIN t.keys = D \cup {key}
      BY <1>1, <1>b DEF D
    <3> QED
      <4> DEFINE a == Cardinality(DOMAIN s.keys)
                 b == Cardinality(D)
                 c == Cardinality(D \cup {key})
      <4>1. a \in Nat /\ a <= MAX_SKIPPED_KEYS /\ b = a - 1 /\ (c = b \/ c = b + 1)
        BY <3>1, <3>2, <1>d
      <4> HIDE DEF a, b, c
      <4>2. c <= MAX_SKIPPED_KEYS
        BY <4>1, <1>d
      <4> QED
        BY <3>2, <3>3, <4>2 DEF c
  <2>5. Len(q) \in Nat
    BY <2>1
  <2>6. \A i \in 1 .. Len(q) : q[i] \in DOMAIN t.keys
    BY <2>1, <2>3, <1>b
  <2>7. \A i, j \in 1 .. Len(q) : q[i] = q[j] => i = j
    BY <2>1, <2>3
  <2>8. \A i \in 1 .. Len(q) : q[i][1] \in others \/ (q[i][1] = pub /\ q[i][2] < n + 1)
    BY <2>1, <2>3 DEF key
  <2> QED
    BY <2>1, <2>4, <2>6, <2>7, <2>8, <1>b DEF StoreFits, q
<1>2. CASE ~full
  <2>1. /\ q \in Seq(Key \X Nat) /\ Len(q) = Len(o) + 1 /\ q[Len(q)] = key
        /\ \A i \in 1 .. Len(q) : i # Len(q) => i \in 1 .. Len(o) /\ q[i] = o[i]
    <3>1. q = Append(o, key)
      BY <1>2, <1>b
    <3> DEFINE K == Key \X Nat
    <3>2. o \in Seq(K) /\ key \in K
      BY <1>a
    <3> HIDE DEF K
    <3>3. /\ q \in Seq(K) /\ Len(q) = Len(o) + 1 /\ q[Len(q)] = key
          /\ \A i \in 1 .. Len(q) : i # Len(q) => i \in 1 .. Len(o) /\ q[i] = o[i]
      BY <3>1, <3>2, AppendShape
    <3> QED
      BY <3>3 DEF K
  <2>3. ASSUME NEW i \in 1 .. Len(q), i # Len(q)
        PROVE  /\ q[i] \in DOMAIN t.keys
               /\ q[i] # key
               /\ q[i][1] \in others \/ (q[i][1] = pub /\ q[i][2] < n + 1)
               /\ \A j \in 1 .. Len(q) : j # Len(q) /\ q[i] = q[j] => i = j
    <3>1. i \in 1 .. Len(o) /\ q[i] = o[i]
      BY <2>1, <2>3
    <3> QED
      BY <3>1, <2>1, <1>2, <1>b, <1>c
  <2>4. IsFiniteSet(DOMAIN t.keys) /\ Cardinality(DOMAIN t.keys) <= MAX_SKIPPED_KEYS
    <3>1. /\ IsFiniteSet(DOMAIN s.keys \cup {key})
          /\ \/ Cardinality(DOMAIN s.keys \cup {key}) = Cardinality(DOMAIN s.keys)
             \/ Cardinality(DOMAIN s.keys \cup {key}) = Cardinality(DOMAIN s.keys) + 1
      BY <1>d, FS_AddElement
    <3> QED
      <4> DEFINE a == Cardinality(DOMAIN s.keys)
                 c == Cardinality(DOMAIN s.keys \cup {key})
      <4>1. a \in Nat /\ ~(a >= MAX_SKIPPED_KEYS) /\ (c = a \/ c = a + 1)
        BY <3>1, <1>2, <1>d DEF full
      <4>2. DOMAIN t.keys = DOMAIN s.keys \cup {key}
        BY <1>2, <1>b
      <4> HIDE DEF a, c
      <4>3. c <= MAX_SKIPPED_KEYS
        BY <4>1, <1>d
      <4> QED
        BY <3>1, <4>2, <4>3 DEF c
  <2>6. \A i \in 1 .. Len(q) : q[i] \in DOMAIN t.keys
    BY <2>1, <2>3, <1>b
  <2>7. \A i, j \in 1 .. Len(q) : q[i] = q[j] => i = j
    BY <2>1, <2>3
  <2>8. \A i \in 1 .. Len(q) : q[i][1] \in others \/ (q[i][1] = pub /\ q[i][2] < n + 1)
    BY <2>1, <2>3 DEF key
  <2> QED
    BY <2>1, <2>4, <2>6, <2>7, <2>8, <1>b DEF StoreFits, q
<1> QED
  BY <1>1, <1>2

-----------------------------------------------------------------------------
\* What a side with root key rk, receiving chain c and skipped keys `keys' can still
\* derive: each filed key is filed once, lies behind the chain if it is of that chain,
\* and neither a filed key nor a step of the chain is one of the keys `seen'.  All were
\* derived with root keys no longer than rk, so a chain opened later differs from all.
Forgets(keys, c, rk, seen) ==
  /\ c \in ChainKey /\ Len(c.root) <= Len(rk)
  /\ \A k \in DOMAIN keys :
       /\ k \in Key \X Nat /\ keys[k] \in ChainKey /\ Len(keys[k].root) <= Len(rk)
       /\ keys[k].root = c.root => keys[k].step < c.step
  /\ \A k, l \in DOMAIN keys : keys[k] = keys[l] => k = l
  /\ \A x \in seen :
       /\ x \in ChainKey /\ Len(x.root) <= Len(rk)
       /\ ~(c.root = x.root /\ c.step <= x.step)
       /\ \A k \in DOMAIN keys : keys[k] # x

\* What stepping a chain key does.
LEMMA StepFacts ==
  ASSUME NEW c \in ChainKey, NEW n \in Nat
  PROVE  /\ Step(c, n) \in ChainKey
         /\ Step(c, n).root = c.root
         /\ Step(c, n).step = c.step + n
         /\ Step(c, 0) = c
         /\ Step(Step(c, n), 1) = Step(c, n + 1)
<1>1. /\ DOMAIN c = {"root", "step"} /\ c.root \in RootKey /\ c.step \in Nat
      /\ c = [root |-> c.root, step |-> c.step]
  BY DEF ChainKey
<1>2. \A k \in Nat : Step(c, k) = [root |-> c.root, step |-> c.step + k]
  BY <1>1 DEF Step
<1>3. Step([root |-> c.root, step |-> c.step + n], 1) =
        [root |-> c.root, step |-> (c.step + n) + 1]
  BY DEF Step
<1>4. Step(c, n + 1) = [root |-> c.root, step |-> c.step + (n + 1)]
  BY <1>2
<1>5. Step(Step(c, n), 1) = Step(c, n + 1)
  BY <1>1, <1>2, <1>3, <1>4
<1>6. Step(c, 0) = c
  BY <1>1, <1>2
<1>7. Step(c, n) \in ChainKey /\ Step(c, n).root = c.root /\ Step(c, n).step = c.step + n
  BY <1>1, <1>2 DEF ChainKey
<1> QED
  BY <1>5, <1>6, <1>7

\* Two chain keys with one root and one position are the same.
LEMMA ChainKeyEq ==
  ASSUME NEW a \in ChainKey, NEW b \in ChainKey, a.root = b.root, a.step = b.step
  PROVE  a = b
  BY DEF ChainKey

\* Filing the chain's next key and stepping the chain.
LEMMA ForgetsNext ==
  ASSUME NEW s, NEW c, NEW rk, NEW seen, Forgets(s.keys, c, rk, seen),
         DOMAIN s = {"keys", "order", "ok"}, NEW key \in Key \X Nat,
         NEW t, t = StoreSkippedKey(s, key, c), t.ok
  PROVE  Forgets(t.keys, Step(c, 1), rk, seen)
<1> DEFINE K == s.keys
           N == t.keys
           d == Step(c, 1)
<1>1. /\ key \in DOMAIN N /\ N[key] = c
      /\ \A k \in DOMAIN N : k # key => k \in DOMAIN K /\ N[k] = K[k]
  BY StoredOne
<1>2. /\ c \in ChainKey /\ Len(c.root) <= Len(rk) /\ c.step \in Nat
      /\ d \in ChainKey /\ d.root = c.root /\ d.step = c.step + 1
  BY StepFacts DEF Forgets, ChainKey
<1>a. Forgets(K, c, rk, seen)
  OBVIOUS
<1> HIDE DEF K, N, d
<1>3. ASSUME NEW k \in DOMAIN N
      PROVE  /\ k \in Key \X Nat /\ N[k] \in ChainKey /\ Len(N[k].root) <= Len(rk)
             /\ N[k].root = d.root => N[k].step < d.step
  <2>1. CASE k = key
    BY <2>1, <1>1, <1>2
  <2>2. CASE k # key
    <3>1. k \in DOMAIN K /\ N[k] = K[k]
      BY <2>2, <1>1
    <3>2. /\ k \in Key \X Nat /\ K[k] \in ChainKey /\ Len(K[k].root) <= Len(rk)
          /\ K[k].root = c.root => K[k].step < c.step
      BY <3>1, <1>a DEF Forgets
    <3>3. K[k].step \in Nat
      BY <3>2 DEF ChainKey
    <3> QED
      BY <3>1, <3>2, <3>3, <1>2
  <2> QED
    BY <2>1, <2>2
<1>4. ASSUME NEW k \in DOMAIN N, NEW l \in DOMAIN N, N[k] = N[l] PROVE k = l
  <2>1. ASSUME NEW j \in DOMAIN N, j # key PROVE N[j] # c
    <3>1. j \in DOMAIN K /\ N[j] = K[j]
      BY <2>1, <1>1
    <3>2. K[j].root = c.root => K[j].step < c.step
      BY <3>1, <1>a DEF Forgets
    <3> QED
      BY <3>1, <3>2, <1>2
  <2>2. CASE k = key \/ l = key
    BY <2>1, <2>2, <1>1, <1>4
  <2>3. CASE k # key /\ l # key
    <3>1. k \in DOMAIN K /\ l \in DOMAIN K /\ K[k] = K[l]
      BY <2>3, <1>1, <1>4
    <3> QED
      BY <3>1, <1>a DEF Forgets
  <2> QED
    BY <2>2, <2>3
<1>5. ASSUME NEW x \in seen
      PROVE  /\ x \in ChainKey /\ Len(x.root) <= Len(rk)
             /\ ~(d.root = x.root /\ d.step <= x.step)
             /\ \A k \in DOMAIN N : N[k] # x
  <2>1. /\ x \in ChainKey /\ Len(x.root) <= Len(rk)
        /\ ~(c.root = x.root /\ c.step <= x.step)
        /\ \A k \in DOMAIN K : K[k] # x
    BY <1>a DEF Forgets
  <2>2. x.step \in Nat
    BY <2>1 DEF ChainKey
  <2>3. c # x
    BY <2>1, <2>2
  <2>4. \A k \in DOMAIN N : N[k] # x
    BY <2>1, <2>3, <1>1
  <2> QED
    BY <2>1, <2>2, <2>4, <1>2
<1>6. Forgets(N, d, rk, seen)
  BY <1>2, <1>3, <1>4, <1>5 DEF Forgets
<1> QED
  BY <1>6 DEF N, d

\* A chain opened with a longer root key has no filed key and no key used before.
LEMMA ForgetsRatchet ==
  ASSUME NEW keys, NEW c, NEW rk \in RootKey, NEW seen, Forgets(keys, c, rk, seen),
         NEW d \in DHOutput, NEW e \in DHOutput
  PROVE  Forgets(keys, HkdfChain(rk, d), HkdfRoot(HkdfRoot(rk, d), e), seen)
<1> DEFINE r1 == Append(rk, d)
           r2 == Append(r1, e)
           n == [root |-> r1, step |-> 0]
<1>1. r1 \in RootKey /\ Len(r1) = Len(rk) + 1
  BY DEF RootKey
<1>2. r2 \in RootKey /\ Len(r2) = Len(rk) + 2 /\ Len(rk) \in Nat
  BY <1>1 DEF RootKey
<1> HIDE DEF r1, r2
<1>3. n \in ChainKey /\ n.root = r1 /\ n.step = 0
  BY <1>1 DEF ChainKey
<1>4. n = HkdfChain(rk, d) /\ r2 = HkdfRoot(HkdfRoot(rk, d), e)
  BY DEF HkdfChain, HkdfRoot, r1, r2
<1> HIDE DEF n
<1>5. ASSUME NEW a \in ChainKey, Len(a.root) <= Len(rk)
      PROVE  Len(a.root) <= Len(r2) /\ n.root # a.root
  <2>1. Len(a.root) \in Nat
    BY DEF ChainKey, RootKey
  <2> QED
    BY <2>1, <1>1, <1>2, <1>3, <1>5
<1>6. Len(n.root) <= Len(r2)
  BY <1>1, <1>2, <1>3
<1>7. \A k \in DOMAIN keys :
        /\ k \in Key \X Nat /\ keys[k] \in ChainKey /\ Len(keys[k].root) <= Len(r2)
        /\ keys[k].root # n.root
  BY <1>5 DEF Forgets
<1>8. \A k, l \in DOMAIN keys : keys[k] = keys[l] => k = l
  BY DEF Forgets
<1>9. \A x \in seen :
        /\ x \in ChainKey /\ Len(x.root) <= Len(r2) /\ n.root # x.root
        /\ \A k \in DOMAIN keys : keys[k] # x
  BY <1>5 DEF Forgets
<1>10. Forgets(keys, n, r2, seen)
  BY <1>3, <1>6, <1>7, <1>8, <1>9 DEF Forgets
<1> QED
  BY <1>4, <1>10

-----------------------------------------------------------------------------
\* A store stays a record with these fields, and once a call raised it stays refused.
LEMMA FiledOk ==
  ASSUME NEW s, NEW c, NEW pub, NEW from \in Nat, DOMAIN s = {"keys", "order", "ok"}
  PROVE  \A j \in Nat : LET t == Filed(s, c, pub, from)[j]
                        IN  DOMAIN t = {"keys", "order", "ok"} /\ (t.ok => s.ok)
<1> DEFINE a == Filed(s, c, pub, from)
           S == {j \in Nat : DOMAIN a[j] = {"keys", "order", "ok"} /\ (a[j].ok => s.ok)}
<1>1. /\ a[0] = s
      /\ \A j \in Nat : a[j + 1] = StoreSkippedKey(a[j], <<pub, from + j>>, Step(c, j))
  BY FiledDef
<1> HIDE DEF a
<1>2. 0 \in S
  BY <1>1
<1>3. ASSUME NEW j \in Nat, j \in S PROVE j + 1 \in S
  <2>1. a[j + 1] = StoreSkippedKey(a[j], <<pub, from + j>>, Step(c, j))
    BY <1>1
  <2>2. DOMAIN a[j] = {"keys", "order", "ok"} /\ (a[j].ok => s.ok)
    BY <1>3
  <2>3. ASSUME a[j + 1].ok PROVE a[j].ok
    <3>1. StoreSkippedKey(a[j], <<pub, from + j>>, Step(c, j)).ok
      BY <2>1, <2>3, Zenon
    <3> QED
      BY <2>2, <3>1, StoredOk, Zenon
  <2>4. DOMAIN a[j + 1] = {"keys", "order", "ok"}
    BY <2>1, <2>2 DEF StoreSkippedKey
  <2> QED
    BY <2>2, <2>3, <2>4
<1> HIDE DEF S
<1>4. Nat \subseteq S
  BY <1>2, <1>3, SetInduction
<1> QED
  BY <1>4 DEF S, a

\* Filing the next j keys of a chain keeps the store in its cap and its keys apart, with
\* the chain j steps further.
LEMMA FiledKeeps ==
  ASSUME NEW s, NEW c, NEW pub \in Key, NEW from \in Nat, NEW others, pub \notin others,
         NEW rk, NEW seen,
         StoreFits(s, pub, from, others), Forgets(s.keys, c, rk, seen)
  PROVE  \A j \in Nat : LET t == Filed(s, c, pub, from)[j]
                        IN  t.ok => /\ StoreFits(t, pub, from + j, others)
                                    /\ Forgets(t.keys, Step(c, j), rk, seen)
<1> DEFINE a == Filed(s, c, pub, from)
           S == {j \in Nat : a[j].ok => /\ StoreFits(a[j], pub, from + j, others)
                                        /\ Forgets(a[j].keys, Step(c, j), rk, seen)}
<1>a. DOMAIN s = {"keys", "order", "ok"} /\ c \in ChainKey
  BY DEF StoreFits, Forgets
<1>1. /\ a[0] = s
      /\ \A j \in Nat : a[j + 1] = StoreSkippedKey(a[j], <<pub, from + j>>, Step(c, j))
  BY FiledDef
<1>2. \A j \in Nat : DOMAIN a[j] = {"keys", "order", "ok"}
  BY <1>a, FiledOk
<1> HIDE DEF a
<1>3. 0 \in S
  <2>1. Step(c, 0) = c /\ from + 0 = from
    BY <1>a, StepFacts
  <2> QED
    BY <2>1, <1>1
<1>4. ASSUME NEW j \in Nat, j \in S PROVE j + 1 \in S
  <2> SUFFICES ASSUME a[j + 1].ok
               PROVE  /\ StoreFits(a[j + 1], pub, from + (j + 1), others)
                      /\ Forgets(a[j + 1].keys, Step(c, j + 1), rk, seen)
    OBVIOUS
  <2>1. a[j + 1] = StoreSkippedKey(a[j], <<pub, from + j>>, Step(c, j))
    BY <1>1
  <2>2. DOMAIN a[j] = {"keys", "order", "ok"}
    BY <1>2
  <2>3. a[j].ok
    <3>1. StoreSkippedKey(a[j], <<pub, from + j>>, Step(c, j)).ok
      BY <2>1, Zenon
    <3> QED
      BY <2>2, <3>1, StoredOk, Zenon
  <2>4. StoreFits(a[j], pub, from + j, others) /\ Forgets(a[j].keys, Step(c, j), rk, seen)
    BY <1>4, <2>3
  <2>5. from + j \in Nat /\ (from + j) + 1 = from + (j + 1)
    OBVIOUS
  <2>6. StoreFits(a[j + 1], pub, (from + j) + 1, others)
    BY <2>1, <2>4, <2>5, StoreFitsNext
  <2>7. <<pub, from + j>> \in Key \X Nat
    BY <2>5
  <2>8. Forgets(a[j + 1].keys, Step(Step(c, j), 1), rk, seen)
    BY <2>1, <2>2, <2>4, <2>7, ForgetsNext
  <2>9. Step(Step(c, j), 1) = Step(c, j + 1)
    BY <1>a, StepFacts
  <2> QED
    BY <2>5, <2>6, <2>8, <2>9
<1> HIDE DEF S
<1>5. Nat \subseteq S
  BY <1>3, <1>4, SetInduction
<1> QED
  BY <1>5 DEF S, a

\* How many keys SkipUntil files.
Skipped(from, until) == IF until <= from THEN 0 ELSE until - from

\* SkipUntil, when it does not raise.
LEMMA SkipUntilOk ==
  ASSUME NEW s, NEW c, NEW pub, NEW from \in Nat, NEW until \in Nat,
         DOMAIN s = {"keys", "order", "ok"}
  PROVE  LET t == SkipUntil(s, c, pub, from, until)
         IN  DOMAIN t = {"keys", "order", "ok"} /\ (t.ok => s.ok)
<1>1. CASE until - from > MAX_SKIP_DISTANCE
  BY <1>1 DEF SkipUntil
<1>2. CASE ~(until - from > MAX_SKIP_DISTANCE) /\ until <= from
  BY <1>2 DEF SkipUntil
<1>3. CASE ~(until - from > MAX_SKIP_DISTANCE) /\ ~(until <= from)
  <2>1. until - from \in Nat
    BY <1>3
  <2>2. SkipUntil(s, c, pub, from, until) = Filed(s, c, pub, from)[until - from]
    BY <1>3 DEF SkipUntil
  <2> QED
    BY <2>1, <2>2, FiledOk
<1> QED
  BY <1>1, <1>2, <1>3

\* Skipping to a number keeps the cap and forgets what was forgotten, if it does not raise.
LEMMA SkipUntilKeeps ==
  ASSUME NEW s, NEW c, NEW pub \in Key, NEW from \in Nat, NEW until \in Nat,
         NEW others, pub \notin others, NEW rk, NEW seen,
         StoreFits(s, pub, from, others), Forgets(s.keys, c, rk, seen),
         NEW t, t = SkipUntil(s, c, pub, from, until), t.ok
  PROVE  /\ Skipped(from, until) \in Nat
         /\ StoreFits(t, pub, from + Skipped(from, until), others)
         /\ Forgets(t.keys, Step(c, Skipped(from, until)), rk, seen)
<1>a. DOMAIN s = {"keys", "order", "ok"} /\ c \in ChainKey
  BY DEF StoreFits, Forgets
<1>1. ~(until - from > MAX_SKIP_DISTANCE)
  BY <1>a DEF SkipUntil
<1>2. CASE until <= from
  <2>1. t = s /\ Skipped(from, until) = 0 /\ Step(c, 0) = c /\ from + 0 = from
    BY <1>1, <1>2, <1>a, StepFacts DEF SkipUntil, Skipped
  <2> QED
    BY <2>1
<1>3. CASE ~(until <= from)
  <2>1. Skipped(from, until) \in Nat /\ Skipped(from, until) = until - from
    BY <1>3 DEF Skipped
  <2>2. t = Filed(s, c, pub, from)[Skipped(from, until)]
    BY <1>1, <1>3, <2>1 DEF SkipUntil
  <2> QED
    BY <2>1, <2>2, FiledKeeps
<1> QED
  BY <1>2, <1>3

-----------------------------------------------------------------------------
\* A filed key that is taken out and used is used for the first time.
LEMMA TakeForgets ==
  ASSUME NEW keys, NEW c, NEW rk, NEW seen, Forgets(keys, c, rk, seen),
         NEW hdr \in DOMAIN keys
  PROVE  /\ keys[hdr] \notin seen
         /\ Forgets(Restrict(keys, DOMAIN keys \ {hdr}), c, rk, seen \cup {keys[hdr]})
<1> DEFINE N == [k \in DOMAIN keys \ {hdr} |-> keys[k]]
<1>1. /\ N = Restrict(keys, DOMAIN keys \ {hdr})
      /\ DOMAIN N = DOMAIN keys \ {hdr}
      /\ \A k \in DOMAIN N : N[k] = keys[k]
  BY DEF Restrict
<1> HIDE DEF N
<1>2. /\ c \in ChainKey /\ Len(c.root) <= Len(rk)
      /\ keys[hdr] \in ChainKey /\ Len(keys[hdr].root) <= Len(rk)
      /\ keys[hdr].root = c.root => keys[hdr].step < c.step
  BY DEF Forgets
<1>3. keys[hdr].step \in Nat /\ c.step \in Nat
  BY <1>2 DEF ChainKey
<1>4. ~(c.root = keys[hdr].root /\ c.step <= keys[hdr].step)
  BY <1>2, <1>3
<1>5. keys[hdr] \notin seen
  BY DEF Forgets
<1>6. \A k \in DOMAIN N :
        /\ k \in Key \X Nat /\ N[k] \in ChainKey /\ Len(N[k].root) <= Len(rk)
        /\ N[k].root = c.root => N[k].step < c.step
  BY <1>1 DEF Forgets
<1>7. \A k, l \in DOMAIN N : N[k] = N[l] => k = l
  BY <1>1 DEF Forgets
<1>8. ASSUME NEW x \in seen \cup {keys[hdr]}
      PROVE  /\ x \in ChainKey /\ Len(x.root) <= Len(rk)
             /\ ~(c.root = x.root /\ c.step <= x.step)
             /\ \A k \in DOMAIN N : N[k] # x
  <2>1. CASE x = keys[hdr]
    <3>1. \A k \in DOMAIN N : k \in DOMAIN keys /\ k # hdr /\ N[k] = keys[k]
      BY <1>1
    <3>2. \A k \in DOMAIN keys : keys[k] = keys[hdr] => k = hdr
      BY DEF Forgets
    <3> QED
      BY <2>1, <3>1, <3>2, <1>2, <1>4
  <2>2. CASE x \in seen
    BY <2>2, <1>1 DEF Forgets
  <2> QED
    BY <2>1, <2>2
<1>9. Forgets(N, c, rk, seen \cup {keys[hdr]})
  BY <1>2, <1>6, <1>7, <1>8 DEF Forgets
<1> QED
  BY <1>1, <1>5, <1>9

\* The key the receiving chain is at is used for the first time, and the chain moves past it.
LEMMA UseForgets ==
  ASSUME NEW keys, NEW d, NEW rk, NEW seen, Forgets(keys, d, rk, seen)
  PROVE  d \notin seen /\ Forgets(keys, Step(d, 1), rk, seen \cup {d})
<1>1. d \in ChainKey /\ Len(d.root) <= Len(rk) /\ d.step \in Nat
  BY DEF Forgets, ChainKey
<1> DEFINE e == Step(d, 1)
<1>2. e \in ChainKey /\ e.root = d.root /\ e.step = d.step + 1
  BY <1>1, StepFacts
<1> HIDE DEF e
<1>3. d \notin seen
  BY <1>1 DEF Forgets
<1>4. ASSUME NEW k \in DOMAIN keys
      PROVE  /\ k \in Key \X Nat /\ keys[k] \in ChainKey /\ Len(keys[k].root) <= Len(rk)
             /\ keys[k].root = e.root => keys[k].step < e.step
             /\ keys[k] # d
  <2>1. /\ k \in Key \X Nat /\ keys[k] \in ChainKey /\ Len(keys[k].root) <= Len(rk)
        /\ keys[k].root = d.root => keys[k].step < d.step
    BY DEF Forgets
  <2>2. keys[k].step \in Nat
    BY <2>1 DEF ChainKey
  <2> QED
    BY <2>1, <2>2, <1>1, <1>2
<1>5. \A k, l \in DOMAIN keys : keys[k] = keys[l] => k = l
  BY DEF Forgets
<1>6. ASSUME NEW x \in seen \cup {d}
      PROVE  /\ x \in ChainKey /\ Len(x.root) <= Len(rk)
             /\ ~(e.root = x.root /\ e.step <= x.step)
             /\ \A k \in DOMAIN keys : keys[k] # x
  <2>1. CASE x = d
    BY <2>1, <1>1, <1>2, <1>4
  <2>2. CASE x \in seen
    <3>1. /\ x \in ChainKey /\ Len(x.root) <= Len(rk)
          /\ ~(d.root = x.root /\ d.step <= x.step)
          /\ \A k \in DOMAIN keys : keys[k] # x
      BY <2>2 DEF Forgets
    <3>2. x.step \in Nat
      BY <3>1 DEF ChainKey
    <3> QED
      BY <3>1, <3>2, <1>1, <1>2
  <2> QED
    BY <2>1, <2>2
<1>7. Forgets(keys, e, rk, seen \cup {d})
  BY <1>1, <1>2, <1>4, <1>5, <1>6 DEF Forgets
<1> QED
  BY <1>3, <1>7 DEF e

-----------------------------------------------------------------------------
\* The store that decrypt starts with, and the one in which it looks the header up.
StoreOf(st) == [keys |-> st.skipped, order |-> st.order, ok |-> TRUE]
LookupStore(st, m) ==
  IF m.dh # st.dh_pub_remote THEN SkipRecvChain(StoreOf(st), st, m.prev) ELSE StoreOf(st)

\* A state of a side that used the keys `seen', as decrypt gets it from a load.
Loaded(st, seen) ==
  /\ DOMAIN st = StateFields
  /\ st.dh_priv \in Key /\ st.dh_pub_remote \in Key /\ st.root_key \in RootKey
  /\ st.recv_msg_num \in Nat
  /\ st.order = <<>>
  /\ IsFiniteSet(DOMAIN st.skipped) /\ Cardinality(DOMAIN st.skipped) <= MAX_SKIPPED_KEYS
  /\ Forgets(st.skipped, st.recv_chain_key, st.root_key, seen)

\* The receiving side after dh_ratchet_step.
LEMMA RatchetStepRecvSide ==
  ASSUME NEW st, NEW pub, NEW fresh, DOMAIN st = StateFields,
         NEW r, r = DhRatchetStep(st, pub, fresh)
  PROVE  /\ DOMAIN r = StateFields
         /\ r.recv_chain_key = HkdfChain(st.root_key, DH(st.dh_priv, pub))
         /\ r.recv_msg_num = 0
         /\ r.root_key = HkdfRoot(HkdfRoot(st.root_key, DH(st.dh_priv, pub)), DH(fresh, pub))
  BY DEF DhRatchetStep, StateFields

\* The store a load gives.
LEMMA StoreOfFits ==
  ASSUME NEW st, NEW seen, Loaded(st, seen), NEW pub, NEW n, NEW others
  PROVE  StoreFits(StoreOf(st), pub, n, others)
<1>1. /\ DOMAIN StoreOf(st) = {"keys", "order", "ok"}
      /\ StoreOf(st).keys = st.skipped /\ StoreOf(st).order = <<>>
  BY DEF StoreOf, Loaded
<1>2. <<>> \in Seq(Key \X Nat) /\ \A i : ~(i \in 1 .. Len(<<>>))
  OBVIOUS
<1> QED
  BY <1>1, <1>2 DEF StoreFits, Loaded

\* Before the header is looked up the rest of the old chain has been filed and the ratchet
\* step taken; what was used is still gone, and the new chain's numbers are not filed yet.
LEMMA BeforeLookup ==
  ASSUME NEW st, NEW seen, Loaded(st, seen), NEW m \in Message, NEW fresh \in Key,
         NEW r, r = Ratcheted(st, m, fresh), NEW s, s = LookupStore(st, m), s.ok
  PROVE  /\ DOMAIN r = StateFields /\ r.recv_msg_num \in Nat
         /\ Forgets(s.keys, r.recv_chain_key, r.root_key, seen)
         /\ \E others : m.dh \notin others /\ StoreFits(s, m.dh, r.recv_msg_num, others)
<1>a. m.dh \in Key /\ m.prev \in Nat /\ m.num \in Nat
  BY DEF Message
<1>b. /\ DOMAIN st = StateFields /\ st.recv_msg_num \in Nat /\ st.root_key \in RootKey
      /\ st.dh_pub_remote \in Key
      /\ DH(st.dh_priv, m.dh) \in DHOutput /\ DH(fresh, m.dh) \in DHOutput
      /\ Forgets(StoreOf(st).keys, st.recv_chain_key, st.root_key, seen)
  BY <1>a DEF Loaded, StoreOf, DH, DHOutput
<1>1. CASE m.dh = st.dh_pub_remote
  <2>1. r = st /\ s = StoreOf(st)
    BY <1>1 DEF Ratcheted, LookupStore
  <2>2. m.dh \notin {} /\ StoreFits(s, m.dh, r.recv_msg_num, {})
    BY <2>1, StoreOfFits
  <2> QED
    BY <2>1, <2>2, <1>b
<1>2. CASE m.dh # st.dh_pub_remote
  <2>1. /\ r = DhRatchetStep(st, m.dh, fresh)
        /\ s = SkipRecvChain(StoreOf(st), st, m.prev)
    BY <1>2 DEF Ratcheted, LookupStore
  <2>2. /\ DOMAIN r = StateFields /\ r.recv_msg_num = 0
        /\ r.recv_chain_key = HkdfChain(st.root_key, DH(st.dh_priv, m.dh))
        /\ r.root_key = HkdfRoot(HkdfRoot(st.root_key, DH(st.dh_priv, m.dh)), DH(fresh, m.dh))
    BY <2>1, <1>b, RatchetStepRecvSide
  <2>3. \E c, n : /\ Forgets(s.keys, c, st.root_key, seen)
                  /\ StoreFits(s, st.dh_pub_remote, n, {})
    <3>1. CASE st.recv_chain_key = NoChain
      <4>1. s = StoreOf(st)
        BY <2>1, <3>1 DEF SkipRecvChain
      <4>2. StoreFits(s, st.dh_pub_remote, 0, {})
        BY <4>1, StoreOfFits
      <4> QED
        BY <4>1, <4>2, <1>b
    <3>2. CASE st.recv_chain_key # NoChain
      <4>1. s = SkipUntil(StoreOf(st), st.recv_chain_key, st.dh_pub_remote,
                          st.recv_msg_num, m.prev)
        BY <2>1, <3>2 DEF SkipRecvChain
      <4>2. StoreFits(StoreOf(st), st.dh_pub_remote, st.recv_msg_num, {})
        BY StoreOfFits
      <4> DEFINE u == st.dh_pub_remote
                 f == st.recv_msg_num
      <4>3. u \notin {}
        OBVIOUS
      <4>4. /\ StoreFits(s, u, f + Skipped(f, m.prev), {})
            /\ Forgets(s.keys, Step(st.recv_chain_key, Skipped(f, m.prev)), st.root_key, seen)
        BY <4>1, <4>2, <4>3, <1>a, <1>b, SkipUntilKeeps
      <4> QED
        BY <4>4
    <3> QED
      BY <3>1, <3>2
  <2>4. PICK c, n : /\ Forgets(s.keys, c, st.root_key, seen)
                    /\ StoreFits(s, st.dh_pub_remote, n, {})
    BY <2>3
  <2>5. Forgets(s.keys, r.recv_chain_key, r.root_key, seen)
    BY <2>2, <2>4, <1>b, ForgetsRatchet
  <2>6. StoreFits(s, m.dh, 0, {st.dh_pub_remote})
    BY <2>4 DEF StoreFits
  <2> QED
    BY <2>2, <2>5, <2>6, <1>2
<1> QED
  BY <1>1, <1>2

\* The two ways in which decrypt returns a plaintext.
LEMMA DecryptCases ==
  ASSUME NEW st, NEW m \in Message, NEW fresh, st.recv_msg_num \in Nat,
         DOMAIN st = StateFields,
         NEW r, r = Ratcheted(st, m, fresh), r.recv_msg_num \in Nat,
         NEW s, s = LookupStore(st, m),
         NEW d, d = Decrypt(st, m, fresh), d.ok
  PROVE  \/ /\ <<m.dh, m.num>> \in DOMAIN s.keys /\ s.ok
            /\ s.keys[<<m.dh, m.num>>] = m.mk
            /\ d.state = TakeSkippedKey(r, s, <<m.dh, m.num>>)
         \/ LET n == Skipped(r.recv_msg_num, m.num)
                t == SkipUntil(s, r.recv_chain_key, m.dh, r.recv_msg_num, m.num)
            IN  /\ <<m.dh, m.num>> \notin DOMAIN s.keys
                /\ t.ok /\ r.recv_chain_key # NoChain
                /\ Step(r.recv_chain_key, n) = m.mk
                /\ d.state = StepRecvChain(r, t, n)
<1>1. m.num \in Nat
  BY DEF Message
<1>2. Skipped(r.recv_msg_num, m.num) =
        IF m.num > r.recv_msg_num THEN m.num - r.recv_msg_num ELSE 0
  BY <1>1 DEF Skipped
<1> DEFINE t == SkipUntil(s, r.recv_chain_key, m.dh, r.recv_msg_num, m.num)
           hdr == <<m.dh, m.num>>
           n == IF m.num > r.recv_msg_num THEN m.num - r.recv_msg_num ELSE 0
<1>3. d = IF hdr \in DOMAIN s.keys
          THEN [ok |-> s.ok /\ s.keys[hdr] = m.mk, state |-> TakeSkippedKey(r, s, hdr)]
          ELSE [ok |-> /\ t.ok
                       /\ r.recv_chain_key # NoChain
                       /\ Step(r.recv_chain_key, n) = m.mk,
                state |-> StepRecvChain(r, t, n)]
  BY DEF Decrypt, LookupStore, StoreOf
<1> HIDE DEF t, hdr, n
<1>4. CASE hdr \in DOMAIN s.keys
  <2>1. d = [ok |-> s.ok /\ s.keys[hdr] = m.mk, state |-> TakeSkippedKey(r, s, hdr)]
    BY <1>3, <1>4
  <2> DEFINE b == s.ok /\ s.keys[hdr] = m.mk
  <2>2. s.ok /\ s.keys[hdr] = m.mk
    <3>1. d = [ok |-> b, state |-> TakeSkippedKey(r, s, hdr)]
      BY <2>1
    <3> HIDE DEF b
    <3>2. d.ok = b
      BY <3>1
    <3>3. b
      BY <3>2, Zenon
    <3> QED
      BY <3>3, Zenon DEF b
  <2>3. d.state = TakeSkippedKey(r, s, hdr)
    BY <2>1
  <2> QED
    BY <1>4, <2>2, <2>3 DEF hdr
<1>5. CASE hdr \notin DOMAIN s.keys
  <2>1. /\ d.ok = (/\ t.ok
                   /\ r.recv_chain_key # NoChain
                   /\ Step(r.recv_chain_key, n) = m.mk)
        /\ d.state = StepRecvChain(r, t, n)
    BY <1>3, <1>5
  <2>2. n = Skipped(r.recv_msg_num, m.num)
    BY <1>2 DEF n
  <2> QED
    BY <1>5, <2>1, <2>2 DEF t, hdr
<1> QED
  BY <1>4, <1>5

\* What a plaintext costs: its key was not used before, is used now, and is gone.
LEMMA DecryptForgets ==
  ASSUME NEW st, NEW seen, Loaded(st, seen), NEW m \in Message, NEW fresh \in Key,
         NEW d, d = Decrypt(st, m, fresh), d.ok
  PROVE  /\ m.mk \notin seen
         /\ Forgets(d.state.skipped, d.state.recv_chain_key, d.state.root_key, seen \cup {m.mk})
         /\ IsFiniteSet(DOMAIN d.state.skipped)
         /\ Cardinality(DOMAIN d.state.skipped) <= MAX_SKIPPED_KEYS
         /\ d.state.recv_msg_num \in Nat
         /\ d.state.order \in Seq(Key \X Nat)
<1> DEFINE r == Ratcheted(st, m, fresh)
           s == LookupStore(st, m)
           hdr == <<m.dh, m.num>>
<1>a. m.dh \in Key /\ m.num \in Nat /\ m.prev \in Nat
  BY DEF Message
<1>b. DOMAIN st = StateFields /\ st.recv_msg_num \in Nat
  BY DEF Loaded
<1>c. r.recv_msg_num \in Nat
  <2>1. CASE m.dh = st.dh_pub_remote
    BY <2>1, <1>b DEF Ratcheted
  <2>2. CASE m.dh # st.dh_pub_remote
    BY <2>2, <1>b, RatchetStepRecvSide DEF Ratcheted
  <2> QED
    BY <2>1, <2>2
<1> DEFINE n == Skipped(r.recv_msg_num, m.num)
           t == SkipUntil(s, r.recv_chain_key, m.dh, r.recv_msg_num, m.num)
<1>d. \/ /\ hdr \in DOMAIN s.keys /\ s.ok /\ s.keys[hdr] = m.mk
         /\ d.state = TakeSkippedKey(r, s, hdr)
      \/ /\ t.ok /\ Step(r.recv_chain_key, n) = m.mk
         /\ d.state = StepRecvChain(r, t, n)
  BY <1>b, <1>c, DecryptCases
<1>e. DOMAIN s = {"keys", "order", "ok"}
  <2>1. DOMAIN StoreOf(st) = {"keys", "order", "ok"}
    BY DEF StoreOf
  <2> QED
    BY <2>1, <1>a, <1>b, SkipUntilOk DEF LookupStore, SkipRecvChain
<1>f. t.ok => s.ok
  BY <1>a, <1>c, <1>e, SkipUntilOk
<1>g. s.ok
  BY <1>d, <1>f
<1>h. /\ DOMAIN r = StateFields
      /\ Forgets(s.keys, r.recv_chain_key, r.root_key, seen)
      /\ \E others : m.dh \notin others /\ StoreFits(s, m.dh, r.recv_msg_num, others)
  BY <1>g, BeforeLookup
<1>i. PICK others : m.dh \notin others /\ StoreFits(s, m.dh, r.recv_msg_num, others)
  BY <1>h
<1> HIDE DEF r, s, n, t
<1>1. CASE /\ hdr \in DOMAIN s.keys /\ s.ok /\ s.keys[hdr] = m.mk
           /\ d.state = TakeSkippedKey(r, s, hdr)
  <2> DEFINE N == Restrict(s.keys, DOMAIN s.keys \ {hdr})
  <2>1. m.mk \notin seen /\ Forgets(N, r.recv_chain_key, r.root_key, seen \cup {m.mk})
    BY <1>1, <1>h, TakeForgets
  <2>2. DOMAIN N = DOMAIN s.keys \ {hdr}
    BY DEF Restrict
  <2> HIDE DEF N
  <2>3. /\ d.state.skipped = N /\ d.state.order = s.order
        /\ d.state.recv_chain_key = r.recv_chain_key /\ d.state.root_key = r.root_key
        /\ d.state.recv_msg_num = r.recv_msg_num
    BY <1>1, <1>h DEF TakeSkippedKey, StateFields, N
  <2>4. /\ IsFiniteSet(DOMAIN s.keys) /\ Cardinality(DOMAIN s.keys) <= MAX_SKIPPED_KEYS
        /\ s.order \in Seq(Key \X Nat)
    BY <1>i DEF StoreFits
  <2>5. IsFiniteSet(DOMAIN N) /\ Cardinality(DOMAIN N) <= Cardinality(DOMAIN s.keys)
    BY <2>2, <2>4, FS_Subset
  <2>6. Cardinality(DOMAIN N) <= MAX_SKIPPED_KEYS
    <3>1. Cardinality(DOMAIN N) \in Nat /\ Cardinality(DOMAIN s.keys) \in Nat
      BY <2>4, <2>5, FS_CardinalityType
    <3> QED
      BY <2>4, <2>5, <3>1, SkipLimits
  <2> QED
    BY <2>1, <2>3, <2>4, <2>5, <2>6, <1>c
<1>2. CASE /\ t.ok /\ Step(r.recv_chain_key, n) = m.mk
           /\ d.state = StepRecvChain(r, t, n)
  <2>1. /\ n \in Nat
        /\ StoreFits(t, m.dh, r.recv_msg_num + n, others)
        /\ Forgets(t.keys, m.mk, r.root_key, seen)
    <3> DEFINE f == r.recv_msg_num
    <3>1. t = SkipUntil(s, r.recv_chain_key, m.dh, f, m.num) /\ n = Skipped(f, m.num)
      BY DEF t, n
    <3>2. StoreFits(s, m.dh, f, others) /\ m.dh \notin others
      BY <1>i
    <3>3. Forgets(s.keys, r.recv_chain_key, r.root_key, seen)
      BY <1>h
    <3>4. f \in Nat
      BY <1>c
    <3>5. t.ok
      BY <1>2
    <3> HIDE DEF f
    <3>6. /\ Skipped(f, m.num) \in Nat
          /\ StoreFits(t, m.dh, f + Skipped(f, m.num), others)
          /\ Forgets(t.keys, Step(r.recv_chain_key, Skipped(f, m.num)), r.root_key, seen)
      BY <3>1, <3>2, <3>3, <3>4, <3>5, <1>a, SkipUntilKeeps
    <3> QED
      BY <3>1, <3>6, <1>2 DEF f
  <2>2. m.mk \notin seen /\ Forgets(t.keys, Step(m.mk, 1), r.root_key, seen \cup {m.mk})
    BY <2>1, UseForgets
  <2>3. Step(m.mk, 1) = Step(r.recv_chain_key, n + 1)
    <3>1. r.recv_chain_key \in ChainKey
      BY <1>h DEF Forgets
    <3> QED
      BY <3>1, <2>1, <1>2, StepFacts
  <2>4. /\ d.state.skipped = t.keys /\ d.state.order = t.order
        /\ d.state.recv_chain_key = Step(r.recv_chain_key, n + 1)
        /\ d.state.root_key = r.root_key
        /\ d.state.recv_msg_num = r.recv_msg_num + n + 1
    BY <1>2, <1>h DEF StepRecvChain, StateFields
  <2>5. /\ IsFiniteSet(DOMAIN t.keys) /\ Cardinality(DOMAIN t.keys) <= MAX_SKIPPED_KEYS
        /\ t.order \in Seq(Key \X Nat)
    BY <2>1 DEF StoreFits
  <2>6. d.state.recv_msg_num \in Nat
    BY <2>1, <2>4, <1>c
  <2> QED
    BY <2>2, <2>3, <2>4, <2>5, <2>6
<1> QED
  BY <1>d, <1>1, <1>2

-----------------------------------------------------------------------------
\* The message keys a user has decrypted with.
UsedKeys(p) == {m.mk : m \in Accepted(p)}

\* The receiving side of a user's stored state.
ReceiveOK(p) ==
  /\ store[p].recv_msg_num \in Nat
  /\ store[p].order \in Seq(Key \X Nat)
  /\ IsFiniteSet(DOMAIN store[p].skipped)
  /\ Cardinality(DOMAIN store[p].skipped) <= MAX_SKIPPED_KEYS
  /\ Forgets(store[p].skipped, store[p].recv_chain_key, store[p].root_key, UsedKeys(p))

\* The invariant of the receiving sides: inductive together with IInv.
RecvInv ==
  /\ inbox \in [Party -> Seq(sent)]
  /\ \A p \in Party : ReceiveOK(p)
  /\ NoReplay

\* The initial sessions have used nothing.
LEMMA InitRecvInv == Init => RecvInv
<1> SUFFICES ASSUME Init PROVE RecvInv
  OBVIOUS
<1>1. inbox \in [Party -> Seq(sent)] /\ \A p \in Party : inbox[p] = <<>>
  BY DEF Init
<1>2. NoReplay
  BY <1>1 DEF NoReplay
<1>3. ASSUME NEW p \in Party PROVE ReceiveOK(p)
  <2> DEFINE st == store[p]
             rk == Append(<<>>, DH(1, 0))
  <2>1. <<>> \in RootKey /\ DH(1, 0) \in DHOutput /\ DH(1, 0) = DH(0, 1)
    BY DEF RootKey, DHOutput, DH, Key
  <2>2. rk \in RootKey /\ Len(rk) = 1
    BY <2>1 DEF RootKey
  <2>3. rk = Append(<<>>, DH(0, 1))
    BY <2>1
  <2> HIDE DEF rk
  <2>4. /\ st.recv_msg_num = 0 /\ st.order = <<>> /\ st.skipped = <<>> /\ st.root_key = rk
        /\ st.recv_chain_key = NoChain \/ st.recv_chain_key = [root |-> rk, step |-> 0]
    <3>1. CASE p = "alice"
      BY <3>1 DEF Init, InitialState, InitializeAsAlice, NewState, HkdfRoot, rk
    <3>2. CASE p = "bob"
      BY <3>2, <2>3 DEF Init, InitialState, InitializeAsBob, NewState, HkdfRoot, HkdfChain
    <3> QED
      BY <3>1, <3>2 DEF Party
  <2>5. UsedKeys(p) = {}
    BY <1>1 DEF UsedKeys, Accepted
  <2>6. DOMAIN st.skipped = {}
    BY <2>4
  <2>7. st.recv_chain_key \in ChainKey /\ Len(st.recv_chain_key.root) <= Len(st.root_key)
    BY <2>1, <2>2, <2>4 DEF NoChain, ChainKey
  <2>8. Forgets(st.skipped, st.recv_chain_key, st.root_key, UsedKeys(p))
    BY <2>5, <2>6, <2>7 DEF Forgets
  <2>9. st.order \in Seq(Key \X Nat)
    BY <2>4
  <2>10. /\ IsFiniteSet(DOMAIN st.skipped)
         /\ Cardinality(DOMAIN st.skipped) <= MAX_SKIPPED_KEYS
    BY <2>6, FS_EmptySet, SkipLimits
  <2> QED
    BY <2>4, <2>8, <2>9, <2>10 DEF ReceiveOK
<1> QED
  BY <1>1, <1>2, <1>3 DEF RecvInv

\* The receiving side only depends on these attributes; root keys may grow.
LEMMA ForgetsLonger ==
  ASSUME NEW keys, NEW c, NEW rk, NEW rk2, NEW seen, Forgets(keys, c, rk, seen),
         rk \in RootKey, rk2 \in RootKey, Len(rk) <= Len(rk2)
  PROVE  Forgets(keys, c, rk2, seen)
<1>1. Len(rk) \in Nat /\ Len(rk2) \in Nat
  BY DEF RootKey
<1>2. ASSUME NEW a \in ChainKey, Len(a.root) <= Len(rk) PROVE Len(a.root) <= Len(rk2)
  <2>1. Len(a.root) \in Nat
    BY DEF ChainKey, RootKey
  <2> QED
    BY <1>1, <1>2, <2>1
<1> QED
  BY <1>2 DEF Forgets

\* Opening the sending chain and producing a message leave the receiving side alone; the
\* root key may get longer.
LEMMA EncryptRecvSide ==
  ASSUME NEW st, NEW fresh \in Key, DOMAIN st = StateFields,
         st.root_key \in RootKey, st.dh_pub_remote \in Key,
         NEW d, d = AfterEncrypt(OpenSendChain(Reload(st), fresh))
  PROVE  /\ d.recv_chain_key = st.recv_chain_key /\ d.recv_msg_num = st.recv_msg_num
         /\ d.skipped = st.skipped /\ d.order = <<>>
         /\ d.root_key \in RootKey /\ Len(st.root_key) <= Len(d.root_key)
<1> DEFINE ld == Reload(st)
           o == OpenSendChain(ld, fresh)
           rk == Append(st.root_key, DH(fresh, st.dh_pub_remote))
<1>1. /\ DOMAIN ld = StateFields
      /\ ld.recv_chain_key = st.recv_chain_key /\ ld.recv_msg_num = st.recv_msg_num
      /\ ld.skipped = st.skipped /\ ld.order = <<>> /\ ld.root_key = st.root_key
      /\ ld.dh_pub_remote = st.dh_pub_remote
  BY DEF Reload, StateFields
<1>2. rk \in RootKey /\ Len(rk) = Len(st.root_key) + 1 /\ Len(st.root_key) \in Nat
  BY DEF RootKey, DH, DHOutput
<1> HIDE DEF ld
<1>3. /\ DOMAIN o = StateFields
      /\ o.recv_chain_key = ld.recv_chain_key /\ o.recv_msg_num = ld.recv_msg_num
      /\ o.skipped = ld.skipped /\ o.order = ld.order
      /\ o.root_key = ld.root_key \/ o.root_key = Append(ld.root_key, DH(fresh, ld.dh_pub_remote))
  BY <1>1 DEF OpenSendChain, StateFields, HkdfRoot
<1> HIDE DEF o
<1>4. /\ d.recv_chain_key = o.recv_chain_key /\ d.recv_msg_num = o.recv_msg_num
      /\ d.skipped = o.skipped /\ d.order = o.order /\ d.root_key = o.root_key
  BY <1>3 DEF AfterEncrypt, StateFields, o, ld
<1>5. d.root_key = st.root_key \/ d.root_key = rk
  BY <1>1, <1>3, <1>4
<1> HIDE DEF rk
<1>6. d.root_key \in RootKey /\ Len(st.root_key) <= Len(d.root_key)
  BY <1>2, <1>5
<1> QED
  BY <1>1, <1>3, <1>4, <1>6

\* encrypt_message preserves the invariant.
LEMMA EncryptRecvInv ==
  ASSUME IInv, RecvInv, NEW p \in Party, EncryptMessage(p)
  PROVE  RecvInv'
<1> DEFINE st == store[p]
           d == AfterEncrypt(OpenSendChain(Reload(st), nextKey))
<1>a. /\ DOMAIN st = StateFields /\ st.root_key \in RootKey /\ st.dh_pub_remote \in Key
      /\ nextKey \in Key /\ DOMAIN store = Party
  BY DEF IInv, SendTypeOK, Key
<1>b. store' = [store EXCEPT ![p] = d] /\ sent \subseteq sent' /\ inbox' = inbox
  BY DEF EncryptMessage
<1>c. \A q \in Party : Accepted(q)' = Accepted(q) /\ UsedKeys(q)' = UsedKeys(q)
  BY <1>b DEF Accepted, UsedKeys
<1>1. /\ d.recv_chain_key = st.recv_chain_key /\ d.recv_msg_num = st.recv_msg_num
      /\ d.skipped = st.skipped /\ d.order = <<>>
      /\ d.root_key \in RootKey /\ Len(st.root_key) <= Len(d.root_key)
  BY <1>a, EncryptRecvSide
<1>2. store'[p] = d /\ \A q \in Party : q # p => store'[q] = store[q]
  BY <1>a, <1>b
<1> HIDE DEF d
<1>3. Forgets(d.skipped, d.recv_chain_key, d.root_key, UsedKeys(p))
  <2>1. Forgets(st.skipped, st.recv_chain_key, st.root_key, UsedKeys(p))
    BY DEF RecvInv, ReceiveOK
  <2> QED
    BY <2>1, <1>1, <1>a, ForgetsLonger
<1>4. ASSUME NEW q \in Party PROVE ReceiveOK(q)'
  <2>1. CASE q = p
    <3>1. <<>> \in Seq(Key \X Nat)
      OBVIOUS
    <3> QED
      BY <2>1, <3>1, <1>1, <1>2, <1>3, <1>c DEF RecvInv, ReceiveOK
  <2>2. CASE q # p
    BY <2>2, <1>2, <1>c DEF RecvInv, ReceiveOK
  <2> QED
    BY <2>1, <2>2
<1>5. inbox' \in [Party -> Seq(sent')]
  <2>1. ASSUME NEW q \in Party PROVE inbox[q] \in Seq(sent')
    <3>1. inbox[q] \in Seq(sent)
      BY DEF RecvInv
    <3> QED
      BY <3>1, <1>b
  <2> QED
    BY <2>1, <1>b DEF RecvInv
<1>6. NoReplay'
  BY <1>b DEF RecvInv, NoReplay
<1> QED
  BY <1>4, <1>5, <1>6 DEF RecvInv

\* decrypt_message preserves the invariant.
LEMMA DecryptRecvInv ==
  ASSUME IInv, RecvInv, NEW p \in Party, NEW m \in sent, DecryptMessage(p, m)
  PROVE  RecvInv'
<1> DEFINE st == Reload(store[p])
           d == Decrypt(st, m, nextKey)
           used == UsedKeys(p)
<1>a. m \in Message /\ nextKey \in Key /\ DOMAIN store = Party
  BY DEF IInv, SendTypeOK, Key
<1>b. /\ store' = [store EXCEPT ![p] = d.state] /\ d.ok
      /\ inbox' = [inbox EXCEPT ![p] = Append(@, m)] /\ sent' = sent
  BY DEF DecryptMessage
<1>c. Loaded(st, used)
  <2>1. /\ DOMAIN store[p] = StateFields /\ store[p].dh_priv \in Key
        /\ store[p].dh_pub_remote \in Key /\ store[p].root_key \in RootKey
    BY DEF IInv, SendTypeOK
  <2>2. /\ DOMAIN st = StateFields /\ st.dh_priv = store[p].dh_priv
        /\ st.dh_pub_remote = store[p].dh_pub_remote /\ st.root_key = store[p].root_key
        /\ st.recv_msg_num = store[p].recv_msg_num /\ st.order = <<>>
        /\ st.skipped = store[p].skipped /\ st.recv_chain_key = store[p].recv_chain_key
    BY <2>1 DEF Reload, StateFields
  <2> HIDE DEF st
  <2>3. ReceiveOK(p)
    BY DEF RecvInv
  <2> QED
    BY <2>1, <2>2, <2>3 DEF Loaded, ReceiveOK
<1> HIDE DEF st
<1>1. /\ m.mk \notin used
      /\ Forgets(d.state.skipped, d.state.recv_chain_key, d.state.root_key, used \cup {m.mk})
      /\ IsFiniteSet(DOMAIN d.state.skipped)
      /\ Cardinality(DOMAIN d.state.skipped) <= MAX_SKIPPED_KEYS
      /\ d.state.recv_msg_num \in Nat
      /\ d.state.order \in Seq(Key \X Nat)
  BY <1>a, <1>b, <1>c, DecryptForgets
<1>2. store'[p] = d.state /\ \A q \in Party : q # p => store'[q] = store[q]
  BY <1>a, <1>b
<1> HIDE DEF d
<1>3. /\ inbox[p] \in Seq(sent) /\ DOMAIN inbox = Party
      /\ inbox'[p] = Append(inbox[p], m)
      /\ \A q \in Party : q # p => inbox'[q] = inbox[q]
  BY <1>b DEF RecvInv
<1>4. /\ inbox'[p] \in Seq(sent) /\ Len(inbox'[p]) = Len(inbox[p]) + 1
      /\ inbox'[p][Len(inbox'[p])] = m
      /\ \A i \in 1 .. Len(inbox'[p]) : i # Len(inbox'[p]) =>
           i \in 1 .. Len(inbox[p]) /\ inbox'[p][i] = inbox[p][i]
  BY <1>3, AppendShape
<1>5. /\ DOMAIN inbox[p] = 1 .. Len(inbox[p]) /\ DOMAIN inbox'[p] = 1 .. Len(inbox'[p])
      /\ Len(inbox[p]) \in Nat
  BY <1>3, <1>4
<1>6. Accepted(p)' = Accepted(p) \cup {m}
  <2>1. Len(inbox'[p]) \in DOMAIN inbox'[p]
    BY <1>4, <1>5
  <2>2. \A i \in DOMAIN inbox[p] : i \in DOMAIN inbox'[p] /\ inbox'[p][i] = inbox[p][i]
    BY <1>4, <1>5
  <2> QED
    BY <1>4, <1>5, <2>1, <2>2 DEF Accepted
<1>7. UsedKeys(p)' = used \cup {m.mk}
  BY <1>6 DEF UsedKeys
<1>8. \A i \in 1 .. Len(inbox[p]) : inbox[p][i] # m
  BY <1>1, <1>5 DEF UsedKeys, Accepted
<1>9. NoReplay'
  <2> SUFFICES ASSUME NEW q \in Party, NEW i \in DOMAIN inbox'[q], NEW j \in DOMAIN inbox'[q],
                      inbox'[q][i] = inbox'[q][j]
               PROVE  i = j
    BY DEF NoReplay
  <2>1. CASE q # p
    BY <2>1, <1>3 DEF RecvInv, NoReplay
  <2>2. CASE q = p
    <3>1. i \in 1 .. Len(inbox'[p]) /\ j \in 1 .. Len(inbox'[p])
      BY <2>2, <1>5
    <3>2. CASE i # Len(inbox'[p]) /\ j # Len(inbox'[p])
      <4>1. /\ i \in DOMAIN inbox[p] /\ j \in DOMAIN inbox[p]
            /\ inbox[p][i] = inbox[p][j]
        BY <2>2, <3>1, <3>2, <1>4, <1>5
      <4> QED
        BY <4>1 DEF RecvInv, NoReplay
    <3>3. CASE i = Len(inbox'[p]) \/ j = Len(inbox'[p])
      BY <2>2, <3>1, <3>3, <1>4, <1>8
    <3> QED
      BY <3>2, <3>3
  <2> QED
    BY <2>1, <2>2
<1>10. inbox' \in [Party -> Seq(sent')]
  <2>1. ASSUME NEW q \in Party PROVE inbox'[q] \in Seq(sent')
    BY <1>b, <1>3, <1>4 DEF RecvInv
  <2> QED
    BY <2>1, <1>b DEF RecvInv
<1>11. ASSUME NEW q \in Party PROVE ReceiveOK(q)'
  <2>1. CASE q = p
    BY <2>1, <1>1, <1>2, <1>7 DEF ReceiveOK
  <2>2. CASE q # p
    <3>1. store'[q] = store[q] /\ UsedKeys(q)' = UsedKeys(q)
      BY <2>2, <1>2, <1>3 DEF UsedKeys, Accepted
    <3> QED
      BY <3>1 DEF RecvInv, ReceiveOK
  <2> QED
    BY <2>1, <2>2
<1> QED
  BY <1>9, <1>10, <1>11 DEF RecvInv

\* Both invariants hold in every state of the conversation.
THEOREM BothSidesHold == Spec => [](IInv /\ RecvInv)
<1>1. Init => IInv /\ RecvInv
  BY InitIInv, InitRecvInv
<1>2. IInv /\ RecvInv /\ [Next]_vars => IInv' /\ RecvInv'
  <2> SUFFICES ASSUME IInv, RecvInv, [Next]_vars PROVE IInv' /\ RecvInv'
    OBVIOUS
  <2>1. ASSUME NEW p \in Party, EncryptMessage(p) PROVE IInv' /\ RecvInv'
    BY <2>1, EncryptPreserves, EncryptRecvInv
  <2>2. ASSUME NEW p \in Party, NEW m \in sent, DecryptMessage(p, m)
        PROVE  IInv' /\ RecvInv'
    BY <2>2, DecryptPreserves, DecryptRecvInv
  <2>3. CASE UNCHANGED vars
    <3>1. IInv'
      BY <2>3 DEF vars, IInv, SendTypeOK, KeysOwned, SendChainFresh, SentNumbered,
         NoHeaderReuse, OpenedWith
    <3>2. RecvInv'
      BY <2>3 DEF vars, RecvInv, ReceiveOK, NoReplay, UsedKeys, Accepted
    <3> QED
      BY <3>1, <3>2
  <2>4. ASSUME NEW p \in Party, NEW m \in sent, RejectMessage(p, m)
        PROVE  IInv' /\ RecvInv'
    BY <2>3, <2>4 DEF RejectMessage
  <2> QED
    BY <2>1, <2>2, <2>3, <2>4 DEF Next
<1> QED
  BY <1>1, <1>2, PTL DEF Spec

\* Every stored state has the attributes RatchetState declares, for any number of messages
\* and any limits, whatever the channel does.
THEOREM SessionTypes == Spec => []TypeOK
<1>1. IInv /\ RecvInv => TypeOK
  <2> SUFFICES ASSUME IInv, RecvInv, NEW p \in Party
               PROVE  /\ store[p].recv_chain_key \in ChainKey
                      /\ store[p].recv_msg_num \in Nat
                      /\ \A k \in DOMAIN store[p].skipped :
                           k \in Key \X Nat /\ store[p].skipped[k] \in ChainKey
                      /\ store[p].order \in Seq(Key \X Nat)
                      /\ inbox[p] \in Seq(sent)
    BY DEF TypeOK, IInv
  <2>1. ReceiveOK(p) /\ inbox[p] \in Seq(sent)
    BY DEF RecvInv
  <2>2. Forgets(store[p].skipped, store[p].recv_chain_key, store[p].root_key, UsedKeys(p))
    BY <2>1 DEF ReceiveOK
  <2> QED
    BY <2>1, <2>2 DEF ReceiveOK, Forgets
<1> QED
  BY <1>1, BothSidesHold, PTL

\* A payload is returned at most once, however often and however late the channel repeats
\* it: decrypt pops the skipped key it uses and steps the chain past the one it derives.
THEOREM NothingIsReplayed == Spec => []NoReplay
<1>1. IInv /\ RecvInv => NoReplay
  BY DEF RecvInv
<1> QED
  BY <1>1, BothSidesHold, PTL

\* Forward secrecy: what is stored after a message was decrypted never yields the key of
\* that message again, for any number of skipped keys, ratchet steps and reloads.
THEOREM UsedKeysAreGone == Spec => []ForwardSecrecy
<1>1. IInv /\ RecvInv => ForwardSecrecy
  <2> SUFFICES ASSUME IInv, RecvInv, NEW p \in Party, NEW m \in Accepted(p)
               PROVE  /\ \A k \in DOMAIN store[p].skipped : store[p].skipped[k] # m.mk
                      /\ ~(/\ store[p].recv_chain_key.root = m.mk.root
                           /\ store[p].recv_chain_key.step <= m.mk.step)
    BY DEF ForwardSecrecy
  <2>1. m.mk \in UsedKeys(p)
    BY DEF UsedKeys
  <2>2. Forgets(store[p].skipped, store[p].recv_chain_key, store[p].root_key, UsedKeys(p))
    BY DEF RecvInv, ReceiveOK
  <2> QED
    BY <2>1, <2>2 DEF Forgets
<1> QED
  BY <1>1, BothSidesHold, PTL

\* The skipped-key store never exceeds MAX_SKIPPED_KEYS, although the eviction order is
\* lost with every reload: what _store_skipped_key evicts is always a key it has.
THEOREM StoreIsCapped == Spec => []SkippedKeysBounded
<1>1. IInv /\ RecvInv => SkippedKeysBounded
  BY DEF RecvInv, ReceiveOK, SkippedKeysBounded
<1> QED
  BY <1>1, BothSidesHold, PTL

-----------------------------------------------------------------------------
(* The two sides together: as long as nobody decrypts a message of a chain *)
(* its sender had left, what one side derives is what the other side used. *)

\* The headers under which the keys numbered a .. b - 1 of pub are filed.
Headers(pub, a, b) == {<<pub, n>> : n \in a .. b - 1}

\* They are no more than the numbers.
LEMMA HeadersFew ==
  ASSUME NEW pub, NEW a \in Nat, NEW b \in Nat
  PROVE  /\ IsFiniteSet(Headers(pub, a, b))
         /\ Cardinality(Headers(pub, a, b)) \in Nat
         /\ Cardinality(Headers(pub, a, b)) <= Skipped(a, b)
<1> DEFINE S == a .. b - 1
           T == Headers(pub, a, b)
           f == [n \in S |-> <<pub, n>>]
<1>1. IsFiniteSet(S) /\ Cardinality(S) = Skipped(a, b)
  <2>1. b - 1 \in Int /\ a \in Int
    OBVIOUS
  <2>2. IsFiniteSet(S) /\ Cardinality(S) = IF a > b - 1 THEN 0 ELSE (b - 1) - a + 1
    BY <2>1, FS_Interval
  <2> HIDE DEF S
  <2>3. (IF a > b - 1 THEN 0 ELSE (b - 1) - a + 1) = Skipped(a, b)
    BY DEF Skipped
  <2> QED
    BY <2>2, <2>3
<1>2. f \in Surjection(S, T)
  <2>1. f \in [S -> T]
    BY DEF Headers
  <2>2. \A h \in T : \E n \in S : f[n] = h
    BY DEF Headers
  <2> QED
    BY <2>1, <2>2 DEF Surjection
<1> HIDE DEF f, S, T
<1>3. IsFiniteSet(T) /\ Cardinality(T) <= Cardinality(S)
  BY <1>1, <1>2, FS_Surjection
<1>4. Cardinality(T) \in Nat
  BY <1>3, FS_CardinalityType
<1> QED
  BY <1>1, <1>3, <1>4 DEF T

\* What SkipUntil leaves: a key that was filed before, or one of the chain under its number.
LEMMA FiledFrom ==
  ASSUME NEW s, NEW c, NEW pub, NEW from \in Nat, DOMAIN s = {"keys", "order", "ok"}
  PROVE  \A j \in Nat : LET t == Filed(s, c, pub, from)[j]
           IN t.ok => \A k \in DOMAIN t.keys :
                \/ k \in DOMAIN s.keys /\ t.keys[k] = s.keys[k]
                \/ \E i \in 0 .. j - 1 : k = <<pub, from + i>> /\ t.keys[k] = Step(c, i)
<1> DEFINE a == Filed(s, c, pub, from)
           Origin(j, k) == \/ k \in DOMAIN s.keys /\ a[j].keys[k] = s.keys[k]
                           \/ \E i \in 0 .. j - 1 : k = <<pub, from + i>> /\ a[j].keys[k] = Step(c, i)
           S == {j \in Nat : a[j].ok => \A k \in DOMAIN a[j].keys : Origin(j, k)}
<1>1. /\ a[0] = s
      /\ \A j \in Nat : a[j + 1] = StoreSkippedKey(a[j], <<pub, from + j>>, Step(c, j))
  BY FiledDef
<1>2. \A j \in Nat : DOMAIN a[j] = {"keys", "order", "ok"}
  BY FiledOk
<1> HIDE DEF a
<1>3. 0 \in S
  BY <1>1
<1>4. ASSUME NEW j \in Nat, j \in S PROVE j + 1 \in S
  <2> DEFINE key == <<pub, from + j>>
  <2> SUFFICES ASSUME a[j + 1].ok, NEW k \in DOMAIN a[j + 1].keys PROVE Origin(j + 1, k)
    OBVIOUS
  <2>1. a[j + 1] = StoreSkippedKey(a[j], key, Step(c, j))
    BY <1>1
  <2>a. a[j].ok
    <3>1. StoreSkippedKey(a[j], key, Step(c, j)).ok
      BY <2>1, Zenon
    <3>2. DOMAIN a[j] = {"keys", "order", "ok"}
      BY <1>2
    <3> QED
      BY <3>1, <3>2, StoredOk, Zenon
  <2>2. /\ a[j].ok
        /\ a[j + 1].keys[key] = Step(c, j)
        /\ k # key => k \in DOMAIN a[j].keys /\ a[j + 1].keys[k] = a[j].keys[k]
    <3> DEFINE v == a[j]
               t == a[j + 1]
    <3>1. DOMAIN v = {"keys", "order", "ok"} /\ t = StoreSkippedKey(v, key, Step(c, j)) /\ t.ok
      BY <2>1, <1>2
    <3> HIDE DEF v, t
    <3>2. /\ t.keys[key] = Step(c, j)
          /\ \A l \in DOMAIN t.keys : l # key => l \in DOMAIN v.keys /\ t.keys[l] = v.keys[l]
      BY <3>1, StoredOne
    <3> QED
      BY <3>2, <2>a DEF v, t
  <2>3. CASE k = key
    <3>1. j \in 0 .. (j + 1) - 1
      OBVIOUS
    <3> QED
      BY <2>2, <2>3, <3>1
  <2>4. CASE k # key
    <3>1. Origin(j, k)
      BY <1>4, <2>2, <2>4
    <3>2. \A i \in 0 .. j - 1 : i \in 0 .. (j + 1) - 1
      OBVIOUS
    <3> QED
      BY <2>2, <2>4, <3>1, <3>2
  <2> QED
    BY <2>3, <2>4
<1> HIDE DEF S
<1>5. Nat \subseteq S
  BY <1>3, <1>4, SetInduction
<1> QED
  BY <1>5 DEF S, a

\* The set H, no larger than the cap, has the store's headers and the next n of pub, which
\* the store has not.
HasSpace(s, pub, from, n, H) ==
  /\ DOMAIN s = {"keys", "order", "ok"} /\ s.ok
  /\ IsFiniteSet(H) /\ Cardinality(H) <= MAX_SKIPPED_KEYS
  /\ DOMAIN s.keys \subseteq H
  /\ \A i \in 0 .. n - 1 : <<pub, from + i>> \in H /\ <<pub, from + i>> \notin DOMAIN s.keys

\* With room for all the keys nothing fails and nothing is evicted.
LEMMA FiledRoom ==
  ASSUME NEW s, NEW c, NEW pub, NEW from \in Nat, NEW n \in Nat, NEW H,
         HasSpace(s, pub, from, n, H)
  PROVE  /\ Filed(s, c, pub, from)[n].ok
         /\ DOMAIN Filed(s, c, pub, from)[n].keys =
              DOMAIN s.keys \cup Headers(pub, from, from + n)
<1> USE DEF HasSpace
<1> DEFINE a == Filed(s, c, pub, from)
           Old(j) == DOMAIN s.keys \cup {<<pub, from + i>> : i \in 0 .. j - 1}
           S == {j \in Nat : j <= n => a[j].ok /\ DOMAIN a[j].keys = Old(j)}
<1>1. /\ a[0] = s
      /\ \A j \in Nat : a[j + 1] = StoreSkippedKey(a[j], <<pub, from + j>>, Step(c, j))
  BY FiledDef
<1>2. \A j \in Nat : DOMAIN a[j] = {"keys", "order", "ok"}
  BY FiledOk
<1> HIDE DEF a
<1>3. 0 \in S
  <2>1. {<<pub, from + i>> : i \in 0 .. 0 - 1} = {}
    OBVIOUS
  <2> QED
    BY <1>1, <2>1
<1>4. ASSUME NEW j \in Nat, j \in S PROVE j + 1 \in S
  <2> DEFINE key == <<pub, from + j>>
             K == DOMAIN a[j].keys
  <2> SUFFICES ASSUME j + 1 <= n PROVE a[j + 1].ok /\ DOMAIN a[j + 1].keys = Old(j + 1)
    OBVIOUS
  <2>1. a[j + 1] = StoreSkippedKey(a[j], key, Step(c, j))
    BY <1>1
  <2>2. a[j].ok /\ K = Old(j)
    BY <1>4
  <2>3. K \subseteq H
    <3>1. \A i \in 0 .. j - 1 : i \in 0 .. n - 1
      OBVIOUS
    <3> QED
      BY <2>2, <3>1
  <2>4. key \in H /\ key \notin K
    <3>1. j \in 0 .. n - 1
      OBVIOUS
    <3>2. \A i \in 0 .. j - 1 : <<pub, from + i>> # key
      OBVIOUS
    <3>3. key \in H /\ key \notin DOMAIN s.keys
      BY <3>1
    <3> QED
      BY <3>2, <3>3, <2>2
  <2> HIDE DEF K, key
  <2>5. Cardinality(K) < MAX_SKIPPED_KEYS
    <3>1. /\ IsFiniteSet(K) /\ Cardinality(K) <= Cardinality(H)
          /\ Cardinality(H) = Cardinality(K) => H = K
      BY <2>3, FS_Subset
    <3>2. Cardinality(K) \in Nat /\ Cardinality(H) \in Nat
      BY <3>1, FS_CardinalityType
    <3>3. H # K
      BY <2>4
    <3> QED
      BY <3>1, <3>2, <3>3, SkipLimits
  <2>6. ~(Cardinality(DOMAIN a[j].keys) >= MAX_SKIPPED_KEYS)
    <3>1. Cardinality(K) \in Nat
      BY <2>3, FS_Subset, FS_CardinalityType
    <3> QED
      BY <2>5, <3>1, SkipLimits DEF K
  <2>7. a[j + 1].ok
    BY <2>1, <2>2, <2>6 DEF StoreSkippedKey
  <2>8. DOMAIN a[j + 1].keys = K \cup {key}
    <3>1. DOMAIN a[j] = {"keys", "order", "ok"}
      BY <1>2
    <3> DEFINE v == a[j]
               t == a[j + 1]
    <3>2. /\ DOMAIN v = {"keys", "order", "ok"} /\ t = StoreSkippedKey(v, key, Step(c, j)) /\ t.ok
          /\ ~(Cardinality(DOMAIN v.keys) >= MAX_SKIPPED_KEYS)
      BY <2>1, <2>6, <2>7, <3>1
    <3> HIDE DEF v, t
    <3>3. DOMAIN t.keys = DOMAIN v.keys \cup {key}
      BY <3>2, StoredOne
    <3> QED
      BY <3>3 DEF K, v, t
  <2>9. Old(j + 1) = Old(j) \cup {key}
    <3>1. \A i \in Int : i \in 0 .. (j + 1) - 1 <=> (i \in 0 .. j - 1 \/ i = j)
      OBVIOUS
    <3> QED
      BY <3>1 DEF key
  <2> QED
    BY <2>2, <2>7, <2>8, <2>9
<1> HIDE DEF S
<1>5. Nat \subseteq S
  BY <1>3, <1>4, SetInduction
<1>6. a[n].ok /\ DOMAIN a[n].keys = Old(n)
  <2>1. n \in S /\ n <= n
    BY <1>5
  <2> QED
    BY <2>1 DEF S
<1>7. {<<pub, from + i>> : i \in 0 .. n - 1} = Headers(pub, from, from + n)
  <2>1. \A i \in 0 .. n - 1 : from + i \in from .. (from + n) - 1
    OBVIOUS
  <2>2. \A l \in from .. (from + n) - 1 : l - from \in 0 .. n - 1 /\ from + (l - from) = l
    OBVIOUS
  <2> QED
    BY <2>1, <2>2 DEF Headers
<1> QED
  BY <1>6, <1>7 DEF a

\* What a skip leaves in the store was there or is a key of the chain, under its number.
LEMMA SkipUntilFrom ==
  ASSUME NEW s, NEW c, NEW pub, NEW from \in Nat, NEW until \in Nat,
         DOMAIN s = {"keys", "order", "ok"},
         NEW t, t = SkipUntil(s, c, pub, from, until), t.ok,
         NEW k \in DOMAIN t.keys
  PROVE  \/ k \in DOMAIN s.keys /\ t.keys[k] = s.keys[k]
         \/ \E n \in Nat : /\ from <= n /\ n < until
                           /\ k = <<pub, n>> /\ t.keys[k] = Step(c, n - from)
<1>1. ~(until - from > MAX_SKIP_DISTANCE)
  BY DEF SkipUntil
<1>2. CASE until <= from
  BY <1>1, <1>2 DEF SkipUntil
<1>3. CASE ~(until <= from)
  <2> DEFINE j == until - from
  <2>1. j \in Nat
    BY <1>3
  <2>2. t = Filed(s, c, pub, from)[j]
    BY <1>1, <1>3 DEF SkipUntil
  <2>3. CASE k \in DOMAIN s.keys /\ t.keys[k] = s.keys[k]
    BY <2>3
  <2>4. CASE \E i \in 0 .. j - 1 : k = <<pub, from + i>> /\ t.keys[k] = Step(c, i)
    <3>1. PICK i \in 0 .. j - 1 : k = <<pub, from + i>> /\ t.keys[k] = Step(c, i)
      BY <2>4
    <3>2. from + i \in Nat /\ from <= from + i /\ from + i < until /\ (from + i) - from = i
      BY <2>1
    <3> QED
      BY <3>1, <3>2
  <2> HIDE DEF j
  <2> QED
    BY <2>1, <2>2, <2>3, <2>4, FiledFrom
<1> QED
  BY <1>2, <1>3

\* The set H, no larger than the cap, has the store's headers and those that SkipUntil adds,
\* which are within the skip distance and not in the store.
MaySkip(s, pub, from, until, H) ==
  /\ DOMAIN s = {"keys", "order", "ok"} /\ s.ok
  /\ IsFiniteSet(H) /\ Cardinality(H) <= MAX_SKIPPED_KEYS
  /\ DOMAIN s.keys \subseteq H /\ Headers(pub, from, until) \subseteq H
  /\ \A n \in Nat : from <= n => <<pub, n>> \notin DOMAIN s.keys
  /\ Skipped(from, until) <= MAX_SKIP_DISTANCE

\* The store t is s with keys under the headers T added.
Adds(s, t, T) == t.ok /\ DOMAIN t.keys = DOMAIN s.keys \cup T

\* With room for them, every key skipped over is filed and nothing is evicted.
LEMMA SkipUntilRoom ==
  ASSUME NEW s, NEW c, NEW pub, NEW from \in Nat, NEW until \in Nat, NEW H,
         MaySkip(s, pub, from, until, H),
         NEW t, t = SkipUntil(s, c, pub, from, until)
  PROVE  Adds(s, t, Headers(pub, from, until))
<1> USE DEF MaySkip, Adds
<1>1. ~(until - from > MAX_SKIP_DISTANCE)
  BY SkipLimits DEF Skipped
<1>2. CASE until <= from
  <2>1. t = s
    BY <1>1, <1>2 DEF SkipUntil
  <2>2. from .. until - 1 = {}
    BY <1>2
  <2>3. Headers(pub, from, until) = {}
    BY <2>2 DEF Headers
  <2> QED
    BY <2>1, <2>3
<1>3. CASE ~(until <= from)
  <2> DEFINE j == until - from
  <2>1. j \in Nat /\ j \in 0 .. j
    BY <1>3
  <2>2. t = Filed(s, c, pub, from)[j]
    BY <1>1, <1>3 DEF SkipUntil
  <2>3. \A i \in 0 .. j - 1 : from + i \in from .. until - 1 /\ from + i \in Nat /\ from <= from + i
    OBVIOUS
  <2>4. HasSpace(s, pub, from, j, H)
    BY <2>3 DEF HasSpace, Headers
  <2>5. from + j = until
    OBVIOUS
  <2> DEFINE u == Filed(s, c, pub, from)[j]
  <2> HIDE DEF j
  <2>6. u.ok /\ DOMAIN u.keys = DOMAIN s.keys \cup Headers(pub, from, from + j)
    BY <2>1, <2>4, FiledRoom
  <2> QED
    BY <2>2, <2>5, <2>6
<1> QED
  BY <1>2, <1>3

-----------------------------------------------------------------------------
\* The messages of a user, and the headers they carry.
From(q) == {m \in sent : m.from = q}
HeadersOf(q) == {<<m.dh, m.num>> : m \in From(q)}

\* p has the newest public key of the peer.
Follows(p) == store[p].dh_pub_remote = store[Peer(p)].dh_priv

\* One of the two has the other's newest key.  The root key of a side that has it not lacks
\* the one output that the peer mixed in with that key.  A side that cannot send yet has
\* not sent anything, and the sides are as they were initialised.
RootsAgree(p) ==
  LET st == store[p]
      peer == store[Peer(p)]
  IN  /\ Follows(p) \/ Follows(Peer(p))
      /\ Follows(p) /\ Follows(Peer(p)) => st.root_key = peer.root_key
      /\ ~Follows(p) =>
           /\ st.dh_pub_remote < peer.dh_priv
           /\ peer.root_key = Append(st.root_key, DH(peer.dh_priv, st.dh_priv))
           /\ peer.send_chain_key # NoChain /\ peer.send_chain_key.root = peer.root_key
      /\ peer.send_chain_key = NoChain =>
           /\ Follows(p) /\ Follows(Peer(p)) /\ st.send_chain_key # NoChain
           /\ From(Peer(p)) = {}

\* The receiving chain of p is the sending chain of the peer, as far as p has stepped it; a
\* message belongs to the chain of its public key.
ChainsAgree(p) ==
  LET st == store[p]
      peer == store[Peer(p)]
  IN  /\ st.recv_chain_key # NoChain => st.recv_chain_key.step = st.recv_msg_num
      /\ Follows(p) => st.recv_msg_num <= peer.send_msg_num
      /\ Follows(p) /\ peer.send_chain_key # NoChain =>
           st.recv_chain_key # NoChain /\ st.recv_chain_key.root = peer.send_chain_key.root
      /\ \A m \in From(Peer(p)) :
           /\ m.dh = peer.dh_priv \/ m.dh <= st.dh_pub_remote
           /\ m.dh = peer.dh_priv =>
                m.mk.root = peer.send_chain_key.root /\ m.prev = peer.prev_send_chain_len
           /\ m.dh = st.dh_pub_remote =>
                st.recv_chain_key # NoChain /\ m.mk.root = st.recv_chain_key.root

\* The messages of a chain are numbered without a gap, up to the sender's counter; those of
\* the chain that p is in and the peer has left, up to the length the peer announces.
NumbersAgree(p) ==
  LET st == store[p]
      peer == store[Peer(p)]
      Sent(dh, n) == \E l \in From(Peer(p)) : l.dh = dh /\ l.num = n
  IN  /\ \A n \in 0 .. peer.send_msg_num - 1 : Sent(peer.dh_priv, n)
      /\ \A m \in From(Peer(p)) : \A n \in 0 .. m.num - 1 : Sent(m.dh, n)
      /\ ~Follows(p) =>
           /\ \A m \in From(Peer(p)) : m.dh = st.dh_pub_remote => m.num < peer.prev_send_chain_len
           /\ \A n \in 0 .. peer.prev_send_chain_len - 1 : Sent(st.dh_pub_remote, n)

\* A message that p has moved past was decrypted, or its key is filed, or the peer sent
\* enough to have it evicted.  What is filed is the key of a message p has moved past.
KeysKept(p) ==
  LET st == store[p]
  IN  /\ \A m \in From(Peer(p)) : Passed(p, m) =>
           \/ m \in Accepted(p)
           \/ <<m.dh, m.num>> \in DOMAIN st.skipped
           \/ sends[Peer(p)] > MAX_SKIPPED_KEYS
      /\ \A k \in DOMAIN st.skipped : \E m \in From(Peer(p)) :
           k = <<m.dh, m.num>> /\ st.skipped[k] = m.mk /\ Passed(p, m)
      /\ \A m \in From(Peer(p)) : m.dh < st.dh_pub_remote =>
           \E i \in DOMAIN inbox[p] : inbox[p][i].dh = st.dh_pub_remote

\* A user sent at least as many messages as there are headers.
FewHeaders(p) == IsFiniteSet(HeadersOf(p)) /\ Cardinality(HeadersOf(p)) <= sends[p]

Agree == \A p \in Party :
  RootsAgree(p) /\ ChainsAgree(p) /\ NumbersAgree(p) /\ KeysKept(p) /\ FewHeaders(p)

\* The invariant of both sides together, inductive with IInv and RecvInv.
SyncInv == NoStaleChainYet => Agree

-----------------------------------------------------------------------------
\* The types that the arguments below use.
LEMMA SideTypes ==
  ASSUME IInv, RecvInv, NEW p \in Party
  PROVE  /\ Peer(p) \in Party /\ Peer(p) # p /\ Peer(Peer(p)) = p
         /\ \A x \in Party : x = p \/ x = Peer(p)
         /\ nextKey \in Nat /\ sends[p] \in Nat /\ DOMAIN store[p] = StateFields
         /\ store[p].dh_priv \in Nat /\ store[p].dh_priv < nextKey
         /\ store[p].dh_pub_remote \in Nat /\ store[p].dh_pub_remote < nextKey
         /\ store[p].root_key \in RootKey
         /\ store[p].send_chain_key \in ChainKey /\ store[p].recv_chain_key \in ChainKey
         /\ store[p].send_msg_num \in Nat /\ store[p].recv_msg_num \in Nat
         /\ store[p].prev_send_chain_len \in Nat
         /\ \A m \in sent : /\ m \in Message /\ m.dh \in Nat /\ m.num \in Nat /\ m.prev \in Nat
                            /\ m.mk \in ChainKey /\ m.dh < nextKey
<1>1. /\ Peer(p) \in Party /\ Peer(p) # p /\ Peer(Peer(p)) = p
      /\ \A x \in Party : x = p \/ x = Peer(p)
  BY DEF Peer, Party
<1>2. ReceiveOK(p)
  BY DEF RecvInv
<1>3. store[p].recv_msg_num \in Nat /\ store[p].recv_chain_key \in ChainKey
  BY <1>2 DEF ReceiveOK, Forgets
<1> QED
  BY <1>1, <1>3 DEF IInv, SendTypeOK, KeysOwned, Message, Key

\* What encrypt_message does to the state of p, e being the message.
Produced(p, e) ==
  LET st == store[p]
      d == store'[p]
  IN  /\ sent' = sent \cup {e} /\ e.from = p
      /\ e.dh = d.dh_priv /\ e.prev = d.prev_send_chain_len
      /\ e.mk.root = d.send_chain_key.root
      /\ e.num \in Nat /\ d.send_msg_num = e.num + 1
      /\ d.dh_pub_remote = st.dh_pub_remote /\ d.recv_chain_key = st.recv_chain_key
      /\ d.recv_msg_num = st.recv_msg_num /\ d.skipped = st.skipped
      /\ d.send_chain_key # NoChain
      /\ st.send_chain_key # NoChain =>
           /\ d.dh_priv = st.dh_priv /\ d.root_key = st.root_key
           /\ d.prev_send_chain_len = st.prev_send_chain_len /\ e.num = st.send_msg_num
           /\ d.send_chain_key.root = st.send_chain_key.root
      /\ st.send_chain_key = NoChain =>
           /\ d.dh_priv = nextKey /\ d.send_chain_key.root = d.root_key /\ e.num = 0
           /\ d.root_key = Append(st.root_key, DH(nextKey, st.dh_pub_remote))
           /\ d.prev_send_chain_len = st.send_msg_num
      /\ store'[Peer(p)] = store[Peer(p)] /\ inbox' = inbox
      /\ sends'[p] = sends[p] + 1 /\ sends'[Peer(p)] = sends[Peer(p)]

\* encrypt_message produces a message in that way.
LEMMA EncryptProduces ==
  ASSUME IInv, RecvInv, NEW p \in Party, EncryptMessage(p)
  PROVE  \E e : Produced(p, e)
<1> DEFINE st == store[p]
           o == OpenSendChain(Reload(st), nextKey)
           d == AfterEncrypt(o)
           rk == Append(st.root_key, DH(nextKey, st.dh_pub_remote))
<1>a. /\ DOMAIN st = StateFields /\ st.root_key \in RootKey /\ st.dh_pub_remote \in Key
      /\ nextKey \in Key /\ st.send_msg_num \in Nat /\ st.prev_send_chain_len \in Nat
      /\ st.send_chain_key \in ChainKey /\ Peer(p) \in Party /\ Peer(p) # p
  BY SideTypes DEF Key
<1>b. /\ store' = [store EXCEPT ![p] = d] /\ inbox' = inbox
      /\ sent' = sent \cup {[from |-> p, id |-> sends[p], num |-> MessageOf(o).num,
                             prev |-> MessageOf(o).prev, dh |-> MessageOf(o).dh,
                             mk |-> MessageOf(o).mk]}
      /\ sends' = [sends EXCEPT ![p] = @ + 1]
  BY DEF EncryptMessage
<1>1. /\ DOMAIN o = StateFields
      /\ st.send_chain_key # NoChain => SendSide(o) = SendSide(st)
      /\ st.send_chain_key = NoChain => SendSide(o) =
           <<nextKey, st.dh_pub_remote, rk, [root |-> rk, step |-> 0], 0, st.send_msg_num>>
  BY <1>a, OpenSendSide
<1>2. SendSide(d) = <<o.dh_priv, o.dh_pub_remote, o.root_key, Step(o.send_chain_key, 1),
                      o.send_msg_num + 1, o.prev_send_chain_len>>
  BY <1>1, AfterEncryptSendSide
<1>3. /\ d.recv_chain_key = st.recv_chain_key /\ d.recv_msg_num = st.recv_msg_num
      /\ d.skipped = st.skipped
  BY <1>a, EncryptRecvSide
<1>4. DOMAIN store = Party /\ DOMAIN sends = Party
  BY DEF IInv, SendTypeOK
<1> HIDE DEF o, d
<1>5. /\ store'[p] = d /\ store'[Peer(p)] = store[Peer(p)]
      /\ sends'[p] = sends[p] + 1 /\ sends'[Peer(p)] = sends[Peer(p)]
  BY <1>4, <1>a, <1>b
<1> DEFINE e == [from |-> p, id |-> sends[p], num |-> o.send_msg_num,
                 prev |-> o.prev_send_chain_len, dh |-> o.dh_priv, mk |-> o.send_chain_key]
<1>6. sent' = sent \cup {e}
  BY <1>b DEF MessageOf
<1>7. rk \in RootKey
  BY <1>a, AppendLast DEF DH, DHOutput, Key
<1>8. /\ o.dh_pub_remote = st.dh_pub_remote
      /\ st.send_chain_key # NoChain =>
           /\ o.dh_priv = st.dh_priv /\ o.root_key = st.root_key
           /\ o.prev_send_chain_len = st.prev_send_chain_len
           /\ o.send_msg_num = st.send_msg_num /\ o.send_chain_key = st.send_chain_key
      /\ st.send_chain_key = NoChain =>
           /\ o.dh_priv = nextKey /\ o.root_key = rk
           /\ o.prev_send_chain_len = st.send_msg_num
           /\ o.send_msg_num = 0 /\ o.send_chain_key = [root |-> rk, step |-> 0]
  BY <1>1 DEF SendSide
<1> HIDE DEF rk
<1>9. o.send_chain_key \in ChainKey /\ o.send_chain_key.step \in Nat /\ o.send_msg_num \in Nat
  BY <1>7, <1>8, <1>a DEF ChainKey
<1>10. /\ d.dh_priv = o.dh_priv /\ d.dh_pub_remote = o.dh_pub_remote /\ d.root_key = o.root_key
       /\ d.send_chain_key = Step(o.send_chain_key, 1) /\ d.send_msg_num = o.send_msg_num + 1
       /\ d.prev_send_chain_len = o.prev_send_chain_len
  BY <1>2 DEF SendSide
<1>11. /\ d.send_chain_key.root = o.send_chain_key.root /\ d.send_chain_key.step # 0
       /\ d.send_chain_key # NoChain
  <2>1. /\ Step(o.send_chain_key, 1).root = o.send_chain_key.root
        /\ Step(o.send_chain_key, 1).step = o.send_chain_key.step + 1
    BY <1>9, StepFacts
  <2> QED
    BY <1>9, <1>10, <2>1 DEF NoChain
<1>12. /\ e.from = p /\ e.num = o.send_msg_num /\ e.prev = o.prev_send_chain_len
       /\ e.dh = o.dh_priv /\ e.mk = o.send_chain_key
  OBVIOUS
<1> HIDE DEF e
<1>13. Produced(p, e)
  BY <1>3, <1>5, <1>6, <1>8, <1>9, <1>10, <1>11, <1>12, <1>b DEF Produced, rk
<1> QED
  BY <1>13

\* The initial sessions agree.
LEMMA InitAgree == Init => Agree
<1> SUFFICES ASSUME Init, NEW p \in Party
             PROVE  RootsAgree(p) /\ ChainsAgree(p) /\ NumbersAgree(p) /\ KeysKept(p) /\ FewHeaders(p)
  BY DEF Agree
<1> DEFINE rk == Append(<<>>, DH(1, 0))
<1>1. DH(1, 0) = DH(0, 1) /\ rk # <<>>
  BY DEF DH
<1>2. rk = Append(<<>>, DH(0, 1))
  BY <1>1
<1> HIDE DEF rk
<1>3. store["alice"] = NewState(1, 0, [root |-> rk, step |-> 0], NoChain)
  BY DEF Init, InitialState, InitializeAsAlice, HkdfChain, Party, rk
<1>4. store["bob"] = NewState(0, 1, NoChain, [root |-> rk, step |-> 0])
  BY <1>2 DEF Init, InitialState, InitializeAsBob, HkdfChain, Party
<1>5. \A x \in Party : store[x].root_key = rk
  BY <1>1, <1>2, <1>3, <1>4 DEF NewState, HkdfRoot, Party, rk
<1>6. \A x \in Party : /\ store[x].send_msg_num = 0 /\ store[x].recv_msg_num = 0
                       /\ store[x].skipped = <<>> /\ store[x].prev_send_chain_len = 0
  BY <1>3, <1>4 DEF NewState, Party
<1>7. /\ store["alice"].dh_priv = 1 /\ store["alice"].dh_pub_remote = 0
      /\ store["alice"].send_chain_key = [root |-> rk, step |-> 0]
      /\ store["alice"].recv_chain_key = NoChain
      /\ store["bob"].dh_priv = 0 /\ store["bob"].dh_pub_remote = 1
      /\ store["bob"].send_chain_key = NoChain
      /\ store["bob"].recv_chain_key = [root |-> rk, step |-> 0]
  BY <1>3, <1>4 DEF NewState
<1>8. [root |-> rk, step |-> 0] # NoChain
  BY <1>1 DEF NoChain
<1>9. \A x \in Party : From(x) = {} /\ sends[x] = 0
  BY DEF Init, From
<1>10. Peer(p) \in Party /\ Peer("alice") = "bob" /\ Peer("bob") = "alice" /\ (p = "alice" \/ p = "bob")
  BY DEF Peer, Party
<1>11. Follows("alice") /\ Follows("bob")
  BY <1>7, <1>10 DEF Follows
<1>12. RootsAgree(p)
  <2>1. store[p].root_key = store[Peer(p)].root_key /\ From(Peer(p)) = {}
    BY <1>5, <1>9, <1>10
  <2>2. store[Peer(p)].send_chain_key = NoChain => store[p].send_chain_key # NoChain
    BY <1>7, <1>8, <1>10
  <2> QED
    BY <2>1, <2>2, <1>10, <1>11 DEF RootsAgree
<1>13. ChainsAgree(p)
  BY <1>6, <1>7, <1>8, <1>9, <1>10, <1>11 DEF ChainsAgree
<1>14. NumbersAgree(p)
  BY <1>6, <1>9, <1>10, <1>11 DEF NumbersAgree
<1>15. KeysKept(p)
  BY <1>6, <1>9, <1>10 DEF KeysKept
<1>16. FewHeaders(p)
  <2>1. HeadersOf(p) = {}
    BY <1>9 DEF HeadersOf
  <2> QED
    BY <2>1, <1>9, FS_EmptySet DEF FewHeaders
<1> QED
  BY <1>12, <1>13, <1>14, <1>15, <1>16

\* encrypt_message on an open sending chain.
LEMMA EncryptInChain ==
  ASSUME IInv, RecvInv, Agree, NEW p \in Party, store[p].send_chain_key # NoChain,
         NEW e, Produced(p, e)
  PROVE  LET q == Peer(p)
         IN  /\ RootsAgree(p)' /\ ChainsAgree(p)' /\ NumbersAgree(p)' /\ KeysKept(p)'
             /\ RootsAgree(q)' /\ ChainsAgree(q)' /\ NumbersAgree(q)' /\ KeysKept(q)'
<1> DEFINE q == Peer(p)
<1>1. /\ q \in Party /\ q # p /\ Peer(q) = p
      /\ store[p].dh_priv \in Nat /\ store[q].dh_pub_remote \in Nat
      /\ store[p].send_msg_num \in Nat /\ store[q].recv_msg_num \in Nat
  BY SideTypes
<1>2. /\ sent' = sent \cup {e} /\ e.from = p /\ e.dh = store[p].dh_priv
      /\ e.prev = store[p].prev_send_chain_len /\ e.mk.root = store[p].send_chain_key.root
      /\ e.num = store[p].send_msg_num
      /\ store'[p].send_msg_num = store[p].send_msg_num + 1
      /\ store'[p].dh_pub_remote = store[p].dh_pub_remote
      /\ store'[p].recv_chain_key = store[p].recv_chain_key
      /\ store'[p].recv_msg_num = store[p].recv_msg_num
      /\ store'[p].skipped = store[p].skipped
      /\ store'[p].send_chain_key # NoChain
      /\ store'[p].send_chain_key.root = store[p].send_chain_key.root
      /\ store'[p].dh_priv = store[p].dh_priv /\ store'[p].root_key = store[p].root_key
      /\ store'[p].prev_send_chain_len = store[p].prev_send_chain_len
      /\ store'[q] = store[q] /\ inbox' = inbox
      /\ sends'[p] = sends[p] + 1 /\ sends'[q] = sends[q]
  BY DEF Produced
<1>3. From(p)' = From(p) \cup {e} /\ From(q)' = From(q)
  BY <1>1, <1>2 DEF From
<1>4. /\ Follows(p)' = Follows(p) /\ Follows(q)' = Follows(q)
      /\ Accepted(p)' = Accepted(p) /\ Accepted(q)' = Accepted(q)
  BY <1>1, <1>2 DEF Follows, Accepted
<1>5. \A m : Passed(p, m)' = Passed(p, m) /\ Passed(q, m)' = Passed(q, m)
  BY <1>1, <1>2 DEF Passed
<1>6. /\ RootsAgree(p) /\ ChainsAgree(p) /\ NumbersAgree(p) /\ KeysKept(p)
      /\ RootsAgree(q) /\ ChainsAgree(q) /\ NumbersAgree(q) /\ KeysKept(q)
  BY <1>1 DEF Agree
<1> HIDE DEF q
<1>7. RootsAgree(p)'
  BY <1>1, <1>2, <1>3, <1>4, <1>6 DEF RootsAgree, q
<1>8. ChainsAgree(p)'
  BY <1>1, <1>2, <1>3, <1>4, <1>6 DEF ChainsAgree, q
<1>9. NumbersAgree(p)'
  BY <1>1, <1>2, <1>3, <1>4, <1>6 DEF NumbersAgree, q
<1>10. KeysKept(p)'
  BY <1>1, <1>2, <1>3, <1>4, <1>5, <1>6 DEF KeysKept, q
<1>11. RootsAgree(q)'
  BY <1>1, <1>2, <1>3, <1>4, <1>6 DEF RootsAgree, q
<1>12. ChainsAgree(q)'
  <2>1. Follows(q) => e.dh = store[q].dh_pub_remote
    BY <1>1, <1>2 DEF Follows
  <2>2. ~Follows(q) => e.dh # store[q].dh_pub_remote
    BY <1>1, <1>2 DEF Follows
  <2> QED
    BY <2>1, <2>2, <1>1, <1>2, <1>3, <1>4, <1>6 DEF ChainsAgree, q
<1>13. NumbersAgree(q)'
  <2> DEFINE Sent(dh, n) == \E l \in From(p) : l.dh = dh /\ l.num = n
             Sent2(dh, n) == \E l \in From(p)' : l.dh = dh /\ l.num = n
  <2>1. /\ \A n \in 0 .. store[p].send_msg_num - 1 : Sent(store[p].dh_priv, n)
        /\ \A m \in From(p) : \A n \in 0 .. m.num - 1 : Sent(m.dh, n)
        /\ ~Follows(q) =>
             /\ \A m \in From(p) : m.dh = store[q].dh_pub_remote => m.num < store[p].prev_send_chain_len
             /\ \A n \in 0 .. store[p].prev_send_chain_len - 1 : Sent(store[q].dh_pub_remote, n)
    BY <1>1, <1>6 DEF NumbersAgree
  <2>2. /\ \A dh, n : Sent(dh, n) => Sent2(dh, n)
        /\ Sent2(e.dh, e.num)
    BY <1>3
  <2>3. ~Follows(q) => e.dh # store[q].dh_pub_remote
    BY <1>1, <1>2 DEF Follows
  <2> HIDE DEF Sent, Sent2
  <2>4. \A n \in 0 .. store'[p].send_msg_num - 1 : Sent2(store'[p].dh_priv, n)
    <3>1. ASSUME NEW n \in 0 .. store'[p].send_msg_num - 1 PROVE Sent2(store'[p].dh_priv, n)
      <4>1. n \in 0 .. store[p].send_msg_num - 1 \/ n = store[p].send_msg_num
        BY <1>1, <1>2
      <4> QED
        BY <4>1, <1>2, <2>1, <2>2
    <3> QED
      BY <3>1
  <2>5. \A m \in From(p)' : \A n \in 0 .. m.num - 1 : Sent2(m.dh, n)
    BY <1>2, <1>3, <2>1, <2>2
  <2>6. ~Follows(q)' =>
             /\ \A m \in From(p)' : m.dh = store'[q].dh_pub_remote => m.num < store'[p].prev_send_chain_len
             /\ \A n \in 0 .. store'[p].prev_send_chain_len - 1 : Sent2(store'[q].dh_pub_remote, n)
    BY <1>2, <1>3, <1>4, <2>1, <2>2, <2>3
  <2> QED
    BY <1>1, <2>4, <2>5, <2>6 DEF NumbersAgree, Sent2
<1>14. KeysKept(q)'
  <2>1. ~Passed(q, e) /\ ~(e.dh < store[q].dh_pub_remote)
    BY <1>1, <1>2, <1>6 DEF RootsAgree, ChainsAgree, Passed, Follows
  <2>2. sends[p] \in Nat /\ MAX_SKIPPED_KEYS \in Nat
    BY SideTypes, SkipLimits
  <2>3. ASSUME NEW m \in From(p)', Passed(q, m)'
        PROVE  \/ m \in Accepted(q)'
               \/ <<m.dh, m.num>> \in DOMAIN store'[q].skipped
               \/ sends'[p] > MAX_SKIPPED_KEYS
    <3>1. m \in From(p) /\ Passed(q, m)
      BY <2>1, <2>3, <1>3, <1>5
    <3> QED
      BY <3>1, <2>2, <1>1, <1>2, <1>4, <1>6 DEF KeysKept
  <2>4. ASSUME NEW k \in DOMAIN store'[q].skipped
        PROVE  \E m \in From(p)' :
                 k = <<m.dh, m.num>> /\ store'[q].skipped[k] = m.mk /\ Passed(q, m)'
    BY <1>1, <1>2, <1>3, <1>5, <1>6 DEF KeysKept
  <2>5. ASSUME NEW m \in From(p)', m.dh < store'[q].dh_pub_remote
        PROVE  \E i \in DOMAIN inbox'[q] : inbox'[q][i].dh = store'[q].dh_pub_remote
    BY <2>1, <2>5, <1>1, <1>2, <1>3, <1>6 DEF KeysKept
  <2> QED
    BY <2>3, <2>4, <2>5, <1>1 DEF KeysKept
<1> QED
  BY <1>7, <1>8, <1>9, <1>10, <1>11, <1>12, <1>13, <1>14 DEF q

\* encrypt_message of the side that has not sent anything: it opens its sending chain.
LEMMA EncryptOpens ==
  ASSUME IInv, RecvInv, Agree, NEW p \in Party, store[p].send_chain_key = NoChain,
         NEW e, Produced(p, e)
  PROVE  LET q == Peer(p)
         IN  /\ RootsAgree(p)' /\ ChainsAgree(p)' /\ NumbersAgree(p)' /\ KeysKept(p)'
             /\ RootsAgree(q)' /\ ChainsAgree(q)' /\ NumbersAgree(q)' /\ KeysKept(q)'
<1> DEFINE q == Peer(p)
<1>1. /\ q \in Party /\ q # p /\ Peer(q) = p /\ nextKey \in Nat
      /\ store[q].dh_pub_remote \in Nat /\ store[q].dh_pub_remote < nextKey
      /\ store[p].send_msg_num \in Nat
  BY SideTypes
<1>2. /\ sent' = sent \cup {e} /\ e.from = p /\ e.dh = nextKey
      /\ e.prev = store[p].send_msg_num /\ e.mk.root = store'[p].root_key
      /\ e.num = 0
      /\ store'[p].send_msg_num = 1
      /\ store'[p].dh_pub_remote = store[p].dh_pub_remote
      /\ store'[p].recv_chain_key = store[p].recv_chain_key
      /\ store'[p].recv_msg_num = store[p].recv_msg_num
      /\ store'[p].skipped = store[p].skipped
      /\ store'[p].send_chain_key # NoChain
      /\ store'[p].send_chain_key.root = store'[p].root_key
      /\ store'[p].dh_priv = nextKey
      /\ store'[p].root_key = Append(store[p].root_key, DH(nextKey, store[p].dh_pub_remote))
      /\ store'[p].prev_send_chain_len = store[p].send_msg_num
      /\ store'[q] = store[q] /\ inbox' = inbox
      /\ sends'[p] = sends[p] + 1 /\ sends'[q] = sends[q]
  BY DEF Produced
<1>3. From(p)' = From(p) \cup {e} /\ From(q)' = From(q)
  BY <1>1, <1>2 DEF From
<1>4. /\ Follows(p)' = Follows(p) /\ ~Follows(q)'
      /\ Accepted(p)' = Accepted(p) /\ Accepted(q)' = Accepted(q)
  BY <1>1, <1>2 DEF Follows, Accepted
<1>5. \A m : Passed(p, m)' = Passed(p, m) /\ Passed(q, m)' = Passed(q, m)
  BY <1>1, <1>2 DEF Passed
<1>6. /\ ChainsAgree(p) /\ NumbersAgree(p) /\ KeysKept(p)
      /\ RootsAgree(q) /\ ChainsAgree(q) /\ NumbersAgree(q) /\ KeysKept(q)
  BY <1>1 DEF Agree
<1> HIDE DEF q
<1>7. /\ Follows(p) /\ Follows(q) /\ store[q].send_chain_key # NoChain /\ From(p) = {}
      /\ store[p].root_key = store[q].root_key
  BY <1>1, <1>6 DEF RootsAgree
<1>8. store[p].dh_pub_remote = store[q].dh_priv
  BY <1>7 DEF Follows, q
<1>9. store[p].send_msg_num = 0
  <2> SUFFICES ASSUME store[p].send_msg_num # 0 PROVE FALSE
    OBVIOUS
  <2>1. 0 \in 0 .. store[p].send_msg_num - 1
    BY <1>1
  <2> QED
    BY <2>1, <1>1, <1>6, <1>7 DEF NumbersAgree
<1>10. RootsAgree(p)'
  BY <1>1, <1>2, <1>4, <1>7 DEF RootsAgree, q
<1>11. ChainsAgree(p)'
  BY <1>1, <1>2, <1>3, <1>4, <1>6 DEF ChainsAgree, q
<1>12. NumbersAgree(p)'
  BY <1>1, <1>2, <1>3, <1>4, <1>6 DEF NumbersAgree, q
<1>13. KeysKept(p)'
  BY <1>1, <1>2, <1>3, <1>4, <1>5, <1>6 DEF KeysKept, q
<1>14. RootsAgree(q)'
  BY <1>1, <1>2, <1>4, <1>7, <1>8 DEF RootsAgree
<1>15. ChainsAgree(q)'
  BY <1>1, <1>2, <1>3, <1>4, <1>6, <1>7 DEF ChainsAgree
<1>16. NumbersAgree(q)'
  <2>1. From(p)' = {e}
    BY <1>3, <1>7
  <2>2. /\ \A n \in 0 .. store'[p].send_msg_num - 1 : n = 0
        /\ \A n \in 0 .. e.num - 1 : FALSE
        /\ \A n \in 0 .. store'[p].prev_send_chain_len - 1 : FALSE
        /\ e.dh # store[q].dh_pub_remote
    BY <1>1, <1>2, <1>9
  <2> QED
    BY <2>1, <2>2, <1>1, <1>2 DEF NumbersAgree
<1>17. KeysKept(q)'
  <2>1. ~Passed(q, e) /\ ~(e.dh < store[q].dh_pub_remote)
    BY <1>1, <1>2 DEF Passed
  <2>2. From(p)' = {e} /\ DOMAIN store[q].skipped = {}
    BY <1>1, <1>3, <1>6, <1>7 DEF KeysKept
  <2> QED
    BY <2>1, <2>2, <1>1, <1>2, <1>4, <1>5 DEF KeysKept
<1> QED
  BY <1>10, <1>11, <1>12, <1>13, <1>14, <1>15, <1>16, <1>17 DEF q

\* One more message is at most one more header.
LEMMA EncryptFewHeaders ==
  ASSUME IInv, RecvInv, Agree, NEW p \in Party, NEW e, Produced(p, e)
  PROVE  FewHeaders(p)' /\ FewHeaders(Peer(p))'
<1> DEFINE q == Peer(p)
<1>1. q \in Party /\ q # p /\ sends[p] \in Nat
  BY SideTypes
<1>2. /\ sent' = sent \cup {e} /\ e.from = p
      /\ sends'[p] = sends[p] + 1 /\ sends'[q] = sends[q]
  BY DEF Produced
<1>3. From(p)' = From(p) \cup {e} /\ From(q)' = From(q)
  BY <1>1, <1>2 DEF From
<1>4. FewHeaders(p) /\ FewHeaders(q)
  BY <1>1 DEF Agree
<1>5. HeadersOf(p)' = HeadersOf(p) \cup {<<e.dh, e.num>>} /\ HeadersOf(q)' = HeadersOf(q)
  BY <1>3 DEF HeadersOf
<1> HIDE DEF q
<1>6. FewHeaders(q)'
  BY <1>2, <1>4, <1>5 DEF FewHeaders
<1>7. FewHeaders(p)'
  <2> DEFINE S == HeadersOf(p)
             h == <<e.dh, e.num>>
  <2>1. IsFiniteSet(S) /\ Cardinality(S) <= sends[p] /\ Cardinality(S) \in Nat
    BY <1>4, FS_CardinalityType DEF FewHeaders
  <2> HIDE DEF S, h
  <2>2. /\ IsFiniteSet(S \cup {h})
        /\ Cardinality(S \cup {h}) = Cardinality(S) \/ Cardinality(S \cup {h}) = Cardinality(S) + 1
    BY <2>1, FS_AddElement
  <2>3. Cardinality(S \cup {h}) <= sends[p] + 1
    BY <2>1, <2>2, <1>1
  <2> QED
    BY <2>2, <2>3, <1>2, <1>5 DEF FewHeaders, S, h
<1> QED
  BY <1>6, <1>7 DEF q

\* encrypt_message keeps the two sides together.
LEMMA EncryptAgree ==
  ASSUME IInv, RecvInv, Agree, NEW p \in Party, EncryptMessage(p)
  PROVE  Agree'
<1> DEFINE Good(x) == RootsAgree(x) /\ ChainsAgree(x) /\ NumbersAgree(x) /\ KeysKept(x) /\ FewHeaders(x)
           q == Peer(p)
<1>1. PICK e : Produced(p, e)
  BY EncryptProduces
<1>2. /\ RootsAgree(p)' /\ ChainsAgree(p)' /\ NumbersAgree(p)' /\ KeysKept(p)'
      /\ RootsAgree(q)' /\ ChainsAgree(q)' /\ NumbersAgree(q)' /\ KeysKept(q)'
  BY <1>1, EncryptInChain, EncryptOpens
<1>3. FewHeaders(p)' /\ FewHeaders(q)'
  BY <1>1, EncryptFewHeaders
<1>4. \A x \in Party : x = p \/ x = q
  BY SideTypes
<1> QED
  BY <1>2, <1>3, <1>4 DEF Agree

\* The state that a load gives.
LEMMA ReloadedSide ==
  ASSUME IInv, RecvInv, NEW p \in Party, NEW st, st = Reload(store[p])
  PROVE  /\ Loaded(st, UsedKeys(p))
         /\ DOMAIN st = StateFields /\ SendSide(st) = SendSide(store[p])
         /\ st.dh_priv = store[p].dh_priv /\ st.dh_pub_remote = store[p].dh_pub_remote
         /\ st.root_key = store[p].root_key
         /\ st.recv_msg_num = store[p].recv_msg_num
         /\ st.recv_chain_key = store[p].recv_chain_key /\ st.skipped = store[p].skipped
         /\ DOMAIN StoreOf(st) = {"keys", "order", "ok"} /\ StoreOf(st).ok
         /\ StoreOf(st).keys = store[p].skipped
<1>1. /\ DOMAIN store[p] = StateFields /\ store[p].dh_priv \in Key
      /\ store[p].dh_pub_remote \in Key /\ store[p].root_key \in RootKey
  BY DEF IInv, SendTypeOK
<1>2. /\ DOMAIN st = StateFields /\ st.dh_priv = store[p].dh_priv
      /\ st.dh_pub_remote = store[p].dh_pub_remote /\ st.root_key = store[p].root_key
      /\ st.recv_msg_num = store[p].recv_msg_num /\ st.order = <<>>
      /\ st.skipped = store[p].skipped /\ st.recv_chain_key = store[p].recv_chain_key
  BY <1>1 DEF Reload, StateFields
<1>3. SendSide(st) = SendSide(store[p])
  BY <1>1, ReloadSendSide
<1>4. ReceiveOK(p)
  BY DEF RecvInv
<1>5. Loaded(st, UsedKeys(p))
  BY <1>1, <1>2, <1>4 DEF Loaded, ReceiveOK
<1>6. /\ DOMAIN StoreOf(st) = {"keys", "order", "ok"} /\ StoreOf(st).ok
      /\ StoreOf(st).keys = st.skipped
  BY DEF StoreOf
<1> QED
  BY <1>2, <1>3, <1>5, <1>6

\* What is filed lies behind.
LEMMA FiledIsPast ==
  ASSUME IInv, RecvInv, Agree, NEW p \in Party, NEW dh, NEW n,
         <<dh, n>> \in DOMAIN store[p].skipped
  PROVE  \/ dh < store[p].dh_pub_remote
         \/ dh = store[p].dh_pub_remote /\ n < store[p].recv_msg_num
<1>1. KeysKept(p)
  BY DEF Agree
<1>2. PICK m \in From(Peer(p)) : <<dh, n>> = <<m.dh, m.num>> /\ Passed(p, m)
  BY <1>1 DEF KeysKept
<1> QED
  BY <1>2 DEF Passed

\* The headers that the delivery of m to p files, of the chain p leaves and of m's chain.
FirstNew(p, m) == IF m.dh = store[p].dh_pub_remote THEN store[p].recv_msg_num ELSE 0
LeavesChain(p, m) == m.dh # store[p].dh_pub_remote /\ store[p].recv_chain_key # NoChain
OldHeaders(p, m) ==
  IF LeavesChain(p, m) THEN Headers(store[p].dh_pub_remote, store[p].recv_msg_num, m.prev) ELSE {}
NewHeaders(p, m) == Headers(m.dh, FirstNew(p, m), m.num)

\* They are as many as Gap says.
LEMMA GapIsSkipped ==
  ASSUME IInv, RecvInv, NEW p \in Party, NEW m \in sent
  PROVE  /\ FirstNew(p, m) \in Nat
         /\ Gap(p, m).new = Skipped(FirstNew(p, m), m.num)
         /\ LeavesChain(p, m) => Gap(p, m).old = Skipped(store[p].recv_msg_num, m.prev)
         /\ ~LeavesChain(p, m) => Gap(p, m).old = 0
<1>1. store[p].recv_msg_num \in Nat /\ m.num \in Nat /\ m.prev \in Nat
  BY SideTypes
<1>2. CASE m.dh = store[p].dh_pub_remote
  BY <1>1, <1>2 DEF Gap, FirstNew, LeavesChain, Skipped
<1>3. CASE m.dh # store[p].dh_pub_remote
  BY <1>1, <1>3 DEF Gap, FirstNew, LeavesChain, Skipped
<1> QED
  BY <1>2, <1>3

\* With room for the rest of the old chain, the store in which the header is looked up has
\* every key it had and those of the rest.
LEMMA LookupRoom ==
  ASSUME IInv, RecvInv, Agree, NEW p \in Party, NEW m \in sent,
         NEW H, IsFiniteSet(H), Cardinality(H) <= MAX_SKIPPED_KEYS,
         DOMAIN store[p].skipped \subseteq H, OldHeaders(p, m) \subseteq H,
         Gap(p, m).old <= MAX_SKIP_DISTANCE,
         NEW s, s = LookupStore(Reload(store[p]), m)
  PROVE  s.ok /\ DOMAIN s.keys = DOMAIN store[p].skipped \cup OldHeaders(p, m)
<1> DEFINE st == Reload(store[p])
           s0 == StoreOf(st)
<1>1. /\ st.dh_pub_remote = store[p].dh_pub_remote
      /\ st.recv_msg_num = store[p].recv_msg_num
      /\ st.recv_chain_key = store[p].recv_chain_key
      /\ DOMAIN s0 = {"keys", "order", "ok"} /\ s0.ok
      /\ s0.keys = store[p].skipped
  BY ReloadedSide
<1>2. store[p].recv_msg_num \in Nat /\ m.prev \in Nat
  BY SideTypes
<1> HIDE DEF st, s0
<1>3. s = IF m.dh # store[p].dh_pub_remote THEN SkipRecvChain(s0, st, m.prev) ELSE s0
  BY <1>1 DEF LookupStore, s0, st
<1>4. CASE ~LeavesChain(p, m)
  <2>1. s = s0 /\ OldHeaders(p, m) = {}
    BY <1>1, <1>3, <1>4 DEF LeavesChain, OldHeaders, SkipRecvChain
  <2> QED
    BY <2>1, <1>1
<1>5. CASE LeavesChain(p, m)
  <2> DEFINE c == store[p].recv_chain_key
             u == store[p].dh_pub_remote
             f == store[p].recv_msg_num
  <2>1. s = SkipUntil(s0, c, u, f, m.prev)
    BY <1>1, <1>3, <1>5 DEF LeavesChain, SkipRecvChain
  <2>2. OldHeaders(p, m) = Headers(u, f, m.prev)
    BY <1>5 DEF OldHeaders
  <2>3. Skipped(f, m.prev) <= MAX_SKIP_DISTANCE
    BY <1>5, GapIsSkipped
  <2>4. \A n \in Nat : f <= n => <<u, n>> \notin DOMAIN s0.keys
    <3> SUFFICES ASSUME NEW n \in Nat, f <= n, <<u, n>> \in DOMAIN store[p].skipped PROVE FALSE
      BY <1>1
    <3>1. u < store[p].dh_pub_remote \/ n < f
      BY FiledIsPast
    <3>2. u \in Nat
      BY SideTypes
    <3> QED
      BY <3>1, <3>2, <1>2
  <2>5. f \in Nat
    BY <1>2
  <2> HIDE DEF c, u, f
  <2>6. MaySkip(s0, u, f, m.prev, H)
    BY <2>2, <2>3, <2>4, <1>1 DEF MaySkip
  <2>7. Adds(s0, s, Headers(u, f, m.prev))
    BY <2>1, <2>5, <2>6, <1>2, SkipUntilRoom
  <2> QED
    BY <2>2, <2>7, <1>1 DEF Adds
<1> QED
  BY <1>4, <1>5

\* The receiving chain in which decrypt looks for the key of m.
LEMMA RatchetedSide ==
  ASSUME IInv, RecvInv, NEW p \in Party, NEW m \in sent,
         NEW r, r = Ratcheted(Reload(store[p]), m, nextKey)
  PROVE  /\ DOMAIN r = StateFields
         /\ r.recv_msg_num = FirstNew(p, m) /\ FirstNew(p, m) \in Nat
         /\ m.dh = store[p].dh_pub_remote =>
              /\ r.recv_chain_key = store[p].recv_chain_key
              /\ SendSide(r) = SendSide(store[p])
         /\ m.dh # store[p].dh_pub_remote =>
              /\ r.recv_chain_key = HkdfChain(store[p].root_key, DH(store[p].dh_priv, m.dh))
              /\ SendSide(r) = RatchetedSendSide(store[p], m.dh, nextKey)
         /\ r.recv_chain_key \in ChainKey
<1> DEFINE st == Reload(store[p])
<1>1. /\ DOMAIN st = StateFields /\ SendSide(st) = SendSide(store[p])
      /\ st.dh_priv = store[p].dh_priv /\ st.dh_pub_remote = store[p].dh_pub_remote
      /\ st.root_key = store[p].root_key
      /\ st.recv_msg_num = store[p].recv_msg_num
      /\ st.recv_chain_key = store[p].recv_chain_key
  BY ReloadedSide
<1>2. /\ store[p].recv_msg_num \in Nat /\ store[p].recv_chain_key \in ChainKey
      /\ store[p].root_key \in RootKey /\ store[p].dh_priv \in Key /\ m.dh \in Key
  BY SideTypes DEF Key
<1> HIDE DEF st
<1>3. CASE m.dh = store[p].dh_pub_remote
  <2>1. r = st
    BY <1>1, <1>3 DEF Ratcheted, st
  <2> QED
    BY <2>1, <1>1, <1>2, <1>3 DEF FirstNew
<1>4. CASE m.dh # store[p].dh_pub_remote
  <2>1. r = DhRatchetStep(st, m.dh, nextKey)
    BY <1>1, <1>4 DEF Ratcheted, st
  <2>2. /\ DOMAIN r = StateFields /\ r.recv_msg_num = 0
        /\ r.recv_chain_key = HkdfChain(st.root_key, DH(st.dh_priv, m.dh))
    BY <2>1, <1>1, RatchetStepRecvSide
  <2>3. SendSide(r) = RatchetedSendSide(st, m.dh, nextKey)
    BY <2>1, <1>1, RatchetStepSendSide
  <2>4. RatchetedSendSide(st, m.dh, nextKey) = RatchetedSendSide(store[p], m.dh, nextKey)
    BY <1>1 DEF RatchetedSendSide, SendSide
  <2>5. HkdfChain(store[p].root_key, DH(store[p].dh_priv, m.dh)) \in ChainKey
    <3>1. Append(store[p].root_key, DH(store[p].dh_priv, m.dh)) \in RootKey
      BY <1>2, AppendLast DEF DH, DHOutput, Key
    <3> QED
      BY <3>1 DEF HkdfChain, ChainKey
  <2> QED
    BY <2>2, <2>3, <2>4, <2>5, <1>1, <1>4 DEF FirstNew
<1> QED
  BY <1>3, <1>4

\* The store in which the header is looked up, when filing the rest of the old chain did not raise.
LEMMA LookupFrom ==
  ASSUME IInv, RecvInv, NEW p \in Party, NEW m \in sent,
         NEW s, s = LookupStore(Reload(store[p]), m)
  PROVE  /\ DOMAIN s = {"keys", "order", "ok"}
         /\ s.ok => \A k \in DOMAIN s.keys :
              \/ k \in DOMAIN store[p].skipped /\ s.keys[k] = store[p].skipped[k]
              \/ /\ LeavesChain(p, m)
                 /\ \E n \in Nat : /\ store[p].recv_msg_num <= n /\ n < m.prev
                                   /\ k = <<store[p].dh_pub_remote, n>>
                                   /\ s.keys[k] = Step(store[p].recv_chain_key, n - store[p].recv_msg_num)
         /\ s.ok /\ LeavesChain(p, m) => Skipped(store[p].recv_msg_num, m.prev) <= MAX_SKIP_DISTANCE
<1> DEFINE st == Reload(store[p])
           s0 == StoreOf(st)
<1>1. /\ st.dh_pub_remote = store[p].dh_pub_remote
      /\ st.recv_msg_num = store[p].recv_msg_num
      /\ st.recv_chain_key = store[p].recv_chain_key
      /\ DOMAIN s0 = {"keys", "order", "ok"} /\ s0.ok
      /\ s0.keys = store[p].skipped
  BY ReloadedSide
<1>2. store[p].recv_msg_num \in Nat /\ m.prev \in Nat
  BY SideTypes
<1> HIDE DEF st, s0
<1>3. s = IF m.dh # store[p].dh_pub_remote THEN SkipRecvChain(s0, st, m.prev) ELSE s0
  BY <1>1 DEF LookupStore, s0, st
<1>4. CASE ~LeavesChain(p, m)
  <2>1. s = s0
    BY <1>1, <1>3, <1>4 DEF LeavesChain, SkipRecvChain
  <2> QED
    BY <2>1, <1>1, <1>4
<1>5. CASE LeavesChain(p, m)
  <2> DEFINE c == store[p].recv_chain_key
             u == store[p].dh_pub_remote
             f == store[p].recv_msg_num
             v == m.prev
  <2>1. s = SkipUntil(s0, c, u, f, v)
    BY <1>1, <1>3, <1>5 DEF LeavesChain, SkipRecvChain
  <2>2. f \in Nat /\ v \in Nat
    BY <1>2
  <2> HIDE DEF c, u, f, v
  <2>3. DOMAIN s = {"keys", "order", "ok"}
    BY <2>1, <2>2, <1>1, SkipUntilOk
  <2>4. ASSUME s.ok, NEW k \in DOMAIN s.keys
        PROVE  \/ k \in DOMAIN s0.keys /\ s.keys[k] = s0.keys[k]
               \/ \E n \in Nat : f <= n /\ n < v /\ k = <<u, n>> /\ s.keys[k] = Step(c, n - f)
    BY <2>1, <2>2, <2>4, <1>1, SkipUntilFrom
  <2>5. s.ok => Skipped(f, v) <= MAX_SKIP_DISTANCE
    <3>1. CASE v - f > MAX_SKIP_DISTANCE
      <4>1. s = [s0 EXCEPT !.ok = FALSE]
        BY <2>1, <3>1 DEF SkipUntil
      <4>2. ~s.ok
        BY <4>1, <1>1
      <4> QED
        BY <4>2
    <3>2. CASE ~(v - f > MAX_SKIP_DISTANCE)
      BY <3>2, <2>2, SkipLimits DEF Skipped
    <3> QED
      BY <3>1, <3>2
  <2>6. ASSUME s.ok, NEW k \in DOMAIN s.keys
        PROVE  \/ k \in DOMAIN store[p].skipped /\ s.keys[k] = store[p].skipped[k]
               \/ \E n \in Nat : /\ store[p].recv_msg_num <= n /\ n < m.prev
                                 /\ k = <<store[p].dh_pub_remote, n>>
                                 /\ s.keys[k] = Step(store[p].recv_chain_key, n - store[p].recv_msg_num)
    BY <2>4, <2>6, <1>1 DEF c, u, f, v
  <2> QED
    BY <2>3, <2>5, <2>6, <1>5 DEF f, v
<1> QED
  BY <1>4, <1>5

\* With room for the numbers before m, the store has them.
LEMMA AheadRoom ==
  ASSUME IInv, RecvInv, Agree, NEW p \in Party, NEW m \in sent,
         ~(m.dh < store[p].dh_pub_remote),
         NEW H, IsFiniteSet(H), Cardinality(H) <= MAX_SKIPPED_KEYS,
         NewHeaders(p, m) \subseteq H, Gap(p, m).new <= MAX_SKIP_DISTANCE,
         NEW s, s = LookupStore(Reload(store[p]), m), s.ok, DOMAIN s.keys \subseteq H,
         NEW c, NEW t, t = SkipUntil(s, c, m.dh, FirstNew(p, m), m.num)
  PROVE  Adds(s, t, NewHeaders(p, m))
<1> DEFINE f == FirstNew(p, m)
<1>1. /\ store[p].recv_msg_num \in Nat /\ store[p].dh_pub_remote \in Nat
      /\ m.num \in Nat /\ m.dh \in Nat
  BY SideTypes
<1>2. f \in Nat /\ Skipped(f, m.num) <= MAX_SKIP_DISTANCE
  BY GapIsSkipped
<1>3. DOMAIN s = {"keys", "order", "ok"}
  BY LookupFrom
<1>4. ASSUME NEW n \in Nat, f <= n, <<m.dh, n>> \in DOMAIN s.keys PROVE FALSE
  <2>1. CASE <<m.dh, n>> \in DOMAIN store[p].skipped
    <3>1. \/ m.dh < store[p].dh_pub_remote
          \/ m.dh = store[p].dh_pub_remote /\ n < store[p].recv_msg_num
      BY <2>1, FiledIsPast
    <3> QED
      BY <3>1, <1>1, <1>4 DEF FirstNew
  <2>2. CASE LeavesChain(p, m) /\ \E i \in Nat : <<m.dh, n>> = <<store[p].dh_pub_remote, i>>
    BY <2>2 DEF LeavesChain
  <2> QED
    BY <1>4, <2>1, <2>2, LookupFrom
<1>5. MaySkip(s, m.dh, f, m.num, H)
  BY <1>2, <1>3, <1>4 DEF MaySkip, NewHeaders
<1>6. NewHeaders(p, m) = Headers(m.dh, f, m.num)
  BY DEF NewHeaders
<1> HIDE DEF f
<1>7. t = SkipUntil(s, c, m.dh, f, m.num)
  BY DEF f
<1> QED
  BY <1>1, <1>2, <1>5, <1>6, <1>7, SkipUntilRoom

\* The two ways in which decrypt can return a plaintext.
LEMMA DecryptOk ==
  ASSUME NEW st, NEW m \in Message, NEW fresh,
         NEW r, r = Ratcheted(st, m, fresh), r.recv_msg_num \in Nat,
         NEW s, s = LookupStore(st, m),
         NEW t, t = SkipUntil(s, r.recv_chain_key, m.dh, r.recv_msg_num, m.num),
         \/ /\ <<m.dh, m.num>> \in DOMAIN s.keys /\ s.ok
            /\ s.keys[<<m.dh, m.num>>] = m.mk
         \/ /\ <<m.dh, m.num>> \notin DOMAIN s.keys
            /\ t.ok /\ r.recv_chain_key # NoChain
            /\ Step(r.recv_chain_key, Skipped(r.recv_msg_num, m.num)) = m.mk
  PROVE  Decrypt(st, m, fresh).ok
<1>1. m.num \in Nat
  BY DEF Message
<1> DEFINE hdr == <<m.dh, m.num>>
           n == IF m.num > r.recv_msg_num THEN m.num - r.recv_msg_num ELSE 0
           b1 == s.ok /\ s.keys[hdr] = m.mk
           b2 == t.ok /\ r.recv_chain_key # NoChain /\ Step(r.recv_chain_key, n) = m.mk
           d == Decrypt(st, m, fresh)
<1>2. Skipped(r.recv_msg_num, m.num) = n
  BY <1>1 DEF Skipped
<1>3. d = IF hdr \in DOMAIN s.keys
          THEN [ok |-> b1, state |-> TakeSkippedKey(r, s, hdr)]
          ELSE [ok |-> b2, state |-> StepRecvChain(r, t, n)]
  BY DEF Decrypt, LookupStore, StoreOf
<1>4. (hdr \in DOMAIN s.keys /\ b1) \/ (hdr \notin DOMAIN s.keys /\ b2)
  BY <1>2
<1> HIDE DEF hdr, n, b1, b2, d
<1>5. CASE hdr \in DOMAIN s.keys
  <2>1. d.ok = b1 /\ b1
    BY <1>3, <1>4, <1>5
  <2> QED
    BY <2>1, Zenon DEF d
<1>6. CASE hdr \notin DOMAIN s.keys
  <2>1. d.ok = b2 /\ b2
    BY <1>3, <1>4, <1>6
  <2> QED
    BY <2>1, Zenon DEF d
<1> QED
  BY <1>5, <1>6

\* A union has no more elements than its parts together.
LEMMA UnionCounts ==
  ASSUME NEW S, NEW T, IsFiniteSet(S), IsFiniteSet(T)
  PROVE  /\ IsFiniteSet(S \cup T) /\ Cardinality(S \cup T) \in Nat
         /\ Cardinality(S) \in Nat /\ Cardinality(T) \in Nat
         /\ Cardinality(S \cup T) <= Cardinality(S) + Cardinality(T)
<1>1. IsFiniteSet(S \cup T)
  BY FS_Union
<1>2. Cardinality(S \cup T) = Cardinality(S) + Cardinality(T) - Cardinality(S \cap T)
  BY FS_Union
<1>3. IsFiniteSet(S \cap T)
  BY FS_Intersection
<1>4. /\ Cardinality(S \cup T) \in Nat /\ Cardinality(S \cap T) \in Nat
      /\ Cardinality(S) \in Nat /\ Cardinality(T) \in Nat
  BY <1>1, <1>3, FS_CardinalityType
<1> QED
  BY <1>1, <1>2, <1>4

\* The keys that a delivery files and those filed before are no more than the cap.
LEMMA RoomCounts ==
  ASSUME IInv, RecvInv, NEW p \in Party, NEW m \in sent, HasRoom(p, m),
         NEW H, H = (DOMAIN store[p].skipped \cup OldHeaders(p, m)) \cup NewHeaders(p, m)
  PROVE  IsFiniteSet(H) /\ Cardinality(H) <= MAX_SKIPPED_KEYS
<1> DEFINE K == DOMAIN store[p].skipped
           A == OldHeaders(p, m)
           B == NewHeaders(p, m)
           a == Gap(p, m).old
           b == Gap(p, m).new
<1>1. IsFiniteSet(K)
  BY DEF RecvInv, ReceiveOK
<1>2. /\ store[p].recv_msg_num \in Nat /\ m.num \in Nat /\ m.prev \in Nat
  BY SideTypes
<1>3. IsFiniteSet(A) /\ Cardinality(A) <= a /\ a \in Nat
  <2>1. CASE LeavesChain(p, m)
    <3>1. a = Skipped(store[p].recv_msg_num, m.prev)
      BY <2>1, GapIsSkipped
    <3>2. a \in Nat
      BY <3>1, <1>2 DEF Skipped
    <3>3. A = Headers(store[p].dh_pub_remote, store[p].recv_msg_num, m.prev)
      BY <2>1 DEF OldHeaders
    <3> QED
      BY <3>1, <3>2, <3>3, <1>2, HeadersFew
  <2>2. CASE ~LeavesChain(p, m)
    <3>1. a = 0 /\ A = {}
      BY <2>2, GapIsSkipped DEF OldHeaders
    <3> QED
      BY <3>1, FS_EmptySet
  <2> QED
    BY <2>1, <2>2
<1>4. IsFiniteSet(B) /\ Cardinality(B) <= b /\ b \in Nat
  <2>1. FirstNew(p, m) \in Nat /\ b = Skipped(FirstNew(p, m), m.num)
    BY GapIsSkipped
  <2>2. b \in Nat
    BY <2>1, <1>2 DEF Skipped
  <2>3. B = Headers(m.dh, FirstNew(p, m), m.num)
    BY DEF NewHeaders
  <2> QED
    BY <2>1, <2>2, <2>3, <1>2, HeadersFew
<1>5. Cardinality(K) + a + b <= MAX_SKIPPED_KEYS
  BY DEF HasRoom
<1> HIDE DEF K, A, B, a, b
<1>6. /\ IsFiniteSet(K \cup A) /\ Cardinality(K \cup A) <= Cardinality(K) + Cardinality(A)
      /\ Cardinality(K) \in Nat /\ Cardinality(A) \in Nat /\ Cardinality(K \cup A) \in Nat
  BY <1>1, <1>3, UnionCounts
<1>7. /\ IsFiniteSet((K \cup A) \cup B)
      /\ Cardinality((K \cup A) \cup B) <= Cardinality(K \cup A) + Cardinality(B)
      /\ Cardinality(B) \in Nat /\ Cardinality((K \cup A) \cup B) \in Nat
  BY <1>4, <1>6, UnionCounts
<1>8. H = (K \cup A) \cup B
  BY DEF K, A, B
<1>9. Cardinality((K \cup A) \cup B) <= MAX_SKIPPED_KEYS
  <2> DEFINE k == Cardinality(K)
             x == Cardinality(A)
             y == Cardinality(B)
             z == Cardinality(K \cup A)
             w == Cardinality((K \cup A) \cup B)
  <2>1. /\ k \in Nat /\ x \in Nat /\ y \in Nat /\ z \in Nat /\ w \in Nat /\ a \in Nat /\ b \in Nat
        /\ MAX_SKIPPED_KEYS \in Nat
        /\ x <= a /\ y <= b /\ z <= k + x /\ w <= z + y /\ k + a + b <= MAX_SKIPPED_KEYS
    BY <1>3, <1>4, <1>5, <1>6, <1>7, SkipLimits
  <2> HIDE DEF k, x, y, z, w
  <2>2. w <= MAX_SKIPPED_KEYS
    BY <2>1
  <2> QED
    BY <2>2 DEF w
<1> QED
  BY <1>7, <1>8, <1>9

\* The key of a message of the peer's chain is the one that stepping p's chain arrives at.
LEMMA ChainArrives ==
  ASSUME IInv, RecvInv, Agree, NEW p \in Party, NEW m \in sent, m.from = Peer(p),
         ~Passed(p, m),
         NEW r, r = Ratcheted(Reload(store[p]), m, nextKey)
  PROVE  /\ r.recv_chain_key # NoChain
         /\ r.recv_chain_key.root = m.mk.root /\ r.recv_chain_key.step = r.recv_msg_num
         /\ Step(r.recv_chain_key, Skipped(r.recv_msg_num, m.num)) = m.mk
<1> DEFINE q == Peer(p)
           c == r.recv_chain_key
           n == Skipped(r.recv_msg_num, m.num)
<1>1. /\ q \in Party /\ store[p].dh_pub_remote \in Nat /\ store[p].recv_msg_num \in Nat
      /\ m.num \in Nat /\ m.dh \in Nat /\ m.mk \in ChainKey
      /\ store[p].root_key \in RootKey /\ store[p].dh_priv \in Key /\ m.dh \in Key
  BY SideTypes DEF Key
<1>2. m \in From(q) /\ m.mk.step = m.num
  BY DEF From, IInv, SentNumbered
<1>3. RootsAgree(p) /\ ChainsAgree(p)
  BY DEF Agree
<1>4. /\ r.recv_msg_num = FirstNew(p, m) /\ c \in ChainKey
      /\ m.dh = store[p].dh_pub_remote => c = store[p].recv_chain_key
      /\ m.dh # store[p].dh_pub_remote => c = HkdfChain(store[p].root_key, DH(store[p].dh_priv, m.dh))
  BY RatchetedSide
<1>5. /\ c # NoChain /\ c.root = m.mk.root /\ c.step = r.recv_msg_num
      /\ c.step + n = m.num /\ n \in Nat
  <2>1. CASE m.dh = store[p].dh_pub_remote
    <3>1. c # NoChain /\ c.root = m.mk.root /\ c.step = store[p].recv_msg_num
      BY <2>1, <1>2, <1>3, <1>4 DEF ChainsAgree
    <3>2. ~(m.num < store[p].recv_msg_num) /\ r.recv_msg_num = store[p].recv_msg_num
      BY <2>1, <1>4 DEF Passed, FirstNew
    <3> QED
      BY <3>1, <3>2, <1>1 DEF Skipped
  <2>2. CASE m.dh # store[p].dh_pub_remote
    <3>1. ~(m.dh <= store[p].dh_pub_remote)
      BY <2>2, <1>1 DEF Passed
    <3>2. m.dh = store[q].dh_priv /\ m.mk.root = store[q].send_chain_key.root
      BY <3>1, <1>2, <1>3 DEF ChainsAgree
    <3>3. ~Follows(p)
      BY <2>2, <3>2 DEF Follows
    <3>4. m.mk.root = Append(store[p].root_key, DH(m.dh, store[p].dh_priv))
      BY <3>2, <3>3, <1>3 DEF RootsAgree
    <3>5. DH(m.dh, store[p].dh_priv) = DH(store[p].dh_priv, m.dh)
      BY DEF DH
    <3>6. c.root = m.mk.root /\ c.step = 0
      BY <2>2, <3>4, <3>5, <1>4 DEF HkdfChain
    <3>7. m.mk.root # <<>>
      BY DEF IInv, SentNumbered, OpenedWith
    <3>8. n = m.num /\ r.recv_msg_num = 0
      BY <2>2, <1>1, <1>4 DEF FirstNew, Skipped
    <3> HIDE DEF c, n
    <3> QED
      BY <3>6, <3>7, <3>8, <1>1 DEF NoChain
  <2> QED
    BY <2>1, <2>2
<1> HIDE DEF c, n
<1>6. Step(c, n) \in ChainKey /\ Step(c, n).root = c.root /\ Step(c, n).step = c.step + n
  BY <1>4, <1>5, StepFacts
<1>7. Step(c, n) = m.mk
  BY <1>1, <1>2, <1>5, <1>6, ChainKeyEq
<1> QED
  BY <1>5, <1>7 DEF c, n

\* While the sides agree, a message in flight can be decrypted.
LEMMA AgreeDecrypts ==
  ASSUME IInv, RecvInv, Agree, NEW p \in Party, NEW m \in sent,
         InFlight(p, m), HasRoom(p, m), ~MayBeEvicted(p, m)
  PROVE  Decrypt(Reload(store[p]), m, nextKey).ok
<1> DEFINE st == Reload(store[p])
           r == Ratcheted(st, m, nextKey)
           s == LookupStore(st, m)
           t == SkipUntil(s, r.recv_chain_key, m.dh, r.recv_msg_num, m.num)
           hdr == <<m.dh, m.num>>
           K == store[p].skipped
           H == (DOMAIN K \cup OldHeaders(p, m)) \cup NewHeaders(p, m)
<1>1. /\ m \in Message /\ m.from = Peer(p) /\ m \in From(Peer(p)) /\ m \notin Accepted(p)
      /\ Gap(p, m).old <= MAX_SKIP_DISTANCE /\ Gap(p, m).new <= MAX_SKIP_DISTANCE
  BY SideTypes DEF InFlight, From
<1>2. IsFiniteSet(H) /\ Cardinality(H) <= MAX_SKIPPED_KEYS
  BY RoomCounts
<1>3. DOMAIN K \subseteq H /\ OldHeaders(p, m) \subseteq H /\ NewHeaders(p, m) \subseteq H
      /\ DOMAIN K \cup OldHeaders(p, m) \subseteq H
  OBVIOUS
<1> HIDE DEF st, r, s, t, H
<1>4. s.ok /\ DOMAIN s.keys = DOMAIN K \cup OldHeaders(p, m)
  <2>1. s = LookupStore(Reload(store[p]), m)
    BY DEF s, st
  <2> QED
    BY <2>1, <1>1, <1>2, <1>3, LookupRoom
<1>5. r.recv_msg_num = FirstNew(p, m) /\ r.recv_msg_num \in Nat
  BY RatchetedSide DEF r, st
<1>6. KeysKept(p)
  BY DEF Agree
<1>7. CASE Passed(p, m)
  <2>1. hdr \in DOMAIN K
    BY <1>1, <1>6, <1>7 DEF KeysKept, MayBeEvicted
  <2>2. K[hdr] = m.mk
    <3>1. PICK l \in From(Peer(p)) : hdr = <<l.dh, l.num>> /\ K[hdr] = l.mk
      BY <2>1, <1>6 DEF KeysKept
    <3>2. l \in sent /\ l.dh = m.dh /\ l.num = m.num
      BY <3>1 DEF From
    <3>3. l = m
      BY <3>2 DEF IInv, NoHeaderReuse
    <3> QED
      BY <3>1, <3>3
  <2>3. hdr \in DOMAIN s.keys
    BY <2>1, <1>4
  <2>4. s.keys[hdr] = m.mk
    <3>1. s = LookupStore(Reload(store[p]), m)
      BY DEF s, st
    <3>2. \/ s.keys[hdr] = K[hdr]
          \/ LeavesChain(p, m) /\ \E n \in Nat : hdr = <<store[p].dh_pub_remote, n>>
      BY <3>1, <2>3, <1>4, LookupFrom
    <3> QED
      BY <3>2, <2>2 DEF LeavesChain
  <2> QED
    BY <2>3, <2>4, <1>1, <1>4, <1>5, DecryptOk DEF r, s, t, st
<1>8. CASE ~Passed(p, m)
  <2>1. ~(m.dh < store[p].dh_pub_remote) /\ hdr \notin DOMAIN K
    BY <1>8, FiledIsPast DEF Passed
  <2>2. hdr \notin OldHeaders(p, m)
    BY DEF OldHeaders, LeavesChain, Headers
  <2>3. hdr \notin DOMAIN s.keys
    BY <2>1, <2>2, <1>4
  <2>4. t.ok
    <3>1. s = LookupStore(Reload(store[p]), m) /\ DOMAIN s.keys \subseteq H
      BY <1>3, <1>4 DEF s, st
    <3>2. t = SkipUntil(s, r.recv_chain_key, m.dh, FirstNew(p, m), m.num)
      BY <1>5 DEF t
    <3>3. Adds(s, t, NewHeaders(p, m))
      BY <3>1, <3>2, <2>1, <1>1, <1>2, <1>3, <1>4, AheadRoom
    <3> QED
      BY <3>3 DEF Adds
  <2>5. /\ r.recv_chain_key # NoChain
        /\ Step(r.recv_chain_key, Skipped(r.recv_msg_num, m.num)) = m.mk
    BY <1>1, <1>8, ChainArrives DEF r, st
  <2> QED
    BY <2>3, <2>4, <2>5, <1>1, <1>5, DecryptOk DEF r, s, t, st
<1> QED
  BY <1>7, <1>8

\* What every decryption does.
Delivered(p, m) ==
  /\ m \in sent /\ m.from = Peer(p)
  /\ sent' = sent /\ sends' = sends
  /\ store'[Peer(p)] = store[Peer(p)] /\ inbox'[Peer(p)] = inbox[Peer(p)]
  /\ Accepted(p)' = Accepted(p) \cup {m}
  /\ \E i \in DOMAIN inbox'[p] : inbox'[p][i].dh = m.dh
  /\ \A i \in DOMAIN inbox[p] : i \in DOMAIN inbox'[p] /\ inbox'[p][i] = inbox[p][i]

\* decrypt_message delivers in that way; the order of the inbox tells what was stale.
LEMMA DecryptDelivers ==
  ASSUME IInv, RecvInv, NEW p \in Party, NEW m \in sent, DecryptMessage(p, m)
  PROVE  /\ Delivered(p, m)
         /\ store'[p] = Decrypt(Reload(store[p]), m, nextKey).state
         /\ NoStaleChainYet' => NoStaleChainYet
         /\ NoStaleChainYet' => \A i \in DOMAIN inbox[p] : inbox[p][i].dh <= m.dh
<1> DEFINE q == Peer(p)
           d == Decrypt(Reload(store[p]), m, nextKey).state
<1>1. /\ m.from = q /\ store' = [store EXCEPT ![p] = d]
      /\ inbox' = [inbox EXCEPT ![p] = Append(@, m)] /\ sent' = sent /\ sends' = sends
  BY DEF DecryptMessage
<1>2. q \in Party /\ q # p /\ \A x \in Party : x = p \/ x = q
  BY SideTypes
<1>3. DOMAIN store = Party /\ DOMAIN inbox = Party /\ inbox[p] \in Seq(sent)
  BY DEF IInv, SendTypeOK, RecvInv
<1> HIDE DEF d, q
<1>4. /\ store'[p] = d /\ store'[q] = store[q]
      /\ inbox'[p] = Append(inbox[p], m) /\ inbox'[q] = inbox[q]
  BY <1>1, <1>2, <1>3
<1>5. /\ inbox'[p] \in Seq(sent) /\ Len(inbox'[p]) = Len(inbox[p]) + 1
      /\ inbox'[p][Len(inbox'[p])] = m
      /\ \A i \in 1 .. Len(inbox'[p]) : i # Len(inbox'[p]) =>
           i \in 1 .. Len(inbox[p]) /\ inbox'[p][i] = inbox[p][i]
  BY <1>3, <1>4, AppendShape
<1>6. /\ DOMAIN inbox[p] = 1 .. Len(inbox[p]) /\ DOMAIN inbox'[p] = 1 .. Len(inbox'[p])
      /\ Len(inbox[p]) \in Nat
  BY <1>3, <1>5
<1>7. Len(inbox'[p]) \in DOMAIN inbox'[p]
  BY <1>5, <1>6
<1>8. \A i \in DOMAIN inbox[p] :
        i \in DOMAIN inbox'[p] /\ inbox'[p][i] = inbox[p][i] /\ i < Len(inbox'[p]) /\ i \in Nat
  BY <1>5, <1>6
<1>9. Accepted(p)' = Accepted(p) \cup {m}
  BY <1>5, <1>6, <1>7, <1>8 DEF Accepted
<1>10. Delivered(p, m)
  BY <1>1, <1>4, <1>5, <1>7, <1>8, <1>9 DEF Delivered, q
<1>11. ASSUME NoStaleChainYet' PROVE NoStaleChainYet
  <2> SUFFICES ASSUME NEW x \in Party, NEW i \in DOMAIN inbox[x], NEW j \in DOMAIN inbox[x], i < j
               PROVE  inbox[x][i].dh <= inbox[x][j].dh
    BY DEF NoStaleChainYet
  <2>1. /\ i \in DOMAIN inbox'[x] /\ j \in DOMAIN inbox'[x]
        /\ inbox'[x][i] = inbox[x][i] /\ inbox'[x][j] = inbox[x][j]
    BY <1>2, <1>4, <1>8
  <2>2. inbox'[x][i].dh <= inbox'[x][j].dh
    BY <1>11, <2>1 DEF NoStaleChainYet
  <2> QED
    BY <2>1, <2>2
<1>12. ASSUME NoStaleChainYet', NEW i \in DOMAIN inbox[p] PROVE inbox[p][i].dh <= m.dh
  BY <1>5, <1>7, <1>8, <1>12 DEF NoStaleChainYet
<1> QED
  BY <1>4, <1>10, <1>11, <1>12 DEF d

\* The receiving half of the state after the key of m was taken out of the store.
Took(p, m) ==
  /\ m.dh = store[p].dh_pub_remote
  /\ SendSide(store'[p]) = SendSide(store[p])
  /\ store'[p].recv_msg_num = store[p].recv_msg_num
  /\ store'[p].recv_chain_key = store[p].recv_chain_key
  /\ DOMAIN store'[p].skipped = DOMAIN store[p].skipped \ {<<m.dh, m.num>>}
  /\ \A k \in DOMAIN store'[p].skipped : store'[p].skipped[k] = store[p].skipped[k]

\* What a delivery files: keys of messages of the chain p leaves, and of those before m.
FilesKeys(p, m, N) ==
  \A k \in DOMAIN N :
    \/ k \in DOMAIN store[p].skipped /\ N[k] = store[p].skipped[k]
    \/ \E l \in From(Peer(p)) :
         /\ k = <<l.dh, l.num>> /\ N[k] = l.mk
         /\ \/ l.dh = store[p].dh_pub_remote /\ m.dh # store[p].dh_pub_remote
            \/ l.dh = m.dh /\ l.num < m.num

\* And all of them, as long as there are fewer headers than the store holds.
FilesAll(p, m, N) ==
  /\ DOMAIN store[p].skipped \subseteq DOMAIN N
  /\ \A l \in From(Peer(p)) :
       \/ l.dh = store[p].dh_pub_remote /\ m.dh # store[p].dh_pub_remote
            /\ store[p].recv_msg_num <= l.num
       \/ l.dh = m.dh /\ FirstNew(p, m) <= l.num /\ l.num < m.num
       => <<l.dh, l.num>> \in DOMAIN N

\* The state after the receiving chain, or the next one, was stepped past m.
Stepped(p, m) ==
  /\ ~Passed(p, m)
  /\ m.dh = store[p].dh_pub_remote => SendSide(store'[p]) = SendSide(store[p])
  /\ m.dh # store[p].dh_pub_remote =>
       SendSide(store'[p]) = RatchetedSendSide(store[p], m.dh, nextKey)
  /\ store'[p].recv_msg_num = m.num + 1
  /\ store'[p].recv_chain_key # NoChain
  /\ store'[p].recv_chain_key.root = m.mk.root
  /\ store'[p].recv_chain_key.step = m.num + 1
  /\ FilesKeys(p, m, store'[p].skipped)
  /\ sends[Peer(p)] <= MAX_SKIPPED_KEYS => FilesAll(p, m, store'[p].skipped)

\* A message that p has not moved past belongs to the chain of the peer or to the one p is in.
LEMMA NotPassed ==
  ASSUME IInv, RecvInv, Agree, NEW p \in Party, NEW m \in sent, m.from = Peer(p),
         ~(m.dh < store[p].dh_pub_remote)
  PROVE  /\ m.dh # store[p].dh_pub_remote =>
              /\ m.dh = store[Peer(p)].dh_priv /\ ~Follows(p)
              /\ m.prev = store[Peer(p)].prev_send_chain_len
         /\ \A l \in From(Peer(p)) : l.dh = m.dh => l.mk.root = m.mk.root
<1> DEFINE q == Peer(p)
<1>1. m \in From(q) /\ ChainsAgree(p)
  BY DEF From, Agree
<1>2. m.dh \in Nat /\ store[p].dh_pub_remote \in Nat
  BY SideTypes
<1>3. CASE m.dh = store[p].dh_pub_remote
  BY <1>1, <1>3 DEF ChainsAgree
<1>4. CASE m.dh # store[p].dh_pub_remote
  <2>1. ~(m.dh <= store[p].dh_pub_remote)
    BY <1>2, <1>4
  <2>2. m.dh = store[q].dh_priv
    BY <1>1, <2>1 DEF ChainsAgree
  <2>3. ~Follows(p)
    BY <2>2, <1>4 DEF Follows
  <2> QED
    BY <2>2, <2>3, <1>1 DEF ChainsAgree
<1> QED
  BY <1>3, <1>4

\* A key filed from a chain is that of the message with its number.
LEMMA FiledIsSent ==
  ASSUME IInv, RecvInv, NEW p \in Party, NEW c \in ChainKey, NEW from \in Nat, c.step = from,
         NEW n \in Nat, from <= n, NEW l \in sent, l.num = n, l.mk.root = c.root
  PROVE  Step(c, n - from) = l.mk
<1> DEFINE j == n - from
<1>1. j \in Nat /\ from + j = n
  OBVIOUS
<1>2. l.mk \in ChainKey /\ l.mk.step = n
  BY SideTypes DEF IInv, SentNumbered
<1> HIDE DEF j
<1>3. Step(c, j) \in ChainKey /\ Step(c, j).root = c.root /\ Step(c, j).step = c.step + j
  BY <1>1, StepFacts
<1> QED
  BY <1>1, <1>2, <1>3, ChainKeyEq DEF j

\* Every key that a delivery files is that of a message.
LEMMA FilesSentKeys ==
  ASSUME IInv, RecvInv, Agree, NEW p \in Party, NEW m \in sent, m.from = Peer(p), ~Passed(p, m),
         NEW r, r = Ratcheted(Reload(store[p]), m, nextKey),
         NEW s, s = LookupStore(Reload(store[p]), m), s.ok,
         NEW t, t = SkipUntil(s, r.recv_chain_key, m.dh, r.recv_msg_num, m.num), t.ok
  PROVE  FilesKeys(p, m, t.keys)
<1> DEFINE q == Peer(p)
           c == r.recv_chain_key
           f == r.recv_msg_num
           u == store[p].dh_pub_remote
<1> SUFFICES ASSUME NEW k \in DOMAIN t.keys
             PROVE  \/ k \in DOMAIN store[p].skipped /\ t.keys[k] = store[p].skipped[k]
                    \/ \E l \in From(q) :
                         /\ k = <<l.dh, l.num>> /\ t.keys[k] = l.mk
                         /\ \/ l.dh = u /\ m.dh # u
                            \/ l.dh = m.dh /\ l.num < m.num
  BY DEF FilesKeys
<1>1. /\ m \in From(q) /\ m.num \in Nat /\ store[p].recv_msg_num \in Nat
      /\ store[p].recv_chain_key \in ChainKey
  BY SideTypes DEF From
<1>2. ~(m.dh < store[p].dh_pub_remote)
  BY DEF Passed
<1>3. NumbersAgree(p) /\ ChainsAgree(p)
  BY DEF Agree
<1>4. f \in Nat /\ c \in ChainKey
  BY RatchetedSide
<1>5. c.root = m.mk.root /\ c.step = f
  BY ChainArrives
<1>6. DOMAIN s = {"keys", "order", "ok"}
  BY LookupFrom
<1>7. CASE \E n \in Nat : f <= n /\ n < m.num /\ k = <<m.dh, n>> /\ t.keys[k] = Step(c, n - f)
  <2>1. PICK n \in Nat : f <= n /\ n < m.num /\ k = <<m.dh, n>> /\ t.keys[k] = Step(c, n - f)
    BY <1>7
  <2>2. n \in 0 .. m.num - 1
    BY <2>1, <1>1
  <2>3. PICK l \in From(q) : l.dh = m.dh /\ l.num = n
    BY <2>2, <1>1, <1>3 DEF NumbersAgree
  <2>4. l \in sent /\ l.mk.root = c.root
    BY <2>3, <1>2, <1>5, NotPassed DEF From
  <2> HIDE DEF c, f
  <2>5. Step(c, n - f) = l.mk
    BY <2>1, <2>3, <2>4, <1>4, <1>5, FiledIsSent
  <2> QED
    BY <2>1, <2>3, <2>5
<1>8. CASE k \in DOMAIN s.keys /\ t.keys[k] = s.keys[k]
  <2>1. CASE k \in DOMAIN store[p].skipped /\ s.keys[k] = store[p].skipped[k]
    BY <2>1, <1>8
  <2>2. CASE /\ LeavesChain(p, m)
             /\ \E n \in Nat : /\ store[p].recv_msg_num <= n /\ n < m.prev
                               /\ k = <<u, n>>
                               /\ s.keys[k] = Step(store[p].recv_chain_key, n - store[p].recv_msg_num)
    <3>1. PICK n \in Nat : /\ store[p].recv_msg_num <= n /\ n < m.prev
                           /\ k = <<u, n>>
                           /\ s.keys[k] = Step(store[p].recv_chain_key, n - store[p].recv_msg_num)
      BY <2>2
    <3>2. m.dh # u /\ store[p].recv_chain_key # NoChain
      BY <2>2 DEF LeavesChain
    <3>3. ~Follows(p) /\ m.prev = store[q].prev_send_chain_len
      BY <3>2, <1>2, NotPassed
    <3>4. m.prev \in Nat
      BY SideTypes
    <3>5. n \in 0 .. store[q].prev_send_chain_len - 1
      BY <3>1, <3>3, <3>4
    <3>6. PICK l \in From(q) : l.dh = u /\ l.num = n
      BY <3>3, <3>5, <1>3 DEF NumbersAgree
    <3>7. /\ l \in sent /\ l.mk.root = store[p].recv_chain_key.root
          /\ store[p].recv_chain_key.step = store[p].recv_msg_num
      BY <3>2, <3>6, <1>3 DEF ChainsAgree, From
    <3>8. Step(store[p].recv_chain_key, n - store[p].recv_msg_num) = l.mk
      BY <3>1, <3>6, <3>7, <1>1, FiledIsSent
    <3> QED
      BY <3>1, <3>2, <3>6, <3>8, <1>8
  <2> QED
    BY <1>8, <2>1, <2>2, LookupFrom
<1> HIDE DEF c, f
<1>9. t = SkipUntil(s, c, m.dh, f, m.num)
  BY DEF c, f
<1> QED
  BY <1>1, <1>4, <1>6, <1>7, <1>8, <1>9, SkipUntilFrom

\* As long as the peer sent no more messages than the store holds, nothing is evicted.
LEMMA FilesAllKeys ==
  ASSUME IInv, RecvInv, Agree, NEW p \in Party, NEW m \in sent, m.from = Peer(p), ~Passed(p, m),
         NEW r, r = Ratcheted(Reload(store[p]), m, nextKey),
         NEW s, s = LookupStore(Reload(store[p]), m), s.ok,
         NEW t, t = SkipUntil(s, r.recv_chain_key, m.dh, r.recv_msg_num, m.num), t.ok,
         sends[Peer(p)] <= MAX_SKIPPED_KEYS
  PROVE  FilesAll(p, m, t.keys)
<1> DEFINE q == Peer(p)
           c == r.recv_chain_key
           f == FirstNew(p, m)
           u == store[p].dh_pub_remote
           K == DOMAIN store[p].skipped
           H == HeadersOf(q)
<1>1. /\ q \in Party /\ m \in From(q) /\ m.num \in Nat /\ m.prev \in Nat
      /\ store[p].recv_msg_num \in Nat
  BY SideTypes DEF From
<1>2. ~(m.dh < u)
  BY DEF Passed
<1>3. NumbersAgree(p) /\ ChainsAgree(p) /\ KeysKept(p) /\ FewHeaders(q)
  BY <1>1 DEF Agree
<1>4. f \in Nat /\ r.recv_msg_num = f
  BY RatchetedSide
<1>5. IsFiniteSet(H) /\ Cardinality(H) <= MAX_SKIPPED_KEYS
  <2>1. IsFiniteSet(H) /\ Cardinality(H) <= sends[q] /\ Cardinality(H) \in Nat
    BY <1>3, FS_CardinalityType DEF FewHeaders
  <2>2. sends[q] \in Nat
    BY <1>1, SideTypes
  <2> HIDE DEF H
  <2> QED
    BY <2>1, <2>2, SkipLimits
<1>6. K \subseteq H
  BY <1>3 DEF KeysKept, HeadersOf
<1>7. OldHeaders(p, m) \subseteq H
  <2> SUFFICES ASSUME LeavesChain(p, m), NEW n \in store[p].recv_msg_num .. m.prev - 1
               PROVE  <<u, n>> \in H
    BY DEF OldHeaders, Headers
  <2>1. m.dh # u
    BY DEF LeavesChain
  <2>2. ~Follows(p) /\ m.prev = store[q].prev_send_chain_len
    BY <2>1, <1>2, NotPassed
  <2>3. n \in 0 .. store[q].prev_send_chain_len - 1
    BY <2>2, <1>1
  <2>4. \E l \in From(q) : l.dh = u /\ l.num = n
    BY <2>2, <2>3, <1>3 DEF NumbersAgree
  <2> QED
    BY <2>4 DEF HeadersOf
<1>8. NewHeaders(p, m) \subseteq H
  <2> SUFFICES ASSUME NEW n \in f .. m.num - 1 PROVE <<m.dh, n>> \in H
    BY DEF NewHeaders, Headers
  <2>1. n \in 0 .. m.num - 1
    BY <1>1, <1>4
  <2>2. \E l \in From(q) : l.dh = m.dh /\ l.num = n
    BY <2>1, <1>1, <1>3 DEF NumbersAgree
  <2> QED
    BY <2>2 DEF HeadersOf
<1>9. Gap(p, m).old <= MAX_SKIP_DISTANCE
  <2>1. LeavesChain(p, m) => Skipped(store[p].recv_msg_num, m.prev) <= MAX_SKIP_DISTANCE
    BY LookupFrom
  <2> QED
    BY <2>1, GapIsSkipped, SkipLimits
<1> HIDE DEF H
<1>10. DOMAIN s.keys = K \cup OldHeaders(p, m)
  BY <1>5, <1>6, <1>7, <1>9, LookupRoom
<1>11. Gap(p, m).new <= MAX_SKIP_DISTANCE
  <2>1. ~(m.num - f > MAX_SKIP_DISTANCE)
    <3> SUFFICES ASSUME m.num - f > MAX_SKIP_DISTANCE PROVE FALSE
      OBVIOUS
    <3>1. t = [s EXCEPT !.ok = FALSE]
      BY <1>4 DEF SkipUntil
    <3>2. "ok" \in DOMAIN s
      BY LookupFrom
    <3>3. ~t.ok
      BY <3>1, <3>2
    <3> QED
      BY <3>3
  <2>2. Skipped(f, m.num) <= MAX_SKIP_DISTANCE
    BY <2>1, <1>1, <1>4, SkipLimits DEF Skipped
  <2> QED
    BY <2>2, GapIsSkipped
<1>12. Adds(s, t, NewHeaders(p, m))
  <2>1. DOMAIN s.keys \subseteq H
    BY <1>6, <1>7, <1>10
  <2>2. t = SkipUntil(s, c, m.dh, FirstNew(p, m), m.num)
    BY <1>4
  <2> HIDE DEF c
  <2> QED
    BY <2>1, <2>2, <1>2, <1>5, <1>8, <1>11, AheadRoom
<1>13. K \cup OldHeaders(p, m) \cup NewHeaders(p, m) \subseteq DOMAIN t.keys
  BY <1>10, <1>12 DEF Adds
<1>14. ASSUME NEW l \in From(q), l.dh = u, m.dh # u, store[p].recv_msg_num <= l.num
       PROVE  <<l.dh, l.num>> \in OldHeaders(p, m)
  <2>1. LeavesChain(p, m)
    BY <1>3, <1>14 DEF ChainsAgree, LeavesChain
  <2>2. ~Follows(p) /\ m.prev = store[q].prev_send_chain_len
    BY <1>2, <1>14, NotPassed
  <2>3. l.num < m.prev /\ l.num \in Nat
    BY <2>2, <1>3, <1>14, SideTypes DEF NumbersAgree, From
  <2>4. l.num \in store[p].recv_msg_num .. m.prev - 1
    BY <2>3, <1>1, <1>14
  <2> QED
    BY <2>1, <2>4, <1>14 DEF OldHeaders, Headers
<1>15. ASSUME NEW l \in From(q), l.dh = m.dh, f <= l.num, l.num < m.num
       PROVE  <<l.dh, l.num>> \in NewHeaders(p, m)
  <2>1. l.num \in Nat
    BY SideTypes DEF From
  <2>2. l.num \in f .. m.num - 1
    BY <2>1, <1>1, <1>4, <1>15
  <2> QED
    BY <2>2, <1>15 DEF NewHeaders, Headers
<1> QED
  BY <1>13, <1>14, <1>15 DEF FilesAll

\* The receiving half after a key was taken out of the store, and after the chain was stepped.
LEMMA ReceiveRecvSide ==
  ASSUME NEW r, NEW s, NEW x, DOMAIN r = StateFields
  PROVE  /\ TakeSkippedKey(r, s, x).recv_msg_num = r.recv_msg_num
         /\ TakeSkippedKey(r, s, x).recv_chain_key = r.recv_chain_key
         /\ DOMAIN TakeSkippedKey(r, s, x).skipped = DOMAIN s.keys \ {x}
         /\ \A k \in DOMAIN s.keys \ {x} : TakeSkippedKey(r, s, x).skipped[k] = s.keys[k]
         /\ StepRecvChain(r, s, x).recv_msg_num = r.recv_msg_num + x + 1
         /\ StepRecvChain(r, s, x).recv_chain_key = Step(r.recv_chain_key, x + 1)
         /\ StepRecvChain(r, s, x).skipped = s.keys
<1>1. /\ TakeSkippedKey(r, s, x).recv_msg_num = r.recv_msg_num
      /\ TakeSkippedKey(r, s, x).recv_chain_key = r.recv_chain_key
      /\ TakeSkippedKey(r, s, x).skipped = Restrict(s.keys, DOMAIN s.keys \ {x})
  BY DEF TakeSkippedKey, StateFields
<1>2. /\ StepRecvChain(r, s, x).recv_msg_num = r.recv_msg_num + x + 1
      /\ StepRecvChain(r, s, x).recv_chain_key = Step(r.recv_chain_key, x + 1)
      /\ StepRecvChain(r, s, x).skipped = s.keys
  BY DEF StepRecvChain, StateFields
<1> QED
  BY <1>1, <1>2 DEF Restrict

\* A message of the chain p is in, or of a later one, whose key is in the store.
LEMMA TakesKey ==
  ASSUME IInv, RecvInv, Agree, NEW p \in Party, NEW m \in sent,
         ~(m.dh < store[p].dh_pub_remote),
         NEW r, r = Ratcheted(Reload(store[p]), m, nextKey),
         NEW s, s = LookupStore(Reload(store[p]), m), s.ok,
         <<m.dh, m.num>> \in DOMAIN s.keys,
         store'[p] = TakeSkippedKey(r, s, <<m.dh, m.num>>)
  PROVE  Took(p, m)
<1> DEFINE hdr == <<m.dh, m.num>>
           st == Reload(store[p])
<1>1. m.dh = store[p].dh_pub_remote
  <2>1. \/ hdr \in DOMAIN store[p].skipped
        \/ \E n \in Nat : hdr = <<store[p].dh_pub_remote, n>>
    BY LookupFrom
  <2>2. CASE hdr \in DOMAIN store[p].skipped
    BY <2>2, FiledIsPast
  <2> QED
    BY <2>1, <2>2
<1>2. /\ DOMAIN r = StateFields /\ r.recv_msg_num = store[p].recv_msg_num
      /\ r.recv_chain_key = store[p].recv_chain_key /\ SendSide(r) = SendSide(store[p])
  BY <1>1, RatchetedSide DEF FirstNew
<1>3. s.keys = store[p].skipped
  <2>1. /\ st.dh_pub_remote = store[p].dh_pub_remote /\ StoreOf(st).keys = store[p].skipped
    BY ReloadedSide
  <2> HIDE DEF st
  <2>2. s = StoreOf(st)
    BY <2>1, <1>1 DEF LookupStore, st
  <2> QED
    BY <2>1, <2>2
<1> HIDE DEF hdr
<1>4. SendSide(store'[p]) = SendSide(r)
  BY <1>2, ReceiveSendSide DEF hdr
<1>5. /\ store'[p].recv_msg_num = r.recv_msg_num
      /\ store'[p].recv_chain_key = r.recv_chain_key
      /\ DOMAIN store'[p].skipped = DOMAIN s.keys \ {hdr}
      /\ \A k \in DOMAIN s.keys \ {hdr} : store'[p].skipped[k] = s.keys[k]
  BY <1>2, ReceiveRecvSide DEF hdr
<1> QED
  BY <1>1, <1>2, <1>3, <1>4, <1>5 DEF Took, hdr

\* A message whose key is not filed and that decrypts has not been passed.
LEMMA DerivedAhead ==
  ASSUME IInv, RecvInv, Agree, NEW p \in Party, NEW m \in sent, m.from = Peer(p),
         ~(m.dh < store[p].dh_pub_remote),
         NEW r, r = Ratcheted(Reload(store[p]), m, nextKey), r.recv_chain_key # NoChain,
         Step(r.recv_chain_key, Skipped(r.recv_msg_num, m.num)) = m.mk
  PROVE  ~Passed(p, m)
<1> SUFFICES ASSUME m.dh = store[p].dh_pub_remote, m.num < store[p].recv_msg_num PROVE FALSE
  BY DEF Passed
<1>1. /\ r.recv_msg_num = store[p].recv_msg_num /\ r.recv_chain_key = store[p].recv_chain_key
      /\ r.recv_chain_key \in ChainKey
  BY RatchetedSide DEF FirstNew
<1>2. m.num \in Nat /\ store[p].recv_msg_num \in Nat
  BY SideTypes
<1>3. Skipped(r.recv_msg_num, m.num) = 0
  BY <1>1, <1>2 DEF Skipped
<1>4. m.mk = r.recv_chain_key
  BY <1>1, <1>3, StepFacts
<1>5. m.mk.step = m.num
  BY DEF IInv, SentNumbered
<1>6. r.recv_chain_key.step = store[p].recv_msg_num
  BY <1>1 DEF Agree, ChainsAgree
<1> QED
  BY <1>2, <1>4, <1>5, <1>6

\* A message that is reached by stepping its chain.
LEMMA StepsChain ==
  ASSUME IInv, RecvInv, Agree, NEW p \in Party, NEW m \in sent, m.from = Peer(p), ~Passed(p, m),
         NEW r, r = Ratcheted(Reload(store[p]), m, nextKey),
         NEW s, s = LookupStore(Reload(store[p]), m),
         NEW t, t = SkipUntil(s, r.recv_chain_key, m.dh, r.recv_msg_num, m.num), t.ok,
         NEW n, n = Skipped(r.recv_msg_num, m.num),
         store'[p] = StepRecvChain(r, t, n)
  PROVE  Stepped(p, m)
<1>1. /\ DOMAIN r = StateFields /\ r.recv_msg_num \in Nat /\ r.recv_chain_key \in ChainKey
      /\ r.recv_msg_num = FirstNew(p, m)
      /\ m.dh = store[p].dh_pub_remote => SendSide(r) = SendSide(store[p])
      /\ m.dh # store[p].dh_pub_remote => SendSide(r) = RatchetedSendSide(store[p], m.dh, nextKey)
  BY RatchetedSide
<1>2. m.num \in Nat /\ store[p].recv_msg_num \in Nat /\ m.mk \in ChainKey /\ m.dh \in Nat
      /\ store[p].dh_pub_remote \in Nat
  BY SideTypes
<1>3. s.ok
  <2>1. DOMAIN s = {"keys", "order", "ok"}
    BY LookupFrom
  <2> DEFINE c == r.recv_chain_key
             f == r.recv_msg_num
             dh == m.dh
             u == m.num
  <2>2. t = SkipUntil(s, c, dh, f, u) /\ f \in Nat /\ u \in Nat
    BY <1>1, <1>2
  <2> HIDE DEF c, f, dh, u
  <2> QED
    BY <2>1, <2>2, SkipUntilOk
<1>4. r.recv_msg_num <= m.num
  BY <1>1, <1>2 DEF FirstNew, Passed
<1>5. n = m.num - r.recv_msg_num /\ n \in Nat /\ r.recv_msg_num + n + 1 = m.num + 1
  BY <1>1, <1>2, <1>4 DEF Skipped
<1>6. r.recv_chain_key.root = m.mk.root /\ r.recv_chain_key.step = r.recv_msg_num
  BY ChainArrives
<1>7. /\ store'[p].recv_msg_num = m.num + 1
      /\ store'[p].recv_chain_key = Step(r.recv_chain_key, n + 1)
      /\ store'[p].skipped = t.keys
  BY <1>1, <1>5, ReceiveRecvSide
<1>8. SendSide(store'[p]) = SendSide(r)
  BY <1>1, ReceiveSendSide
<1>9. /\ store'[p].recv_chain_key.root = m.mk.root
      /\ store'[p].recv_chain_key.step = m.num + 1
  <2>1. n + 1 \in Nat
    BY <1>5
  <2>2. /\ Step(r.recv_chain_key, n + 1).root = r.recv_chain_key.root
        /\ Step(r.recv_chain_key, n + 1).step = r.recv_chain_key.step + (n + 1)
    BY <2>1, <1>1, StepFacts
  <2> QED
    BY <2>2, <1>1, <1>2, <1>5, <1>6, <1>7
<1>10. store'[p].recv_chain_key # NoChain
  BY <1>2, <1>9 DEF NoChain
<1>11. FilesKeys(p, m, t.keys)
  BY <1>3, FilesSentKeys
<1>12. sends[Peer(p)] <= MAX_SKIPPED_KEYS => FilesAll(p, m, t.keys)
  BY <1>3, FilesAllKeys
<1> QED
  BY <1>1, <1>7, <1>8, <1>9, <1>10, <1>11, <1>12 DEF Stepped

\* A decryption takes a key out of the store or steps a chain.
LEMMA DecryptOutcome ==
  ASSUME IInv, RecvInv, Agree, NEW p \in Party, NEW m \in sent, DecryptMessage(p, m),
         ~(m.dh < store[p].dh_pub_remote)
  PROVE  Took(p, m) \/ Stepped(p, m)
<1> DEFINE st == Reload(store[p])
           r == Ratcheted(st, m, nextKey)
           s == LookupStore(st, m)
           d == Decrypt(st, m, nextKey)
           t == SkipUntil(s, r.recv_chain_key, m.dh, r.recv_msg_num, m.num)
           n == Skipped(r.recv_msg_num, m.num)
<1>1. m \in Message /\ st.recv_msg_num \in Nat /\ DOMAIN st = StateFields
  BY ReloadedSide, SideTypes
<1>2. r.recv_msg_num \in Nat
  BY RatchetedSide
<1>3. d.ok /\ m.from = Peer(p)
  BY DEF DecryptMessage
<1>4. store'[p] = d.state
  BY DecryptDelivers
<1>a. /\ r = Ratcheted(Reload(store[p]), m, nextKey) /\ s = LookupStore(Reload(store[p]), m)
      /\ t = SkipUntil(s, r.recv_chain_key, m.dh, r.recv_msg_num, m.num)
  OBVIOUS
<1>b. r = Ratcheted(st, m, nextKey) /\ s = LookupStore(st, m) /\ d = Decrypt(st, m, nextKey)
  OBVIOUS
<1> HIDE DEF st, r, s, d
<1>5. \/ /\ <<m.dh, m.num>> \in DOMAIN s.keys /\ s.ok
         /\ d.state = TakeSkippedKey(r, s, <<m.dh, m.num>>)
      \/ /\ t.ok /\ r.recv_chain_key # NoChain
         /\ Step(r.recv_chain_key, n) = m.mk
         /\ d.state = StepRecvChain(r, t, n)
  BY <1>1, <1>2, <1>3, <1>b, DecryptCases
<1> HIDE DEF t
<1>6. CASE /\ <<m.dh, m.num>> \in DOMAIN s.keys /\ s.ok
           /\ d.state = TakeSkippedKey(r, s, <<m.dh, m.num>>)
  BY <1>6, <1>4, <1>a, TakesKey
<1>7. CASE /\ t.ok /\ r.recv_chain_key # NoChain
           /\ Step(r.recv_chain_key, n) = m.mk
           /\ d.state = StepRecvChain(r, t, n)
  <2>1. ~Passed(p, m)
    BY <1>7, <1>a, <1>3, DerivedAhead
  <2> HIDE DEF n
  <2>2. n = Skipped(r.recv_msg_num, m.num)
    BY DEF n
  <2>3. Stepped(p, m)
    BY <2>1, <2>2, <1>7, <1>a, <1>3, <1>4, StepsChain
  <2> QED
    BY <2>3
<1> QED
  BY <1>5, <1>6, <1>7

\* As long as no message of an abandoned chain is decrypted, what is decrypted is none.
LEMMA NotStale ==
  ASSUME IInv, RecvInv, Agree, NEW p \in Party, NEW m \in sent, DecryptMessage(p, m),
         NoStaleChainYet'
  PROVE  ~(m.dh < store[p].dh_pub_remote)
<1> SUFFICES ASSUME m.dh < store[p].dh_pub_remote PROVE FALSE
  OBVIOUS
<1>1. m \in From(Peer(p))
  BY DEF From, DecryptMessage
<1>2. PICK i \in DOMAIN inbox[p] : inbox[p][i].dh = store[p].dh_pub_remote
  BY <1>1 DEF Agree, KeysKept
<1>3. inbox[p][i].dh <= m.dh
  BY <1>2, DecryptDelivers
<1>4. m.dh \in Nat /\ store[p].dh_pub_remote \in Nat
  BY SideTypes
<1> QED
  BY <1>2, <1>3, <1>4

\* What a decryption leaves as it was.
LEMMA DeliveredFrame ==
  ASSUME IInv, RecvInv, Agree, NEW p \in Party, NEW m, Delivered(p, m), NEW q, q = Peer(p)
  PROVE  /\ q \in Party /\ q # p /\ Peer(q) = p /\ p = Peer(q)
         /\ m \in From(q) /\ From(p)' = From(p) /\ From(q)' = From(q)
         /\ sends' = sends /\ store'[q] = store[q] /\ inbox'[q] = inbox[q]
         /\ Accepted(q)' = Accepted(q) /\ Accepted(p)' = Accepted(p) \cup {m}
         /\ \A l : Passed(q, l)' <=> Passed(q, l)
         /\ RootsAgree(p) /\ ChainsAgree(p) /\ NumbersAgree(p) /\ KeysKept(p)
         /\ RootsAgree(q) /\ ChainsAgree(q) /\ NumbersAgree(q) /\ KeysKept(q)
         /\ KeysKept(q)' /\ FewHeaders(p)' /\ FewHeaders(q)'
<1>1. q \in Party /\ q # p /\ Peer(q) = p /\ p = Peer(q)
  BY SideTypes
<1>2. /\ m \in sent /\ m.from = q /\ sent' = sent /\ sends' = sends /\ store'[q] = store[q]
      /\ inbox'[q] = inbox[q] /\ Accepted(p)' = Accepted(p) \cup {m}
  BY DEF Delivered
<1>3. m \in From(q) /\ From(p)' = From(p) /\ From(q)' = From(q)
  BY <1>2 DEF From
<1>4. Accepted(q)' = Accepted(q)
  BY <1>2 DEF Accepted
<1>5. \A l : Passed(q, l)' <=> Passed(q, l)
  BY <1>2 DEF Passed
<1>6. /\ RootsAgree(p) /\ ChainsAgree(p) /\ NumbersAgree(p) /\ KeysKept(p)
      /\ RootsAgree(q) /\ ChainsAgree(q) /\ NumbersAgree(q) /\ KeysKept(q)
      /\ FewHeaders(p) /\ FewHeaders(q)
  BY <1>1 DEF Agree
<1>7. KeysKept(q)'
  BY <1>1, <1>2, <1>3, <1>4, <1>5, <1>6 DEF KeysKept
<1>8. FewHeaders(p)' /\ FewHeaders(q)'
  BY <1>2, <1>3, <1>6 DEF FewHeaders, HeadersOf
<1> QED
  BY <1>1, <1>2, <1>3, <1>4, <1>5, <1>6, <1>7, <1>8

\* A decryption without a ratchet step leaves all but the receiving half of p alone.
LEMMA SameSendSide ==
  ASSUME IInv, RecvInv, Agree, NEW p \in Party, NEW m, Delivered(p, m), NEW q, q = Peer(p),
         SendSide(store'[p]) = SendSide(store[p])
  PROVE  /\ store'[p].dh_priv = store[p].dh_priv
         /\ store'[p].dh_pub_remote = store[p].dh_pub_remote
         /\ (Follows(p)' <=> Follows(p)) /\ (Follows(q)' <=> Follows(q))
         /\ RootsAgree(p)' /\ RootsAgree(q)' /\ ChainsAgree(q)'
         /\ NumbersAgree(p)' /\ NumbersAgree(q)'
<1>1. /\ q \in Party /\ q # p /\ Peer(q) = p /\ p = Peer(q)
      /\ m \in From(q) /\ From(p)' = From(p) /\ From(q)' = From(q)
      /\ sends' = sends /\ store'[q] = store[q] /\ inbox'[q] = inbox[q]
      /\ RootsAgree(p) /\ ChainsAgree(p) /\ NumbersAgree(p) /\ KeysKept(p)
      /\ RootsAgree(q) /\ ChainsAgree(q) /\ NumbersAgree(q) /\ KeysKept(q)
  BY DeliveredFrame
<1>2. /\ store'[p].dh_priv = store[p].dh_priv
      /\ store'[p].dh_pub_remote = store[p].dh_pub_remote
      /\ store'[p].root_key = store[p].root_key
      /\ store'[p].send_chain_key = store[p].send_chain_key
      /\ store'[p].send_msg_num = store[p].send_msg_num
      /\ store'[p].prev_send_chain_len = store[p].prev_send_chain_len
  BY DEF SendSide
<1>3. (Follows(p)' <=> Follows(p)) /\ (Follows(q)' <=> Follows(q))
  BY <1>1, <1>2 DEF Follows
<1>4. RootsAgree(p)'
  BY <1>1, <1>2, <1>3 DEF RootsAgree
<1>5. RootsAgree(q)'
  BY <1>1, <1>2, <1>3 DEF RootsAgree
<1>6. ChainsAgree(q)'
  BY <1>1, <1>2, <1>3 DEF ChainsAgree
<1>7. NumbersAgree(p)'
  BY <1>1, <1>2, <1>3 DEF NumbersAgree
<1>8. NumbersAgree(q)'
  BY <1>1, <1>2, <1>3 DEF NumbersAgree
<1> QED
  BY <1>2, <1>3, <1>4, <1>5, <1>6, <1>7, <1>8

\* The sides agree when each of the two does.
LEMMA BothAgree ==
  ASSUME NEW p \in Party, NEW q, q = Peer(p),
         RootsAgree(p)', ChainsAgree(p)', NumbersAgree(p)', KeysKept(p)', FewHeaders(p)',
         RootsAgree(q)', ChainsAgree(q)', NumbersAgree(q)', KeysKept(q)', FewHeaders(q)'
  PROVE  Agree'
<1>1. \A x \in Party : x = p \/ x = q
  BY DEF Peer, Party
<1> QED
  BY <1>1 DEF Agree

\* Taking a filed key keeps the sides together.
LEMMA TookAgree ==
  ASSUME IInv, RecvInv, Agree, NEW p \in Party, NEW m, Delivered(p, m), Took(p, m)
  PROVE  Agree'
<1> DEFINE q == Peer(p)
<1>1. /\ From(q)' = From(q) /\ m \in From(q) /\ sends' = sends
      /\ Accepted(p)' = Accepted(p) \cup {m} /\ ChainsAgree(p) /\ KeysKept(p)
      /\ KeysKept(q)' /\ FewHeaders(p)' /\ FewHeaders(q)' /\ store'[q] = store[q]
  BY DeliveredFrame
<1>2. /\ SendSide(store'[p]) = SendSide(store[p])
      /\ store'[p].recv_msg_num = store[p].recv_msg_num
      /\ store'[p].recv_chain_key = store[p].recv_chain_key
      /\ DOMAIN store'[p].skipped = DOMAIN store[p].skipped \ {<<m.dh, m.num>>}
      /\ \A k \in DOMAIN store'[p].skipped : store'[p].skipped[k] = store[p].skipped[k]
  BY DEF Took
<1>3. /\ store'[p].dh_pub_remote = store[p].dh_pub_remote
      /\ Follows(p)' <=> Follows(p)
      /\ RootsAgree(p)' /\ RootsAgree(q)' /\ ChainsAgree(q)'
      /\ NumbersAgree(p)' /\ NumbersAgree(q)'
  BY <1>2, SameSendSide
<1>4. \A l : Passed(p, l)' <=> Passed(p, l)
  BY <1>2, <1>3 DEF Passed
<1>5. \A i \in DOMAIN inbox[p] : i \in DOMAIN inbox'[p] /\ inbox'[p][i] = inbox[p][i]
  BY DEF Delivered
<1>6. ChainsAgree(p)'
  BY <1>1, <1>2, <1>3 DEF ChainsAgree
<1>7. KeysKept(p)'
  <2>1. ASSUME NEW l \in From(q), Passed(p, l)
        PROVE  \/ l \in Accepted(p)'
               \/ <<l.dh, l.num>> \in DOMAIN store'[p].skipped
               \/ sends[q] > MAX_SKIPPED_KEYS
    <3>1. CASE l = m
      BY <3>1, <1>1
    <3>2. CASE l # m
      <4>1. <<l.dh, l.num>> # <<m.dh, m.num>>
        BY <3>2, <1>1 DEF IInv, NoHeaderReuse, From
      <4> QED
        BY <4>1, <2>1, <1>1, <1>2 DEF KeysKept
    <3> QED
      BY <3>1, <3>2
  <2>2. ASSUME NEW k \in DOMAIN store'[p].skipped
        PROVE  \E l \in From(q) : k = <<l.dh, l.num>> /\ store'[p].skipped[k] = l.mk /\ Passed(p, l)
    BY <2>2, <1>1, <1>2 DEF KeysKept
  <2>3. ASSUME NEW l \in From(q), l.dh < store[p].dh_pub_remote
        PROVE  \E i \in DOMAIN inbox'[p] : inbox'[p][i].dh = store[p].dh_pub_remote
    BY <2>3, <1>1, <1>5 DEF KeysKept
  <2> QED
    BY <2>1, <2>2, <2>3, <1>1, <1>3, <1>4 DEF KeysKept
<1> QED
  BY <1>1, <1>3, <1>6, <1>7, BothAgree

\* After a chain was stepped past m, what lies behind p was decrypted, is filed, or the peer
\* sent enough to have it evicted; and nothing else is filed.
LEMMA SteppedKeysKept ==
  ASSUME IInv, RecvInv, Agree, NEW p \in Party, NEW m, Delivered(p, m), Stepped(p, m),
         store'[p].dh_pub_remote = m.dh
  PROVE  KeysKept(p)'
<1> DEFINE q == Peer(p)
           u == store[p].dh_pub_remote
           f == store[p].recv_msg_num
<1>1. /\ From(q)' = From(q) /\ m \in From(q) /\ sends' = sends
      /\ Accepted(p)' = Accepted(p) \cup {m} /\ ChainsAgree(p) /\ KeysKept(p)
      /\ q \in Party
  BY DeliveredFrame
<1>2. /\ ~Passed(p, m) /\ store'[p].recv_msg_num = m.num + 1
      /\ FilesKeys(p, m, store'[p].skipped)
      /\ sends[q] <= MAX_SKIPPED_KEYS => FilesAll(p, m, store'[p].skipped)
  BY DEF Stepped
<1>3. /\ m \in sent /\ u \in Nat /\ f \in Nat /\ m.num \in Nat /\ m.dh \in Nat
      /\ sends[q] \in Nat /\ MAX_SKIPPED_KEYS \in Nat
      /\ \A l \in From(q) : l \in sent /\ l.num \in Nat /\ l.dh \in Nat
  BY <1>1, SideTypes, SkipLimits DEF From
<1>4. u <= m.dh /\ (m.dh = u => f <= m.num)
  BY <1>2, <1>3 DEF Passed
<1>5. \A l \in From(q) : m.dh # u => l.dh = m.dh \/ l.dh <= u
  <2>1. m.dh # u => m.dh = store[q].dh_priv
    BY <1>1, <1>3, <1>4 DEF ChainsAgree
  <2> QED
    BY <2>1, <1>1 DEF ChainsAgree
<1>6. \A l : Passed(p, l)' <=> \/ l.dh < m.dh
                               \/ l.dh = m.dh /\ l.num < m.num + 1
  BY <1>2 DEF Passed
<1>7. \A l \in From(q) : Passed(p, l) => Passed(p, l)'
  <2>1. \A l \in From(q) : Passed(p, l) <=> l.dh < u \/ (l.dh = u /\ l.num < f)
    BY DEF Passed
  <2> HIDE DEF u, f
  <2> QED
    BY <2>1, <1>3, <1>4, <1>6
<1>8. ASSUME NEW l \in From(q), Passed(p, l)', sends[q] <= MAX_SKIPPED_KEYS
      PROVE  l \in Accepted(p)' \/ <<l.dh, l.num>> \in DOMAIN store'[p].skipped
  <2>1. FilesAll(p, m, store'[p].skipped)
    BY <1>2, <1>8
  <2>2. CASE Passed(p, l)
    <3>1. l \in Accepted(p) \/ <<l.dh, l.num>> \in DOMAIN store[p].skipped
      BY <2>2, <1>1, <1>3, <1>8 DEF KeysKept
    <3> QED
      BY <3>1, <2>1, <1>1 DEF FilesAll
  <2>3. CASE l = m
    BY <2>3, <1>1
  <2>4. CASE ~Passed(p, l) /\ l # m
    <3>1. ~(l.dh < u) /\ (l.dh = u => f <= l.num)
      BY <2>4, <1>3 DEF Passed
    <3>2. ~(l.dh = m.dh /\ l.num = m.num)
      BY <2>4, <1>1, <1>3 DEF IInv, NoHeaderReuse
    <3>3. l.dh < m.dh \/ (l.dh = m.dh /\ l.num < m.num + 1)
      BY <1>6, <1>8
    <3>4. l.num \in Nat /\ l.dh \in Nat
      BY <1>3
    <3>5. CASE m.dh = u
      <4>1. l.dh = u
        BY <3>1, <3>3, <3>4, <3>5, <1>3
      <4>2. l.dh = m.dh /\ FirstNew(p, m) <= l.num /\ l.num < m.num
        BY <3>1, <3>2, <3>3, <3>4, <3>5, <4>1, <1>3 DEF FirstNew
      <4> QED
        BY <4>2, <2>1 DEF FilesAll
    <3>6. CASE m.dh # u /\ l.dh = m.dh
      <4>1. l.dh = m.dh /\ FirstNew(p, m) <= l.num /\ l.num < m.num
        BY <3>2, <3>3, <3>4, <3>6, <1>3 DEF FirstNew
      <4> QED
        BY <4>1, <2>1 DEF FilesAll
    <3>7. CASE m.dh # u /\ l.dh # m.dh
      <4>1. l.dh = u /\ f <= l.num
        BY <3>1, <3>4, <3>7, <1>3, <1>5
      <4> QED
        BY <4>1, <3>7, <2>1 DEF FilesAll
    <3> QED
      BY <3>5, <3>6, <3>7
  <2> QED
    BY <2>2, <2>3, <2>4
<1>9. ASSUME NEW k \in DOMAIN store'[p].skipped
      PROVE  \E l \in From(q) : k = <<l.dh, l.num>> /\ store'[p].skipped[k] = l.mk /\ Passed(p, l)'
  <2>1. CASE k \in DOMAIN store[p].skipped /\ store'[p].skipped[k] = store[p].skipped[k]
    <3>1. PICK l \in From(q) : k = <<l.dh, l.num>> /\ store[p].skipped[k] = l.mk /\ Passed(p, l)
      BY <2>1, <1>1 DEF KeysKept
    <3> QED
      BY <3>1, <2>1, <1>7
  <2>2. CASE \E l \in From(q) :
               /\ k = <<l.dh, l.num>> /\ store'[p].skipped[k] = l.mk
               /\ \/ l.dh = u /\ m.dh # u
                  \/ l.dh = m.dh /\ l.num < m.num
    <3>1. PICK l \in From(q) :
               /\ k = <<l.dh, l.num>> /\ store'[p].skipped[k] = l.mk
               /\ \/ l.dh = u /\ m.dh # u
                  \/ l.dh = m.dh /\ l.num < m.num
      BY <2>2
    <3>2. l.dh < m.dh \/ (l.dh = m.dh /\ l.num < m.num + 1)
      BY <3>1, <1>3, <1>4
    <3> QED
      BY <3>1, <3>2, <1>6
  <2> QED
    BY <2>1, <2>2, <1>2 DEF FilesKeys
<1>10. \E i \in DOMAIN inbox'[p] : inbox'[p][i].dh = m.dh
  BY DEF Delivered
<1>11. \A l \in From(q) : Passed(p, l)' => \/ l \in Accepted(p)'
                                           \/ <<l.dh, l.num>> \in DOMAIN store'[p].skipped
                                           \/ sends[q] > MAX_SKIPPED_KEYS
  <2>1. sends[q] <= MAX_SKIPPED_KEYS \/ sends[q] > MAX_SKIPPED_KEYS
    BY <1>3
  <2> QED
    BY <2>1, <1>8
<1> QED
  BY <1>1, <1>9, <1>10, <1>11 DEF KeysKept

\* Stepping the chain p is in keeps the sides together.
LEMMA SteppedAgree ==
  ASSUME IInv, RecvInv, Agree, NEW p \in Party, NEW m, Delivered(p, m), Stepped(p, m),
         m.dh = store[p].dh_pub_remote
  PROVE  Agree'
<1> DEFINE q == Peer(p)
<1>1. /\ From(q)' = From(q) /\ m \in From(q) /\ ChainsAgree(p) /\ q \in Party
      /\ KeysKept(q)' /\ FewHeaders(p)' /\ FewHeaders(q)' /\ store'[q] = store[q]
  BY DeliveredFrame
<1>2. /\ SendSide(store'[p]) = SendSide(store[p])
      /\ store'[p].recv_msg_num = m.num + 1
      /\ store'[p].recv_chain_key # NoChain
      /\ store'[p].recv_chain_key.root = m.mk.root
      /\ store'[p].recv_chain_key.step = m.num + 1
  BY DEF Stepped
<1>3. /\ store'[p].dh_pub_remote = store[p].dh_pub_remote
      /\ Follows(p)' <=> Follows(p)
      /\ RootsAgree(p)' /\ RootsAgree(q)' /\ ChainsAgree(q)'
      /\ NumbersAgree(p)' /\ NumbersAgree(q)'
  BY <1>2, SameSendSide
<1>4. KeysKept(p)'
  BY <1>3, SteppedKeysKept
<1>5. ChainsAgree(p)'
  <2>1. Follows(p) => /\ m.dh = store[q].dh_priv /\ m.num + 1 <= store[q].send_msg_num
                      /\ m.mk.root = store[q].send_chain_key.root
    <3> SUFFICES ASSUME Follows(p)
                 PROVE  /\ m.dh = store[q].dh_priv /\ m.num + 1 <= store[q].send_msg_num
                        /\ m.mk.root = store[q].send_chain_key.root
      OBVIOUS
    <3>1. m.dh = store[q].dh_priv
      BY DEF Follows
    <3>2. m.num < store[q].send_msg_num
      BY <3>1, <1>1 DEF IInv, SentNumbered, From
    <3>3. m.num \in Nat /\ store[q].send_msg_num \in Nat
      BY <1>1, SideTypes DEF From
    <3> QED
      BY <3>1, <3>2, <3>3, <1>1 DEF ChainsAgree
  <2>2. m.mk.root = store[p].recv_chain_key.root
    BY <1>1 DEF ChainsAgree
  <2> QED
    BY <2>1, <2>2, <1>1, <1>2, <1>3 DEF ChainsAgree
<1> QED
  BY <1>1, <1>3, <1>4, <1>5, BothAgree

\* A ratchet step keeps the sides together: p catches up with the peer and gets ahead of it.
LEMMA RatchetAgree ==
  ASSUME IInv, RecvInv, Agree, NEW p \in Party, NEW m, Delivered(p, m), Stepped(p, m),
         m.dh # store[p].dh_pub_remote
  PROVE  Agree'
<1> DEFINE q == Peer(p)
           rk1 == Append(store[p].root_key, DH(store[p].dh_priv, m.dh))
           rk2 == Append(rk1, DH(nextKey, m.dh))
<1>1. /\ q \in Party /\ q # p /\ Peer(q) = p /\ p = Peer(q)
      /\ m \in From(q) /\ From(p)' = From(p) /\ From(q)' = From(q)
      /\ store'[q] = store[q]
      /\ RootsAgree(p) /\ ChainsAgree(p) /\ NumbersAgree(p)
      /\ RootsAgree(q) /\ ChainsAgree(q) /\ NumbersAgree(q)
      /\ KeysKept(q)' /\ FewHeaders(p)' /\ FewHeaders(q)'
  BY DeliveredFrame
<1>2. /\ m \in sent /\ m.from = q
      /\ ~Passed(p, m) /\ ~(m.dh < store[p].dh_pub_remote)
      /\ SendSide(store'[p]) = RatchetedSendSide(store[p], m.dh, nextKey)
      /\ store'[p].recv_msg_num = m.num + 1
      /\ store'[p].recv_chain_key # NoChain
      /\ store'[p].recv_chain_key.root = m.mk.root
      /\ store'[p].recv_chain_key.step = m.num + 1
  BY DEF Stepped, Passed, Delivered
<1>3. /\ store[p].root_key \in RootKey /\ store[p].dh_priv \in Nat /\ m.dh \in Nat
      /\ nextKey \in Nat /\ store[p].dh_priv < nextKey /\ m.num \in Nat
      /\ store[q].send_msg_num \in Nat /\ store[p].send_msg_num \in Nat
      /\ store[p].dh_pub_remote \in Nat
      /\ \A l \in sent : l.dh \in Nat /\ l.dh < nextKey
  BY <1>1, <1>2, SideTypes
<1>4. /\ store'[p].dh_priv = nextKey /\ store'[p].dh_pub_remote = m.dh
      /\ store'[p].root_key = rk2 /\ store'[p].send_chain_key = [root |-> rk2, step |-> 0]
      /\ store'[p].send_msg_num = 0 /\ store'[p].prev_send_chain_len = store[p].send_msg_num
  BY <1>2 DEF SendSide, RatchetedSendSide
<1>5. m.dh = store[q].dh_priv /\ ~Follows(p)
  BY <1>2, NotPassed
<1>6. /\ store[p].dh_pub_remote < store[q].dh_priv
      /\ store[q].root_key = Append(store[p].root_key, DH(store[q].dh_priv, store[p].dh_priv))
      /\ store[q].send_chain_key # NoChain /\ Follows(q)
  BY <1>1, <1>5 DEF RootsAgree
<1>7. DH(store[q].dh_priv, store[p].dh_priv) = DH(store[p].dh_priv, m.dh)
  BY <1>5 DEF DH
<1>8. store[q].root_key = rk1 /\ rk2 = Append(store[q].root_key, DH(nextKey, store[q].dh_priv))
  BY <1>5, <1>6, <1>7
<1>9. rk2 # <<>> /\ [root |-> rk2, step |-> 0] # NoChain
  <2>1. rk1 \in RootKey
    BY <1>3, AppendLast DEF DH, DHOutput, Key
  <2> HIDE DEF rk1
  <2>2. rk2 # <<>>
    BY <2>1, <1>3, AppendLast DEF DH, DHOutput, Key
  <2> QED
    BY <2>2 DEF NoChain
<1> HIDE DEF rk1, rk2
<1>10. store[q].dh_pub_remote = store[p].dh_priv
  BY <1>1, <1>6 DEF Follows
<1>11. Follows(p)'
  BY <1>1, <1>4, <1>5 DEF Follows
<1>12. ~Follows(q)'
  BY <1>1, <1>3, <1>4, <1>10 DEF Follows
<1> HIDE DEF q
<1>13. RootsAgree(p)'
  BY <1>1, <1>4, <1>6, <1>11, <1>12 DEF RootsAgree, q
<1>14. RootsAgree(q)'
  BY <1>1, <1>3, <1>4, <1>6, <1>8, <1>9, <1>10, <1>11, <1>12 DEF RootsAgree
<1>15. ChainsAgree(p)'
  <2>1. m.num < store[q].send_msg_num
    BY <1>2, <1>5 DEF IInv, SentNumbered
  <2>2. m.num + 1 <= store[q].send_msg_num
    BY <2>1, <1>3
  <2>3. m.mk.root = store[q].send_chain_key.root
    BY <1>1, <1>5 DEF ChainsAgree, q
  <2>4. \A l \in From(q) :
          /\ l.dh = store[q].dh_priv \/ l.dh <= m.dh
          /\ l.dh = store[q].dh_priv =>
               l.mk.root = store[q].send_chain_key.root /\ l.prev = store[q].prev_send_chain_len
    <3>1. \A l \in From(q) : l.dh \in Nat
      BY <1>3 DEF From
    <3> QED
      BY <3>1, <1>1, <1>3, <1>5, <1>6 DEF ChainsAgree, q
  <2> QED
    BY <2>2, <2>3, <2>4, <1>1, <1>2, <1>4, <1>5 DEF ChainsAgree, q
<1>16. ChainsAgree(q)'
  <2>1. \A l \in From(p) : l.dh # nextKey
    BY <1>3 DEF From
  <2>2. \A l \in From(p) : l.dh <= store[q].dh_pub_remote
    <3>1. \A l \in From(p) : l.dh = store[p].dh_priv \/ l.dh <= store[q].dh_pub_remote
      BY <1>1 DEF ChainsAgree
    <3> QED
      BY <3>1, <1>3, <1>10
  <2> QED
    BY <2>1, <2>2, <1>1, <1>4, <1>12 DEF ChainsAgree
<1>17. NumbersAgree(p)'
  BY <1>1, <1>11 DEF NumbersAgree, q
<1>18. NumbersAgree(q)'
  <2> DEFINE Sent(dh, n) == \E l \in From(p) : l.dh = dh /\ l.num = n
  <2>1. /\ \A n \in 0 .. store[p].send_msg_num - 1 : Sent(store[p].dh_priv, n)
        /\ \A l \in From(p) : \A n \in 0 .. l.num - 1 : Sent(l.dh, n)
    BY <1>1 DEF NumbersAgree
  <2>2. \A l \in From(p) : l.dh = store[p].dh_priv => l.num < store[p].send_msg_num
    BY DEF IInv, SentNumbered, From
  <2>3. \A n \in 0 .. store'[p].send_msg_num - 1 : FALSE
    BY <1>4
  <2> HIDE DEF Sent
  <2>4. /\ \A n \in 0 .. store'[p].send_msg_num - 1 : Sent(store'[p].dh_priv, n)
        /\ \A l \in From(p)' : \A n \in 0 .. l.num - 1 : Sent(l.dh, n)
        /\ \A l \in From(p)' : l.dh = store'[q].dh_pub_remote => l.num < store'[p].prev_send_chain_len
        /\ \A n \in 0 .. store'[p].prev_send_chain_len - 1 : Sent(store'[q].dh_pub_remote, n)
    BY <2>1, <2>2, <2>3, <1>1, <1>4, <1>10
  <2> QED
    BY <2>4, <1>1 DEF NumbersAgree, Sent
<1>19. KeysKept(p)'
  BY <1>4, SteppedKeysKept
<1> QED
  BY <1>1, <1>13, <1>14, <1>15, <1>16, <1>17, <1>18, <1>19, BothAgree DEF q

\* decrypt_message keeps the two sides together, unless it is the first to accept a message
\* of an abandoned chain.
LEMMA DecryptAgree ==
  ASSUME IInv, RecvInv, SyncInv, NEW p \in Party, NEW m \in sent, DecryptMessage(p, m)
  PROVE  SyncInv'
<1> SUFFICES ASSUME NoStaleChainYet' PROVE Agree'
  BY DEF SyncInv
<1>1. Agree /\ Delivered(p, m)
  BY DecryptDelivers DEF SyncInv
<1>2. ~(m.dh < store[p].dh_pub_remote)
  BY <1>1, NotStale
<1>3. Took(p, m) \/ Stepped(p, m)
  BY <1>1, <1>2, DecryptOutcome
<1> QED
  BY <1>1, <1>3, TookAgree, SteppedAgree, RatchetAgree

\* The agreement of the two sides holds until a message of an abandoned chain is decrypted.
LEMMA SidesAgree == Spec => []SyncInv
<1>1. Init => SyncInv
  BY InitAgree DEF SyncInv
<1>2. IInv /\ RecvInv /\ SyncInv /\ [Next]_vars => SyncInv'
  <2> SUFFICES ASSUME IInv, RecvInv, SyncInv, [Next]_vars PROVE SyncInv'
    OBVIOUS
  <2>1. ASSUME NEW p \in Party, EncryptMessage(p) PROVE SyncInv'
    <3>1. inbox' = inbox
      BY <2>1 DEF EncryptMessage
    <3>2. NoStaleChainYet' => NoStaleChainYet
      BY <3>1 DEF NoStaleChainYet
    <3>3. Agree => Agree'
      BY <2>1, EncryptAgree
    <3> QED
      BY <3>2, <3>3 DEF SyncInv
  <2>2. ASSUME NEW p \in Party, NEW m \in sent, DecryptMessage(p, m) PROVE SyncInv'
    BY <2>2, DecryptAgree
  <2>3. CASE UNCHANGED vars
    <3>1. /\ store' = store /\ sent' = sent /\ sends' = sends /\ inbox' = inbox
      BY <2>3 DEF vars
    <3>2. ASSUME NEW x \in Party, RootsAgree(x) PROVE RootsAgree(x)'
      BY <3>1, <3>2 DEF RootsAgree, Follows, From
    <3>3. ASSUME NEW x \in Party, ChainsAgree(x) PROVE ChainsAgree(x)'
      BY <3>1, <3>3 DEF ChainsAgree, Follows, From
    <3>4. ASSUME NEW x \in Party, NumbersAgree(x) PROVE NumbersAgree(x)'
      BY <3>1, <3>4 DEF NumbersAgree, Follows, From
    <3>5. ASSUME NEW x \in Party, KeysKept(x) PROVE KeysKept(x)'
      BY <3>1, <3>5 DEF KeysKept, From, Accepted, Passed
    <3>6. ASSUME NEW x \in Party, FewHeaders(x) PROVE FewHeaders(x)'
      BY <3>1, <3>6 DEF FewHeaders, HeadersOf, From
    <3>7. Agree => Agree'
      BY <3>2, <3>3, <3>4, <3>5, <3>6 DEF Agree
    <3>8. NoStaleChainYet' => NoStaleChainYet
      BY <3>1 DEF NoStaleChainYet
    <3> QED
      BY <3>7, <3>8 DEF SyncInv
  <2>4. ASSUME NEW p \in Party, NEW m \in sent, RejectMessage(p, m) PROVE SyncInv'
    BY <2>3, <2>4 DEF RejectMessage
  <2> QED
    BY <2>1, <2>2, <2>3, <2>4 DEF Next
<1> QED
  BY <1>1, <1>2, BothSidesHold, PTL DEF Spec

\* Until a message of an abandoned chain is decrypted for the first time, every message in
\* flight can be decrypted, late or early, whatever the channel lost, repeated or reordered,
\* if the store has room for the gap: for any number of messages and any limits.
THEOREM MessagesInFlightDecrypt == Spec => []InFlightDecryptable
<1>1. IInv /\ RecvInv /\ SyncInv => InFlightDecryptable
  BY AgreeDecrypts DEF SyncInv, InFlightDecryptable
<1> QED
  BY <1>1, BothSidesHold, SidesAgree, PTL
=============================================================================
