------------------------- MODULE RaftElectionProofs -------------------------
(***************************************************************************)
(* Election Safety for every cluster: no two servers become leader of one  *)
(* term, whatever is lost, reordered or restarted.                         *)
(***************************************************************************)
EXTENDS RaftProofs

(* The three traces that peer j's vote for c in term t leaves: see Ballots. *)
CastInFlight(j, t, c) ==
    \E m \in BagToSet(messages) :
        /\ m.type = MsgVoteResp /\ m.granted
        /\ m.from = j /\ m.term = t /\ m.to = c

CastCounted(j, t, c) ==
    /\ rf[c].state = StateCandidate
    /\ rf[c].currentTerm = t
    /\ j \in rf[c].granted

CastElected(j, t, c) ==
    \E l \in leaders : l[1] = t /\ l[2] = c /\ j \in l[3]

Cast(j, t, c) ==
    \/ CastInFlight(j, t, c)
    \/ CastCounted(j, t, c)
    \/ CastElected(j, t, c)

(* No step ends with a term or a vote in memory that is not saved. *)
Durable ==
    \A i \in Server : /\ persister[i].currentTerm = rf[i].currentTerm
                      /\ persister[i].votedFor = rf[i].votedFor

CastDurable ==
    \A j, c \in Server : \A t \in Nat : Cast(j, t, c) =>
        \/ persister[j].currentTerm > t
        \/ persister[j].currentTerm = t /\ persister[j].votedFor = c

CastOnce ==
    \A j, c, d \in Server : \A t \in Nat : Cast(j, t, c) /\ Cast(j, t, d) => c = d

QuorumElects == \A l \in leaders : Cardinality(l[3]) >= quorum

(* The inductive invariant.  CastOnce alone is not inductive: a voter      *)
(* could vote again once it has forgotten its vote, which CastDurable and  *)
(* Durable rule out.                                                       *)
ElectionInv ==
    quorum # 1 => Durable /\ CastDurable /\ CastOnce /\ QuorumElects

-----------------------------------------------------------------------------
(* What the handlers do to terms, votes and counts. *)

(* From p to q a peer neither votes, nor counts a vote, nor campaigns. *)
Quiet(p, q) ==
    /\ \/ q.currentTerm > p.currentTerm
       \/ q.currentTerm = p.currentTerm /\ q.votedFor = p.votedFor
    /\ q.state = StateCandidate =>
        /\ p.state = StateCandidate
        /\ q.currentTerm = p.currentTerm
        /\ q.granted \subseteq p.granted

NoGrant(sent) == \A m \in sent : m.type # MsgVoteResp

QuietOutcome(p, out) == Quiet(p, out.peer) /\ NoGrant(out.sent)

(* Two quiet changes in a row are a quiet change. *)
LEMMA QuietTrans ==
  ASSUME NEW p \in GoodPeer, NEW q \in GoodPeer, NEW r \in GoodPeer,
         Quiet(p, q), Quiet(q, r)
  PROVE  Quiet(p, r)
  <1>1. p.currentTerm \in Nat /\ q.currentTerm \in Nat /\ r.currentTerm \in Nat
    BY DEF GoodPeer, Peer
  <1> QED
    BY <1>1 DEF Quiet

(* A handler whose peer changes quietly and that answers no vote request. *)
LEMMA QuietOutcomeForm ==
  ASSUME NEW p, NEW q, NEW sent, Quiet(p, q), NoGrant(sent)
  PROVE  QuietOutcome(p, outcome(q, sent))
  BY DEF QuietOutcome, outcome, NoGrant

(* The replies to AppendEnties and its requests are not votes. *)
LEMMA NoGrantSets ==
  /\ NoGrant({})
  /\ \A m, t, ok, n, ct, cx : NoGrant({appReply(m, t, ok, n, ct, cx)})
  /\ \A p, me : NoGrant(bcastAppend(p, me)) /\ NoGrant(bcastRequestVoteRPC(p, me))
  BY DEF NoGrant, appReply, bcastAppend, bcastRequestVoteRPC,
         MsgVote, MsgApp, MsgAppResp, MsgVoteResp

(* What becomeFollower does: the later term has no vote yet. *)
LEMMA BecomeFollowerQuiet ==
  ASSUME NEW p \in GoodPeer, NEW t \in Nat, t >= p.currentTerm
  PROVE  /\ Quiet(p, becomeFollower(p, t))
         /\ becomeFollower(p, t).state = StateFollower
         /\ becomeFollower(p, t).currentTerm = t
         /\ becomeFollower(p, t).votedFor = IF t = p.currentTerm THEN p.votedFor ELSE None
  <1> DEFINE q == reset(p, t)
  <1>1. p \in Peer /\ p.currentTerm \in Nat \ {0} /\ t \in Nat \ {0}
    BY DEF GoodPeer, Peer
  <1>2. q \in Peer
    BY <1>1, ResetGood DEF GoodPeer
  <1>3. /\ q.currentTerm = t
        /\ q.votedFor = IF t = p.currentTerm THEN p.votedFor ELSE None
    BY <1>1 DEF reset, Peer
  <1> HIDE DEF q
  <1>4. /\ [q EXCEPT !.state = StateFollower].state = StateFollower
        /\ [q EXCEPT !.state = StateFollower].currentTerm = q.currentTerm
        /\ [q EXCEPT !.state = StateFollower].votedFor = q.votedFor
    BY <1>2 DEF Peer
  <1>5. becomeFollower(p, t) = [q EXCEPT !.state = StateFollower]
    BY DEF becomeFollower, q
  <1> QED
    BY <1>1, <1>3, <1>4, <1>5 DEF Quiet, StateFollower, StateCandidate

(* Adopting the term of a message. *)
LEMMA ObservedQuiet ==
  ASSUME NEW p \in GoodPeer, NEW m \in GoodMessage
  PROVE  /\ Quiet(p, observed(p, m))
         /\ observed(p, m).currentTerm >= m.term
         /\ \/ observed(p, m) = p
            \/ /\ observed(p, m).currentTerm > p.currentTerm
               /\ observed(p, m).state = StateFollower
  <1>1. m.term \in Nat /\ p.currentTerm \in Nat
    BY MessageFields DEF GoodPeer, Peer
  <1>2. CASE m.term > p.currentTerm
    BY <1>1, <1>2, BecomeFollowerQuiet DEF observed
  <1>3. CASE ~(m.term > p.currentTerm)
    BY <1>1, <1>3 DEF observed, Quiet
  <1> QED
    BY <1>2, <1>3

(* The methods that touch only the log, the indices or kill the peer. *)
LEMMA LogMethodsQuiet ==
  ASSUME NEW p \in GoodPeer
  PROVE  /\ Quiet(p, p)
         /\ Quiet(p, panic(p))
         /\ \A n : Quiet(p, commitTo(p, n))
         /\ \A m, ci : Quiet(p, appendLog(p, m, ci))
         /\ Quiet(p, updateCommitIndex(p))
         /\ \A m : Quiet(p, backedOff(p, m))
  <1>1. p \in Peer
    BY DEF GoodPeer
  <1>2. Quiet(p, p) /\ Quiet(p, panic(p))
    BY <1>1 DEF Quiet, panic, Peer, Panicked, StateCandidate
  <1>3. ASSUME NEW r \in Peer, NEW n
        PROVE  Quiet(r, commitTo(r, n))
    BY <1>3 DEF commitTo, Quiet, panic, Peer, Panicked, StateCandidate
  <1>4. ASSUME NEW m, NEW ci
        PROVE  Quiet(p, appendLog(p, m, ci))
    BY <1>1 DEF appendLog, Quiet, Peer
  <1>5. ASSUME NEW r \in Peer
        PROVE  Quiet(r, updateCommitIndex(r))
    <2>1. Quiet(r, r)
      BY DEF Quiet
    <2> QED
      BY <1>3, <2>1 DEF updateCommitIndex
  <1>6. ASSUME NEW m
        PROVE  Quiet(p, backedOff(p, m))
    BY <1>1 DEF backedOff, Quiet, Peer, OutOfRange, StateCandidate
  <1> QED
    BY <1>1, <1>2, <1>3, <1>4, <1>5, <1>6, SMTT(30)

(* Handling AppendEnties is no vote. *)
LEMMA AcceptEntriesQuiet ==
  ASSUME NEW p \in GoodPeer, NEW m \in OfType(MsgApp), m.prevLogIndex <= Len(p.log)
  PROVE  QuietOutcome(p, acceptEntries(p, m))
  <1> DEFINE nexti == m.prevLogIndex + Len(m.entries) + 1
             ci == findConflict(p, m)
             q == IF ci = 0 THEN p
                  ELSE IF ci <= p.commitIndex THEN panic(p)
                  ELSE appendLog(p, m, ci)
             r == IF m.leaderCommit > q.commitIndex THEN commitTo(q, m.leaderCommit) ELSE q
             z == IF q.state = Panicked THEN q
                  ELSE IF nexti > lastIndex(r) + 1 THEN panic(r)
                  ELSE r
  <1>1. /\ m.leaderCommit \in Nat /\ Len(p.log) \in Nat /\ p.commitIndex \in Nat
        /\ m.prevLogIndex \in Nat /\ Len(m.entries) \in Nat
    BY MessageFields, LenProperties DEF OfType, GoodPeer, Peer
  <1>2. Quiet(p, q) /\ q \in GoodPeer
    <2>1. CASE ci = 0 \/ ci <= p.commitIndex
      BY <2>1, LogMethodsQuiet, ResetGood
    <2>2. CASE ~(ci = 0 \/ ci <= p.commitIndex)
      <3>1. /\ ci \in m.prevLogIndex + 1 .. m.prevLogIndex + Len(m.entries)
            /\ ci <= Len(p.log) + 1
        BY <2>2, FindConflictBounds
      <3>2. ci \in Nat /\ ci > p.commitIndex
        BY <1>1, <2>2, <3>1
      <3> HIDE DEF ci
      <3>3. appendLog(p, m, ci) \in GoodPeer /\ Quiet(p, appendLog(p, m, ci))
        BY <3>1, <3>2, AppendLogGood, LogMethodsQuiet
      <3> QED
        BY <2>2, <3>3
    <2> QED
      BY <2>1, <2>2
  <1> HIDE DEF q
  <1>3. Quiet(q, r) /\ r \in GoodPeer
    BY <1>1, <1>2, CommitToGood, LogMethodsQuiet
  <1> HIDE DEF r
  <1>4. Quiet(r, panic(r)) /\ panic(r) \in GoodPeer
    BY <1>3, LogMethodsQuiet, ResetGood
  <1>5. Quiet(p, r) /\ Quiet(p, panic(r))
    BY <1>2, <1>3, <1>4, QuietTrans, SMTT(30)
  <1>6. Quiet(p, z)
    BY <1>2, <1>5
  <1> HIDE DEF z, nexti
  <1>7. QuietOutcome(p, outcome(z, {appReply(m, p.currentTerm, TRUE, nexti, 0, 0)}))
    BY <1>6, NoGrantSets, QuietOutcomeForm, Zenon
  <1> QED
    BY <1>7 DEF acceptEntries, z, r, q, nexti

(* handleAppendEntries neither votes nor counts votes. *)
LEMMA HandleAppendEntriesQuiet ==
  ASSUME NEW p \in GoodPeer, NEW m \in OfType(MsgApp)
  PROVE  QuietOutcome(p, handleAppendEntries(p, m))
  <1>1. CASE m.prevLogIndex < p.commitIndex
    <2>1. handleAppendEntries(p, m) =
            outcome(p, {appReply(m, p.currentTerm, TRUE, p.commitIndex + 1, 0, 0)})
      BY <1>1 DEF handleAppendEntries
    <2> QED
      BY <2>1, LogMethodsQuiet, NoGrantSets, QuietOutcomeForm, Zenon
  <1>2. CASE ~(m.prevLogIndex < p.commitIndex) /\ matchTerm(p, m.prevLogIndex, m.prevLogTerm)
    BY <1>2, AcceptEntriesQuiet DEF handleAppendEntries, matchTerm, lastIndex
  <1>3. CASE ~(m.prevLogIndex < p.commitIndex) /\ ~matchTerm(p, m.prevLogIndex, m.prevLogTerm)
    <2>1. handleAppendEntries(p, m) = rejectEntries(p, m)
      BY <1>3 DEF handleAppendEntries
    <2>2. QuietOutcome(p, rejectEntries(p, m))
      <3> DEFINE sent == {appReply(m, p.currentTerm, FALSE,
                            IF (IF p.commitIndex + 1 < m.prevLogIndex - 1
                                THEN p.commitIndex + 1 ELSE m.prevLogIndex - 1) < 1
                            THEN 1
                            ELSE IF p.commitIndex + 1 < m.prevLogIndex - 1
                                 THEN p.commitIndex + 1 ELSE m.prevLogIndex - 1,
                            IF m.prevLogIndex <= lastIndex(p)
                            THEN termAt(p, m.prevLogIndex) ELSE -1,
                            IF m.prevLogIndex <= lastIndex(p) THEN 0 ELSE -1)}
      <3>1. NoGrant(sent)
        BY NoGrantSets, Zenon
      <3>2. rejectEntries(p, m) = outcome(p, sent)
        BY DEF rejectEntries
      <3> HIDE DEF sent
      <3> QED
        BY <3>1, <3>2, LogMethodsQuiet, QuietOutcomeForm
    <2> QED
      BY <2>1, <2>2
  <1> QED
    BY <1>1, <1>2, <1>3

(* AppendEnties, in every role, neither votes nor counts votes. *)
LEMMA StepAppQuiet ==
  ASSUME rf \in [Server -> GoodPeer], NEW m \in OfType(MsgApp)
  PROVE  QuietOutcome(rf[m.to], stepApp(m))
  <1> DEFINE p == observed(rf[m.to], m)
             f == becomeFollower(p, p.currentTerm)
  <1>1. m \in GoodMessage /\ m.to \in Server /\ rf[m.to] \in GoodPeer
    BY MessageFields DEF OfType
  <1>2. p \in GoodPeer /\ Quiet(rf[m.to], p)
    BY <1>1, ObservedGood, ObservedQuiet, SMTT(30)
  <1>3. p.currentTerm \in Nat \ {0}
    BY <1>2 DEF GoodPeer, Peer
  <1> HIDE DEF p
  <1>4. f \in GoodPeer /\ Quiet(rf[m.to], f)
    <2>1. f \in GoodPeer /\ Quiet(p, f)
      BY <1>2, <1>3, ResetGood, BecomeFollowerQuiet, SMTT(30)
    <2> QED
      BY <1>1, <1>2, <2>1, QuietTrans, SMTT(30)
  <1> HIDE DEF f
  <1>5. ASSUME NEW q \in GoodPeer, Quiet(rf[m.to], q)
        PROVE  QuietOutcome(rf[m.to], handleAppendEntries(q, m))
    <2>1. QuietOutcome(q, handleAppendEntries(q, m)) /\ GoodOutcome(handleAppendEntries(q, m))
      BY HandleAppendEntriesQuiet, HandleAppendEntriesGood
    <2> QED
      BY <1>1, <1>5, <2>1, QuietTrans, SMTT(30) DEF QuietOutcome, GoodOutcome
  <1>6. ASSUME NEW sent, NoGrant(sent)
        PROVE  QuietOutcome(rf[m.to], outcome(p, sent))
    BY <1>2, <1>6, QuietOutcomeForm
  <1>7. \/ \E sent : NoGrant(sent) /\ stepApp(m) = outcome(p, sent)
        \/ stepApp(m) = handleAppendEntries(p, m)
        \/ stepApp(m) = handleAppendEntries(f, m)
    <2> DEFINE s1 == {appReply(m, p.currentTerm, FALSE, p.commitIndex + 1, 0, 0)}
               s2 == {appReply(m, 0, FALSE, 0, 0, 0)}
    <2>1. NoGrant(s1) /\ NoGrant(s2)
      BY NoGrantSets, Zenon
    <2>2. stepApp(m) \in {outcome(p, s1), handleAppendEntries(p, m),
                          handleAppendEntries(f, m), outcome(p, s2)}
      <3> HIDE DEF s1, s2
      <3> QED
        BY DEF stepApp, p, f, s1, s2
    <2> HIDE DEF s1, s2
    <2> QED
      BY <2>1, <2>2
  <1> QED
    BY <1>2, <1>4, <1>5, <1>6, <1>7, SMTT(30)

(* An acknowledgement changes indices only. *)
LEMMA AcknowledgedQuiet ==
  ASSUME NEW p \in GoodPeer, NEW m \in OfType(MsgAppResp), m.term > 0
  PROVE  Quiet(p, acknowledged(p, m))
  <1> DEFINE n == m.nextIndex - 1
             r == [p EXCEPT !.nextIndex[m.from] = m.nextIndex,
                            !.matchIndex[m.from] = n]
  <1>1. m.from \in Server /\ m.nextIndex \in Nat /\ n \in Nat
    BY MessageFields DEF OfType
  <1>2. r \in GoodPeer /\ Quiet(p, r)
    <2> HIDE DEF n
    <2>1. p \in Peer
      BY DEF GoodPeer
    <2>2. r \in GoodPeer
      BY <1>1, Zenon DEF GoodPeer, Peer
    <2> QED
      BY <2>1, <2>2 DEF Quiet, Peer
  <1> HIDE DEF r
  <1>3. Quiet(p, updateCommitIndex(r))
    BY <1>2, LogMethodsQuiet, UpdateCommitIndexGood, QuietTrans
  <1> QED
    BY <1>3, LogMethodsQuiet DEF acknowledged, r

(* A reply to AppendEnties never makes a peer vote or campaign. *)
LEMMA StepAppRespQuiet ==
  ASSUME rf \in [Server -> GoodPeer], NEW m \in OfType(MsgAppResp)
  PROVE  QuietOutcome(rf[m.to], stepAppResp(m))
  <1> DEFINE p == observed(rf[m.to], m)
             z == IF m.nextIndex > lastIndex(p) + 1 THEN panic(p)
                  ELSE IF m.success THEN acknowledged(p, m)
                  ELSE backedOff(p, m)
  <1>1. m \in GoodMessage /\ m.to \in Server /\ rf[m.to] \in GoodPeer /\ m.term \in Nat
    BY MessageFields DEF OfType
  <1>2. p \in GoodPeer /\ Quiet(rf[m.to], p) /\ p.currentTerm >= m.term
    BY <1>1, ObservedGood, ObservedQuiet, SMTT(30)
  <1>3. p.currentTerm \in Nat \ {0}
    BY <1>2 DEF GoodPeer, Peer
  <1>4. CASE m.term < p.currentTerm \/ p.state # StateLeader
    <2> HIDE DEF p
    <2>1. stepAppResp(m) = outcome(p, {})
      BY <1>1, <1>3, <1>4, SMTT(30) DEF stepAppResp, p
    <2> QED
      BY <1>2, <2>1, NoGrantSets, QuietOutcomeForm, SMTT(30)
  <1>5. CASE m.term = p.currentTerm /\ p.state = StateLeader
    <2> HIDE DEF p
    <2>1. m.term > 0
      BY <1>3, <1>5
    <2>2. Quiet(p, z)
      BY <1>2, <2>1, LogMethodsQuiet, AcknowledgedQuiet, SMTT(30)
    <2>3. stepAppResp(m) = outcome(z, {})
      <3> HIDE DEF z
      <3> QED
        BY <1>1, <1>3, <1>5, SMTT(30) DEF stepAppResp, p, z
    <2>4. z \in GoodPeer
      <3>1. GoodOutcome(outcome(z, {}))
        BY <2>3, StepAppRespGood
      <3> QED
        BY <3>1 DEF GoodOutcome, outcome
    <2> HIDE DEF z
    <2>5. Quiet(rf[m.to], z)
      BY <1>1, <1>2, <2>2, <2>4, QuietTrans, SMTT(30)
    <2> QED
      BY <2>3, <2>5, NoGrantSets, QuietOutcomeForm, SMTT(30)
  <1> QED
    BY <1>1, <1>2, <1>3, <1>4, <1>5

-----------------------------------------------------------------------------
(* What one step of the cluster does to terms, votes and ballots. *)

(* Saved terms grow; a saved vote is not replaced in its term. *)
VoteKept ==
    \A j \in Server :
        \/ persister'[j].currentTerm > persister[j].currentTerm
        \/ /\ persister'[j].currentTerm = persister[j].currentTerm
           /\ \/ persister[j].votedFor = None
              \/ persister'[j].votedFor = persister[j].votedFor

(* Peer j saves its first vote of term t, or the same again. *)
Fresh(j, t, c) ==
    /\ persister'[j].currentTerm = t /\ persister'[j].votedFor = c
    /\ \/ persister[j].currentTerm < t
       \/ persister[j].currentTerm = t /\ persister[j].votedFor \in {None, c}

VoteStep ==
    /\ VoteKept
    /\ \A j, c \in Server : \A t \in Nat : Cast(j, t, c)' => Cast(j, t, c) \/ Fresh(j, t, c)
    /\ Durable'
    /\ QuorumElects'

(* The saved and the current terms and votes are well typed. *)
LEMMA SavedFields ==
  ASSUME TypeInv
  PROVE  \A j \in Server : /\ persister[j].currentTerm \in Nat
                           /\ persister[j].votedFor \in Server \cup {None}
                           /\ rf[j] \in GoodPeer
                           /\ rf[j].currentTerm \in Nat
  BY TypeInvForm DEF Saved, GoodPeer, Peer

(* Such a step keeps the invariant. *)
LEMMA VoteStepKeepsInv ==
  ASSUME TypeInv, TypeInv', quorum # 1, ElectionInv, VoteStep
  PROVE  ElectionInv'
  <1>1. CastDurable /\ CastOnce
    BY DEF ElectionInv
  <1>2. \A j \in Server : persister[j].currentTerm \in Nat /\ persister'[j].currentTerm \in Nat
    BY SavedFields DEF TypeInv, TypeOK, Saved
  <1>3. None \notin Server
    BY ServerAssumption
  <1>4. ASSUME NEW j \in Server, NEW c \in Server, NEW t \in Nat, Cast(j, t, c)'
        PROVE  \/ persister'[j].currentTerm > t
               \/ persister'[j].currentTerm = t /\ persister'[j].votedFor = c
    <2>1. CASE Cast(j, t, c)
      <3>1. \/ persister[j].currentTerm > t
            \/ persister[j].currentTerm = t /\ persister[j].votedFor = c
        BY <1>1, <2>1 DEF CastDurable
      <3> QED
        BY <1>2, <1>3, <3>1, SMTT(30) DEF VoteStep, VoteKept
    <2>2. CASE Fresh(j, t, c)
      BY <2>2 DEF Fresh
    <2> QED
      BY <1>4, <2>1, <2>2, SMTT(30) DEF VoteStep
  <1>5. CastDurable'
    BY <1>4 DEF CastDurable
  <1>6. ASSUME NEW j \in Server, NEW c \in Server, NEW d \in Server, NEW t \in Nat,
               Cast(j, t, c), Fresh(j, t, d)
        PROVE  c = d
    <2>1. \/ persister[j].currentTerm > t
          \/ persister[j].currentTerm = t /\ persister[j].votedFor = c
      BY <1>1, <1>6 DEF CastDurable
    <2> QED
      BY <1>2, <1>3, <1>6, <2>1, SMTT(30) DEF Fresh
  <1>7. ASSUME NEW j \in Server, NEW c \in Server, NEW d \in Server, NEW t \in Nat,
               Cast(j, t, c)', Cast(j, t, d)'
        PROVE  c = d
    <2>1. /\ Cast(j, t, c) \/ Fresh(j, t, c)
          /\ Cast(j, t, d) \/ Fresh(j, t, d)
      BY <1>7 DEF VoteStep
    <2>2. CASE Cast(j, t, c) /\ Cast(j, t, d)
      BY <1>1, <2>2 DEF CastOnce
    <2>3. CASE Fresh(j, t, c) /\ Fresh(j, t, d)
      BY <2>3 DEF Fresh
    <2> QED
      BY <1>6, <2>1, <2>2, <2>3, SMTT(30)
  <1>8. CastOnce'
    BY <1>7 DEF CastOnce
  <1> QED
    BY <1>5, <1>8 DEF ElectionInv, VoteStep

(* A peer that changes quietly and saves its state. *)
LEMMA QuietStep ==
  ASSUME TypeInv, quorum # 1, ElectionInv,
         NEW i \in Server, NEW q \in GoodPeer, Quiet(rf[i], q),
         rf' = [rf EXCEPT ![i] = q], persist(i, q), leaders' = leaders,
         \A m \in BagToSet(messages') :
            m \in BagToSet(messages) \/ ~(m.type = MsgVoteResp /\ m.granted)
  PROVE  VoteStep
  <1>1. Durable /\ QuorumElects
    BY DEF ElectionInv
  <1>2. rf \in [Server -> GoodPeer] /\ persister \in [Server -> Saved]
    BY TypeInvForm
  <1>3. /\ persister' = [persister EXCEPT ![i] = persisted(q)]
        /\ persisted(q).currentTerm = q.currentTerm
        /\ persisted(q).votedFor = q.votedFor
    BY DEF persist, persisted
  <1>4. Durable'
    BY <1>1, <1>2, <1>3, SMTT(30) DEF Durable
  <1>5. VoteKept
    BY <1>1, <1>2, <1>3, SMTT(30) DEF Durable, VoteKept, Quiet
  <1>6. ASSUME NEW j \in Server, NEW c \in Server, NEW t \in Nat, Cast(j, t, c)'
        PROVE  Cast(j, t, c)
    <2>1. CASE CastInFlight(j, t, c)'
      BY <2>1, SMTT(30) DEF Cast, CastInFlight, CastCounted, CastElected
    <2>2. CASE CastCounted(j, t, c)'
      BY <1>2, <2>2, SMTT(30) DEF Cast, CastInFlight, CastCounted, CastElected, Quiet
    <2>3. CASE CastElected(j, t, c)'
      BY <2>3 DEF Cast, CastInFlight, CastCounted, CastElected
    <2> QED
      BY <1>6, <2>1, <2>2, <2>3, Zenon DEF Cast
  <1> QED
    BY <1>1, <1>4, <1>5, <1>6, SMTT(30) DEF VoteStep, QuorumElects

(* A restarted peer has forgotten what it had counted. *)
LEMMA RestartStep ==
  ASSUME TypeInv, quorum # 1, ElectionInv,
         NEW i \in Server,
         rf' = [rf EXCEPT ![i] = readPersist(persister[i])],
         UNCHANGED <<persister, leaders>>,
         BagToSet(messages') \subseteq BagToSet(messages)
  PROVE  VoteStep
  <1>1. Durable /\ QuorumElects
    BY DEF ElectionInv
  <1>2. rf \in [Server -> GoodPeer] /\ persister \in [Server -> Saved]
    BY TypeInvForm
  <1>3. LET q == readPersist(persister[i]) IN
        /\ q.currentTerm = persister[i].currentTerm
        /\ q.votedFor = persister[i].votedFor
        /\ q.state = StateFollower
    BY DEF readPersist, InitPeer
  <1>4. Durable'
    BY <1>1, <1>2, <1>3, SMTT(30) DEF Durable
  <1>5. VoteKept
    BY DEF VoteKept
  <1>6. ASSUME NEW j \in Server, NEW c \in Server, NEW t \in Nat, Cast(j, t, c)'
        PROVE  Cast(j, t, c)
    <2>1. CASE CastInFlight(j, t, c)'
      BY <2>1 DEF Cast, CastInFlight, CastCounted, CastElected
    <2>2. CASE CastCounted(j, t, c)'
      BY <1>2, <1>3, <2>2, SMTT(30) DEF Cast, CastInFlight, CastCounted, CastElected, StateFollower, StateCandidate
    <2>3. CASE CastElected(j, t, c)'
      BY <2>3 DEF Cast, CastInFlight, CastCounted, CastElected
    <2> QED
      BY <1>6, <2>1, <2>2, <2>3, Zenon DEF Cast
  <1> QED
    BY <1>1, <1>4, <1>5, <1>6, SMTT(30) DEF VoteStep, QuorumElects

(* Receive in terms of what is in flight. *)
LEMMA ReceiveForm ==
  ASSUME TypeInv, NEW m, NEW out, Receive(m, out)
  PROVE  /\ rf' = [rf EXCEPT ![m.to] = out.peer]
         /\ persist(m.to, out.peer)
         /\ BagToSet(messages') \subseteq BagToSet(messages) \cup out.sent
  <1>1. IsABag(messages)
    BY TypeInvForm
  <1>2. Transmit({m}, out.sent)
    BY DEF Receive
  <1> QED
    BY <1>1, <1>2, TransmitAdds, SMTT(30) DEF Receive, Become

(* Handling a vote request: the vote is saved before the reply leaves. *)
LEMMA RequestVoteStep ==
  ASSUME TypeInv, quorum # 1, ElectionInv, NEW m \in OfType(MsgVote),
         Receive(m, stepVote(m)), leaders' = leaders
  PROVE  VoteStep
  <1> DEFINE i == m.to
             p == observed(rf[i], m)
             current == m.term = p.currentTerm
             grant == /\ current
                      /\ p.state = StateFollower
                      /\ p.votedFor \in {None, m.from}
                      /\ reqMoreUpToDate(p, m)
             term == IF current /\ p.state = StateLeader THEN 0 ELSE p.currentTerm
             q == IF grant THEN [p EXCEPT !.votedFor = m.from] ELSE p
  <1>1. m \in GoodMessage /\ i \in Server /\ m.from \in Server /\ m.term \in Nat
    BY MessageFields DEF OfType
  <1>2. rf \in [Server -> GoodPeer] /\ persister \in [Server -> Saved] /\ rf[i] \in GoodPeer
    BY <1>1, TypeInvForm, SMTT(30)
  <1>3. p \in GoodPeer /\ Quiet(rf[i], p)
    BY <1>1, <1>2, ObservedGood, ObservedQuiet, SMTT(30)
  <1>4. stepVote(m) = outcome(q, {voteReply(m, term, grant)})
    BY DEF stepVote
  <1> HIDE DEF p
  <1>5. /\ rf' = [rf EXCEPT ![i] = q]
        /\ persist(i, q)
        /\ BagToSet(messages') \subseteq BagToSet(messages) \cup {voteReply(m, term, grant)}
    <2> HIDE DEF q, term, grant
    <2>1. stepVote(m).peer = q /\ stepVote(m).sent \subseteq {voteReply(m, term, grant)}
      BY <1>4 DEF outcome
    <2> QED
      BY <2>1, ReceiveForm
  <1>6. CASE ~grant
    <2> HIDE DEF grant
    <2>1. q = p /\ ~voteReply(m, term, grant).granted
      BY <1>6 DEF voteReply
    <2>2. \A n \in BagToSet(messages') :
            n \in BagToSet(messages) \/ ~(n.type = MsgVoteResp /\ n.granted)
      BY <1>5, <2>1
    <2> QED
      BY <1>1, <1>3, <1>5, <2>1, <2>2, QuietStep, ZenonT(30)
  <1>7. CASE grant
    <2>1. /\ q = [p EXCEPT !.votedFor = m.from]
          /\ p.currentTerm = m.term /\ p.state = StateFollower
          /\ p.votedFor \in {None, m.from}
          /\ voteReply(m, term, grant).from = i
          /\ voteReply(m, term, grant).to = m.from
          /\ voteReply(m, term, grant).term = m.term
      BY <1>7 DEF voteReply, StateFollower, StateLeader
    <2> DEFINE reply == voteReply(m, term, grant)
    <2>2. reply.from = i /\ reply.to = m.from /\ reply.term = m.term
      BY <2>1, Zenon
    <2> HIDE DEF reply, term, grant, q
    <2>3. /\ q.currentTerm = m.term /\ q.votedFor = m.from /\ q.state = StateFollower
      BY <1>3, <2>1, SMTT(30) DEF GoodPeer, Peer
    <2>4. /\ persister' = [persister EXCEPT ![i] = persisted(q)]
          /\ persisted(q).currentTerm = m.term
          /\ persisted(q).votedFor = m.from
      BY <1>5, <2>3 DEF persist, persisted
    <2>5. Durable /\ QuorumElects
      BY DEF ElectionInv
    <2>6. \/ persister[i].currentTerm < m.term
          \/ persister[i].currentTerm = m.term /\ persister[i].votedFor \in {None, m.from}
      <3>1. persister[i].currentTerm = rf[i].currentTerm /\ persister[i].votedFor = rf[i].votedFor
        BY <1>1, <2>5 DEF Durable
      <3>2. rf[i].currentTerm \in Nat
        BY <1>2, SMTT(30) DEF GoodPeer, Peer
      <3>3. p = rf[i] \/ p.currentTerm > rf[i].currentTerm
        BY <1>1, <1>2, ObservedQuiet, SMTT(30) DEF p
      <3> QED
        BY <1>1, <2>1, <3>1, <3>2, <3>3, SMTT(30)
    <2>7. Durable'
      BY <1>1, <1>2, <1>5, <2>3, <2>4, <2>5, SMTT(30) DEF Durable
    <2>8. VoteKept
      BY <1>1, <1>2, <2>4, <2>6, SMTT(30) DEF VoteKept
    <2>9. ASSUME NEW j \in Server, NEW c \in Server, NEW t \in Nat, Cast(j, t, c)'
          PROVE  Cast(j, t, c) \/ Fresh(j, t, c)
      <3>1. CASE CastInFlight(j, t, c)'
        <4>1. PICK n \in BagToSet(messages') :
                   /\ n.type = MsgVoteResp /\ n.granted
                   /\ n.from = j /\ n.term = t /\ n.to = c
          BY <3>1 DEF CastInFlight
        <4>2. CASE n \in BagToSet(messages)
          BY <4>1, <4>2, SMTT(30) DEF Cast, CastInFlight, CastCounted, CastElected
        <4>3. CASE n = reply
          <5>1. j = i /\ t = m.term /\ c = m.from
            BY <2>2, <4>1, <4>3, SMTT(30)
          <5> QED
            BY <1>1, <1>2, <2>4, <2>6, <5>1, SMTT(30) DEF Fresh
        <4> QED
          BY <1>5, <4>2, <4>3, SMTT(30) DEF reply
      <3>2. CASE CastCounted(j, t, c)'
        BY <1>2, <1>5, <2>3, <3>2, SMTT(30) DEF Cast, CastInFlight, CastCounted, CastElected, StateFollower, StateCandidate
      <3>3. CASE CastElected(j, t, c)'
        BY <3>3 DEF Cast, CastInFlight, CastCounted, CastElected
      <3> QED
        BY <2>9, <3>1, <3>2, <3>3, Zenon DEF Cast
    <2> QED
      BY <2>5, <2>7, <2>8, <2>9, SMTT(30) DEF VoteStep, QuorumElects
  <1> QED
    BY <1>6, <1>7, SMTT(30)

(* What poll changes. *)
LEMMA PollFields ==
  ASSUME NEW p \in GoodPeer, NEW id, NEW v \in BOOLEAN
  PROVE  /\ poll(p, id, v).currentTerm = p.currentTerm
         /\ poll(p, id, v).votedFor = p.votedFor
         /\ poll(p, id, v).state = p.state
         /\ poll(p, id, v).granted \subseteq p.granted \cup {id}
         /\ ~v => poll(p, id, v).granted = p.granted
  BY DEF poll, GoodPeer, Peer

(* becomeLeader keeps the term and the vote of the candidate. *)
LEMMA BecomeLeaderFields ==
  ASSUME NEW p \in GoodPeer
  PROVE  /\ becomeLeader(p).currentTerm = p.currentTerm
         /\ becomeLeader(p).votedFor = p.votedFor
         /\ becomeLeader(p).state = StateLeader
  <1> DEFINE q == reset(p, p.currentTerm)
  <1>1. p \in Peer /\ p.currentTerm \in Nat \ {0}
    BY DEF GoodPeer, Peer
  <1>2. q \in Peer
    BY <1>1, ResetGood, Zenon DEF GoodPeer
  <1>3. q.currentTerm = p.currentTerm /\ q.votedFor = p.votedFor
    BY <1>1 DEF reset, Peer
  <1> HIDE DEF q
  <1>4. ASSUME NEW next
        PROVE  LET r == [q EXCEPT !.state = StateLeader, !.nextIndex = next]
               IN  /\ r.currentTerm = q.currentTerm
                   /\ r.votedFor = q.votedFor
                   /\ r.state = StateLeader
    BY <1>2, SMTT(30) DEF Peer
  <1> QED
    BY <1>3, <1>4 DEF becomeLeader, q

(* What the reply to a vote request does to the requester: nothing but     *)
(* adopt a later term, or, as the candidate of the reply's term, count it  *)
(* and perhaps end the campaign.                                           *)
LEMMA StepVoteRespForm ==
  ASSUME TypeInv, NEW m \in OfType(MsgVoteResp)
  PROVE  LET old == rf[m.to]
             new == stepVoteResp(m).peer
             counted == poll(old, m.from, m.granted)
         IN  /\ NoGrant(stepVoteResp(m).sent)
             /\ \/ Quiet(old, new) /\ (old.state = StateCandidate => new.state # StateLeader)
                \/ /\ old.state = StateCandidate /\ m.term = old.currentTerm
                   /\ new.currentTerm = old.currentTerm /\ new.votedFor = old.votedFor
                   /\ new.state = StateCandidate => new.granted = counted.granted
                   /\ new.state = StateLeader => Cardinality(counted.granted) = quorum
  <1> DEFINE old == rf[m.to]
             p == observed(old, m)
             q == poll(p, m.from, m.granted)
             won == becomeLeader(q)
             lost == becomeFollower(q, q.currentTerm)
             new == stepVoteResp(m).peer
  <1>1. /\ m \in GoodMessage /\ m.to \in Server /\ m.from \in Server
        /\ m.granted \in BOOLEAN /\ m.term \in Nat
    BY MessageFields DEF OfType
  <1>2. old \in GoodPeer /\ old.currentTerm \in Nat
    BY <1>1, TypeInvForm, SMTT(30) DEF GoodPeer, Peer
  <1>3. /\ p \in GoodPeer /\ Quiet(old, p) /\ p.currentTerm >= m.term
        /\ p = old \/ p.state = StateFollower
    BY <1>1, <1>2, ObservedGood, ObservedQuiet, SMTT(30)
  <1>4. p.currentTerm \in Nat \ {0}
    BY <1>3 DEF GoodPeer, Peer
  <1> HIDE DEF p
  <1>5. /\ q \in GoodPeer /\ q.currentTerm = p.currentTerm /\ q.votedFor = p.votedFor
        /\ q.state = p.state
    BY <1>1, <1>3, PollGood, PollFields, SMTT(30)
  <1> HIDE DEF q
  <1>6. /\ won.currentTerm = p.currentTerm /\ won.votedFor = p.votedFor
        /\ won.state = StateLeader
    BY <1>5, BecomeLeaderFields
  <1>7. /\ lost.currentTerm = p.currentTerm /\ lost.votedFor = p.votedFor
        /\ lost.state = StateFollower
    BY <1>4, <1>5, BecomeFollowerQuiet, SMTT(30)
  <1> HIDE DEF won, lost
  <1>8. CASE m.term < p.currentTerm \/ p.state # StateCandidate
    <2>1. stepVoteResp(m) = outcome(p, {})
      BY <1>8 DEF stepVoteResp, p
    <2>2. new = p /\ NoGrant(stepVoteResp(m).sent)
      BY <2>1, NoGrantSets, SMTT(30) DEF outcome
    <2>3. old.state = StateCandidate => p.state # StateLeader
      BY <1>3, SMTT(30) DEF StateCandidate, StateFollower, StateLeader
    <2> QED
      BY <1>3, <2>2, <2>3, SMTT(30)
  <1>9. CASE ~(m.term < p.currentTerm \/ p.state # StateCandidate)
    <2>1. p = old /\ old.state = StateCandidate /\ m.term = old.currentTerm
      BY <1>1, <1>3, <1>4, <1>9, SMTT(30) DEF StateCandidate, StateFollower
    <2>2. q = poll(old, m.from, m.granted)
      BY <2>1, SMTT(30) DEF q
    <2>3. CASE Cardinality(q.granted) = quorum
      <3>1. stepVoteResp(m) = outcome(won, bcastAppend(won, m.to))
        BY <1>9, <2>3, SMTT(30) DEF stepVoteResp, p, q, won
      <3>2. new = won /\ NoGrant(stepVoteResp(m).sent)
        BY <3>1, NoGrantSets, SMTT(30) DEF outcome, NoGrant
      <3> QED
        BY <1>6, <2>1, <2>2, <2>3, <3>2, SMTT(30) DEF StateCandidate, StateLeader
    <2>4. CASE Cardinality(q.granted) # quorum /\ Cardinality(q.refused) = quorum
      <3>1. stepVoteResp(m) = outcome(lost, {})
        BY <1>9, <2>4, SMTT(30) DEF stepVoteResp, p, q, lost
      <3>2. new = lost /\ NoGrant(stepVoteResp(m).sent)
        BY <3>1, NoGrantSets, SMTT(30) DEF outcome, NoGrant
      <3> QED
        BY <1>7, <2>1, <3>2, SMTT(30) DEF StateCandidate, StateLeader, StateFollower
    <2>5. CASE Cardinality(q.granted) # quorum /\ Cardinality(q.refused) # quorum
      <3>1. stepVoteResp(m) = outcome(q, {})
        BY <1>9, <2>5, SMTT(30) DEF stepVoteResp, p, q
      <3>2. new = q /\ NoGrant(stepVoteResp(m).sent)
        BY <3>1, NoGrantSets DEF outcome, NoGrant
      <3> QED
        BY <1>5, <2>1, <2>2, <3>2, SMTT(30) DEF StateCandidate, StateLeader
    <2> QED
      BY <2>3, <2>4, <2>5, ZenonT(30)
  <1> QED
    BY <1>8, <1>9, ZenonT(30)

(* Counting a vote: it was cast in this candidate's term. *)
LEMMA RequestVoteReplyStep ==
  ASSUME TypeInv, quorum # 1, ElectionInv,
         NEW m \in OfType(MsgVoteResp), m \in BagToSet(messages),
         Receive(m, stepVoteResp(m)),
         leaders' = IF rf[m.to].state = StateCandidate
                       /\ stepVoteResp(m).peer.state = StateLeader
                    THEN leaders \cup {<<stepVoteResp(m).peer.currentTerm, m.to,
                                         poll(rf[m.to], m.from, m.granted).granted>>}
                    ELSE leaders
  PROVE  VoteStep
  <1> DEFINE i == m.to
             old == rf[i]
             new == stepVoteResp(m).peer
             G == poll(old, m.from, m.granted).granted
  <1>1. /\ i \in Server /\ m.from \in Server
        /\ m.granted \in BOOLEAN /\ m.term \in Nat
    BY MessageFields DEF OfType
  <1>2. /\ rf \in [Server -> GoodPeer] /\ persister \in [Server -> Saved]
        /\ incarnation \in [Server -> Nat] /\ old \in GoodPeer
    BY <1>1, TypeInvForm, SMTT(30)
  <1>3. new \in GoodPeer
    BY <1>2, StepVoteRespGood, SMTT(30) DEF GoodOutcome
  <1>4. /\ rf' = [rf EXCEPT ![i] = new]
        /\ persist(i, new)
        /\ \A n \in BagToSet(messages') : n \in BagToSet(messages) \/ n.type # MsgVoteResp
    BY ReceiveForm, StepVoteRespForm, SMTT(30) DEF NoGrant
  <1>5. CASE Quiet(old, new) /\ (old.state = StateCandidate => new.state # StateLeader)
    <2>1. leaders' = leaders
      BY <1>5
    <2> HIDE DEF new
    <2> QED
      BY <1>1, <1>3, <1>4, <1>5, <2>1, QuietStep, ZenonT(30)
  <1>6. CASE /\ old.state = StateCandidate /\ m.term = old.currentTerm
             /\ new.currentTerm = old.currentTerm /\ new.votedFor = old.votedFor
             /\ new.state = StateCandidate => new.granted = G
             /\ new.state = StateLeader => Cardinality(G) = quorum
    <2>1. \A j \in G : Cast(j, old.currentTerm, i)
      <3>1. ASSUME NEW j \in G
            PROVE  Cast(j, old.currentTerm, i)
        <4>1. j \in old.granted \/ (j = m.from /\ m.granted)
          BY <1>1, <1>2, PollFields, SMTT(30)
        <4>2. CASE j \in old.granted
          BY <1>6, <4>2, SMTT(30) DEF Cast, CastInFlight, CastCounted, CastElected
        <4>3. CASE j = m.from /\ m.granted
          BY <1>6, <4>3, SMTT(30) DEF Cast, CastInFlight, CastCounted, CastElected, OfType
        <4> QED
          BY <4>1, <4>2, <4>3, SMTT(30)
      <3> QED
        BY <3>1, SMTT(30)
    <2>2. \/ leaders' = leaders
          \/ leaders' = leaders \cup {<<new.currentTerm, i, G>>} /\ Cardinality(G) = quorum
      BY <1>6, SMTT(30)
    <2> HIDE DEF new, G
    <2>3. /\ persister' = [persister EXCEPT ![i] = persisted(new)]
          /\ persisted(new).currentTerm = old.currentTerm
          /\ persisted(new).votedFor = old.votedFor
      BY <1>4, <1>6, SMTT(30) DEF persist, persisted
    <2>4. Durable /\ QuorumElects
      BY SMTT(30) DEF ElectionInv
    <2>5. Durable'
      BY <1>1, <1>2, <1>4, <1>6, <2>3, <2>4, SMTT(30) DEF Durable
    <2>6. VoteKept
      BY <1>1, <1>2, <2>3, <2>4, SMTT(30) DEF VoteKept, Durable
    <2>7. QuorumElects'
      <3>1. Cardinality(G) = quorum => Cardinality(G) >= quorum
        <4>1. quorum \in Nat
          BY FS_CardinalityType, ServerAssumption, SMTT(30) DEF quorum
        <4> QED
          BY <4>1
      <3> QED
        BY <2>2, <2>4, <3>1, SMTT(30) DEF QuorumElects
    <2>8. ASSUME NEW j \in Server, NEW c \in Server, NEW t \in Nat, Cast(j, t, c)'
          PROVE  Cast(j, t, c)
      <3>1. CASE CastInFlight(j, t, c)'
        BY <1>4, <3>1, SMTT(30) DEF Cast, CastInFlight, CastCounted, CastElected
      <3>2. CASE CastCounted(j, t, c)'
        <4>1. CASE c = i
          BY <1>1, <1>2, <1>4, <1>6, <2>1, <3>2, <4>1, SMTT(30) DEF CastCounted
        <4>2. CASE c # i
          BY <1>2, <1>4, <3>2, <4>2, SMTT(30) DEF Cast, CastInFlight, CastCounted, CastElected
        <4> QED
          BY <4>1, <4>2, SMTT(30)
      <3>3. CASE CastElected(j, t, c)'
        <4>1. PICK l \in leaders' : l[1] = t /\ l[2] = c /\ j \in l[3]
          BY <3>3, SMTT(30) DEF CastElected
        <4>2. CASE l \in leaders
          BY <4>1, <4>2, SMTT(30) DEF Cast, CastInFlight, CastCounted, CastElected
        <4>3. CASE l = <<new.currentTerm, i, G>>
          BY <1>6, <2>1, <4>1, <4>3, SMTT(30)
        <4>4. l \in leaders \/ l = <<new.currentTerm, i, G>>
          BY <2>2, Zenon
        <4> QED
          BY <4>2, <4>3, <4>4, Zenon
      <3> QED
        BY <2>8, <3>1, <3>2, <3>3, Zenon DEF Cast
    <2> QED
      BY <2>5, <2>6, <2>7, <2>8, SMTT(30) DEF VoteStep
  <1> QED
    BY <1>5, <1>6, StepVoteRespForm, SMTT(30)

(* A campaign: the candidate votes for itself in a term it has not seen. *)
LEMMA CampaignStep ==
  ASSUME TypeInv, quorum # 1, ElectionInv, NEW i \in Server, campaign(i)
  PROVE  VoteStep
  <1> DEFINE b == becomeCandidate(rf[i], i)
             p == poll(b, i, TRUE)
             r == reset(rf[i], rf[i].currentTerm + 1)
             t0 == rf[i].currentTerm + 1
  <1>1. /\ rf \in [Server -> GoodPeer] /\ persister \in [Server -> Saved]
        /\ rf[i] \in GoodPeer /\ rf[i] \in Peer /\ rf[i].currentTerm \in Nat
    BY TypeInvForm DEF GoodPeer, Peer
  <1>2. /\ b.currentTerm = t0 /\ b.votedFor = i /\ b.state = StateCandidate
        /\ b.granted = {} /\ b \in GoodPeer
    <2>1. t0 \in Nat \ {0}
      BY <1>1
    <2>2. r \in Peer
      BY <1>1, <2>1, ResetGood, ZenonT(30) DEF GoodPeer
    <2>3. r.currentTerm = t0 /\ r.granted = {}
      BY <1>1 DEF reset, Peer
    <2> HIDE DEF r, t0
    <2>4. LET s == [r EXCEPT !.votedFor = i, !.state = StateCandidate]
          IN  /\ s.currentTerm = r.currentTerm /\ s.votedFor = i
              /\ s.state = StateCandidate /\ s.granted = r.granted
      BY <2>2 DEF Peer
    <2>5. b = [r EXCEPT !.votedFor = i, !.state = StateCandidate]
      BY DEF becomeCandidate, r
    <2>6. b \in GoodPeer
      BY <1>1, BecomeCandidateGood
    <2> HIDE DEF b
    <2> QED
      BY <2>3, <2>4, <2>5, <2>6, SMTT(30)
  <1> HIDE DEF b
  <1>3. /\ p.currentTerm = t0 /\ p.votedFor = i /\ p.state = StateCandidate
        /\ p.granted \subseteq {i}
    BY <1>2, PollFields, Zenon
  <1>4. /\ rf' = [rf EXCEPT ![i] = p]
        /\ persist(i, p)
        /\ leaders' = leaders
        /\ Transmit({}, bcastRequestVoteRPC(p, i))
    BY Zenon DEF campaign, Become, b
  <1> HIDE DEF p
  <1>5. \A n \in BagToSet(messages') : n \in BagToSet(messages) \/ n.type # MsgVoteResp
    <2>1. BagToSet(messages') \subseteq BagToSet(messages) \cup bcastRequestVoteRPC(p, i)
      BY <1>4, TransmitAdds, TypeInvForm, SMTT(30)
    <2> QED
      BY <2>1, NoGrantSets DEF NoGrant
  <1>6. /\ persister' = [persister EXCEPT ![i] = persisted(p)]
        /\ persisted(p).currentTerm = t0
        /\ persisted(p).votedFor = i
    BY <1>3, <1>4 DEF persist, persisted
  <1>7. Durable /\ QuorumElects
    BY SMTT(30) DEF ElectionInv
  <1>8. Durable'
    BY <1>1, <1>3, <1>4, <1>6, <1>7, SMTT(30) DEF Durable
  <1>9. persister[i].currentTerm = rf[i].currentTerm
    BY <1>7 DEF Durable
  <1>10. VoteKept
    BY <1>1, <1>6, <1>9, SMTT(30) DEF VoteKept
  <1>11. ASSUME NEW j \in Server, NEW c \in Server, NEW t \in Nat, Cast(j, t, c)'
         PROVE  Cast(j, t, c) \/ Fresh(j, t, c)
    <2>1. CASE CastInFlight(j, t, c)'
      BY <1>5, <2>1, SMTT(30) DEF Cast, CastInFlight, CastCounted, CastElected
    <2>2. CASE CastCounted(j, t, c)'
      <3>1. CASE c = i
        <4>1. j = i /\ t = t0
          BY <1>1, <1>3, <1>4, <2>2, <3>1, SMTT(30) DEF CastCounted
        <4> QED
          BY <1>1, <1>6, <1>9, <3>1, <4>1, SMTT(30) DEF Fresh
      <3>2. CASE c # i
        BY <1>1, <1>4, <2>2, <3>2, SMTT(30) DEF Cast, CastInFlight, CastCounted, CastElected
      <3> QED
        BY <3>1, <3>2, SMTT(30)
    <2>3. CASE CastElected(j, t, c)'
      BY <1>4, <2>3 DEF Cast, CastInFlight, CastCounted, CastElected
    <2> QED
      BY <1>11, <2>1, <2>2, <2>3, Zenon DEF Cast
  <1> QED
    BY <1>4, <1>7, <1>8, <1>10, <1>11, SMTT(30) DEF VoteStep, QuorumElects

(* Every step of the cluster. *)
LEMMA NextVoteStep ==
  ASSUME TypeInv, quorum # 1, ElectionInv, [Next]_vars
  PROVE  VoteStep
  <1>a. rf \in [Server -> GoodPeer] /\ persister \in [Server -> Saved] /\ IsABag(messages)
    BY TypeInvForm
  <1>1. CASE RequestVote
    <2>1. PICK m \in Deliverable(MsgVote) : Receive(m, stepVote(m)) /\ leaders' = leaders
      BY <1>1 DEF RequestVote
    <2> QED
      BY <2>1, DeliverableOfType, RequestVoteStep, SMTT(30)
  <1>2. CASE AppendEnties
    <2>1. PICK m \in Deliverable(MsgApp) : Receive(m, stepApp(m)) /\ leaders' = leaders
      BY <1>2 DEF AppendEnties
    <2>2. m \in OfType(MsgApp) /\ m.to \in Server
      BY DeliverableOfType
    <2>3. QuietOutcome(rf[m.to], stepApp(m)) /\ GoodOutcome(stepApp(m))
      BY <1>a, <2>2, StepAppQuiet, StepAppGood, SMTT(30)
    <2>4. /\ rf' = [rf EXCEPT ![m.to] = stepApp(m).peer]
          /\ persist(m.to, stepApp(m).peer)
          /\ BagToSet(messages') \subseteq BagToSet(messages) \cup stepApp(m).sent
      BY <2>1, ReceiveForm, SMTT(30)
    <2> QED
      BY <2>1, <2>2, <2>3, <2>4, QuietStep, ZenonT(30) DEF QuietOutcome, GoodOutcome, NoGrant
  <1>3. CASE RequestVoteReply
    <2>1. PICK m \in Deliverable(MsgVoteResp) :
            /\ Receive(m, stepVoteResp(m))
            /\ leaders' = IF rf[m.to].state = StateCandidate
                             /\ stepVoteResp(m).peer.state = StateLeader
                          THEN leaders \cup {<<stepVoteResp(m).peer.currentTerm, m.to,
                                               poll(rf[m.to], m.from, m.granted).granted>>}
                          ELSE leaders
      BY <1>3, ZenonT(30) DEF RequestVoteReply
    <2> QED
      BY <2>1, DeliverableOfType, RequestVoteReplyStep, SMTT(30)
  <1>4. CASE AppendEntiesReply
    <2>1. PICK m \in Deliverable(MsgAppResp) : Receive(m, stepAppResp(m)) /\ leaders' = leaders
      BY <1>4 DEF AppendEntiesReply
    <2>2. m \in OfType(MsgAppResp) /\ m.to \in Server
      BY DeliverableOfType
    <2>3. QuietOutcome(rf[m.to], stepAppResp(m)) /\ GoodOutcome(stepAppResp(m))
      BY <1>a, <2>2, StepAppRespQuiet, StepAppRespGood
    <2>4. /\ rf' = [rf EXCEPT ![m.to] = stepAppResp(m).peer]
          /\ persist(m.to, stepAppResp(m).peer)
          /\ BagToSet(messages') \subseteq BagToSet(messages) \cup stepAppResp(m).sent
      BY <2>1, ReceiveForm
    <2> QED
      BY <2>1, <2>2, <2>3, <2>4, QuietStep, Zenon DEF QuietOutcome, GoodOutcome, NoGrant
  <1>5. CASE CrashInStep
    <2>1. PICK m \in Deliverable(MsgApp) \cup Deliverable(MsgAppResp) :
            /\ rf' = [rf EXCEPT ![m.to] = readPersist(persister[m.to])]
            /\ Transmit({m}, {})
            /\ UNCHANGED <<persister, leaders>>
      BY <1>5, Zenon DEF CrashInStep
    <2>2. m.to \in Server
      BY DeliverableOfType
    <2>3. BagToSet(messages') \subseteq BagToSet(messages)
      BY <1>a, <2>1, TransmitAdds
    <2> QED
      BY <2>1, <2>2, <2>3, RestartStep, ZenonT(30)
  <1>6. ASSUME NEW i \in Server, campaign(i)
        PROVE  VoteStep
    BY <1>6, CampaignStep
  <1>7. ASSUME NEW i \in Server, Heartbeat(i)
        PROVE  VoteStep
    <2>1. rf[i] \in GoodPeer /\ persist(i, rf[i]) /\ leaders' = leaders
      BY <1>a, <1>7 DEF Heartbeat
    <2>2. CASE sendable(rf[i], i)
      <3>1. Transmit({}, bcastAppend(rf[i], i)) /\ rf' = rf
        BY <1>7, <2>2 DEF Heartbeat
      <3>2. BagToSet(messages') \subseteq BagToSet(messages) \cup bcastAppend(rf[i], i)
        BY <1>a, <3>1, TransmitAdds, SMTT(30)
      <3>3. rf' = [rf EXCEPT ![i] = rf[i]] /\ Quiet(rf[i], rf[i])
        BY <1>a, <2>1, <3>1, LogMethodsQuiet, SMTT(30)
      <3>4. NoGrant(bcastAppend(rf[i], i))
        BY NoGrantSets
      <3> QED
        BY <2>1, <3>2, <3>3, <3>4, QuietStep, ZenonT(30) DEF NoGrant
    <2>3. CASE ~sendable(rf[i], i)
      <3>1. rf' = [rf EXCEPT ![i] = panic(rf[i])] /\ messages' = messages
        BY <1>7, <2>3 DEF Heartbeat, Become
      <3>2. panic(rf[i]) \in GoodPeer /\ Quiet(rf[i], panic(rf[i]))
        BY <2>1, ResetGood, LogMethodsQuiet, SMTT(30)
      <3>3. persist(i, panic(rf[i]))
        BY <1>a, <2>1, SMTT(30) DEF persist, persisted, panic, GoodPeer, Peer
      <3> QED
        BY <2>1, <3>1, <3>2, <3>3, QuietStep, Zenon
    <2> QED
      BY <2>2, <2>3, SMTT(30)
  <1>8. ASSUME NEW i \in Server, Restart(i)
        PROVE  VoteStep
    BY <1>8, RestartStep, ZenonT(30) DEF Restart, Become
  <1>9. ASSUME NEW i \in Server, NEW command \in Command, Start(i, command)
        PROVE  VoteStep
    <2> DEFINE log == Append(rf[i].log, [term |-> rf[i].currentTerm, command |-> command])
               a == Len(rf[i].log) + 1 + 1
               b == Len(rf[i].log) + 1
               p == [rf[i] EXCEPT !.log = log, !.nextIndex[i] = a, !.matchIndex[i] = b]
    <2>1. rf[i] \in GoodPeer /\ rf[i] \in Peer
      BY <1>a DEF GoodPeer
    <2>2. p \in GoodPeer
      BY <2>1, StartGood, ZenonT(30)
    <2>3. Quiet(rf[i], p)
      <3> HIDE DEF log, a, b
      <3> QED
        BY <2>1, SMTT(30) DEF Quiet, Peer
    <2>4. /\ persist(i, p)
          /\ \/ rf' = [rf EXCEPT ![i] = p] /\ Transmit({}, bcastAppend(p, i))
             \/ rf' = [rf EXCEPT ![i] = panic(p)] /\ messages' = messages
          /\ leaders' = leaders
      BY <1>9 DEF Start, Become
    <2> HIDE DEF p
    <2>5. CASE rf' = [rf EXCEPT ![i] = p] /\ Transmit({}, bcastAppend(p, i))
      <3>1. BagToSet(messages') \subseteq BagToSet(messages) \cup bcastAppend(p, i)
        BY <1>a, <2>5, TransmitAdds, SMTT(30)
      <3>2. NoGrant(bcastAppend(p, i))
        BY NoGrantSets
      <3> QED
        BY <2>2, <2>3, <2>4, <2>5, <3>1, <3>2, QuietStep, ZenonT(30) DEF NoGrant
    <2>6. CASE rf' = [rf EXCEPT ![i] = panic(p)] /\ messages' = messages
      <3>1. panic(p) \in GoodPeer /\ Quiet(p, panic(p))
        BY <2>2, ResetGood, LogMethodsQuiet, SMTT(30)
      <3>2. Quiet(rf[i], panic(p))
        BY <2>1, <2>2, <2>3, <3>1, QuietTrans, SMTT(30)
      <3>3. persist(i, panic(p))
        BY <2>2, <2>4, SMTT(30) DEF persist, persisted, panic, GoodPeer, Peer
      <3> QED
        BY <2>4, <2>6, <3>1, <3>2, <3>3, QuietStep, ZenonT(30)
    <2> QED
      BY <2>4, <2>5, <2>6, SMTT(30)
  <1>10. CASE UNCHANGED vars
    <2>1. Durable /\ QuorumElects
      BY DEF ElectionInv
    <2> QED
      BY <1>10, <2>1 DEF vars, VoteStep, VoteKept, Durable, QuorumElects, Cast, CastInFlight, CastCounted, CastElected
  <1> QED
    BY <1>1, <1>2, <1>3, <1>4, <1>5, <1>6, <1>7, <1>8, <1>9, <1>10, SMTT(30) DEF Next

-----------------------------------------------------------------------------
(* The theorems. *)

(* No vote has been cast in an initial state. *)
LEMMA ElectionInvInit == Init => ElectionInv
  <1> SUFFICES ASSUME Init PROVE ElectionInv
    OBVIOUS
  <1>1. Durable
    BY SMTT(30) DEF Init, Durable, persisted
  <1>2. ASSUME NEW j \in Server, NEW c \in Server, NEW t \in Nat
        PROVE  ~Cast(j, t, c)
    BY DEF Init, Cast, CastInFlight, CastCounted, CastElected, EmptyBag, SetToBag, BagToSet, InitPeer, StateFollower, StateCandidate
  <1>3. QuorumElects
    BY DEF Init, QuorumElects
  <1> QED
    BY <1>1, <1>2, <1>3 DEF ElectionInv, CastDurable, CastOnce

(* TypeInv and ElectionInv hold in every reachable state. *)
LEMMA Invariants == Spec => [](TypeInv /\ ElectionInv)
  <1>1. Init => TypeInv /\ ElectionInv
    BY TypeInvInit, ElectionInvInit
  <1>2. TypeInv /\ ElectionInv /\ [Next]_vars => TypeInv' /\ ElectionInv'
    <2> SUFFICES ASSUME TypeInv, ElectionInv, [Next]_vars
                 PROVE  TypeInv' /\ ElectionInv'
      OBVIOUS
    <2>1. TypeInv'
      BY TypeInvNext
    <2>2. CASE quorum # 1
      <3>1. VoteStep
        BY <2>2, NextVoteStep
      <3> QED
        BY <2>1, <2>2, <3>1, VoteStepKeepsInv, SMTT(30)
    <2>3. CASE quorum = 1
      BY <2>1, <2>3 DEF ElectionInv
    <2> QED
      BY <2>1, <2>2, <2>3, SMTT(30)
  <1> QED
    BY <1>1, <1>2, PTL DEF Spec

(* Two quorums have a server in common; a quorum of one is the cluster. *)
LEMMA Quorums ==
  /\ quorum = 1 => \A c, d \in Server : c = d
  /\ \A A, B \in SUBSET Server :
        Cardinality(A) >= quorum /\ Cardinality(B) >= quorum => A \cap B # {}
  <1> DEFINE N == Cardinality(Server)
  <1>1. N \in Nat /\ IsFiniteSet(Server)
    BY FS_CardinalityType, ServerAssumption
  <1>2. ASSUME quorum = 1
        PROVE  \A c, d \in Server : c = d
    <2>1. N < 2
      <3> HIDE DEF N
      <3>1. N \div 2 + 1 = 1
        BY <1>2 DEF quorum, N
      <3> QED
        BY <1>1, <3>1
    <2>2. N # 0
      BY <1>1, FS_EmptySet, ServerAssumption
    <2>3. N = 1
      BY <1>1, <2>1, <2>2, SMTT(30)
    <2>4. PICK x : Server = {x}
      BY <1>1, <2>3, FS_Singleton, SMTT(30)
    <2> QED
      BY <2>4
  <1>3. ASSUME NEW A \in SUBSET Server, NEW B \in SUBSET Server,
               Cardinality(A) >= quorum, Cardinality(B) >= quorum
        PROVE  A \cap B # {}
    <2>1. Cardinality(A) \in Nat /\ Cardinality(B) \in Nat
      BY <1>1, FS_Subset, FS_CardinalityType, SMTT(30)
    <2>2. quorum + quorum > N /\ quorum \in Nat
      <3>1. quorum = N \div 2 + 1
        BY DEF quorum
      <3> HIDE DEF N
      <3> QED
        BY <1>1, <3>1
    <2>3. Cardinality(A) + Cardinality(B) > N
      <3> HIDE DEF N
      <3> QED
        BY <1>1, <1>3, <2>1, <2>2, SMTT(30)
    <2> QED
      BY <1>1, <2>3, FS_MajoritiesIntersect, SMTT(30)
  <1> QED
    BY <1>2, <1>3

(* A ballot of Ballots is a cast vote of servers. *)
LEMMA BallotCast ==
  ASSUME TypeInv, NEW b \in Ballots
  PROVE  /\ b[1] \in Server /\ b[2] \in Nat /\ b[3] \in Server
         /\ Cast(b[1], b[2], b[3])
  <1>1. /\ rf \in [Server -> GoodPeer] /\ BagToSet(messages) \subseteq GoodMessage
        /\ leaders \subseteq Nat \X Server \X SUBSET Server
    BY TypeInvForm, SMTT(30)
  <1>2. CASE \E m \in BagToSet(messages) :
               m.type = MsgVoteResp /\ m.granted /\ b = <<m.from, m.term, m.to>>
    BY <1>1, <1>2, MessageFields, SMTT(30) DEF Cast, CastInFlight, CastCounted, CastElected
  <1>3. CASE \E c \in Server : \E j \in rf[c].granted :
               rf[c].state = StateCandidate /\ b = <<j, rf[c].currentTerm, c>>
    <2>1. PICK c \in Server : \E j \in rf[c].granted :
               rf[c].state = StateCandidate /\ b = <<j, rf[c].currentTerm, c>>
      BY <1>3
    <2>2. rf[c].granted \in SUBSET Server /\ rf[c].currentTerm \in Nat
      BY <1>1 DEF GoodPeer, Peer
    <2> QED
      BY <2>1, <2>2 DEF Cast, CastInFlight, CastCounted, CastElected
  <1>4. CASE \E l \in leaders : \E j \in l[3] : b = <<j, l[1], l[2]>>
    <2>1. PICK l \in leaders : \E j \in l[3] : b = <<j, l[1], l[2]>>
      BY <1>4
    <2>2. l[1] \in Nat /\ l[2] \in Server /\ l[3] \in SUBSET Server
      BY <1>1
    <2> QED
      BY <2>1, <2>2, SMTT(30) DEF Cast, CastInFlight, CastCounted, CastElected
  <1> DEFINE Sent == {<<m.from, m.term, m.to>> :
                        m \in {n \in BagToSet(messages) : n.type = MsgVoteResp /\ n.granted}}
             Counted == UNION {{<<j, rf[c].currentTerm, c>> : j \in rf[c].granted} :
                                c \in {d \in Server : rf[d].state = StateCandidate}}
             Won == UNION {{<<j, l[1], l[2]>> : j \in l[3]} : l \in leaders}
  <1>5. CASE b \in Sent
    BY <1>2, <1>5, Zenon
  <1>6. CASE b \in Counted
    BY <1>3, <1>6, ZenonT(30)
  <1>7. CASE b \in Won
    BY <1>4, <1>7, ZenonT(30)
  <1>8. Ballots = Sent \cup Counted \cup Won
    BY DEF Ballots
  <1> HIDE DEF Sent, Counted, Won
  <1> QED
    BY <1>5, <1>6, <1>7, <1>8, SMTT(30)

(* Ballots and Cast describe the same votes, so CastDurable is VotesAreDurable. *)
LEMMA InvImpliesDurable == TypeInv /\ ElectionInv => VotesAreDurable
  BY BallotCast DEF ElectionInv, CastDurable, VotesAreDurable

(* CastOnce is OneVotePerTerm; a cluster of one has one voter. *)
LEMMA InvImpliesOneVote == TypeInv /\ ElectionInv => OneVotePerTerm
  <1> SUFFICES ASSUME TypeInv, ElectionInv,
                      NEW b \in Ballots, NEW d \in Ballots, b[1] = d[1], b[2] = d[2]
               PROVE  b[3] = d[3]
    BY DEF OneVotePerTerm
  <1>1. /\ b[1] \in Server /\ b[2] \in Nat /\ b[3] \in Server /\ d[3] \in Server
        /\ Cast(b[1], b[2], b[3]) /\ Cast(b[1], b[2], d[3])
    BY BallotCast
  <1> QED
    BY <1>1, Quorums DEF ElectionInv, CastOnce

(* Two quorums share a voter, which voted once: the leaders are the same. *)
LEMMA InvImpliesSafety == TypeInv /\ ElectionInv => ElectionSafety
  <1> SUFFICES ASSUME TypeInv, ElectionInv,
                      NEW l1 \in leaders, NEW l2 \in leaders, l1[1] = l2[1]
               PROVE  l1[2] = l2[2]
    BY DEF ElectionSafety
  <1>1. /\ l1[1] \in Nat /\ l1[2] \in Server /\ l1[3] \in SUBSET Server
        /\ l2[2] \in Server /\ l2[3] \in SUBSET Server
    BY TypeInvForm
  <1>2. CASE quorum = 1
    BY <1>1, <1>2, Quorums, SMTT(30)
  <1>3. CASE quorum # 1
    <2>1. Cardinality(l1[3]) >= quorum /\ Cardinality(l2[3]) >= quorum
      BY <1>3 DEF ElectionInv, QuorumElects
    <2>2. PICK j \in Server : j \in l1[3] /\ j \in l2[3]
      BY <1>1, <2>1, Quorums, SMTT(30)
    <2>3. Cast(j, l1[1], l1[2]) /\ Cast(j, l1[1], l2[2])
      BY <2>2 DEF Cast, CastInFlight, CastCounted, CastElected
    <2> QED
      BY <1>1, <1>3, <2>3, SMTT(30) DEF ElectionInv, CastOnce
  <1> QED
    BY <1>2, <1>3, SMTT(30)

(* Election Safety (doc.go): in clusters of every size, over every         *)
(* interleaving of campaigns, lost or reordered messages, crashes and      *)
(* restarts, no two servers become leader of the same term.                *)
THEOREM ElectionIsSafe == Spec => []ElectionSafety
  <1>1. TypeInv /\ ElectionInv => ElectionSafety
    BY InvImpliesSafety, SMTT(30)
  <1> QED
    BY <1>1, Invariants, PTL

(* persist() comes early enough: a vote that was sent, counted or made a   *)
(* leader is on the voter's stable storage, or the voter saved a later     *)
(* term.                                                                   *)
THEOREM VotesSurviveCrashes == Spec => []VotesAreDurable
  <1>1. TypeInv /\ ElectionInv => VotesAreDurable
    BY InvImpliesDurable, SMTT(30)
  <1> QED
    BY <1>1, Invariants, PTL

(* Step's MsgVote branch: over all its incarnations a peer votes for one   *)
(* candidate per term.                                                     *)
THEOREM VotesOncePerTerm == Spec => []OneVotePerTerm
  <1>1. TypeInv /\ ElectionInv => OneVotePerTerm
    BY InvImpliesOneVote
  <1> QED
    BY <1>1, Invariants, PTL

(* raft.go, currentTerm: in a cluster of more than one peer no step and no *)
(* restart takes the term of a peer back.  (In a cluster of one peer it    *)
(* does: campaign saves nothing there.)                                    *)
THEOREM TermsNeverDecrease ==
  ASSUME quorum # 1
  PROVE  Spec => TermMonotonic
  <1>1. ASSUME TypeInv, ElectionInv, TypeInv', ElectionInv', [Next]_vars
        PROVE  [\A i \in Server : rf'[i].currentTerm >= rf[i].currentTerm]_vars
    <2>1. VoteStep
      BY <1>1, NextVoteStep, SMTT(30)
    <2>2. ASSUME NEW i \in Server
          PROVE  rf'[i].currentTerm >= rf[i].currentTerm
      <3>1. /\ persister[i].currentTerm = rf[i].currentTerm
            /\ persister'[i].currentTerm = rf'[i].currentTerm
        BY <1>1, <2>1, SMTT(30) DEF ElectionInv, Durable, VoteStep
      <3>2. persister[i].currentTerm \in Nat /\ persister'[i].currentTerm \in Nat
        BY <1>1 DEF TypeInv, TypeOK, Saved
      <3> QED
        BY <2>1, <3>1, <3>2, SMTT(30) DEF VoteStep, VoteKept
    <2> QED
      BY <2>2
  <1> QED
    BY <1>1, Invariants, PTL DEF Spec, TermMonotonic

=============================================================================
