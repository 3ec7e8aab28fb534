----------------------------- MODULE RaftProofs -----------------------------
(***************************************************************************)
(* Theorems about Raft for every set of servers, every set of commands and *)
(* every value of the bounds.                                              *)
(***************************************************************************)
EXTENDS Raft, FiniteSetTheorems, SequenceTheorems, TLAPS

(* The peers a handler may meet and leave: well typed, and committed only  *)
(* what is in the log, so that what stateMachine applies is an entry.      *)
GoodPeer == {p \in Peer : p.commitIndex <= Len(p.log)}

(* What a handler may send. *)
GoodMessage ==
    {m \in Message : m.type = MsgAppResp /\ m.term > 0 => m.nextIndex > 0}

(* The messages of one type. *)
OfType(type) == {m \in GoodMessage : m.type = type}

TypeInv ==
    /\ TypeOK
    /\ \A i \in Server : rf[i] \in GoodPeer

-----------------------------------------------------------------------------
(* What the methods of struct Raft preserve. *)

(* Make builds a well-typed peer. *)
LEMMA InitPeerGood == InitPeer \in GoodPeer
  BY ServerAssumption, EmptySeq DEF InitPeer, GoodPeer, Peer, NoIndex, Dead

(* reset and the role changes built on it, and panic, keep a peer well typed. *)
LEMMA ResetGood ==
  ASSUME NEW p \in GoodPeer, NEW t \in Nat \ {0}
  PROVE  /\ reset(p, t) \in GoodPeer
         /\ becomeFollower(p, t) \in GoodPeer
         /\ becomeLeader(p) \in GoodPeer
         /\ panic(p) \in GoodPeer
  <1>1. Len(p.log) \in Nat
    BY LenProperties DEF GoodPeer, Peer
  <1>2. reset(p, t) \in GoodPeer
    BY Zenon DEF reset, GoodPeer, Peer, NoIndex
  <1>3. becomeFollower(p, t) \in GoodPeer
    BY <1>2, Zenon DEF becomeFollower, GoodPeer, Peer
  <1>4. reset(p, p.currentTerm) \in GoodPeer
    BY Zenon DEF reset, GoodPeer, Peer, NoIndex
  <1>5. becomeLeader(p) \in GoodPeer
    <2> DEFINE q == reset(p, p.currentTerm)
               next == [j \in Server |-> Len(p.log) + 1]
    <2>1. q \in GoodPeer /\ next \in [Server -> Nat]
      BY <1>1, <1>4
    <2> HIDE DEF q, next
    <2>2. [q EXCEPT !.state = StateLeader, !.nextIndex = next] \in GoodPeer
      BY <2>1, Zenon DEF GoodPeer, Peer
    <2> QED
      BY <2>2 DEF becomeLeader, q, next
  <1>6. panic(p) \in GoodPeer
    BY Zenon DEF panic, GoodPeer, Peer, Dead
  <1> QED
    BY <1>2, <1>3, <1>5, <1>6

(* becomeCandidate votes for the peer itself in the next term. *)
LEMMA BecomeCandidateGood ==
  ASSUME NEW p \in GoodPeer, NEW i \in Server
  PROVE  becomeCandidate(p, i) \in GoodPeer
  <1> DEFINE q == reset(p, p.currentTerm + 1)
  <1>1. p.currentTerm + 1 \in Nat \ {0}
    BY DEF GoodPeer, Peer
  <1>2. q \in GoodPeer
    BY <1>1, ResetGood
  <1> HIDE DEF q
  <1>3. [q EXCEPT !.votedFor = i, !.state = StateCandidate] \in GoodPeer
    BY <1>2, Zenon DEF GoodPeer, Peer
  <1> QED
    BY <1>3 DEF becomeCandidate, q

(* poll counts an answer of a known server. *)
LEMMA PollGood ==
  ASSUME NEW p \in GoodPeer, NEW id \in Server, NEW v \in BOOLEAN
  PROVE  poll(p, id, v) \in GoodPeer
  BY Zenon DEF poll, GoodPeer, Peer

(* A peer that comes back from stable storage has committed nothing yet. *)
LEMMA ReadPersistGood ==
  ASSUME NEW data \in Saved
  PROVE  readPersist(data) \in GoodPeer
  <1>1. data.log \in Seq(Entry) /\ Len(data.log) \in Nat
    BY LenProperties DEF Saved
  <1>2. InitPeer \in Peer /\ InitPeer.commitIndex = 0
    BY InitPeerGood DEF GoodPeer, InitPeer
  <1>3. data.currentTerm \in Nat \ {0} /\ data.votedFor \in Server \cup {None}
    BY DEF Saved
  <1>4. readPersist(data) \in Peer
    BY <1>1, <1>2, <1>3, Zenon DEF readPersist, Peer
  <1>5. readPersist(data).commitIndex = 0 /\ readPersist(data).log = data.log
    BY <1>2 DEF readPersist, Peer
  <1> QED
    BY <1>1, <1>4, <1>5 DEF GoodPeer

(* persist saves a well-typed record. *)
LEMMA PersistedSaved ==
  ASSUME NEW p \in GoodPeer
  PROVE  persisted(p) \in Saved
  BY DEF persisted, GoodPeer, Peer, Saved

(* Adopting the term of a message keeps the peer well typed. *)
LEMMA ObservedGood ==
  ASSUME NEW p \in GoodPeer, NEW m \in GoodMessage
  PROVE  observed(p, m) \in GoodPeer
  <1>1. m.term \in Nat
    BY DEF GoodMessage, Message
  <1>2. p.currentTerm \in Nat \ {0}
    BY DEF GoodPeer, Peer
  <1> QED
    BY <1>1, <1>2, ResetGood DEF observed

(* commitTo never leaves a commit index beyond the log: it panics first. *)
LEMMA CommitToGood ==
  ASSUME NEW p \in GoodPeer, NEW n \in Nat
  PROVE  commitTo(p, n) \in GoodPeer
  <1>1. Len(p.log) \in Nat /\ panic(p) \in GoodPeer
    BY LenProperties, ResetGood, Zenon DEF GoodPeer, Peer
  <1>2. ASSUME NEW k \in Nat, k <= Len(p.log)
        PROVE  [p EXCEPT !.commitIndex = k] \in GoodPeer
    BY <1>1, <1>2, Zenon DEF GoodPeer, Peer
  <1>3. p.commitIndex \in Nat /\ p.commitIndex <= Len(p.log)
    BY DEF GoodPeer, Peer
  <1>4. CASE n > lastIndex(p)
    BY <1>1, <1>4 DEF commitTo
  <1>5. CASE ~(n > lastIndex(p)) /\ p.commitIndex < n
    BY <1>1, <1>2, <1>5 DEF commitTo, lastIndex
  <1>6. CASE ~(n > lastIndex(p)) /\ ~(p.commitIndex < n)
    BY <1>2, <1>3, <1>6 DEF commitTo
  <1> QED
    BY <1>4, <1>5, <1>6

(* updateCommitIndex commits through commitTo, so it keeps to the log. *)
LEMMA UpdateCommitIndexGood ==
  ASSUME NEW p \in GoodPeer
  PROVE  updateCommitIndex(p) \in GoodPeer
  <1> DEFINE ready == {mci \in {p.matchIndex[j] : j \in Server} :
                        /\ isLargest(p, quorum, mci)
                        /\ mci > p.commitIndex
                        /\ termAt(p, mci) = p.currentTerm}
  <1>1. CASE ready = {}
    BY <1>1 DEF updateCommitIndex
  <1>2. CASE ready # {}
    <2>1. (CHOOSE mci \in ready : TRUE) \in {p.matchIndex[j] : j \in Server}
      BY <1>2
    <2>2. p.matchIndex \in [Server -> Nat]
      BY DEF GoodPeer, Peer
    <2>3. (CHOOSE mci \in ready : TRUE) \in Nat
      BY <2>1, <2>2, Zenon
    <2> QED
      BY <1>2, <2>3, CommitToGood DEF updateCommitIndex
  <1> QED
    BY <1>1, <1>2

-----------------------------------------------------------------------------
(* What the handlers preserve. *)

(* The result of a handler is well typed. *)
GoodOutcome(out) == out.peer \in GoodPeer /\ out.sent \in SUBSET GoodMessage

(* A handler that panics sends nothing; any other sends what it was given. *)
LEMMA OutcomeGood ==
  ASSUME NEW p \in GoodPeer, NEW sent \in SUBSET GoodMessage
  PROVE  GoodOutcome(outcome(p, sent))
  BY DEF GoodOutcome, outcome

(* The fields that messages of each type have. *)
LEMMA MessageFields ==
  ASSUME NEW m \in GoodMessage
  PROVE  /\ m.from \in Server /\ m.to \in Server /\ m.inc \in Nat /\ m.term \in Nat
         /\ m.type \in {MsgVote, MsgVoteResp, MsgApp, MsgAppResp}
         /\ m.type \in {MsgVote, MsgApp} => m.term # 0
         /\ m.type = MsgVoteResp => m.granted \in BOOLEAN
         /\ m.type = MsgApp =>
                /\ m.leaderCommit \in Nat /\ m.prevLogIndex \in Nat
                /\ m.prevLogTerm \in Nat /\ m.entries \in Seq(Entry)
         /\ m.type = MsgAppResp =>
                /\ m.success \in BOOLEAN /\ m.nextIndex \in Nat
                /\ m.conflictTerm \in Int /\ m.conflictIndex \in Int
                /\ m.prevLogIndex \in Nat
                /\ m.term > 0 => m.nextIndex > 0
  BY DEF GoodMessage, Message, MsgApp, MsgVote, MsgVoteResp, MsgAppResp

(* A reply to AppendEnties that was handled names a next index. *)
LEMMA AppReplyGood ==
  ASSUME NEW m \in OfType(MsgApp), NEW t \in Nat, NEW ok \in BOOLEAN, NEW next \in Nat,
         NEW ct \in Int, NEW cx \in Int, t > 0 => next > 0
  PROVE  {appReply(m, t, ok, next, ct, cx)} \in SUBSET GoodMessage
  <1>1. /\ m.from \in Server /\ m.to \in Server
        /\ m.inc \in Nat /\ m.prevLogIndex \in Nat
    BY MessageFields DEF OfType
  <1> QED
    BY <1>1 DEF appReply, GoodMessage, Message

(* Replies without a conflict, which all but rejectEntries send. *)
LEMMA PlainAppReplyGood ==
  ASSUME NEW m \in OfType(MsgApp), NEW t \in Nat, NEW ok \in BOOLEAN, NEW next \in Nat,
         t > 0 => next > 0
  PROVE  {appReply(m, t, ok, next, 0, 0)} \in SUBSET GoodMessage
  <1>1. /\ m.from \in Server /\ m.to \in Server
        /\ m.inc \in Nat /\ m.prevLogIndex \in Nat
    BY MessageFields DEF OfType
  <1> QED
    BY <1>1 DEF appReply, GoodMessage, Message

(* A reply to RequestVote is well typed. *)
LEMMA VoteReplyGood ==
  ASSUME NEW m \in OfType(MsgVote), NEW t \in Nat, NEW granted \in BOOLEAN
  PROVE  {voteReply(m, t, granted)} \in SUBSET GoodMessage
  <1>1. m.from \in Server /\ m.to \in Server /\ m.inc \in Nat
    BY MessageFields DEF OfType
  <1>2. voteReply(m, t, granted) \in Message
    BY <1>1 DEF voteReply, Message
  <1>3. voteReply(m, t, granted).type # MsgAppResp
    BY DEF voteReply, MsgVoteResp, MsgAppResp
  <1> QED
    BY <1>2, <1>3 DEF GoodMessage

(* RequestVote: what stepFollower, stepCandidate and Step answer. *)
LEMMA StepVoteGood ==
  ASSUME rf \in [Server -> GoodPeer], NEW m \in OfType(MsgVote)
  PROVE  GoodOutcome(stepVote(m))
  <1> DEFINE p == observed(rf[m.to], m)
             current == m.term = p.currentTerm
             grant == /\ current
                      /\ p.state = StateFollower
                      /\ p.votedFor \in {None, m.from}
                      /\ reqMoreUpToDate(p, m)
             term == IF current /\ p.state = StateLeader THEN 0 ELSE p.currentTerm
             q == IF grant THEN [p EXCEPT !.votedFor = m.from] ELSE p
  <1>1. m \in GoodMessage /\ m.from \in Server /\ m.to \in Server
    BY MessageFields DEF OfType
  <1>2. p \in GoodPeer
    BY <1>1, ObservedGood
  <1>3. term \in Nat
    BY <1>2 DEF GoodPeer, Peer
  <1>4. [p EXCEPT !.votedFor = m.from] \in GoodPeer
    <2> HIDE DEF p
    <2> QED
      BY <1>1, <1>2, Zenon DEF GoodPeer, Peer
  <1>5. q \in GoodPeer
    BY <1>2, <1>4
  <1>6. grant \in BOOLEAN
    BY DEF reqMoreUpToDate
  <1>7. {voteReply(m, term, grant)} \in SUBSET GoodMessage
    <2> HIDE DEF term, grant
    <2> QED
      BY <1>3, <1>6, VoteReplyGood
  <1>8. GoodOutcome(outcome(q, {voteReply(m, term, grant)}))
    <2> HIDE DEF q, term, grant
    <2> QED
      BY <1>5, <1>7, OutcomeGood
  <1> QED
    BY <1>8 DEF stepVote

(* term() is defined up to the end of the log; the sentinel has index 0. *)
LEMMA TermAtNat ==
  ASSUME NEW p \in GoodPeer, NEW k \in 0 .. Len(p.log)
  PROVE  termAt(p, k) \in Nat
  <1>1. p.log \in Seq(Entry) /\ Len(p.log) \in Nat
    BY LenProperties DEF GoodPeer, Peer
  <1>2. CASE k = 0
    BY <1>2 DEF termAt
  <1>3. CASE k # 0
    <2>1. p.log[k] \in Entry
      BY <1>1, <1>3, ElementOfSeq
    <2> QED
      BY <1>3, <2>1 DEF termAt, Entry
  <1> QED
    BY <1>2, <1>3

(* The hint of a refusal is at least 1, as handleAppendEntries asserts. *)
LEMMA RejectEntriesGood ==
  ASSUME NEW p \in GoodPeer, NEW m \in OfType(MsgApp)
  PROVE  GoodOutcome(rejectEntries(p, m))
  <1> DEFINE known == m.prevLogIndex <= lastIndex(p)
             hint == IF p.commitIndex + 1 < m.prevLogIndex - 1
                     THEN p.commitIndex + 1 ELSE m.prevLogIndex - 1
             next == IF hint < 1 THEN 1 ELSE hint
             ct == IF known THEN termAt(p, m.prevLogIndex) ELSE -1
             cx == IF known THEN 0 ELSE -1
  <1>1. /\ m.prevLogIndex \in Nat /\ p.commitIndex \in Nat
        /\ p.currentTerm \in Nat /\ Len(p.log) \in Nat
    BY MessageFields, LenProperties DEF OfType, GoodPeer, Peer
  <1>2. next \in Nat /\ next > 0 /\ cx \in Int
    BY <1>1
  <1>3. ct \in Int
    BY <1>1, TermAtNat DEF lastIndex
  <1> HIDE DEF next, ct, cx
  <1>4. {appReply(m, p.currentTerm, FALSE, next, ct, cx)} \in SUBSET GoodMessage
    BY <1>1, <1>2, <1>3, AppReplyGood, Zenon
  <1>5. GoodOutcome(outcome(p, {appReply(m, p.currentTerm, FALSE, next, ct, cx)}))
    BY <1>4, OutcomeGood, Zenon
  <1> QED
    BY <1>5 DEF rejectEntries, next, ct, cx

(* findConflict never points beyond the entry that follows the log, so     *)
(* appendLog leaves no hole.                                               *)
LEMMA FindConflictBounds ==
  ASSUME NEW p \in GoodPeer, NEW m \in OfType(MsgApp), m.prevLogIndex <= Len(p.log)
  PROVE  \/ findConflict(p, m) = 0
         \/ findConflict(p, m) \in m.prevLogIndex + 1 .. m.prevLogIndex + Len(m.entries)
            /\ findConflict(p, m) <= Len(p.log) + 1
  <1> DEFINE agrees(k) == matchTerm(p, m.prevLogIndex + k, m.entries[k].term)
             first == {k \in 1 .. Len(m.entries) :
                        ~agrees(k) /\ \A l \in 1 .. k - 1 : agrees(l)}
             k0 == CHOOSE k \in first : TRUE
  <1>1. /\ m.prevLogIndex \in Nat /\ Len(m.entries) \in Nat /\ Len(p.log) \in Nat
    BY MessageFields, LenProperties DEF OfType, GoodPeer, Peer
  <1>2. CASE first = {}
    BY <1>2 DEF findConflict
  <1>3. CASE first # {}
    <2>1. k0 \in first
      BY <1>3, Zenon
    <2>2. k0 \in 1 .. Len(m.entries) /\ \A l \in 1 .. k0 - 1 : agrees(l)
      BY <2>1, Zenon
    <2>3. findConflict(p, m) = m.prevLogIndex + k0
      BY <1>3 DEF findConflict
    <2> HIDE DEF k0
    <2>4. CASE k0 = 1
      BY <1>1, <2>2, <2>3, <2>4
    <2>5. CASE k0 # 1
      <3>1. agrees(k0 - 1)
        BY <1>1, <2>2, <2>5
      <3>2. m.prevLogIndex + (k0 - 1) <= Len(p.log)
        BY <3>1 DEF matchTerm, lastIndex
      <3> QED
        BY <1>1, <2>2, <2>3, <3>2
    <2> QED
      BY <2>4, <2>5
  <1> QED
    BY <1>2, <1>3

(* What is kept of the log and what is new add up to the request's end. *)
LEMMA SplitLength ==
  \A a, b, c \in Int : (c - 1) + (b - (c - a) + 1) = a + b
  OBVIOUS

(* appendLog replaces nothing committed and ends where the request ends. *)
LEMMA AppendLogGood ==
  ASSUME NEW p \in GoodPeer, NEW m \in OfType(MsgApp), NEW ci \in Nat,
         ci > p.commitIndex, ci <= Len(p.log) + 1,
         ci \in m.prevLogIndex + 1 .. m.prevLogIndex + Len(m.entries)
  PROVE  /\ appendLog(p, m, ci) \in GoodPeer
         /\ Len(appendLog(p, m, ci).log) = m.prevLogIndex + Len(m.entries)
         /\ appendLog(p, m, ci).commitIndex = p.commitIndex
  <1> DEFINE kept == SubSeq(p.log, 1, ci - 1)
             new == SubSeq(m.entries, ci - m.prevLogIndex, Len(m.entries))
  <1>1. /\ p.log \in Seq(Entry) /\ m.entries \in Seq(Entry)
        /\ m.prevLogIndex \in Nat /\ p.commitIndex \in Nat
        /\ Len(m.entries) \in Nat /\ Len(p.log) \in Nat
    BY MessageFields, LenProperties DEF OfType, GoodPeer, Peer
  <1>2. kept \in Seq(Entry) /\ Len(kept) = ci - 1
    <2>1. \A k \in 1 .. ci - 1 : p.log[k] \in Entry
      BY <1>1, ElementOfSeq
    <2> QED
      BY <1>1, <2>1, SubSeqProperties
  <1>3. new \in Seq(Entry) /\ Len(new) = Len(m.entries) - (ci - m.prevLogIndex) + 1
    <2>1. \A k \in ci - m.prevLogIndex .. Len(m.entries) : m.entries[k] \in Entry
      BY <1>1, ElementOfSeq
    <2> QED
      BY <1>1, <2>1, SubSeqProperties
  <1> HIDE DEF kept, new
  <1>4. /\ kept \o new \in Seq(Entry)
        /\ Len(kept \o new) = m.prevLogIndex + Len(m.entries)
    <2>1. kept \o new \in Seq(Entry) /\ Len(kept \o new) = Len(kept) + Len(new)
      <3>1. kept \in Seq(Entry) /\ new \in Seq(Entry)
        BY <1>2, <1>3
      <3> QED
        BY <3>1, ConcatProperties, Zenon
    <2>2. Len(kept) + Len(new) = m.prevLogIndex + Len(m.entries)
      <3>1. m.prevLogIndex \in Int /\ Len(m.entries) \in Int /\ ci \in Int
        BY <1>1
      <3>2. (ci - 1) + (Len(m.entries) - (ci - m.prevLogIndex) + 1)
              = m.prevLogIndex + Len(m.entries)
        BY <3>1, SplitLength, ZenonT(30)
      <3> QED
        BY <1>2, <1>3, <3>2, Zenon
    <2> QED
      BY <2>1, <2>2, Zenon
  <1>5. appendLog(p, m, ci) = [p EXCEPT !.log = kept \o new]
    BY DEF appendLog, kept, new
  <1>6. p.commitIndex <= Len(kept \o new)
    BY <1>1, <1>4
  <1>7. /\ [p EXCEPT !.log = kept \o new] \in Peer
        /\ [p EXCEPT !.log = kept \o new].log = kept \o new
        /\ [p EXCEPT !.log = kept \o new].commitIndex = p.commitIndex
    BY <1>4, Zenon DEF GoodPeer, Peer
  <1> QED
    BY <1>4, <1>5, <1>6, <1>7, Zenon DEF GoodPeer

(* Taking over entries keeps what is committed inside the log. *)
LEMMA AcceptEntriesGood ==
  ASSUME NEW p \in GoodPeer, NEW m \in OfType(MsgApp), m.prevLogIndex <= Len(p.log)
  PROVE  GoodOutcome(acceptEntries(p, m))
  <1> DEFINE nexti == m.prevLogIndex + Len(m.entries) + 1
             ci == findConflict(p, m)
             q == IF ci = 0 THEN p
                  ELSE IF ci <= p.commitIndex THEN panic(p)
                  ELSE appendLog(p, m, ci)
             r == IF m.leaderCommit > q.commitIndex THEN commitTo(q, m.leaderCommit) ELSE q
             z == IF q.state = Panicked THEN q
                  ELSE IF nexti > lastIndex(r) + 1 THEN panic(r)
                  ELSE r
  <1>1. /\ m.prevLogIndex \in Nat /\ Len(m.entries) \in Nat /\ Len(p.log) \in Nat
        /\ m.leaderCommit \in Nat /\ p.currentTerm \in Nat \ {0} /\ p.commitIndex \in Nat
    BY MessageFields, LenProperties DEF OfType, GoodPeer, Peer
  <1>2. panic(p) \in GoodPeer
    BY <1>1, ResetGood
  <1>3. q \in GoodPeer
    <2>1. CASE ci = 0 \/ ci <= p.commitIndex
      BY <1>2, <2>1
    <2>2. CASE ~(ci = 0 \/ ci <= p.commitIndex)
      <3>1. /\ ci \in m.prevLogIndex + 1 .. m.prevLogIndex + Len(m.entries)
            /\ ci <= Len(p.log) + 1
        BY <2>2, FindConflictBounds
      <3>2. ci \in Nat /\ ci > p.commitIndex
        BY <1>1, <2>2, <3>1
      <3> HIDE DEF ci
      <3>3. appendLog(p, m, ci) \in GoodPeer
        BY <3>1, <3>2, AppendLogGood
      <3> QED
        BY <2>2, <3>3
    <2> QED
      BY <2>1, <2>2
  <1> HIDE DEF q
  <1>4. r \in GoodPeer
    BY <1>1, <1>3, CommitToGood
  <1> HIDE DEF r
  <1>5. z \in GoodPeer
    BY <1>1, <1>3, <1>4, ResetGood, SMTT(30)
  <1>6. nexti \in Nat /\ nexti > 0
    BY <1>1
  <1> HIDE DEF z, nexti
  <1>7. {appReply(m, p.currentTerm, TRUE, nexti, 0, 0)} \in SUBSET GoodMessage
    BY <1>1, <1>6, PlainAppReplyGood, Zenon
  <1>8. GoodOutcome(outcome(z, {appReply(m, p.currentTerm, TRUE, nexti, 0, 0)}))
    BY <1>5, <1>7, OutcomeGood, Zenon
  <1> QED
    BY <1>8 DEF acceptEntries, z, r, q, nexti

(* handleAppendEntries, in each of its three cases. *)
LEMMA HandleAppendEntriesGood ==
  ASSUME NEW p \in GoodPeer, NEW m \in OfType(MsgApp)
  PROVE  GoodOutcome(handleAppendEntries(p, m))
  <1>1. p.commitIndex \in Nat /\ p.currentTerm \in Nat
    BY DEF GoodPeer, Peer
  <1>2. CASE m.prevLogIndex < p.commitIndex
    <2> DEFINE next == p.commitIndex + 1
    <2>1. next \in Nat /\ next > 0
      BY <1>1
    <2> HIDE DEF next
    <2>2. {appReply(m, p.currentTerm, TRUE, next, 0, 0)} \in SUBSET GoodMessage
      BY <1>1, <2>1, PlainAppReplyGood, Zenon
    <2> QED
      BY <1>2, <2>2, OutcomeGood, Zenon DEF handleAppendEntries, next
  <1>3. CASE ~(m.prevLogIndex < p.commitIndex) /\ matchTerm(p, m.prevLogIndex, m.prevLogTerm)
    BY <1>3, AcceptEntriesGood DEF handleAppendEntries, matchTerm, lastIndex
  <1>4. CASE ~(m.prevLogIndex < p.commitIndex) /\ ~matchTerm(p, m.prevLogIndex, m.prevLogTerm)
    BY <1>4, RejectEntriesGood DEF handleAppendEntries
  <1> QED
    BY <1>2, <1>3, <1>4

(* AppendEnties in every role and for every term of the request. *)
LEMMA StepAppGood ==
  ASSUME rf \in [Server -> GoodPeer], NEW m \in OfType(MsgApp)
  PROVE  GoodOutcome(stepApp(m))
  <1> DEFINE p == observed(rf[m.to], m)
  <1>1. m \in GoodMessage /\ m.to \in Server /\ m.term \in Nat
    BY MessageFields DEF OfType
  <1>2. p \in GoodPeer
    BY <1>1, ObservedGood
  <1>3. p.commitIndex \in Nat /\ p.currentTerm \in Nat \ {0}
    BY <1>2 DEF GoodPeer, Peer
  <1>4. becomeFollower(p, p.currentTerm) \in GoodPeer
    BY <1>2, <1>3, ResetGood
  <1> HIDE DEF p
  <1>5. CASE m.term < p.currentTerm
    <2> DEFINE next == p.commitIndex + 1
    <2>1. next \in Nat /\ next > 0
      BY <1>3
    <2> HIDE DEF next
    <2>2. {appReply(m, p.currentTerm, FALSE, next, 0, 0)} \in SUBSET GoodMessage
      BY <1>3, <2>1, PlainAppReplyGood, Zenon
    <2>3. stepApp(m) = outcome(p, {appReply(m, p.currentTerm, FALSE, next, 0, 0)})
      BY <1>1, <1>3, <1>5 DEF stepApp, p, next
    <2> QED
      BY <1>2, <2>2, <2>3, OutcomeGood, Zenon
  <1>6. CASE m.term = p.currentTerm /\ p.state = StateFollower
    <2>1. stepApp(m) = handleAppendEntries(p, m)
      BY <1>1, <1>3, <1>6 DEF stepApp, p, StateFollower, StateCandidate
    <2> QED
      BY <1>2, <2>1, HandleAppendEntriesGood
  <1>7. CASE m.term = p.currentTerm /\ p.state = StateCandidate
    <2>1. stepApp(m) = handleAppendEntries(becomeFollower(p, p.currentTerm), m)
      BY <1>1, <1>3, <1>7 DEF stepApp, p, StateFollower, StateCandidate
    <2> QED
      BY <1>4, <2>1, HandleAppendEntriesGood
  <1>8. CASE ~(m.term < p.currentTerm)
             /\ ~(m.term = p.currentTerm /\ p.state \in {StateFollower, StateCandidate})
    <2>1. {appReply(m, 0, FALSE, 0, 0, 0)} \in SUBSET GoodMessage
      BY PlainAppReplyGood, Zenon
    <2>2. stepApp(m) = outcome(p, {appReply(m, 0, FALSE, 0, 0, 0)})
      BY <1>8 DEF stepApp, p
    <2> QED
      BY <1>2, <2>1, <2>2, OutcomeGood, Zenon
  <1> QED
    BY <1>5, <1>6, <1>7, <1>8, SMTT(30)

(* Where sendable holds, bcastAppend reads the log within its bounds. *)
LEMMA BcastAppendGood ==
  ASSUME incarnation \in [Server -> Nat],
         NEW p \in GoodPeer, NEW me \in Server, sendable(p, me)
  PROVE  bcastAppend(p, me) \in SUBSET GoodMessage
  <1> DEFINE req(j) ==
        [type |-> MsgApp, from |-> me, to |-> j, inc |-> incarnation[me],
         term |-> p.currentTerm,
         leaderCommit |-> p.commitIndex,
         prevLogIndex |-> p.nextIndex[j] - 1,
         prevLogTerm |-> termAt(p, p.nextIndex[j] - 1),
         entries |-> SubSeq(p.log, p.nextIndex[j], Len(p.log))]
  <1>1. ASSUME NEW j \in Server \ {me}
        PROVE  req(j) \in GoodMessage
    <2> DEFINE prev == p.nextIndex[j] - 1
               pt == termAt(p, prev)
               es == SubSeq(p.log, p.nextIndex[j], Len(p.log))
    <2>1. /\ p.log \in Seq(Entry) /\ Len(p.log) \in Nat /\ p.nextIndex[j] \in Nat
          /\ p.currentTerm \in Nat \ {0} /\ p.commitIndex \in Nat
      BY LenProperties DEF GoodPeer, Peer
    <2>2. prev \in 0 .. Len(p.log) /\ prev \in Nat
      BY <2>1 DEF sendable, lastIndex
    <2>3. es \in Seq(Entry)
      <3>1. \A k \in p.nextIndex[j] .. Len(p.log) : p.log[k] \in Entry
        BY <2>1, <2>2, ElementOfSeq
      <3> QED
        BY <2>1, <3>1, SubSeqProperties
    <2>4. pt \in Nat
      <3> HIDE DEF prev
      <3> QED
        BY <2>2, TermAtNat
    <2>5. req(j) = [type |-> MsgApp, from |-> me, to |-> j, inc |-> incarnation[me],
                    term |-> p.currentTerm, leaderCommit |-> p.commitIndex,
                    prevLogIndex |-> prev, prevLogTerm |-> pt, entries |-> es]
      BY SMTT(30)
    <2> HIDE DEF req, prev, pt, es
    <2>6. req(j) \in Message /\ req(j).type = MsgApp
      BY <2>1, <2>2, <2>3, <2>4, <2>5, SMTT(30) DEF Message
    <2> QED
      BY <2>6 DEF GoodMessage, MsgApp, MsgAppResp
  <1> QED
    BY <1>1 DEF bcastAppend

(* bcastRequestVoteRPC sends well-typed requests. *)
LEMMA BcastRequestVoteGood ==
  ASSUME incarnation \in [Server -> Nat], NEW p \in GoodPeer, NEW me \in Server
  PROVE  bcastRequestVoteRPC(p, me) \in SUBSET GoodMessage
  <1> DEFINE lt == lastTerm(p)
             req(j) ==
        [type |-> MsgVote, from |-> me, to |-> j, inc |-> incarnation[me],
         term |-> p.currentTerm,
         lastLogIndex |-> lastIndex(p),
         lastLogTerm |-> lt]
  <1>1. p.currentTerm \in Nat \ {0} /\ lastIndex(p) \in Nat
    BY LenProperties DEF GoodPeer, Peer, lastIndex
  <1>2. lt \in Nat
    BY <1>1, TermAtNat DEF lastTerm, lastIndex
  <1> HIDE DEF lt
  <1>3. \A j \in Server : req(j) \in Message /\ req(j).type = MsgVote
    BY <1>1, <1>2 DEF Message
  <1> HIDE DEF req
  <1>4. \A j \in Server : req(j) \in GoodMessage
    BY <1>3 DEF GoodMessage, MsgVote, MsgAppResp
  <1> QED
    BY <1>4 DEF bcastRequestVoteRPC, req, lt

(* A new leader's first heartbeat refers to the end of its own log. *)
LEMMA NewLeaderSendable ==
  ASSUME NEW p \in GoodPeer, NEW me \in Server
  PROVE  sendable(becomeLeader(p), me)
  <1> DEFINE q == reset(p, p.currentTerm)
             next == [j \in Server |-> Len(p.log) + 1]
  <1>1. p.currentTerm \in Nat \ {0} /\ Len(p.log) \in Nat
    BY LenProperties DEF GoodPeer, Peer
  <1>2. q \in Peer /\ q.log = p.log
    BY <1>1, Zenon DEF GoodPeer, Peer, reset, NoIndex
  <1> HIDE DEF q
  <1>3. /\ [q EXCEPT !.state = StateLeader, !.nextIndex = next].nextIndex = next
        /\ [q EXCEPT !.state = StateLeader, !.nextIndex = next].log = p.log
    BY <1>2 DEF Peer
  <1>4. becomeLeader(p) = [q EXCEPT !.state = StateLeader, !.nextIndex = next]
    BY DEF becomeLeader, q
  <1> QED
    BY <1>1, <1>3, <1>4 DEF sendable, lastIndex

(* A reply to RequestVote that wins, loses or settles nothing. *)
LEMMA StepVoteRespGood ==
  ASSUME rf \in [Server -> GoodPeer], incarnation \in [Server -> Nat],
         NEW m \in OfType(MsgVoteResp)
  PROVE  GoodOutcome(stepVoteResp(m))
  <1> DEFINE p == observed(rf[m.to], m)
             q == poll(p, m.from, m.granted)
             won == becomeLeader(q)
  <1>1. /\ m \in GoodMessage /\ m.to \in Server /\ m.from \in Server
        /\ m.granted \in BOOLEAN
    BY MessageFields DEF OfType
  <1>2. p \in GoodPeer
    BY <1>1, ObservedGood
  <1>3. q \in GoodPeer
    <2> HIDE DEF p
    <2> QED
      BY <1>1, <1>2, PollGood
  <1>4. /\ won \in GoodPeer
        /\ becomeFollower(q, q.currentTerm) \in GoodPeer
        /\ bcastAppend(won, m.to) \in SUBSET GoodMessage
    <2> HIDE DEF q
    <2>1. q.currentTerm \in Nat \ {0}
      BY <1>3 DEF GoodPeer, Peer
    <2>2. won \in GoodPeer /\ becomeFollower(q, q.currentTerm) \in GoodPeer
      BY <1>3, <2>1, ResetGood
    <2>3. sendable(won, m.to)
      BY <1>1, <1>3, NewLeaderSendable
    <2> HIDE DEF won
    <2> QED
      BY <1>1, <2>2, <2>3, BcastAppendGood, SMTT(30)
  <1>5. stepVoteResp(m) \in
          {outcome(p, {}), outcome(won, bcastAppend(won, m.to)),
           outcome(becomeFollower(q, q.currentTerm), {}), outcome(q, {})}
    <2> HIDE DEF p, q, won
    <2> QED
      BY DEF stepVoteResp, p, q, won
  <1> HIDE DEF p, q, won
  <1> QED
    BY <1>2, <1>3, <1>4, <1>5, OutcomeGood

(* A reply to AppendEnties, whether it acknowledges, refuses or is late. *)
LEMMA StepAppRespGood ==
  ASSUME rf \in [Server -> GoodPeer], NEW m \in OfType(MsgAppResp)
  PROVE  GoodOutcome(stepAppResp(m))
  <1> DEFINE p == observed(rf[m.to], m)
  <1>1. /\ m \in GoodMessage /\ m.to \in Server /\ m.from \in Server
        /\ m.nextIndex \in Nat /\ m.conflictIndex \in Int /\ m.term \in Nat
        /\ m.term > 0 => m.nextIndex > 0
    BY MessageFields DEF OfType
  <1>2. p \in GoodPeer
    BY <1>1, ObservedGood
  <1>3. p.currentTerm \in Nat \ {0}
    BY <1>2 DEF GoodPeer, Peer
  <1>4. m.term <= p.currentTerm
    <2>1. rf[m.to].currentTerm \in Nat
      BY <1>1 DEF GoodPeer, Peer
    <2>2. rf[m.to] \in Peer
      BY <1>1 DEF GoodPeer
    <2>3. CASE m.term > rf[m.to].currentTerm
      BY <1>1, <2>2, <2>3 DEF observed, becomeFollower, reset, Peer
    <2> QED
      BY <1>1, <2>1, <2>3 DEF observed
  <1> HIDE DEF p
  <1>5. CASE m.term < p.currentTerm \/ p.state # StateLeader
    <2>1. stepAppResp(m) = outcome(p, {})
      BY <1>1, <1>3, <1>5, SMTT(30) DEF stepAppResp, p
    <2> QED
      BY <1>2, <2>1, OutcomeGood
  <1>6. CASE m.term = p.currentTerm /\ p.state = StateLeader
    <2> DEFINE z == IF m.nextIndex > lastIndex(p) + 1 THEN panic(p)
                    ELSE IF m.success THEN acknowledged(p, m)
                    ELSE backedOff(p, m)
    <2>1. panic(p) \in GoodPeer
      BY <1>2, <1>3, ResetGood
    <2>2. acknowledged(p, m) \in GoodPeer
      <3> DEFINE n == m.nextIndex - 1
                 r == [p EXCEPT !.nextIndex[m.from] = m.nextIndex,
                                !.matchIndex[m.from] = n]
      <3>1. n \in Nat
        BY <1>1, <1>3, <1>6
      <3>2. r \in GoodPeer
        <4> HIDE DEF n
        <4> QED
          BY <1>1, <1>2, <3>1, Zenon DEF GoodPeer, Peer
      <3> HIDE DEF r
      <3>3. updateCommitIndex(r) \in GoodPeer
        BY <3>2, UpdateCommitIndexGood
      <3> QED
        BY <1>2, <3>3 DEF acknowledged, r
    <2>3. backedOff(p, m) \in GoodPeer
      <3>1. [p EXCEPT !.state = OutOfRange] \in GoodPeer
        BY <1>2, Zenon DEF GoodPeer, Peer, Dead
      <3>2. ASSUME NEW n \in Nat
            PROVE  [p EXCEPT !.nextIndex[m.from] = n] \in GoodPeer
        BY <1>1, <1>2, Zenon DEF GoodPeer, Peer
      <3> QED
        BY <1>1, <3>1, <3>2 DEF backedOff
    <2>4. z \in GoodPeer
      BY <2>1, <2>2, <2>3
    <2>5. stepAppResp(m) = outcome(z, {})
      <3> HIDE DEF z
      <3> QED
        BY <1>1, <1>3, <1>6 DEF stepAppResp, p, z
    <2> HIDE DEF z
    <2> QED
      BY <2>4, <2>5, OutcomeGood
  <1> QED
    BY <1>1, <1>3, <1>4, <1>5, <1>6, SMTT(30)

-----------------------------------------------------------------------------
(* Type correctness. *)

(* The network neither invents nor changes messages. *)
LEMMA TransmitAdds ==
  ASSUME IsABag(messages), NEW got, NEW sent, Transmit(got, sent)
  PROVE  /\ IsABag(messages')
         /\ BagToSet(messages') \subseteq BagToSet(messages) \cup sent
  <1>1. PICK kept \in SUBSET sent :
          messages' = (messages (-) SetToBag(got)) (+) SetToBag(kept)
    BY DEF Transmit
  <1> DEFINE rest == messages (-) SetToBag(got)
  <1>2. IsABag(SetToBag(got)) /\ IsABag(SetToBag(kept)) /\ BagToSet(SetToBag(kept)) = kept
    BY DEF IsABag, SetToBag, BagToSet
  <1>3. IsABag(rest) /\ BagToSet(rest) \subseteq BagToSet(messages)
    BY <1>2 DEF IsABag, (-), SetToBag, BagToSet
  <1> HIDE DEF rest
  <1>4. IsABag(rest (+) SetToBag(kept))
    BY <1>2, <1>3 DEF IsABag, (+), BagToSet
  <1>5. BagToSet(rest (+) SetToBag(kept)) = BagToSet(rest) \cup kept
    BY DEF (+), SetToBag, BagToSet
  <1> QED
    BY <1>1, <1>3, <1>4, <1>5 DEF rest

(* TypeInv in the form the lemmas about the handlers use. *)
LEMMA TypeInvForm ==
  TypeInv <=> /\ rf \in [Server -> GoodPeer]
              /\ persister \in [Server -> Saved]
              /\ incarnation \in [Server -> Nat]
              /\ IsABag(messages)
              /\ BagToSet(messages) \subseteq GoodMessage
              /\ leaders \subseteq Nat \X Server \X SUBSET Server
              /\ chosen \subseteq Nat \X Entry
  <1>1. rf \in [Server -> GoodPeer] <=>
          rf \in [Server -> Peer] /\ \A i \in Server : rf[i] \in GoodPeer
    BY DEF GoodPeer
  <1>2. BagToSet(messages) \subseteq GoodMessage <=>
          /\ BagToSet(messages) \subseteq Message
          /\ \A m \in BagToSet(messages) :
                m.type = MsgAppResp /\ m.term > 0 => m.nextIndex > 0
    BY DEF GoodMessage
  <1> QED
    BY <1>1, <1>2 DEF TypeInv, TypeOK

(* What stateMachine applies is an entry of the log. *)
LEMMA CommittedEntries ==
  ASSUME NEW p \in GoodPeer
  PROVE  {<<k, p.log[k]>> : k \in 1 .. p.commitIndex} \subseteq Nat \X Entry
  <1>1. /\ p.log \in Seq(Entry) /\ Len(p.log) \in Nat /\ p.commitIndex \in Nat
        /\ p.commitIndex <= Len(p.log)
    BY LenProperties DEF GoodPeer, Peer
  <1>2. \A k \in 1 .. p.commitIndex : p.log[k] \in Entry /\ k \in Nat
    BY <1>1, ElementOfSeq
  <1> QED
    BY <1>2

(* Become keeps rf and the committed entries well typed. *)
LEMMA BecomeGood ==
  ASSUME TypeInv, NEW i \in Server, NEW p \in GoodPeer, Become(i, p)
  PROVE  rf' \in [Server -> GoodPeer] /\ chosen' \subseteq Nat \X Entry
  BY TypeInvForm, CommittedEntries DEF Become

(* persist keeps the persisters well typed. *)
LEMMA PersistGood ==
  ASSUME TypeInv, NEW i \in Server, NEW p \in GoodPeer, persist(i, p)
  PROVE  persister' \in [Server -> Saved]
  BY TypeInvForm, PersistedSaved DEF persist

(* The network carries nothing but what was sent. *)
LEMMA TransmitGood ==
  ASSUME TypeInv, NEW got, NEW sent \in SUBSET GoodMessage, Transmit(got, sent)
  PROVE  IsABag(messages') /\ BagToSet(messages') \subseteq GoodMessage
  <1>1. IsABag(messages) /\ BagToSet(messages) \subseteq GoodMessage
    BY TypeInvForm
  <1>2. IsABag(messages') /\ BagToSet(messages') \subseteq BagToSet(messages) \cup sent
    BY <1>1, TransmitAdds
  <1> QED
    BY <1>1, <1>2

(* What can be delivered is in flight and has the type asked for. *)
LEMMA DeliverableOfType ==
  ASSUME TypeInv, NEW type, NEW m \in Deliverable(type)
  PROVE  m \in OfType(type) /\ m.to \in Server /\ m \in BagToSet(messages)
  <1>1. m \in BagToSet(messages) /\ m.type = type
    BY DEF Deliverable
  <1> QED
    BY <1>1, TypeInvForm, MessageFields DEF OfType

(* Step as a whole: handle, persist, reply. *)
LEMMA ReceiveGood ==
  ASSUME TypeInv, NEW m, m.to \in Server, NEW out, GoodOutcome(out), Receive(m, out)
  PROVE  /\ rf' \in [Server -> GoodPeer]
         /\ persister' \in [Server -> Saved]
         /\ incarnation' \in [Server -> Nat]
         /\ IsABag(messages')
         /\ BagToSet(messages') \subseteq GoodMessage
         /\ chosen' \subseteq Nat \X Entry
  <1>1. out.peer \in GoodPeer /\ out.sent \in SUBSET GoodMessage
    BY DEF GoodOutcome
  <1>2. rf' \in [Server -> GoodPeer] /\ chosen' \subseteq Nat \X Entry
    BY <1>1, BecomeGood DEF Receive
  <1>3. persister' \in [Server -> Saved]
    BY <1>1, PersistGood DEF Receive
  <1>4. IsABag(messages') /\ BagToSet(messages') \subseteq GoodMessage
    BY <1>1, TransmitGood DEF Receive
  <1>5. incarnation' \in [Server -> Nat]
    BY TypeInvForm DEF Receive
  <1> QED
    BY <1>2, <1>3, <1>4, <1>5

(* The state of a leader after Start appended an entry. *)
LEMMA StartGood ==
  ASSUME NEW p \in GoodPeer, NEW i \in Server, NEW command \in Command
  PROVE  [p EXCEPT !.log = Append(@, [term |-> p.currentTerm, command |-> command]),
                   !.nextIndex[i] = Len(p.log) + 1 + 1,
                   !.matchIndex[i] = Len(p.log) + 1] \in GoodPeer
  <1> DEFINE e == [term |-> p.currentTerm, command |-> command]
             log == Append(p.log, e)
             a == Len(p.log) + 1
             b == Len(p.log) + 1 + 1
  <1>1. /\ p.log \in Seq(Entry) /\ Len(p.log) \in Nat /\ p.commitIndex \in Nat
        /\ p.commitIndex <= Len(p.log) /\ p.currentTerm \in Nat
    BY LenProperties DEF GoodPeer, Peer
  <1>2. e \in Entry
    BY <1>1 DEF Entry
  <1>3. log \in Seq(Entry) /\ Len(log) = Len(p.log) + 1
    <2> HIDE DEF e
    <2> QED
      BY <1>1, <1>2, AppendProperties
  <1>4. a \in Nat /\ b \in Nat /\ p.commitIndex <= Len(log)
    BY <1>1, <1>3
  <1> HIDE DEF log, a, b
  <1>5. [p EXCEPT !.log = log, !.nextIndex[i] = b, !.matchIndex[i] = a] \in GoodPeer
    BY <1>3, <1>4, Zenon DEF GoodPeer, Peer
  <1> QED
    BY <1>5 DEF log, a, b

(* The first of the three facts: the initial states satisfy TypeInv. *)
LEMMA TypeInvInit == Init => TypeInv
  <1> SUFFICES ASSUME Init PROVE TypeInv
    OBVIOUS
  <1>1. rf \in [Server -> GoodPeer] /\ persister \in [Server -> Saved]
    BY InitPeerGood, PersistedSaved DEF Init
  <1>2. IsABag(messages) /\ BagToSet(messages) \subseteq GoodMessage
    BY DEF Init, EmptyBag, SetToBag, IsABag, BagToSet
  <1> QED
    BY <1>1, <1>2, TypeInvForm DEF Init

(* The second: every action preserves TypeInv, one step per action. *)
LEMMA TypeInvNext == TypeInv /\ [Next]_vars => TypeInv'
  <1> SUFFICES ASSUME TypeInv, [Next]_vars PROVE TypeInv'
    OBVIOUS
  <1> DEFINE Typed == /\ rf' \in [Server -> GoodPeer]
                      /\ persister' \in [Server -> Saved]
                      /\ incarnation' \in [Server -> Nat]
                      /\ IsABag(messages')
                      /\ BagToSet(messages') \subseteq GoodMessage
                      /\ leaders' \subseteq Nat \X Server \X SUBSET Server
                      /\ chosen' \subseteq Nat \X Entry
  <1>a. /\ rf \in [Server -> GoodPeer]
        /\ persister \in [Server -> Saved]
        /\ incarnation \in [Server -> Nat]
        /\ IsABag(messages)
        /\ BagToSet(messages) \subseteq GoodMessage
        /\ leaders \subseteq Nat \X Server \X SUBSET Server
        /\ chosen \subseteq Nat \X Entry
    BY TypeInvForm
  <1>b. Typed => TypeInv'
    <2> SUFFICES ASSUME Typed PROVE TypeInv'
      OBVIOUS
    <2>1. rf' \in [Server -> Peer] /\ \A i \in Server : rf'[i] \in GoodPeer
      BY DEF GoodPeer
    <2>2. /\ BagToSet(messages') \subseteq Message
          /\ \A m \in BagToSet(messages') :
                m.type = MsgAppResp /\ m.term > 0 => m.nextIndex > 0
      BY DEF GoodMessage
    <2> QED
      BY <2>1, <2>2 DEF TypeInv, TypeOK
  <1>1. CASE RequestVote
    <2>1. PICK m \in Deliverable(MsgVote) : Receive(m, stepVote(m)) /\ UNCHANGED leaders
      BY <1>1 DEF RequestVote
    <2>2. GoodOutcome(stepVote(m)) /\ m.to \in Server
      BY <1>a, DeliverableOfType, StepVoteGood, SMTT(30)
    <2> QED
      BY <1>a, <1>b, <2>1, <2>2, ReceiveGood, SMTT(30)
  <1>2. CASE AppendEnties
    <2>1. PICK m \in Deliverable(MsgApp) : Receive(m, stepApp(m)) /\ UNCHANGED leaders
      BY <1>2 DEF AppendEnties
    <2>2. GoodOutcome(stepApp(m)) /\ m.to \in Server
      BY <1>a, DeliverableOfType, StepAppGood
    <2> QED
      BY <1>a, <1>b, <2>1, <2>2, ReceiveGood
  <1>3. CASE RequestVoteReply
    <2>1. PICK m \in Deliverable(MsgVoteResp) :
            /\ Receive(m, stepVoteResp(m))
            /\ \/ leaders' = leaders
               \/ leaders' = leaders \cup
                    {<<stepVoteResp(m).peer.currentTerm, m.to,
                       poll(rf[m.to], m.from, m.granted).granted>>}
      BY <1>3 DEF RequestVoteReply
    <2>2. m \in OfType(MsgVoteResp) /\ m.to \in Server
      BY DeliverableOfType
    <2>3. m.from \in Server /\ m.granted \in BOOLEAN
      BY <2>2, MessageFields DEF OfType
    <2>4. GoodOutcome(stepVoteResp(m))
      BY <1>a, <2>2, StepVoteRespGood, SMTT(30)
    <2>5. stepVoteResp(m).peer.currentTerm \in Nat
      BY <2>4 DEF GoodOutcome, GoodPeer, Peer
    <2>6. poll(rf[m.to], m.from, m.granted).granted \in SUBSET Server
      <3>1. poll(rf[m.to], m.from, m.granted) \in GoodPeer
        BY <1>a, <2>2, <2>3, PollGood, SMTT(30)
      <3> QED
        BY <3>1 DEF GoodPeer, Peer
    <2>7. leaders' \subseteq Nat \X Server \X SUBSET Server
      BY <1>a, <2>1, <2>2, <2>5, <2>6, SMTT(30)
    <2> QED
      BY <1>b, <2>1, <2>2, <2>4, <2>7, ReceiveGood, SMTT(30)
  <1>4. CASE AppendEntiesReply
    <2>1. PICK m \in Deliverable(MsgAppResp) :
            Receive(m, stepAppResp(m)) /\ UNCHANGED leaders
      BY <1>4 DEF AppendEntiesReply
    <2>2. GoodOutcome(stepAppResp(m)) /\ m.to \in Server
      BY <1>a, DeliverableOfType, StepAppRespGood
    <2> QED
      BY <1>a, <1>b, <2>1, <2>2, ReceiveGood
  <1>5. CASE CrashInStep
    <2> DEFINE P(m) == (IF m.type = MsgApp THEN stepApp(m) ELSE stepAppResp(m)).peer
    <2>1. PICK m \in Deliverable(MsgApp) \cup Deliverable(MsgAppResp) :
            /\ rf' = [rf EXCEPT ![m.to] = readPersist(persister[m.to])]
            /\ chosen' = chosen \cup {<<k, P(m).log[k]>> : k \in 1 .. P(m).commitIndex}
            /\ incarnation' = [incarnation EXCEPT ![m.to] = @ + 1]
            /\ Transmit({m}, {})
            /\ UNCHANGED <<persister, leaders>>
      BY <1>5, Zenon DEF CrashInStep
    <2>2. m \in OfType(MsgApp) \cup OfType(MsgAppResp) /\ m.to \in Server
      BY DeliverableOfType
    <2>3. P(m) \in GoodPeer
      <3>1. CASE m.type = MsgApp
        BY <1>a, <2>2, <3>1, StepAppGood DEF OfType, GoodOutcome, MsgApp, MsgAppResp
      <3>2. CASE m.type # MsgApp
        BY <1>a, <2>2, <3>2, StepAppRespGood, SMTT(30) DEF OfType, GoodOutcome
      <3> QED
        BY <3>1, <3>2
    <2> HIDE DEF P
    <2>4. chosen' \subseteq Nat \X Entry
      BY <1>a, <2>1, <2>3, CommittedEntries, SMTT(30)
    <2>5. rf' \in [Server -> GoodPeer]
      BY <1>a, <2>1, <2>2, ReadPersistGood, SMTT(30)
    <2>6. IsABag(messages') /\ BagToSet(messages') \subseteq GoodMessage
      BY <2>1, TransmitGood, SMTT(30)
    <2>7. incarnation' \in [Server -> Nat]
      BY <1>a, <2>1, <2>2, SMTT(30)
    <2> QED
      BY <1>a, <1>b, <2>1, <2>4, <2>5, <2>6, <2>7, SMTT(30)
  <1>6. ASSUME NEW i \in Server, campaign(i)
        PROVE  TypeInv'
    <2> DEFINE p == poll(becomeCandidate(rf[i], i), i, TRUE)
    <2>1. p \in GoodPeer
      <3> DEFINE c == becomeCandidate(rf[i], i)
      <3>1. c \in GoodPeer
        BY <1>a, BecomeCandidateGood
      <3> HIDE DEF c
      <3>2. poll(c, i, TRUE) \in GoodPeer
        BY <3>1, PollGood, Zenon
      <3> QED
        BY <3>2, Zenon DEF c
    <2> HIDE DEF p
    <2>2. p.currentTerm \in Nat \ {0} /\ p.granted \in SUBSET Server
      BY <2>1 DEF GoodPeer, Peer
    <2>3. incarnation' = incarnation
      BY <1>6 DEF campaign
    <2>4. CASE quorum = 1
      <3>1. /\ Become(i, becomeLeader(p))
            /\ leaders' = leaders \cup {<<p.currentTerm, i, p.granted>>}
            /\ UNCHANGED <<persister, messages>>
        BY <1>6, <2>4, Zenon DEF campaign, p
      <3>2. becomeLeader(p) \in GoodPeer
        BY <2>1, <2>2, ResetGood
      <3>3. rf' \in [Server -> GoodPeer] /\ chosen' \subseteq Nat \X Entry
        BY <3>1, <3>2, BecomeGood
      <3>4. leaders' \subseteq Nat \X Server \X SUBSET Server
        BY <1>a, <2>2, <3>1
      <3> QED
        BY <1>a, <1>b, <2>3, <3>1, <3>3, <3>4, SMTT(30)
    <2>5. CASE quorum # 1
      <3>1. /\ Become(i, p)
            /\ UNCHANGED leaders
            /\ persist(i, p)
            /\ Transmit({}, bcastRequestVoteRPC(p, i))
        BY <1>6, <2>5, Zenon DEF campaign, p
      <3>2. rf' \in [Server -> GoodPeer] /\ chosen' \subseteq Nat \X Entry
        BY <2>1, <3>1, BecomeGood
      <3>3. persister' \in [Server -> Saved]
        BY <2>1, <3>1, PersistGood
      <3>4. bcastRequestVoteRPC(p, i) \in SUBSET GoodMessage
        BY <1>a, <2>1, BcastRequestVoteGood
      <3>5. IsABag(messages') /\ BagToSet(messages') \subseteq GoodMessage
        BY <3>1, <3>4, TransmitGood, SMTT(30)
      <3> QED
        BY <1>a, <1>b, <2>3, <3>1, <3>2, <3>3, <3>5, SMTT(30)
    <2> QED
      BY <2>4, <2>5
  <1>7. ASSUME NEW i \in Server, Heartbeat(i)
        PROVE  TypeInv'
    <2>1. rf[i] \in GoodPeer /\ persist(i, rf[i]) /\ UNCHANGED <<incarnation, leaders>>
      BY <1>a, <1>7 DEF Heartbeat
    <2>2. persister' \in [Server -> Saved]
      BY <2>1, PersistGood
    <2>3. CASE sendable(rf[i], i)
      <3>1. Transmit({}, bcastAppend(rf[i], i)) /\ UNCHANGED <<rf, chosen>>
        BY <1>7, <2>3 DEF Heartbeat
      <3>2. bcastAppend(rf[i], i) \in SUBSET GoodMessage
        BY <1>a, <2>1, <2>3, BcastAppendGood, SMTT(30)
      <3>3. IsABag(messages') /\ BagToSet(messages') \subseteq GoodMessage
        BY <3>1, <3>2, TransmitGood, SMTT(30)
      <3> QED
        BY <1>a, <1>b, <2>1, <2>2, <3>1, <3>3, SMTT(30)
    <2>4. CASE ~sendable(rf[i], i)
      <3>1. Become(i, panic(rf[i])) /\ UNCHANGED messages
        BY <1>7, <2>4 DEF Heartbeat
      <3>2. panic(rf[i]) \in GoodPeer
        BY <2>1, ResetGood
      <3>3. rf' \in [Server -> GoodPeer] /\ chosen' \subseteq Nat \X Entry
        BY <3>1, <3>2, BecomeGood, SMTT(30)
      <3> QED
        BY <1>a, <1>b, <2>1, <2>2, <3>1, <3>3, SMTT(30)
    <2> QED
      BY <2>3, <2>4
  <1>8. ASSUME NEW i \in Server, Restart(i)
        PROVE  TypeInv'
    <2>1. /\ Become(i, readPersist(persister[i]))
          /\ incarnation' = [incarnation EXCEPT ![i] = @ + 1]
          /\ UNCHANGED <<persister, messages, leaders>>
      BY <1>8 DEF Restart
    <2>2. readPersist(persister[i]) \in GoodPeer
      BY <1>a, ReadPersistGood
    <2>3. rf' \in [Server -> GoodPeer] /\ chosen' \subseteq Nat \X Entry
      BY <2>1, <2>2, BecomeGood
    <2>4. incarnation' \in [Server -> Nat]
      BY <1>a, <2>1
    <2> QED
      BY <1>a, <1>b, <2>1, <2>3, <2>4, SMTT(30)
  <1>9. ASSUME NEW i \in Server, NEW command \in Command, Start(i, command)
        PROVE  TypeInv'
    <2> DEFINE p == [rf[i] EXCEPT
                        !.log = Append(@, [term |-> rf[i].currentTerm, command |-> command]),
                        !.nextIndex[i] = Len(rf[i].log) + 1 + 1,
                        !.matchIndex[i] = Len(rf[i].log) + 1]
    <2>1. p \in GoodPeer
      BY <1>a, StartGood, Zenon
    <2> HIDE DEF p
    <2>2. panic(p) \in GoodPeer
      BY <2>1, ResetGood
    <2>3. /\ persist(i, p)
          /\ \/ sendable(p, i) /\ Become(i, p) /\ Transmit({}, bcastAppend(p, i))
             \/ Become(i, panic(p)) /\ UNCHANGED messages
          /\ UNCHANGED <<incarnation, leaders>>
      BY <1>9 DEF Start, p
    <2>4. persister' \in [Server -> Saved]
      BY <2>1, <2>3, PersistGood, SMTT(30)
    <2>5. CASE sendable(p, i) /\ Become(i, p) /\ Transmit({}, bcastAppend(p, i))
      <3>1. rf' \in [Server -> GoodPeer] /\ chosen' \subseteq Nat \X Entry
        BY <2>1, <2>5, BecomeGood, SMTT(30)
      <3>2. bcastAppend(p, i) \in SUBSET GoodMessage
        BY <1>a, <2>1, <2>5, BcastAppendGood, SMTT(30)
      <3>3. IsABag(messages') /\ BagToSet(messages') \subseteq GoodMessage
        BY <2>5, <3>2, TransmitGood, SMTT(30)
      <3> QED
        BY <1>a, <1>b, <2>3, <2>4, <3>1, <3>3, SMTT(30)
    <2>6. CASE Become(i, panic(p)) /\ UNCHANGED messages
      <3>1. rf' \in [Server -> GoodPeer] /\ chosen' \subseteq Nat \X Entry
        BY <2>2, <2>6, BecomeGood, SMTT(30)
      <3> QED
        BY <1>a, <1>b, <2>3, <2>4, <2>6, <3>1, SMTT(30)
    <2> QED
      BY <2>3, <2>5, <2>6, SMTT(30)
  <1>10. CASE UNCHANGED vars
    BY <1>a, <1>b, <1>10 DEF vars
  <1> QED
    BY <1>1, <1>2, <1>3, <1>4, <1>5, <1>6, <1>7, <1>8, <1>9, <1>10, SMTT(30) DEF Next

(* Type correctness, for clusters of every size and without bounds on the  *)
(* terms, the logs or the network: every handler of raft.go leaves a well  *)
(* formed struct Raft, saves a well formed state and sends well formed     *)
(* messages, and never names a next index below 1.                         *)
THEOREM TypeCorrect == Spec => []TypeOK
  <1>1. Init => TypeInv
    BY TypeInvInit
  <1>2. TypeInv /\ [Next]_vars => TypeInv'
    BY TypeInvNext
  <1>3. TypeInv => TypeOK
    BY DEF TypeInv
  <1> QED
    BY <1>1, <1>2, <1>3, PTL DEF Spec

=============================================================================
