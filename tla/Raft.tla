-------------------------------- MODULE Raft --------------------------------
(***************************************************************************)
(* The consensus core of mit/src/raft/raft.go: elections, log replication, *)
(* commitment, persistence, crashes and restarts of a set of Raft peers    *)
(* that talk over labrpc.                                                  *)
(*                                                                         *)
(* A peer is one Go struct Raft, here the record rf[i]; its methods are    *)
(* the operators below that take and return such a record.  All of a       *)
(* peer's state changes happen in its run() goroutine, one tick, message   *)
(* or command at a time, so each of those is one action.  A handler        *)
(* persists before anything it sends can leave the peer, so a crash inside *)
(* a handler looks like a crash before it (nothing saved, nothing sent) or *)
(* after it (saved, messages lost), with one exception, CrashInStep.       *)
(*                                                                         *)
(* log[k] is Go's rf.log[k] for k >= 1; Go's rf.log[0] is the sentinel     *)
(* {Term: 1, Index: 0} that reset() puts there.  Timers are abstracted:    *)
(* an election or a heartbeat may be due at any time.                      *)
(***************************************************************************)
EXTENDS Integers, Sequences, FiniteSets, Bags

CONSTANTS
    Server,       \* the peers (indices into peers[])
    Command,      \* what clients pass to Start
    None,         \* votedFor when no vote was cast (-1 in Go)
    MaxTerm,      \* bound: no election is started beyond this term
    MaxIndex,     \* bound: no command is accepted beyond this log index
    MaxInFlight,  \* bound: messages in flight; the network loses the others
    MaxRestarts   \* bound: restarts of all peers together

ASSUME ServerAssumption == IsFiniteSet(Server) /\ Server # {} /\ None \notin Server
ASSUME BoundsAssumption == {MaxTerm, MaxIndex, MaxInFlight, MaxRestarts} \subseteq Nat

VARIABLES
    rf,           \* rf[i]: the in-memory struct Raft of peer i
    persister,    \* persister[i]: what peer i last saved to stable storage
    incarnation,  \* incarnation[i]: how often peer i was restarted
    messages,     \* bag of requests and replies in flight
    leaders,      \* history: every <<term, server, voters>> that became leader
    chosen        \* history: every <<index, entry>> that a peer committed

vars == <<rf, persister, incarnation, messages, leaders, chosen>>

StateFollower == "follower"
StateCandidate == "candidate"
StateLeader == "leader"
Panicked == "panicked"        \* dead: one of raft.go's calls of panic
OutOfRange == "out of range"  \* dead: the runtime's index-out-of-range panic
Dead == {Panicked, OutOfRange}

Entry == [term : Nat, command : Command]

NoIndex == [j \in Server |-> 0]

(***************************************************************************)
(* Make with an empty persister.                                           *)
(***************************************************************************)
InitPeer ==
    [currentTerm |-> 1, votedFor |-> None, log |-> <<>>,
     commitIndex |-> 0, nextIndex |-> NoIndex, matchIndex |-> NoIndex,
     state |-> StateFollower, granted |-> {}, refused |-> {}]

(* Mutant: the vote is left out of the saved state. *)
persistedWithoutVote(p) ==
    [currentTerm |-> p.currentTerm, log |-> p.log, votedFor |-> None]

persisted(p) ==
    [currentTerm |-> p.currentTerm, log |-> p.log, votedFor |-> p.votedFor]

readPersist(data) ==
    [InitPeer EXCEPT !.currentTerm = data.currentTerm,
                     !.log = data.log,
                     !.votedFor = data.votedFor]

-----------------------------------------------------------------------------
(* Methods of struct Raft that change the role of a peer. *)

quorum == Cardinality(Server) \div 2 + 1

reset(p, term) ==
    [p EXCEPT !.currentTerm = term,
              !.votedFor = IF term = p.currentTerm THEN @ ELSE None,
              !.granted = {},
              !.refused = {},
              !.nextIndex = NoIndex,
              !.matchIndex = NoIndex]

becomeFollower(p, term) == [reset(p, term) EXCEPT !.state = StateFollower]

becomeCandidate(p, me) ==
    [reset(p, p.currentTerm + 1) EXCEPT !.votedFor = me, !.state = StateCandidate]

becomeLeader(p) ==
    [reset(p, p.currentTerm) EXCEPT
        !.state = StateLeader,
        !.nextIndex = [j \in Server |-> Len(p.log) + 1]]

panic(p) == [p EXCEPT !.state = Panicked]

(* The votes map keeps the first answer of every peer. *)
poll(p, id, v) ==
    IF id \in p.granted \cup p.refused THEN p
    ELSE IF v THEN [p EXCEPT !.granted = @ \cup {id}]
              ELSE [p EXCEPT !.refused = @ \cup {id}]

-----------------------------------------------------------------------------
(* Methods of struct Raft on the log. *)

lastIndex(p) == Len(p.log)

termAt(p, k) == IF k = 0 THEN 1 ELSE p.log[k].term

lastTerm(p) == termAt(p, lastIndex(p))

(* Mutant: any entry at the index will do. *)
matchIndexOnly(p, k, term) == k <= lastIndex(p)

matchTerm(p, k, term) == k <= lastIndex(p) /\ termAt(p, k) = term

(* Mutant: the logs are not compared. *)
reqAnyLog(p, m) == TRUE

reqMoreUpToDate(p, m) ==
    \/ m.lastLogTerm > lastTerm(p)
    \/ m.lastLogTerm = lastTerm(p) /\ m.lastLogIndex >= lastIndex(p)

(* The index of the first entry that the log lacks or contradicts, or 0. *)
findConflict(p, m) ==
    LET agrees(k) == matchTerm(p, m.prevLogIndex + k, m.entries[k].term)
        first == {k \in 1 .. Len(m.entries) :
                    ~agrees(k) /\ \A l \in 1 .. k - 1 : agrees(l)}
    IN  IF first = {} THEN 0 ELSE m.prevLogIndex + CHOOSE k \in first : TRUE

appendLog(p, m, ci) ==
    [p EXCEPT !.log = SubSeq(@, 1, ci - 1)
                      \o SubSeq(m.entries, ci - m.prevLogIndex, Len(m.entries))]

commitTo(p, tocommit) ==
    IF tocommit > lastIndex(p) THEN panic(p)
    ELSE [p EXCEPT !.commitIndex = IF @ < tocommit THEN tocommit ELSE @]

(* mis[n - 1] for the matchIndex values mis in descending order. *)
isLargest(p, n, v) ==
    LET above(x) == Cardinality({j \in Server : p.matchIndex[j] >= x})
    IN  above(v) >= n /\ above(v + 1) < n

(* Mutant: mis[quorum() - 2] instead of mis[quorum() - 1]. *)
updateCommitIndexEarly(p) ==
    LET ready == {mci \in {p.matchIndex[j] : j \in Server} :
                    /\ isLargest(p, quorum - 1, mci)
                    /\ mci > p.commitIndex
                    /\ termAt(p, mci) = p.currentTerm}
    IN  IF ready = {} THEN p ELSE commitTo(p, CHOOSE mci \in ready : TRUE)

(* Mutant: the term of the entry is not looked at. *)
updateCommitIndexAnyTerm(p) ==
    LET ready == {mci \in {p.matchIndex[j] : j \in Server} :
                    /\ isLargest(p, quorum, mci)
                    /\ mci > p.commitIndex}
    IN  IF ready = {} THEN p ELSE commitTo(p, CHOOSE mci \in ready : TRUE)

(* The quorum-th largest matchIndex commits if its entry is of this term. *)
updateCommitIndex(p) ==
    LET ready == {mci \in {p.matchIndex[j] : j \in Server} :
                    /\ isLargest(p, quorum, mci)
                    /\ mci > p.commitIndex
                    /\ termAt(p, mci) = p.currentTerm}
    IN  IF ready = {} THEN p ELSE commitTo(p, CHOOSE mci \in ready : TRUE)

-----------------------------------------------------------------------------
(***************************************************************************)
(* Messages.  A request and the reply to it carry the incarnation of the   *)
(* requester: the reply reaches only the goroutine that made the call.     *)
(* MsgAppResp keeps the request's PrevLogIndex (respm.args).               *)
(***************************************************************************)
MsgVote == "MsgVote"
MsgVoteResp == "MsgVoteResp"
MsgApp == "MsgApp"
MsgAppResp == "MsgAppResp"

(* A peer that may refer to a log index its log lacks panics instead. *)
sendable(p, me) ==
    \A j \in Server \ {me} : p.nextIndex[j] - 1 \in 0 .. lastIndex(p)

(* Mutant: a request carries at most one entry. *)
bcastAppendOne(p, me) ==
    {[type |-> MsgApp, from |-> me, to |-> j, inc |-> incarnation[me],
      term |-> p.currentTerm,
      leaderCommit |-> p.commitIndex,
      prevLogIndex |-> p.nextIndex[j] - 1,
      prevLogTerm |-> termAt(p, p.nextIndex[j] - 1),
      entries |-> IF p.nextIndex[j] > Len(p.log) THEN <<>>
                  ELSE <<p.log[p.nextIndex[j]]>>]
        : j \in Server \ {me}}

bcastAppend(p, me) ==
    {[type |-> MsgApp, from |-> me, to |-> j, inc |-> incarnation[me],
      term |-> p.currentTerm,
      leaderCommit |-> p.commitIndex,
      prevLogIndex |-> p.nextIndex[j] - 1,
      prevLogTerm |-> termAt(p, p.nextIndex[j] - 1),
      entries |-> SubSeq(p.log, p.nextIndex[j], Len(p.log))]
        : j \in Server \ {me}}

bcastRequestVoteRPC(p, me) ==
    {[type |-> MsgVote, from |-> me, to |-> j, inc |-> incarnation[me],
      term |-> p.currentTerm,
      lastLogIndex |-> lastIndex(p),
      lastLogTerm |-> lastTerm(p)]
        : j \in Server \ {me}}

voteReply(m, term, granted) ==
    [type |-> MsgVoteResp, from |-> m.to, to |-> m.from, inc |-> m.inc,
     term |-> term, granted |-> granted]

appReply(m, term, success, nextIndex, conflictTerm, conflictIndex) ==
    [type |-> MsgAppResp, from |-> m.to, to |-> m.from, inc |-> m.inc,
     term |-> term, success |-> success, nextIndex |-> nextIndex,
     conflictTerm |-> conflictTerm, conflictIndex |-> conflictIndex,
     prevLogIndex |-> m.prevLogIndex]

(* What a handler leaves behind: the peer's new state and what it sends. *)
outcome(p, sent) == [peer |-> p, sent |-> IF p.state \in Dead THEN {} ELSE sent]

-----------------------------------------------------------------------------
(* Step: what peer m.to does with message m. *)

(* Mutant: a message of any other term is adopted. *)
observedAnyTerm(p, m) ==
    IF m.term # p.currentTerm THEN becomeFollower(p, m.term) ELSE p

(* A message of a later term makes its receiver a follower of that term. *)
observed(p, m) ==
    IF m.term > p.currentTerm THEN becomeFollower(p, m.term) ELSE p

(* A leader leaves the reply to a vote request of its own term zero. *)
stepVote(m) ==
    LET p == observed(rf[m.to], m)
        current == m.term = p.currentTerm
        grant == /\ current
                 /\ p.state = StateFollower
                 /\ p.votedFor \in {None, m.from}
                 /\ reqMoreUpToDate(p, m)
        term == IF current /\ p.state = StateLeader THEN 0 ELSE p.currentTerm
    IN  outcome(IF grant THEN [p EXCEPT !.votedFor = m.from] ELSE p,
                {voteReply(m, term, grant)})

(* The entries follow prevLogIndex in this log: take over what is new. *)
acceptEntries(p, m) ==
    LET nexti == m.prevLogIndex + Len(m.entries) + 1
        ci == findConflict(p, m)
        q == IF ci = 0 THEN p
             ELSE IF ci <= p.commitIndex THEN panic(p)
             ELSE appendLog(p, m, ci)
        r == IF m.leaderCommit > q.commitIndex THEN commitTo(q, m.leaderCommit) ELSE q
    IN  outcome(IF q.state = Panicked THEN q
                ELSE IF nexti > lastIndex(r) + 1 THEN panic(r)
                ELSE r,
                {appReply(m, p.currentTerm, TRUE, nexti, 0, 0)})

(* Mutant: the hint has no floor of 1. *)
rejectEntriesNoFloor(p, m) ==
    LET known == m.prevLogIndex <= lastIndex(p)
        hint == IF p.commitIndex + 1 < m.prevLogIndex - 1
                THEN p.commitIndex + 1 ELSE m.prevLogIndex - 1
    IN  outcome(p, {appReply(m, p.currentTerm, FALSE, hint,
                             IF known THEN termAt(p, m.prevLogIndex) ELSE -1,
                             IF known THEN 0 ELSE -1)})

(* ConflictIndex is always 0: the loop that computes it has its own copy. *)
rejectEntries(p, m) ==
    LET known == m.prevLogIndex <= lastIndex(p)
        hint == IF p.commitIndex + 1 < m.prevLogIndex - 1
                THEN p.commitIndex + 1 ELSE m.prevLogIndex - 1
    IN  outcome(p, {appReply(m, p.currentTerm, FALSE,
                             IF hint < 1 THEN 1 ELSE hint,
                             IF known THEN termAt(p, m.prevLogIndex) ELSE -1,
                             IF known THEN 0 ELSE -1)})

handleAppendEntries(p, m) ==
    IF m.prevLogIndex < p.commitIndex
    THEN outcome(p, {appReply(m, p.currentTerm, TRUE, p.commitIndex + 1, 0, 0)})
    ELSE IF matchTerm(p, m.prevLogIndex, m.prevLogTerm)
         THEN acceptEntries(p, m)
         ELSE rejectEntries(p, m)

(* Mutant: neither the term of the request nor the role is looked at. *)
stepAppAnyTerm(m) == handleAppendEntries(observed(rf[m.to], m), m)

stepApp(m) ==
    LET p == observed(rf[m.to], m)
    IN  CASE m.term < p.currentTerm ->
                outcome(p, {appReply(m, p.currentTerm, FALSE, p.commitIndex + 1, 0, 0)})
          [] m.term = p.currentTerm /\ p.state = StateFollower ->
                handleAppendEntries(p, m)
          [] m.term = p.currentTerm /\ p.state = StateCandidate ->
                handleAppendEntries(becomeFollower(p, p.currentTerm), m)
          [] OTHER -> outcome(p, {appReply(m, 0, FALSE, 0, 0, 0)})

stepVoteResp(m) ==
    LET p == observed(rf[m.to], m)
        q == poll(p, m.from, m.granted)
        won == becomeLeader(q)
    IN  IF m.term < p.currentTerm \/ p.state # StateCandidate
        THEN outcome(p, {})
        ELSE CASE Cardinality(q.granted) = quorum ->
                     outcome(won, bcastAppend(won, m.to))
               [] Cardinality(q.granted) # quorum /\ Cardinality(q.refused) = quorum ->
                     outcome(becomeFollower(q, q.currentTerm), {})
               [] OTHER -> outcome(q, {})

(* Mutant: the whole log of the leader counts as acknowledged. *)
acknowledgedAll(p, m) ==
    IF m.nextIndex >= p.nextIndex[m.from]
    THEN updateCommitIndex([p EXCEPT !.nextIndex[m.from] = m.nextIndex,
                                     !.matchIndex[m.from] = lastIndex(p)])
    ELSE p

(* A follower acknowledged nextIndex - 1 entries. *)
acknowledged(p, m) ==
    IF m.nextIndex >= p.nextIndex[m.from]
    THEN updateCommitIndex([p EXCEPT !.nextIndex[m.from] = m.nextIndex,
                                     !.matchIndex[m.from] = m.nextIndex - 1])
    ELSE p

(* The scan for ConflictTerm reads log[prevLogIndex - 1] first. *)
backedOff(p, m) ==
    LET seen == \E k \in 1 .. m.prevLogIndex - 1 : p.log[k].term = m.conflictTerm
    IN  IF m.prevLogIndex - 1 > lastIndex(p) THEN [p EXCEPT !.state = OutOfRange]
        ELSE [p EXCEPT !.nextIndex[m.from] =
                IF ~seen /\ m.conflictIndex > 0 THEN m.conflictIndex ELSE m.nextIndex]

stepAppResp(m) ==
    LET p == observed(rf[m.to], m)
    IN  CASE m.term < p.currentTerm \/ p.state # StateLeader -> outcome(p, {})
          [] m.term = p.currentTerm /\ p.state = StateLeader ->
                outcome(IF m.nextIndex > lastIndex(p) + 1 THEN panic(p)
                        ELSE IF m.success THEN acknowledged(p, m)
                        ELSE backedOff(p, m), {})

-----------------------------------------------------------------------------
(* Actions. *)

(* The network takes message got away and loses any of the sent ones. *)
Transmit(got, sent) ==
    \E kept \in SUBSET sent :
        /\ messages' = (messages (-) SetToBag(got)) (+) SetToBag(kept)
        /\ BagCardinality(messages') <= MaxInFlight

(* Peer i is now p. *)
Become(i, p) ==
    /\ rf' = [rf EXCEPT ![i] = p]
    /\ chosen' = chosen \cup {<<k, p.log[k]>> : k \in 1 .. p.commitIndex}

(* Mutant: the state is saved before the handler changes it. *)
persistFirst(i, p) == persister' = [persister EXCEPT ![i] = persisted(rf[i])]

persist(i, p) == persister' = [persister EXCEPT ![i] = persisted(p)]

Receive(m, out) ==
    /\ Become(m.to, out.peer)
    /\ persist(m.to, out.peer)
    /\ Transmit({m}, out.sent)
    /\ UNCHANGED incarnation

(* A reply whose requester has been restarted is never delivered. *)
Deliverable(type) ==
    {m \in BagToSet(messages) :
        /\ m.type = type
        /\ rf[m.to].state \notin Dead
        /\ type \in {MsgVoteResp, MsgAppResp} => m.inc = incarnation[m.to]}

RequestVote ==
    \E m \in Deliverable(MsgVote) :
        /\ Receive(m, stepVote(m))
        /\ UNCHANGED leaders

AppendEnties ==
    \E m \in Deliverable(MsgApp) :
        /\ Receive(m, stepApp(m))
        /\ UNCHANGED leaders

RequestVoteReply ==
    \E m \in Deliverable(MsgVoteResp) :
        LET old == rf[m.to]
            new == stepVoteResp(m).peer
            elected == {<<new.currentTerm, m.to, poll(old, m.from, m.granted).granted>>}
        IN  /\ Receive(m, stepVoteResp(m))
            /\ leaders' = IF old.state = StateCandidate /\ new.state = StateLeader
                          THEN leaders \cup elected ELSE leaders

AppendEntiesReply ==
    \E m \in Deliverable(MsgAppResp) :
        /\ Receive(m, stepAppResp(m))
        /\ UNCHANGED leaders

(* tickElection.  A cluster of one peer elects itself and saves nothing. *)
campaign(i) ==
    LET p == poll(becomeCandidate(rf[i], i), i, TRUE)
    IN  /\ rf[i].state \in {StateFollower, StateCandidate}
        /\ rf[i].currentTerm < MaxTerm
        /\ IF quorum = 1
           THEN /\ Become(i, becomeLeader(p))
                /\ leaders' = leaders \cup {<<p.currentTerm, i, p.granted>>}
                /\ UNCHANGED <<persister, messages>>
           ELSE /\ Become(i, p)
                /\ UNCHANGED leaders
                /\ persist(i, p)
                /\ Transmit({}, bcastRequestVoteRPC(p, i))
        /\ UNCHANGED incarnation

(* tickHeartbeat *)
Heartbeat(i) ==
    /\ rf[i].state = StateLeader
    /\ persist(i, rf[i])
    /\ IF sendable(rf[i], i)
       THEN /\ Transmit({}, bcastAppend(rf[i], i))
            /\ UNCHANGED <<rf, chosen>>
       ELSE /\ Become(i, panic(rf[i]))
            /\ UNCHANGED messages
    /\ UNCHANGED <<incarnation, leaders>>

(* Start on a peer that is not the leader returns without an effect. *)
Start(i, command) ==
    LET index == Len(rf[i].log) + 1
        p == [rf[i] EXCEPT
                !.log = Append(@, [term |-> rf[i].currentTerm, command |-> command]),
                !.nextIndex[i] = index + 1,
                !.matchIndex[i] = index]
    IN  /\ rf[i].state = StateLeader
        /\ index <= MaxIndex
        /\ persist(i, p)
        /\ IF sendable(p, i)
           THEN Become(i, p) /\ Transmit({}, bcastAppend(p, i))
           ELSE Become(i, panic(p)) /\ UNCHANGED messages
        /\ UNCHANGED <<incarnation, leaders>>

Restarts == Cardinality(UNION {{i} \X (1 .. incarnation[i]) : i \in Server})

(* A crash, then Make with the peer's persister. *)
Restart(i) ==
    /\ Restarts < MaxRestarts
    /\ Become(i, readPersist(persister[i]))
    /\ incarnation' = [incarnation EXCEPT ![i] = @ + 1]
    /\ UNCHANGED <<persister, messages, leaders>>

(***************************************************************************)
(* commitTo hands entries to the service before Step's deferred persist:   *)
(* the peer may crash in between, restart, and have applied entries that   *)
(* it never saved.                                                         *)
(***************************************************************************)
CrashInStep ==
    \E m \in Deliverable(MsgApp) \cup Deliverable(MsgAppResp) :
        LET i == m.to
            p == (IF m.type = MsgApp THEN stepApp(m) ELSE stepAppResp(m)).peer
        IN  /\ Restarts < MaxRestarts
            /\ p.commitIndex > rf[i].commitIndex
            /\ rf' = [rf EXCEPT ![i] = readPersist(persister[i])]
            /\ chosen' = chosen \cup {<<k, p.log[k]>> : k \in 1 .. p.commitIndex}
            /\ incarnation' = [incarnation EXCEPT ![i] = @ + 1]
            /\ Transmit({m}, {})
            /\ UNCHANGED <<persister, leaders>>

Init ==
    /\ rf = [i \in Server |-> InitPeer]
    /\ persister = [i \in Server |-> persisted(InitPeer)]
    /\ incarnation = [i \in Server |-> 0]
    /\ messages = EmptyBag
    /\ leaders = {}
    /\ chosen = {}

Next ==
    \/ RequestVote
    \/ AppendEnties
    \/ RequestVoteReply
    \/ AppendEntiesReply
    \/ CrashInStep
    \/ \E i \in Server :
        \/ campaign(i)
        \/ Heartbeat(i)
        \/ Restart(i)
        \/ \E command \in Command : Start(i, command)

Spec == Init /\ [][Next]_vars

-----------------------------------------------------------------------------
(* Properties. *)

Peer ==
    [currentTerm : Nat \ {0}, votedFor : Server \cup {None}, log : Seq(Entry),
     commitIndex : Nat, nextIndex : [Server -> Nat], matchIndex : [Server -> Nat],
     state : {StateFollower, StateCandidate, StateLeader} \cup Dead,
     granted : SUBSET Server, refused : SUBSET Server]

Saved == [currentTerm : Nat \ {0}, log : Seq(Entry), votedFor : Server \cup {None}]

Message ==
    [type : {MsgVote}, from : Server, to : Server, inc : Nat, term : Nat \ {0},
     lastLogIndex : Nat, lastLogTerm : Nat]
    \cup [type : {MsgVoteResp}, from : Server, to : Server, inc : Nat, term : Nat,
          granted : BOOLEAN]
    \cup [type : {MsgApp}, from : Server, to : Server, inc : Nat, term : Nat \ {0},
          leaderCommit : Nat, prevLogIndex : Nat, prevLogTerm : Nat,
          entries : Seq(Entry)]
    \cup [type : {MsgAppResp}, from : Server, to : Server, inc : Nat, term : Nat,
          success : BOOLEAN, nextIndex : Nat, conflictTerm : Int,
          conflictIndex : Int, prevLogIndex : Nat]

(* Types; and every reply to an AppendEnties that was handled names a next *)
(* index of at least 1, which handleAppendEntries asserts before it        *)
(* returns.                                                                *)
TypeOK ==
    /\ rf \in [Server -> Peer]
    /\ persister \in [Server -> Saved]
    /\ incarnation \in [Server -> Nat]
    /\ IsABag(messages)
    /\ BagToSet(messages) \subseteq Message
    /\ \A m \in BagToSet(messages) :
        m.type = MsgAppResp /\ m.term > 0 => m.nextIndex > 0
    /\ leaders \subseteq Nat \X Server \X SUBSET Server
    /\ chosen \subseteq Nat \X Entry

(* Election Safety (doc.go): over the whole life of the cluster, restarts  *)
(* included, no two servers become leader of the same term.                *)
ElectionSafety ==
    \A l1, l2 \in leaders : l1[1] = l2[1] => l1[2] = l2[2]

(* Log Matching (doc.go): entries of two logs with the same index and term *)
(* are the same, and so are all entries before them.                       *)
LogMatching ==
    \A i, j \in Server :
        \A k \in DOMAIN rf[i].log \cap DOMAIN rf[j].log :
            rf[i].log[k].term = rf[j].log[k].term =>
                SubSeq(rf[i].log, 1, k) = SubSeq(rf[j].log, 1, k)

(* State Machine Safety (doc.go): stateMachine never applies different     *)
(* commands at one index, on one server or on two, before or after a crash. *)
StateMachineSafety ==
    \A c1, c2 \in chosen : c1[1] = c2[1] => c1 = c2

(* Leader Completeness (doc.go): a leader whose term nobody has passed     *)
(* holds every entry that any peer has ever committed.                     *)
LeaderCompleteness ==
    \A i \in Server :
        (/\ rf[i].state = StateLeader
         /\ \A j \in Server : rf[j].currentTerm <= rf[i].currentTerm)
        => \A c \in chosen : c[1] \in DOMAIN rf[i].log /\ rf[i].log[c[1]] = c[2]

(* What a leader believes replicated is on stable storage: as long as the  *)
(* follower has not moved to a later term, its saved log agrees with the   *)
(* leader's up to matchIndex, whatever replies were lost or reordered.     *)
MatchIndexSound ==
    \A i, j \in Server :
        (rf[i].state = StateLeader /\ rf[j].currentTerm <= rf[i].currentTerm)
        => LET n == rf[i].matchIndex[j]
           IN  /\ n <= Len(persister[j].log)
               /\ n <= Len(rf[i].log)
               /\ SubSeq(persister[j].log, 1, n) = SubSeq(rf[i].log, 1, n)

(* Every <<voter, term, candidate>> of which there is a trace: a grant in  *)
(* flight, a grant that a candidate has counted, a grant that made a       *)
(* leader.                                                                 *)
Ballots ==
    {<<m.from, m.term, m.to>> :
        m \in {n \in BagToSet(messages) : n.type = MsgVoteResp /\ n.granted}}
    \cup (UNION {{<<j, rf[c].currentTerm, c>> : j \in rf[c].granted} :
                    c \in {d \in Server : rf[d].state = StateCandidate}})
    \cup (UNION {{<<j, l[1], l[2]>> : j \in l[3]} : l \in leaders})

(* A vote survives the voter's crash: where a vote has gone out, been      *)
(* counted or made a leader, the stable storage of the voter has that vote *)
(* or a later term.  (A cluster of one peer saves no votes.)               *)
VotesAreDurable ==
    quorum # 1 => \A b \in Ballots :
        LET s == persister[b[1]]
        IN  \/ s.currentTerm > b[2]
            \/ s.currentTerm = b[2] /\ s.votedFor = b[3]

(* Over all its incarnations a peer votes for one candidate per term.      *)
OneVotePerTerm ==
    \A b1, b2 \in Ballots : b1[1] = b2[1] /\ b1[2] = b2[2] => b1[3] = b2[3]

(* None of raft.go's calls of panic is reached: no commit index beyond the *)
(* log, no conflict with a committed entry, no reply beyond the log.       *)
NoPanic == \A i \in Server : rf[i].state # Panicked

(* Leader Append-Only (doc.go): while a peer leads a term it never         *)
(* overwrites or deletes an entry of its log.                              *)
LeaderAppendOnly ==
    [][\A i \in Server :
        (/\ rf[i].state = StateLeader /\ rf'[i].state = StateLeader
         /\ rf'[i].currentTerm = rf[i].currentTerm)
        => SubSeq(rf'[i].log, 1, Len(rf[i].log)) = rf[i].log]_vars

(* A follower may commit up to LeaderCommit without looking at how many    *)
(* entries a request carries, because every request in flight carries the  *)
(* leader's log up to its commit index at least.                           *)
CommitCovered ==
    \A m \in BagToSet(messages) : m.type = MsgApp =>
        m.leaderCommit <= m.prevLogIndex + Len(m.entries)

(* doc.go: state is saved when an RPC is sent or answered.  So what Start  *)
(* or AppendEnties put into a log is on stable storage once it returned.   *)
LogIsDurable == \A i \in Server : persister[i].log = rf[i].log

(* raft.go, currentTerm: the term of a peer increases monotonically; with  *)
(* persist() in place a restart cannot take it back.                       *)
TermMonotonic ==
    [][\A i \in Server : rf'[i].currentTerm >= rf[i].currentTerm]_vars

(* raft.go, bcastAppend: requests that overtake each other are dealt with  *)
(* where they are handled; no late reply kills the leader that reads it.   *)
LateRepliesHandled == \A i \in Server : rf[i].state # OutOfRange

=============================================================================
