------------------------------ MODULE RaftLoop ------------------------------
(***************************************************************************)
(* The goroutines of one server of kvraft and the channels between them:   *)
(* run, stateMachine, serveChannels and the senders of raft.go, the        *)
(* handlers of peers' calls, getApply and AppendLog of kvraft/server.go.   *)
(* All channels but tickc and the results are unbuffered: a send and its   *)
(* receive are one step.                                                   *)
(*                                                                         *)
(* What a message does to the log is module Raft's subject.  Here it       *)
(* changes the log above commitIndex in any way and may raise commitIndex, *)
(* which is what Raft's invariants leave of it for the other goroutines.   *)
(***************************************************************************)
EXTENDS Integers, Sequences, FiniteSets

CONSTANTS
    Handler,    \* RPCs of peers (RequestVote, AppendEnties), each once
    Caller,     \* AppendLog calls, each once
    Sender,     \* goroutines of bcastAppend and bcastRequestVoteRPC
    Command,    \* what other leaders append; a call of Caller appends itself
    MaxIndex,   \* length of the log without the entries of Caller
    TickCap     \* capacity of tickc

ASSUME LoopAssumption == MaxIndex \in Nat /\ TickCap \in Nat \ {0}

VARIABLES
    leader,      \* rf.state = StateLeader
    log, commitIndex,
    tickc,       \* ticks in the channel
    run,         \* run: at its select, in commitTo, or returned
    sm,          \* stateMachine, with lastApplied
    handler, sender, caller,
    getApply,    \* getApply, with prevIndex
    mu,          \* who holds kv.mu
    result,      \* result[i]: the channel for index i, with room for one Op
    stopc,
    panicked,
    applied      \* history: what has been sent over applyCh

raft == <<leader, log, commitIndex>>
service == <<caller, getApply, mu, result>>
vars == <<raft, tickc, run, sm, handler, sender, service, stopc,
          panicked, applied>>

Nobody == "nobody"
NoMsg == [index |-> 0, command |-> "none"]
NoChan == "nil"
Empty == "empty"

(* Mutant: a conflict with the last committed entry is let through. *)
RewrittenFromCommit ==
    {log} \cup {l \in {Append(SubSeq(log, 1, j), c) : j \in commitIndex - 1 .. Len(log), c \in Command} :
                   commitIndex <= Len(l) /\ Len(l) <= MaxIndex}

(* The logs that agree with this one up to commitIndex: an entry appended  *)
(* after any of the others.                                                *)
Rewritten ==
    {log} \cup {l \in {Append(SubSeq(log, 1, j), c) : j \in commitIndex .. Len(log), c \in Command} :
                   Len(l) <= MaxIndex}

SmIdle(last) == [pc |-> "select", lastApplied |-> last, next |-> 0, upto |-> 0, msg |-> NoMsg]

MaxLen == MaxIndex + Cardinality(Caller)
Index == 1 .. MaxLen

(* The select of run. *)
AtSelect == run = [pc |-> "select"]

(* bcastAppend and bcastRequestVoteRPC: a goroutine for the message. *)
Bcast ==
    LET idle == {s \in Sender : sender[s] = "none"}
    IN  sender' = IF idle = {} THEN sender
                  ELSE [sender EXCEPT ![CHOOSE s \in idle : TRUE] = "propc"]

-----------------------------------------------------------------------------
(* The ticker goroutine. *)

(* A tick that finds the channel full is a panic. *)
Tick ==
    /\ panicked' = (tickc = TickCap)
    /\ tickc' = IF tickc = TickCap THEN tickc ELSE tickc + 1

-----------------------------------------------------------------------------
(* The goroutine run. *)

(* tickElection and tickHeartbeat: a timeout makes the server campaign or  *)
(* send heartbeats.                                                        *)
RunTick ==
    /\ AtSelect /\ tickc > 0
    /\ tickc' = tickc - 1
    /\ UNCHANGED sender \/ Bcast
    /\ UNCHANGED <<raft, run, sm, handler, service, stopc, panicked, applied>>

(* commitTo waits for stateMachine; Step then persists and closes m.done,  *)
(* which done says.                                                        *)
commitTo(tocommit, done) ==
    /\ commitIndex < tocommit
    /\ commitIndex' = tocommit
    /\ run' = [pc |-> "commitc", done |-> done]

(* Step for a call of a peer: refused, answered, or one that makes this    *)
(* server a follower, changes the log above commitIndex and commits.       *)
StepRequest(h) ==
    /\ AtSelect /\ handler[h] = "recvc"
    /\ \/ /\ UNCHANGED <<log, commitIndex, run>>
          /\ leader' \in {leader, FALSE}
          /\ handler' = [handler EXCEPT ![h] = "answered"]
       \/ /\ leader' = FALSE
          /\ log' \in Rewritten
          /\ \/ /\ UNCHANGED <<commitIndex, run>>
                /\ handler' = [handler EXCEPT ![h] = "answered"]
             \/ /\ \E c \in 1 .. Len(log') : commitTo(c, h)
                /\ handler' = [handler EXCEPT ![h] = "done"]
    /\ UNCHANGED <<tickc, sm, sender, service, stopc, panicked, applied>>

(* Step for an answer: ignored, of a higher term, a vote that decides the  *)
(* election, or one that lets the leader commit.                           *)
StepResponse(s) ==
    /\ AtSelect /\ sender[s] = "recvc"
    /\ \/ /\ leader' \in {leader, FALSE}
          /\ sender' = [sender EXCEPT ![s] = "none"]
          /\ UNCHANGED <<commitIndex, run>>
       \/ /\ ~leader /\ leader' = TRUE
          /\ sender' = [sender EXCEPT ![s] = "propc"]      \* becomeLeader: bcastAppend
          /\ UNCHANGED <<commitIndex, run>>
       \/ /\ leader /\ UNCHANGED leader
          /\ sender' = [sender EXCEPT ![s] = "none"]
          /\ \E c \in 1 .. Len(log) : commitTo(c, Nobody)
    /\ UNCHANGED <<log, tickc, sm, handler, service, stopc, panicked, applied>>

(* handleStart, which answers the index; the caller waits for m.done. *)
handleStart(k) ==
    /\ AtSelect /\ caller[k].pc = "commandc"
    /\ \/ /\ ~leader
          /\ caller' = [caller EXCEPT ![k].pc = "returned"]
          /\ UNCHANGED <<log, sender>>
       \/ /\ leader
          /\ log' = Append(log, k)
          /\ caller' = [caller EXCEPT ![k].pc = "lock", ![k].index = Len(log) + 1]
          /\ Bcast
    /\ UNCHANGED <<leader, commitIndex, tickc, run, sm, handler, getApply, mu,
                   result, stopc, panicked, applied>>

RunStopped ==
    /\ AtSelect /\ stopc
    /\ run' = [pc |-> "exited"]
    /\ UNCHANGED <<raft, tickc, sm, handler, sender, service, stopc,
                   panicked, applied>>

-----------------------------------------------------------------------------
(* stateMachine: it takes commitIndex from run, *)

SmReceiveUpto(upto, closed) ==
    /\ run.pc = "commitc" /\ sm.pc = "select"
    /\ run' = [pc |-> "select"]
    /\ handler' = [h \in Handler |-> IF h \in closed THEN "answered" ELSE handler[h]]
    /\ sm' = [sm EXCEPT !.pc = "check", !.upto = upto]
    /\ UNCHANGED <<raft, tickc, sender, service, stopc, panicked, applied>>

(* Step returns after commitTo without closing m.done. *)
SmReceiveNotDone == SmReceiveUpto(commitIndex, {})

SmReceive == SmReceiveUpto(commitIndex, {run.done})

(* compares it with what the log is by then, *)
SmCheck ==
    LET new == sm.upto > sm.lastApplied
    IN  /\ sm.pc = "check"
        /\ panicked' = (new /\ Len(log) < sm.upto)
        /\ sm' = IF new THEN [sm EXCEPT !.pc = "read", !.next = sm.lastApplied + 1]
                 ELSE SmIdle(sm.lastApplied)
        /\ UNCHANGED <<raft, tickc, run, handler, sender, service, stopc,
                       applied>>

(* reads an entry while run goes on, *)
SmRead ==
    /\ sm.pc = "read"
    /\ sm' = [sm EXCEPT !.pc = "send", !.msg = [index |-> sm.next, command |-> log[sm.next]]]
    /\ UNCHANGED <<raft, tickc, run, handler, sender, service, stopc,
                   panicked, applied>>

(* and sends it when getApply receives; lastApplied is set at the end.     *)
AfterSendEarly ==      \* the last entry is left out
    IF sm.next + 1 < sm.upto THEN [sm EXCEPT !.pc = "read", !.next = @ + 1]
    ELSE SmIdle(sm.upto)

AfterSend ==
    IF sm.next < sm.upto THEN [sm EXCEPT !.pc = "read", !.next = @ + 1]
    ELSE SmIdle(sm.upto)

SmSend ==
    /\ sm.pc = "send" /\ getApply.pc = "select"
    /\ sm' = AfterSend
    /\ applied' = Append(applied, sm.msg.command)
    /\ panicked' = (sm.msg.index > 1 /\ getApply.prevIndex # sm.msg.index - 1)
    /\ getApply' = [pc |-> "lock", prevIndex |-> sm.msg.index, op |-> sm.msg.command]
    /\ UNCHANGED <<raft, tickc, run, handler, sender, caller, mu, result, stopc>>

SmStopped ==
    /\ sm.pc = "select" /\ stopc
    /\ sm' = [sm EXCEPT !.pc = "exited"]
    /\ UNCHANGED <<raft, tickc, run, handler, sender, service, stopc,
                   panicked, applied>>

-----------------------------------------------------------------------------
(* getApply applies the entry and leaves it in the channel of its index,   *)
(* which it empties first, under kv.mu.                                    *)

ApplyLock ==
    /\ getApply.pc = "lock" /\ mu = Nobody
    /\ mu' = "getApply"
    /\ getApply' = [getApply EXCEPT !.pc = "locked"]
    /\ UNCHANGED <<raft, tickc, run, sm, handler, sender, caller, result, stopc, panicked, applied>>

ApplyUnlock ==
    /\ getApply.pc = "locked"
    /\ result' = [result EXCEPT ![getApply.prevIndex] = getApply.op]
    /\ mu' = Nobody
    /\ getApply' = [getApply EXCEPT !.pc = "select", !.op = "none"]
    /\ UNCHANGED <<raft, tickc, run, sm, handler, sender, caller, stopc,
                   panicked, applied>>

ApplyStopped ==
    /\ getApply.pc = "select" /\ stopc
    /\ getApply' = [getApply EXCEPT !.pc = "exited"]
    /\ UNCHANGED <<raft, tickc, run, sm, handler, sender, caller, mu, result, stopc, panicked, applied>>

-----------------------------------------------------------------------------
(* AppendLog: Start reads rf.state unsynchronised and only then sends. *)

Caller1(k, next, m) ==
    /\ caller' = [caller EXCEPT ![k].pc = next,
                              ![k].index = IF next = "returned" THEN 0 ELSE @]
    /\ mu' = m
    /\ UNCHANGED <<raft, tickc, run, sm, handler, sender, getApply, stopc,
                   panicked, applied>>

(* kv.mu is held over Start. *)
StartLocked(k) ==
    /\ caller[k].pc = "none"
    /\ IF leader THEN mu = Nobody /\ Caller1(k, "commandc", k) ELSE Caller1(k, "returned", mu)
    /\ UNCHANGED result

Start(k) ==
    /\ caller[k].pc = "none"
    /\ Caller1(k, IF leader THEN "commandc" ELSE "returned", mu)
    /\ UNCHANGED result

CallerLock(k) ==
    /\ caller[k].pc = "lock" /\ mu \in {Nobody, k}
    /\ Caller1(k, "locked", k)
    /\ UNCHANGED result

(* The channel of the index is made unless getApply has made it. *)
CallerUnlock(k) ==
    /\ caller[k].pc = "locked"
    /\ result' = [result EXCEPT ![caller[k].index] = IF @ = NoChan THEN Empty ELSE @]
    /\ Caller1(k, "wait", Nobody)

CallerReceive(k) ==
    /\ caller[k].pc = "wait" /\ result[caller[k].index] # Empty
    /\ result' = [result EXCEPT ![caller[k].index] = Empty]
    /\ Caller1(k, "returned", mu)

AppendTimeOutNever(k) == FALSE

AppendTimeOut(k) ==
    /\ caller[k].pc = "wait"
    /\ Caller1(k, "returned", mu)
    /\ UNCHANGED result

-----------------------------------------------------------------------------
(* Senders: serveChannels starts the Call, whose answer goes to recvc. *)

Send1(s, next) ==
    /\ sender' = [sender EXCEPT ![s] = next]
    /\ UNCHANGED <<raft, tickc, run, sm, handler, service, stopc, panicked,
                   applied>>

serveChannels(s) == sender[s] = "propc" /\ Send1(s, "call")

CallReturns(s) == sender[s] = "call" /\ \E next \in {"none", "recvc"} : Send1(s, next)

(* RequestVote and AppendEnties: a call of a peer arrives. *)
Arrives(h) ==
    /\ handler[h] = "none"
    /\ handler' = [handler EXCEPT ![h] = "recvc"]
    /\ UNCHANGED <<raft, tickc, run, sm, sender, service, stopc, panicked,
                   applied>>

(* RaftKV.Kill closes the stopc of Raft and its own.  From then on every   *)
(* select may choose to return, or something else once more.               *)
Kill ==
    /\ ~stopc
    /\ stopc' = TRUE
    /\ UNCHANGED <<raft, tickc, run, sm, handler, sender, service, panicked, applied>>

-----------------------------------------------------------------------------
(* Make and StartKVServer, with the log that the persister had. *)
Init ==
    /\ leader = FALSE
    /\ log \in UNION {[1 .. k -> Command] : k \in 0 .. MaxIndex} /\ commitIndex = 0
    /\ tickc = 0
    /\ run = [pc |-> "select"]
    /\ sm = SmIdle(0)
    /\ handler = [h \in Handler |-> "none"]
    /\ sender = [s \in Sender |-> "none"]
    /\ caller = [k \in Caller |-> [pc |-> "none", index |-> 0]]
    /\ getApply = [pc |-> "select", prevIndex |-> 0, op |-> "none"]
    /\ mu = Nobody
    /\ result = [i \in Index |-> NoChan]
    /\ stopc = FALSE
    /\ panicked = FALSE /\ applied = <<>>

(* What the goroutines do by themselves: microseconds, where the ticker    *)
(* waits 100 ms.                                                           *)
Internal ==
    \/ RunTick \/ RunStopped
    \/ SmReceive \/ SmCheck \/ SmRead \/ SmSend \/ SmStopped
    \/ ApplyLock \/ ApplyUnlock \/ ApplyStopped
    \/ \E h \in Handler : StepRequest(h)
    \/ \E s \in Sender : StepResponse(s) \/ serveChannels(s)
    \/ \E k \in Caller : \/ handleStart(k) \/ CallerLock(k) \/ CallerUnlock(k)
                         \/ CallerReceive(k)

(* The next tick comes when they have all come to wait; a ticker that is   *)
(* stopped has returned by then.                                           *)
TickerFires ==
    /\ ~stopc /\ ~ENABLED Internal
    /\ Tick
    /\ UNCHANGED <<raft, run, sm, handler, sender, service, stopc, applied>>

External ==
    \/ Kill
    \/ \E h \in Handler : Arrives(h)
    \/ \E s \in Sender : CallReturns(s)
    \/ \E k \in Caller : Start(k) \/ AppendTimeOut(k)

Next == ~panicked /\ (Internal \/ TickerFires \/ External)

(***************************************************************************)
(* Every goroutine that can go on does so, timeouts expire, and run serves *)
(* every sender that waits: a select chooses at random and the waiters of  *)
(* a channel are a queue.                                                  *)
(***************************************************************************)
Fairness ==
    /\ WF_sm(~panicked /\ (SmReceive \/ SmCheck \/ SmRead \/ SmSend))
    /\ WF_getApply(~panicked /\ (ApplyLock \/ ApplyUnlock))
    /\ \A h \in Handler : SF_handler(~panicked /\ StepRequest(h))
    /\ \A k \in Caller :
        /\ SF_caller(~panicked /\ (handleStart(k) \/ CallerLock(k)))
        /\ WF_caller(~panicked /\ (CallerUnlock(k) \/ AppendTimeOut(k)))

Spec == Init /\ [][Next]_vars /\ Fairness

-----------------------------------------------------------------------------
(* Properties. *)

(* raft.go, Tick and stateMachine, and server.go, getApply: "A tick missed *)
(* to fire. Node blocks too long!", a commitIndex beyond the log and an    *)
(* entry out of order, on each of which the process panics, do not happen, *)
(* whichever goroutines wait for each other and also while they are        *)
(* being stopped.                                                          *)
NoPanic == ~panicked

(* raft.go, stateMachine: what goes over applyCh is the committed log, in  *)
(* order and each entry once, although stateMachine reads rf.log without a *)
(* lock while run replaces its end.                                        *)
AppliedIsCommitted ==
    Len(applied) <= commitIndex /\ applied = SubSeq(log, 1, Len(applied))

(* raft.go, RequestVote and AppendEnties: a call of a peer is answered, or *)
(* the server is killed: run does not stay in commitTo.                    *)
PeersAnswered == \A h \in Handler : handler[h] = "recvc" ~> handler[h] = "answered" \/ stopc

(* server.go, AppendLog: the call comes back, or the server is killed: the *)
(* chain from Start over run, stateMachine and getApply to kv.mu never     *)
(* closes.                                                                 *)
AppendLogReturns ==
    \A k \in Caller : caller[k].pc = "commandc" ~> caller[k].pc = "returned" \/ stopc

(* raft.go, commitTo, stateMachine: what run has committed, getApply       *)
(* applies, or the server is killed.                                       *)
CommittedIsApplied ==
    commitIndex > getApply.prevIndex ~> commitIndex = getApply.prevIndex \/ stopc

=============================================================================
