---------------------------- MODULE EtcdRaftNode ----------------------------
(***************************************************************************)
(* One process of etcd-raft: the raftNode that drives etcd's raft library  *)
(* (raft.go), the kvstore that reads its commit channel (kvstore.go), the  *)
(* REST handlers (httpapi.go) and main (main.go), with what is left on     *)
(* disk when the process dies.                                             *)
(*                                                                         *)
(* The library is external.  entries is the log that the cluster decides;  *)
(* a Ready brings some of it, after a tail that is not yet decided and may *)
(* be replaced.  Entries are known by their index; the map of the kvstore  *)
(* is the sequence of the Puts that made it.                               *)
(***************************************************************************)
EXTENDS Integers, Sequences, FiniteSets, SequencesExt

CONSTANTS
    MaxIndex,         \* entries that the cluster decides
    Logs,             \* the logs that it may come to decide
    MaxCrashes,       \* how often the process is killed
    MaxCrashIndex,    \* entries that are decided when it is killed
    snapCount,
    snapshotCatchUpEntriesN

(* Other: an entry without data, or a ConfChange of another node, which    *)
(* concerns the library and the transport only.                            *)
Put == "put"
Other == "other"
RemoveSelf == "removeSelf"
Kind == {Put, Other, RemoveSelf}

ASSUME EtcdAssumption ==
    /\ {MaxIndex, MaxCrashes, MaxCrashIndex} \subseteq Nat
    /\ {snapCount, snapshotCatchUpEntriesN} \subseteq Nat \ {0}
    /\ Logs \subseteq UNION {[1 .. n -> Kind] : n \in 0 .. MaxIndex}

VARIABLES
    entries,   \* the decided log: the kind of each entry
    raft,      \* the library: the end of its log, Commit, and what Advance confirmed
    wal,       \* on disk: the last entry, Commit, and whether entries are missing
    snapdir,   \* on disk: the newest snapshot
    proc,      \* the process: up, killed, or how it ended
    crashes,
    rc,        \* struct raftNode and the loop of serveChannels
    proposer,  \* the goroutine that sends proposals over raft, and proposeC
    http,      \* serveRaft and its listener
    commitC,   \* open, closed, or closed together with errorC
    store,     \* kvStore: the indices of the Puts it is made of
    reader,    \* readCommits
    main,      \* func main
    shown      \* the Puts that a GET has seen, in any life of the process

disk == <<wal, snapdir>>
kvstore == <<store, reader, main>>
vars == <<entries, raft, disk, proc, crashes, rc, proposer, http, commitC, kvstore, shown>>

(* The Puts among the first n entries of a log. *)
PutsOf(log, n) == SelectSeq([i \in 1 .. n |-> i], LAMBDA i : log[i] = Put)
Puts(n) == PutsOf(entries, n)

NoSnapshot == [index |-> 0, data |-> <<>>]

(* raftNode as newRaftNode makes it, with an empty MemoryStorage. *)
raftNode(pc, lastIndex) ==
    [pc |-> pc, lastIndex |-> lastIndex,
     snapshot |-> NoSnapshot,   \* the Snapshot of the Ready in hand
     ents |-> <<>>,             \* its CommittedEntries that are not yet published
     appliedIndex |-> 0, snapshotIndex |-> 0,
     storage |-> [snapshot |-> 0, offset |-> 0],
     err |-> FALSE]

-----------------------------------------------------------------------------
(* The rest of the cluster and the library. *)

(* What the cluster has decided when n entries are committed: as before,   *)
(* or with entries that nobody has told this node of until now.            *)
Decided(n) ==
    IF n <= Len(entries) THEN {entries}
    ELSE {SubSeq(log, 1, n) : log \in {l \in Logs : n <= Len(l) /\ IsPrefix(entries, l)}}

(* What a Ready may bring: a snapshot that is ahead of the log, or a new   *)
(* end of the log, of which the tail that is not committed may be replaced,*)
(* or more committed entries.  restore of the library also takes a         *)
(* snapshot that ends within the log, when it contradicts the tail that is *)
(* not committed; that case is left out: the WAL would keep the            *)
(* contradicted tail, and here an entry is known by its index alone.       *)
SnapshotReady(index) == index \in raft.last + 1 .. MaxIndex

EntriesReady(last, commit) ==
    /\ last \in (raft.last .. MaxIndex) \cup (wal.commit + 1 .. raft.last)
    /\ commit \in raft.commit .. last
    /\ last # raft.last \/ commit # raft.commit \/ raft.commit # raft.applied

-----------------------------------------------------------------------------
(* The process is gone: nothing is left of it but its files. *)
Gone(how) ==
    /\ proc' = how
    /\ raft' = [last |-> 0, commit |-> 0, applied |-> 0]
    /\ rc' = raftNode("off", 0)
    /\ proposer' = [pc |-> "off", closed |-> FALSE]
    /\ http' = "off" /\ commitC' = "open"
    /\ store' = <<>> /\ reader' = [pc |-> "off", index |-> 0] /\ main' = "off"
    /\ UNCHANGED <<entries, shown>>

(* It is killed. *)
Crash ==
    /\ proc # "down"
    /\ crashes < MaxCrashes /\ Len(entries) <= MaxCrashIndex
    /\ crashes' = crashes + 1
    /\ Gone("down")
    /\ UNCHANGED disk

-----------------------------------------------------------------------------
(* raft.go: the start of the process. *)

(* main, newRaftNode, startRaft and replayWAL.  A HardState that only      *)
(* moves Commit is not synced, so an older one may be read; the libraries  *)
(* panic over a gap in the WAL and over a Commit beyond its end.  Without  *)
(* an entry replayWAL itself says that the replay is over.                 *)
BadWAL(commit) == wal.gap \/ commit > wal.last

(* Mutant: the replay ends at the Commit of the HardState. *)
startRaftCommit(commit) ==
    /\ proc = "down" /\ ~BadWAL(commit)
    /\ proc' = "up"
    /\ raft' = [last |-> wal.last, commit |-> commit, applied |-> 0]
    /\ rc' = raftNode(IF wal.last = 0 THEN "replayed" ELSE "select", commit)
    /\ proposer' = [pc |-> "select", closed |-> FALSE]
    /\ http' = "serving"
    /\ commitC' = "open"
    /\ store' = <<>>
    /\ reader' = [pc |-> "recv", index |-> 0]
    /\ main' = "replay"
    /\ UNCHANGED <<entries, disk, crashes, shown>>

startRaft(commit) ==
    /\ proc = "down" /\ ~BadWAL(commit)
    /\ proc' = "up"
    /\ raft' = [last |-> wal.last, commit |-> commit, applied |-> 0]
    /\ rc' = raftNode(IF wal.last = 0 THEN "replayed" ELSE "select", wal.last)
    /\ proposer' = [pc |-> "select", closed |-> FALSE]
    /\ http' = "serving"
    /\ commitC' = "open"
    /\ store' = <<>>
    /\ reader' = [pc |-> "recv", index |-> 0]
    /\ main' = "replay"
    /\ UNCHANGED <<entries, disk, crashes, shown>>

startRaftPanics(commit) ==
    /\ proc = "down" /\ BadWAL(commit)
    /\ Gone("panic")
    /\ UNCHANGED <<disk, crashes>>

-----------------------------------------------------------------------------
(* raft.go: the event loop of serveChannels. *)

Loop(pc) == proc = "up" /\ rc.pc = pc
others == <<crashes, proposer, http, commitC, store, main, shown>>

(* Mutant: off by one. *)
entriesToApplyLate(first, last) ==
    IF first > last THEN <<>>
    ELSE [i \in 1 .. last - rc.appliedIndex - 1 |-> rc.appliedIndex + i + 1]

(* The entries first .. last, without those that have been applied. *)
entriesToApply(first, last) ==
    IF first > last THEN <<>>
    ELSE [i \in 1 .. last - rc.appliedIndex |-> rc.appliedIndex + i]

(* Mutant: the loop publishes what it has not saved. *)
TakeEntriesUnsaved(last, commit) ==
    /\ Loop("select")
    /\ EntriesReady(last, commit)
    /\ entries' \in Decided(commit)
    /\ wal' = wal
    /\ raft' = [raft EXCEPT !.last = last, !.commit = commit]
    /\ rc' = [rc EXCEPT !.pc = "publish",
                        !.ents = entriesToApply(raft.applied + 1, commit)]
    /\ proc' = IF raft.applied < commit /\ raft.applied > rc.appliedIndex THEN "fatal" ELSE proc
    /\ UNCHANGED <<others, snapdir, reader>>

(* A Ready with entries: wal.Save, raftStorage.Append, transport.Send and  *)
(* entriesToApply; the loop then publishes.                                *)
TakeEntries(last, commit) ==
    /\ Loop("select")
    /\ EntriesReady(last, commit)
    /\ entries' \in Decided(commit)
    /\ wal' = [last |-> IF last = raft.last THEN wal.last ELSE last,
               commit |-> IF commit > wal.commit THEN commit ELSE wal.commit,
               gap |-> wal.gap \/ (last # raft.last /\ raft.last > wal.last)]
    /\ raft' = [raft EXCEPT !.last = last, !.commit = commit]
    /\ rc' = [rc EXCEPT !.pc = "publish",
                        !.ents = entriesToApply(raft.applied + 1, commit)]
    /\ proc' = IF raft.applied < commit /\ raft.applied > rc.appliedIndex THEN "fatal" ELSE proc
    /\ UNCHANGED <<others, snapdir, reader>>

(* A Ready with a snapshot: wal.Save, and then saveSnap and ApplySnapshot. *)
TakeSnapshot(index) ==
    /\ Loop("select")
    /\ SnapshotReady(index)
    /\ entries' \in Decided(index)
    /\ wal' = [wal EXCEPT !.commit = index]
    /\ raft' = [raft EXCEPT !.last = index, !.commit = index]
    /\ \E n \in {index - 1, index} :
        rc' = [rc EXCEPT !.pc = "saveSnap",
                         !.snapshot = [index |-> index, data |-> PutsOf(entries', n)]]
    /\ UNCHANGED <<others, snapdir, proc, reader>>

saveSnap ==
    /\ Loop("saveSnap")
    /\ snapdir' = rc.snapshot
    /\ rc' = [rc EXCEPT !.pc = "publishSnapshot",
                        !.storage = [snapshot |-> rc.snapshot.index, offset |-> rc.snapshot.index]]
    /\ proc' = IF rc.snapshot.index <= rc.appliedIndex THEN "fatal" ELSE proc
    /\ UNCHANGED <<others, entries, wal, raft, reader>>

(* commitC <- nil "triggers kvstore to load snapshot". *)
publishSnapshot ==
    /\ Loop("publishSnapshot")
    /\ reader.pc = "recv"
    /\ reader' = [reader EXCEPT !.pc = "nil"]
    /\ rc' = [rc EXCEPT !.pc = "publish", !.snapshot = NoSnapshot,
                        !.snapshotIndex = rc.snapshot.index, !.appliedIndex = rc.snapshot.index]
    /\ UNCHANGED <<others, entries, disk, raft, proc>>

(* Mutant: commitC is not waited for. *)
publishEntriesDrop ==
    LET i == Head(rc.ents)
    IN  /\ Loop("publish")
        /\ rc.ents # <<>>
        /\ reader' = IF entries[i] = Put /\ reader.pc = "recv" THEN [pc |-> "apply", index |-> i] ELSE reader
        /\ rc' = IF entries[i] = RemoveSelf THEN [rc EXCEPT !.pc = "stopHTTP"]
                 ELSE [rc EXCEPT !.ents = Tail(@), !.appliedIndex = i,
                                 !.pc = IF i = rc.lastIndex THEN "replayed" ELSE "publish"]
        /\ UNCHANGED <<others, entries, disk, raft, proc>>

(* One round of publishEntries; commitC has no buffer, so a Put waits for  *)
(* the kvstore.  A node that has been removed stops.                       *)
publishEntries ==
    LET i == Head(rc.ents)
    IN  /\ Loop("publish")
        /\ rc.ents # <<>>
        /\ entries[i] = Put => reader.pc = "recv"
        /\ reader' = IF entries[i] = Put THEN [pc |-> "apply", index |-> i] ELSE reader
        /\ rc' = IF entries[i] = RemoveSelf THEN [rc EXCEPT !.pc = "stopHTTP"]
                 ELSE [rc EXCEPT !.ents = Tail(@), !.appliedIndex = i,
                                 !.pc = IF i = rc.lastIndex THEN "replayed" ELSE "publish"]
        /\ UNCHANGED <<others, entries, disk, raft, proc>>

(* Mutant: main gets the snapshotter only when the WAL has been replayed. *)
publishNilFirst ==
    /\ Loop("replayed")
    /\ reader.pc = "recv" /\ main # "replay"
    /\ reader' = [reader EXCEPT !.pc = "nil"]
    /\ rc' = [rc EXCEPT !.pc = IF rc.lastIndex = 0 THEN "select" ELSE "publish"]
    /\ UNCHANGED <<others, entries, disk, raft, proc>>

(* "special nil commit to signal replay has finished", also of replayWAL. *)
publishNil ==
    /\ Loop("replayed")
    /\ reader.pc = "recv"
    /\ reader' = [reader EXCEPT !.pc = "nil"]
    /\ rc' = [rc EXCEPT !.pc = IF rc.lastIndex = 0 THEN "select" ELSE "publish"]
    /\ UNCHANGED <<others, entries, disk, raft, proc>>

(* The channels of publishEntries also give way to stopc. *)
StopPublishing ==
    /\ proc = "up"
    /\ proposer.pc = "done"
    /\ \/ rc.pc = "publish" /\ rc.ents # <<>> /\ entries[Head(rc.ents)] = Put
       \/ rc.pc = "replayed" /\ rc.lastIndex # 0
    /\ rc' = [rc EXCEPT !.pc = "stopHTTP"]
    /\ UNCHANGED <<others, entries, disk, raft, proc, reader>>

(* maybeTriggerSnapshot, whose getSnapshot goes through the variable kvs   *)
(* of main, and node.Advance.                                              *)
compactIndex ==
    IF rc.appliedIndex > snapshotCatchUpEntriesN
    THEN rc.appliedIndex - snapshotCatchUpEntriesN ELSE 1

(* The whole map, under s.mu. *)
getSnapshot == store

Advance == raft' = [raft EXCEPT !.applied = raft.commit]

SkipSnapshot ==
    /\ Loop("publish") /\ rc.ents = <<>>
    /\ rc.appliedIndex - rc.snapshotIndex <= snapCount
    /\ rc' = [rc EXCEPT !.pc = "select"]
    /\ Advance
    /\ UNCHANGED <<others, entries, disk, proc, reader>>

(* Mutant: < instead of <=. *)
maybeTriggerSnapshotEarly ==
    /\ Loop("publish") /\ rc.ents = <<>>
    /\ rc.appliedIndex - rc.snapshotIndex >= snapCount
    /\ main = "serving"
    /\ snapdir' = [index |-> rc.appliedIndex, data |-> getSnapshot]
    /\ rc' = [rc EXCEPT !.pc = "select", !.snapshotIndex = rc.appliedIndex,
                        !.storage = [snapshot |-> rc.appliedIndex, offset |-> compactIndex]]
    /\ proc' = IF \/ rc.appliedIndex <= rc.storage.snapshot
                  \/ compactIndex <= rc.storage.offset
               THEN "fatal" ELSE proc
    /\ Advance
    /\ UNCHANGED <<others, entries, wal, reader>>

maybeTriggerSnapshot ==
    /\ Loop("publish") /\ rc.ents = <<>>
    /\ rc.appliedIndex - rc.snapshotIndex > snapCount
    /\ main = "serving"
    /\ snapdir' = [index |-> rc.appliedIndex, data |-> getSnapshot]
    /\ rc' = [rc EXCEPT !.pc = "select", !.snapshotIndex = rc.appliedIndex,
                        !.storage = [snapshot |-> rc.appliedIndex, offset |-> compactIndex]]
    /\ proc' = IF \/ rc.appliedIndex <= rc.storage.snapshot
                  \/ compactIndex <= rc.storage.offset
               THEN "fatal" ELSE proc
    /\ Advance
    /\ UNCHANGED <<others, entries, wal, reader>>

(* kvs is still nil. *)
SnapshotOfNil ==
    /\ Loop("publish") /\ rc.ents = <<>>
    /\ rc.appliedIndex - rc.snapshotIndex > snapCount
    /\ main # "serving"
    /\ Gone("panic")
    /\ UNCHANGED <<disk, crashes>>

(* stopc, or an error of the transport, ends the loop. *)
EndLoop(err) ==
    /\ Loop("select")
    /\ ~err => proposer.pc = "done"
    /\ rc' = [rc EXCEPT !.pc = "stopHTTP", !.err = err]
    /\ UNCHANGED <<others, entries, disk, raft, proc, reader>>

(* Mutant: httpstopc is not closed. *)
stopHTTPWaits ==
    /\ Loop("stopHTTP")
    /\ http' = http
    /\ rc' = [rc EXCEPT !.pc = "stop"]
    /\ UNCHANGED <<entries, raft, disk, proc, crashes, proposer, commitC, kvstore, shown>>

(* stop and writeError: first stopHTTP, which waits for serveRaft, ... *)
stopHTTP ==
    /\ Loop("stopHTTP")
    /\ http' = "stopping"
    /\ rc' = [rc EXCEPT !.pc = "stop"]
    /\ UNCHANGED <<entries, raft, disk, proc, crashes, proposer, commitC, kvstore, shown>>

(* The listener gives way to httpstopc: Accept fails, so Serve returns ... *)
Accept ==
    /\ proc = "up" /\ http = "stopping"
    /\ http' = "stopped"
    /\ UNCHANGED <<entries, raft, disk, proc, crashes, rc, proposer, commitC, kvstore, shown>>

(* ... and serveRaft closes httpdonec. *)
serveRaft ==
    /\ proc = "up" /\ http = "stopped"
    /\ http' = "done"
    /\ UNCHANGED <<entries, raft, disk, proc, crashes, rc, proposer, commitC, kvstore, shown>>

(* ... then the channels are closed. *)
stop ==
    /\ Loop("stop")
    /\ http = "done"
    /\ commitC' = IF rc.err THEN "closed" ELSE "allClosed"
    /\ rc' = [rc EXCEPT !.pc = IF rc.err THEN "writeError" ELSE "stopped"]
    /\ UNCHANGED <<entries, raft, disk, proc, crashes, proposer, http, kvstore, shown>>

(* Whoever takes the error from errorC ends the process. *)
writeError ==
    /\ Loop("writeError")
    /\ main = "serving" \/ reader.pc = "errorC"
    /\ Gone("exit")
    /\ UNCHANGED <<disk, crashes>>

-----------------------------------------------------------------------------
(* raft.go: the goroutine that "sends proposals over raft". *)

proposing == <<entries, raft, disk, proc, crashes, rc, http, commitC, kvstore, shown>>

(* A PUT, POST or DELETE of the REST API reaches the goroutine. *)
Propose ==
    /\ proc = "up" /\ main = "serving"
    /\ proposer = [pc |-> "select", closed |-> FALSE]
    /\ proposer' = [proposer EXCEPT !.pc = "propose"]
    /\ UNCHANGED proposing

(* node.Propose returns once the library, which needs a leader, took it. *)
Accepted ==
    /\ proc = "up" /\ proposer.pc = "propose"
    /\ proposer' = [proposer EXCEPT !.pc = "select"]
    /\ UNCHANGED proposing

(* "To shutdown, close proposeC and read errorC." *)
CloseProposeC ==
    /\ proc = "up" /\ ~proposer.closed
    /\ proposer' = [proposer EXCEPT !.closed = TRUE]
    /\ UNCHANGED proposing

(* Mutant: the goroutine goes on until both channels are closed. *)
EndProposerBoth ==
    /\ proc = "up" /\ ~(rc.pc = "replayed" /\ rc.lastIndex = 0)
    /\ proposer = [pc |-> "select", closed |-> TRUE] /\ FALSE
    /\ proposer' = [proposer EXCEPT !.pc = "done"]
    /\ UNCHANGED proposing

EndProposer ==
    /\ proc = "up" /\ ~(rc.pc = "replayed" /\ rc.lastIndex = 0)
    /\ proposer = [pc |-> "select", closed |-> TRUE]
    /\ proposer' = [proposer EXCEPT !.pc = "done"]
    /\ UNCHANGED proposing

-----------------------------------------------------------------------------
(* kvstore.go and httpapi.go. *)

storing == <<entries, raft, disk, crashes, rc, proposer, http, commitC>>

Reading(pc) == proc = "up" /\ reader.pc = pc

(* readCommits takes s.mu some time after it received the entry. *)
ApplyCommit ==
    /\ Reading("apply")
    /\ store' = Append(store, reader.index)
    /\ reader' = [pc |-> "recv", index |-> 0]
    /\ UNCHANGED <<storing, proc, main, shown>>

(* readCommits returns: in newKVStore, which then starts it again as a     *)
(* goroutine, or for good.                                                 *)
Return ==
    /\ main' = IF main = "replay" THEN "started" ELSE main
    /\ reader' = [pc |-> IF main = "replay" THEN "recv" ELSE "done", index |-> 0]

NilNoSnapshot ==
    /\ Reading("nil")
    /\ snapdir = NoSnapshot
    /\ Return
    /\ UNCHANGED <<storing, proc, store, shown>>

(* With a snapshot recoverFromSnapshot replaces the map, but then *data is *)
(* read all the same.                                                      *)
NilLoadSnapshot ==
    /\ Reading("nil")
    /\ snapdir # NoSnapshot
    /\ Gone("panic")
    /\ UNCHANGED <<disk, crashes>>

CommitsClosed ==
    /\ Reading("recv")
    /\ commitC # "open"
    /\ reader' = [reader EXCEPT !.pc = "errorC"]
    /\ UNCHANGED <<storing, proc, store, main, shown>>

ErrorsClosed ==
    /\ Reading("errorC")
    /\ commitC = "allClosed"
    /\ Return
    /\ UNCHANGED <<storing, proc, store, shown>>

(* main assigns kvs and serves the REST API ... *)
serveHttpKVAPI ==
    /\ proc = "up" /\ main = "started"
    /\ main' = "serving"
    /\ UNCHANGED <<storing, proc, store, reader, shown>>

(* ... until errorC is closed. *)
MainReturns ==
    /\ proc = "up" /\ main = "serving"
    /\ commitC = "allClosed"
    /\ Gone("exit")
    /\ UNCHANGED <<disk, crashes>>

(* A GET for every key. *)
Lookup ==
    /\ proc = "up" /\ main = "serving"
    /\ shown' = shown \cup ToSet(store)
    /\ UNCHANGED <<storing, proc, kvstore>>

-----------------------------------------------------------------------------
Init ==
    /\ entries = <<>>
    /\ wal = [last |-> 0, commit |-> 0, gap |-> FALSE]
    /\ snapdir = NoSnapshot
    /\ proc = "down" /\ crashes = 0
    /\ raft = [last |-> 0, commit |-> 0, applied |-> 0]
    /\ rc = raftNode("off", 0)
    /\ proposer = [pc |-> "off", closed |-> FALSE]
    /\ http = "off" /\ commitC = "open"
    /\ store = <<>> /\ reader = [pc |-> "off", index |-> 0] /\ main = "off"
    /\ shown = {}

Ready ==
    \/ \E last, commit \in 0 .. MaxIndex : TakeEntries(last, commit)
    \/ \E index \in 1 .. MaxIndex : TakeSnapshot(index)

LoopStep ==
    \/ Ready
    \/ saveSnap
    \/ publishSnapshot
    \/ publishEntries
    \/ publishNil
    \/ StopPublishing
    \/ SkipSnapshot
    \/ maybeTriggerSnapshot
    \/ SnapshotOfNil
    \/ EndLoop(FALSE)
    \/ stopHTTP
    \/ stop
    \/ writeError

ReaderStep ==
    \/ ApplyCommit
    \/ NilNoSnapshot
    \/ NilLoadSnapshot
    \/ CommitsClosed
    \/ ErrorsClosed

MainStep == serveHttpKVAPI \/ MainReturns

Next ==
    \/ \E commit \in 0 .. wal.commit : startRaft(commit) \/ startRaftPanics(commit)
    \/ Crash
    \/ LoopStep \/ EndLoop(TRUE) \/ Accept \/ serveRaft
    \/ Propose \/ Accepted \/ CloseProposeC \/ EndProposer
    \/ ReaderStep \/ MainStep \/ Lookup

(***************************************************************************)
(* Goroutines that can run do run, and a select takes each of its cases    *)
(* in the end.  Of the cluster: it goes on deciding entries and sends them *)
(* to this node, and it has a leader for every proposal some time.         *)
(***************************************************************************)
Fairness ==
    /\ WF_vars(LoopStep) /\ SF_vars(EndLoop(FALSE))
    /\ WF_vars(ReaderStep) /\ WF_vars(MainStep) /\ WF_vars(Accept \/ serveRaft)
    /\ WF_vars(Accepted) /\ WF_vars(EndProposer)
    /\ SF_vars(Ready /\ raft'.commit > raft.commit)

Spec == Init /\ [][Next]_vars /\ Fairness

-----------------------------------------------------------------------------
(* Properties. *)

(* raft.go, publishEntries, and kvstore.go, readCommits: the map is made   *)
(* of exactly the Puts up to appliedIndex, each once and in the order of   *)
(* the log, whether they are replayed or new; the last one may still be in *)
(* the reader's hands.                                                     *)
AppliedInOrder ==
    proc = "up" /\ reader.pc # "nil" =>
        store \o (IF reader.pc = "apply" THEN <<reader.index>> ELSE <<>>)
            = Puts(rc.appliedIndex)

(* raft.go, serveChannels: "store raft entries to wal, then publish over   *)
(* commit channel".  Whatever the map holds or a GET has ever returned is  *)
(* in the WAL, although the tail of the WAL may be replaced.               *)
WrittenAhead ==
    proc = "up" => shown \cup ToSet(store) \subseteq 1 .. wal.last

(* raft.go, replayWAL: "send nil once lastIndex is published so client     *)
(* knows commit channel is current".  The REST API of a restarted process  *)
(* answers only when it has again all that its earlier lives have shown,   *)
(* also when the last HardState was lost.  (A node that stops while it     *)
(* replays starts the API on its way out.)                                 *)
ReadsSurviveRestart ==
    proc = "up" /\ main = "serving" /\ commitC = "open" => shown \subseteq ToSet(store)

(* The snapshot has the Puts, or all of them but the last. *)
HoldsAllButLast(snapshot, puts) ==
    snapshot.data = puts \/ (puts # <<>> /\ snapshot.data = Front(puts))

(* raft.go, maybeTriggerSnapshot: a snapshot holds the Puts up to its      *)
(* index, but the last of them, which the kvstore has received and not yet *)
(* written when getSnapshot runs, may be missing.  It holds less only when *)
(* the kvstore has not yet loaded the snapshot that a nil told it of: this *)
(* one then replaces the other on disk.                                    *)
SnapshotLacksAtMostLast ==
    [][snapdir' # snapdir /\ reader.pc # "nil" =>
           HoldsAllButLast(snapdir', Puts(snapdir'.index))]_vars

(* raft.go: no assertion of entriesToApply, publishSnapshot, CreateSnapshot*)
(* or Compact stops the process, whatever own and received snapshots       *)
(* follow each other.                                                      *)
NoFatal == proc # "fatal"

(* README.md, Fault Tolerance: "Finally, bring the node back up and verify *)
(* it recovers with the updated value".  A process that has been started   *)
(* does not panic before it serves requests.                               *)
Recovers == [][main # "serving" => proc' # "panic"]_vars

(* README.md: "Node 3 should shut itself down once the cluster has         *)
(* processed this request."                                                *)
RemovedNodeExits ==
    (rc.pc = "publish" /\ rc.ents # <<>> /\ entries[Head(rc.ents)] = RemoveSelf)
        ~> proc # "up"

(* raft.go, newRaftNode: "To shutdown, close proposeC and read errorC." *)
ShutdownCompletes == proposer.closed ~> proc # "up"

(* README.md, Fault Tolerance: a process that is started, anew or after a  *)
(* crash, comes to serve requests unless it ends.                          *)
ComesToServe == proc = "up" ~> (main = "serving" \/ proc # "up")

=============================================================================
