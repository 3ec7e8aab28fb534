---------------------------- MODULE KVRaftProofs ----------------------------
(***************************************************************************)
(* Theorems about the key/value service for every set of servers and       *)
(* Clerks, every course of operations and every value of the bounds.       *)
(***************************************************************************)
EXTENDS KVOverLog, FiniteSetTheorems, SequenceTheorems, TLAPS

(* The state of a server that has applied a prefix of log l: its channels  *)
(* hold what was chosen.                                                   *)
GoodKV(l) ==
    {s \in RaftKV :
        /\ s.prevIndex <= Len(l)
        /\ \A k \in 1 .. MaxIndex : s.result[k] # NoOp =>
            k <= s.prevIndex /\ s.result[k] = l[k]}

(* Nothing but what Raft has chosen is ever answered. *)
AnsweredChosen == acked \subseteq Range(log)

(* The inductive invariant: AppendLog returned true only for an operation  *)
(* that was chosen, before its answer is on the way.                       *)
Inv ==
    /\ TypeOK
    /\ Len(log) <= MaxIndex
    /\ \A h \in handlers : h.committed => h.entry \in Range(log)
    /\ AnsweredChosen

-----------------------------------------------------------------------------
(* NoOp is not an operation: a Clerk that has one waits for it. *)
LEMMA NoOpIsNone == NoOp \notin Op
  BY DEF NoOp, Op, OpType

(* TypeOK says GoodKV of every server, and conversely. *)
LEMMA TypeOfServers ==
  (kv \in [Server -> RaftKV] /\ \A i \in Server :
        /\ kv[i].prevIndex <= Len(log)
        /\ \A k \in 1 .. MaxIndex : kv[i].result[k] # NoOp =>
            k <= kv[i].prevIndex /\ kv[i].result[k] = log[k])
  <=> kv \in [Server -> GoodKV(log)]
  <1>1. ASSUME kv \in [Server -> GoodKV(log)]
        PROVE  /\ kv \in [Server -> RaftKV]
               /\ \A i \in Server :
                    /\ kv[i].prevIndex <= Len(log)
                    /\ \A k \in 1 .. MaxIndex : kv[i].result[k] # NoOp =>
                        k <= kv[i].prevIndex /\ kv[i].result[k] = log[k]
    BY <1>1, Zenon DEF GoodKV
  <1>2. ASSUME kv \in [Server -> RaftKV],
               \A i \in Server :
                    /\ kv[i].prevIndex <= Len(log)
                    /\ \A k \in 1 .. MaxIndex : kv[i].result[k] # NoOp =>
                        k <= kv[i].prevIndex /\ kv[i].result[k] = log[k]
        PROVE  kv \in [Server -> GoodKV(log)]
    <2>1. \A i \in Server : kv[i] \in GoodKV(log)
      BY <1>2, Zenon DEF GoodKV
    <2> QED
      BY <1>2, <2>1, Zenon
  <1> QED
    BY <1>1, <1>2, Zenon

(* The number of writes that a Clerk remembers from its call is a number. *)
LEMMA WritesFinite ==
  ASSUME log \in Seq(Op)
  PROVE  Cardinality(Writes) \in Nat
  <1>1. log \in Surjection(DOMAIN log, Range(log))
    BY LenProperties DEF Range, Surjection
  <1>2. IsFiniteSet(DOMAIN log)
    BY FS_Interval, LenProperties
  <1>3. IsFiniteSet(Range(log))
    BY <1>1, <1>2, FS_Surjection
  <1>4. IsFiniteSet(Writes)
    BY <1>3, FS_Subset DEF Writes
  <1> QED
    BY <1>4, FS_CardinalityType

-----------------------------------------------------------------------------
(* The parts of the state that stay within their types in every action. *)
Shape ==
    /\ proposed \subseteq (1 .. MaxIndex) \X Op
    /\ restarts \in 0 .. MaxRestarts
    /\ calls \in 0 .. MaxCalls
    /\ clerk \in [Clerks -> Clerk]
    /\ handlers \subseteq Handler
    /\ acked \subseteq Op

(* The inductive invariant by parts, and the same in the next state. *)
Parts ==
    /\ log \in Seq(Op) /\ Len(log) <= MaxIndex
    /\ Shape
    /\ kv \in [Server -> GoodKV(log)]
    /\ \A h \in handlers : h.committed => h.entry \in Range(log)
    /\ acked \subseteq Range(log)

LEMMA InvParts == Inv <=> Parts
  BY TypeOfServers, Zenon DEF Inv, TypeOK, Shape, AnsweredChosen, Parts

LEMMA InvPartsNext == Inv' <=> Parts'
  BY InvParts, PTL

(* A server that has just started has applied a prefix of any log. *)
LEMMA InitKVGood ==
  ASSUME NEW l \in Seq(Op)
  PROVE  InitKV \in GoodKV(l)
  <1>1. InitKV \in RaftKV
    BY KVAssumption, EmptySeq DEF InitKV, RaftKV
  <1>2. InitKV.prevIndex <= Len(l)
    BY LenProperties DEF InitKV
  <1>3. \A k \in 1 .. MaxIndex : InitKV.result[k] = NoOp
    BY DEF InitKV
  <1> QED
    BY <1>1, <1>2, <1>3, Zenon DEF GoodKV

(* The program starts in the invariant. *)
LEMMA InitInv == Init => Inv
  <1> SUFFICES ASSUME Init PROVE Inv
    OBVIOUS
  <1>1. log \in Seq(Op) /\ Len(log) <= MaxIndex
    BY KVAssumption, EmptySeq DEF Init
  <1>2. kv \in [Server -> GoodKV(log)]
    BY <1>1, InitKVGood, Zenon DEF Init
  <1>3. InitClerk \in Clerk
    BY KVAssumption, EmptySeq DEF InitClerk, Clerk
  <1>4. Shape
    BY <1>3, KVAssumption DEF Init, Shape
  <1> QED
    BY <1>1, <1>2, <1>4, InvParts, Zenon DEF Init, Parts

(* What was chosen stays chosen when Raft chooses more. *)
LEMMA ExtensionKeeps ==
  ASSUME NEW l \in Seq(Op), NEW l2 \in Seq(Op), Len(l) <= Len(l2),
         \A k \in 1 .. Len(l) : l2[k] = l[k]
  PROVE  /\ Range(l) \subseteq Range(l2)
         /\ GoodKV(l) \subseteq GoodKV(l2)
  <1>1. /\ DOMAIN l = 1 .. Len(l) /\ DOMAIN l2 = 1 .. Len(l2)
        /\ Len(l) \in Nat /\ Len(l2) \in Nat
    BY LenProperties
  <1>2. Range(l) \subseteq Range(l2)
    BY <1>1 DEF Range
  <1>3. ASSUME NEW s \in GoodKV(l) PROVE s \in GoodKV(l2)
    <2>1. s \in RaftKV /\ s.prevIndex <= Len(l) /\ s.prevIndex \in Nat
      BY KVAssumption DEF GoodKV, RaftKV
    <2>2. s.prevIndex <= Len(l2)
      BY <1>1, <2>1
    <2>3. ASSUME NEW k \in 1 .. MaxIndex, s.result[k] # NoOp
          PROVE  k <= s.prevIndex /\ s.result[k] = l2[k]
      <3>1. k <= s.prevIndex /\ s.result[k] = l[k]
        BY <2>3 DEF GoodKV
      <3>2. k \in 1 .. Len(l)
        BY <2>1, <1>1, <3>1
      <3> QED
        BY <3>1, <3>2
    <2> QED
      BY <2>1, <2>2, <2>3, Zenon DEF GoodKV
  <1> QED
    BY <1>2, <1>3

(* Raft leaves what was chosen before where it is. *)
LEMMA DecideKeeps ==
  ASSUME Inv, Decide
  PROVE  /\ log' \in Seq(Op) /\ Len(log') <= MaxIndex
         /\ Range(log) \subseteq Range(log')
         /\ GoodKV(log) \subseteq GoodKV(log')
  <1> DEFINE Extends(n, new) ==
        /\ \A k \in DOMAIN new : <<k, new[k]>> \in proposed
        /\ log' = [k \in 1 .. n |-> IF k \in DOMAIN log THEN log[k] ELSE new[k]]
  <1>0. PICK n \in Len(log) .. MaxIndex :
            \E new \in [Len(log) + 1 .. n -> {p[2] : p \in proposed}] : Extends(n, new)
    BY Zenon DEF Decide
  <1>1. PICK new \in [Len(log) + 1 .. n -> {p[2] : p \in proposed}] : Extends(n, new)
    BY <1>0
  <1>2. /\ log \in Seq(Op) /\ Len(log) \in Nat /\ DOMAIN log = 1 .. Len(log)
        /\ proposed \subseteq (1 .. MaxIndex) \X Op /\ MaxIndex \in Nat
    BY LenProperties, KVAssumption DEF Inv, TypeOK
  <1>3. n \in Nat /\ Len(log) <= n /\ n <= MaxIndex
    BY <1>0, <1>2
  <1>4. ASSUME NEW k \in 1 .. n PROVE log'[k] \in Op
    <2>1. CASE k \in DOMAIN log
      BY <1>1, <1>2, <2>1, ElementOfSeq
    <2>2. CASE k \notin DOMAIN log
      <3>1. k \in DOMAIN new
        BY <1>1, <1>2, <1>3, <2>2
      <3>2. <<k, new[k]>> \in proposed
        BY <1>1, <3>1
      <3>3. new[k] \in Op
        BY <1>2, <3>2
      <3> QED
        BY <1>1, <2>2, <3>3
    <2> QED
      BY <2>1, <2>2
  <1>5. DOMAIN log' = 1 .. n /\ log' = [k \in 1 .. n |-> log'[k]]
    BY <1>1
  <1>6. log' \in Seq(Op) /\ Len(log') = n
    <2>1. log' \in [1 .. n -> Op]
      BY <1>4, <1>5
    <2> QED
      BY <1>3, <2>1, SeqDef, LenProperties, <1>5
  <1>7. \A k \in 1 .. Len(log) : log'[k] = log[k]
    BY <1>1, <1>2, <1>3
  <1> QED
    BY <1>2, <1>3, <1>6, <1>7, ExtensionKeeps

(* Choose leaves what was chosen before where it is. *)
LEMMA ChooseStep ==
  ASSUME Inv, Choose
  PROVE  Inv'
  <1>1. Decide /\ UNCHANGED <<proposed, kv, restarts, calls, clerk, handlers, acked>>
    BY DEF Choose
  <1>2. /\ log' \in Seq(Op) /\ Len(log') <= MaxIndex
        /\ Range(log) \subseteq Range(log') /\ GoodKV(log) \subseteq GoodKV(log')
    BY <1>1, DecideKeeps
  <1>3. Shape'
    BY <1>1, InvParts, Zenon DEF Shape, Parts
  <1>4. kv' \in [Server -> GoodKV(log')]
    BY <1>1, <1>2, InvParts, Zenon DEF Parts
  <1> QED
    BY <1>1, <1>2, <1>3, <1>4, InvParts, InvPartsNext, Zenon DEF Parts

(* The steps that change neither the log nor a server keep the invariant   *)
(* if they keep the shape of the rest and answer only what was chosen.     *)
LEMMA ClerkSide ==
  ASSUME Inv, UNCHANGED <<log, kv>>, Shape',
         \A h \in handlers' : h.committed => h.entry \in Range(log),
         acked' \subseteq Range(log)
  PROVE  Inv'
  BY InvParts, InvPartsNext, Zenon DEF Parts

(* A call begins. *)
LEMMA InvokeStep ==
  ASSUME Inv, NEW c \in Clerks, NEW type \in OpType, Invoke(c, type)
  PROVE  Inv'
  <1> DEFINE op == [type |-> type, id |-> c, reqId |-> clerk[c].reqId]
             n == Cardinality(Writes)
             r == clerk[c].reqId + 1
  <1>1. clerk[c] \in Clerk /\ r \in Nat
    BY DEF Inv, TypeOK, Clerk
  <1>2. n \in Nat
    BY WritesFinite DEF Inv, TypeOK
  <1>3. op \in Op
    BY <1>1 DEF Clerk, Op
  <1>4. clerk' = [clerk EXCEPT ![c].op = op, ![c].reqId = r,
                              ![c].value = <<>>, ![c].since = n]
    BY DEF Invoke
  <1> HIDE DEF op, n, r
  <1>5. [clerk[c] EXCEPT !.op = op, !.reqId = r, !.value = <<>>, !.since = n] \in Clerk
    BY <1>1, <1>2, <1>3, EmptySeq, Zenon DEF Clerk
  <1>6. clerk' \in [Clerks -> Clerk]
    BY <1>4, <1>5, Zenon DEF Inv, TypeOK
  <1>7. UNCHANGED <<log, proposed, kv, restarts, calls, handlers, acked>>
    BY DEF Invoke
  <1>8. Shape'
    BY <1>6, <1>7, InvParts, Zenon DEF Shape, Parts
  <1> QED
    BY <1>7, <1>8, InvParts, ClerkSide, Zenon DEF Parts

(* Giving up a call keeps a Clerk well typed. *)
LEMMA NextServerTyped ==
  ASSUME NEW ck \in Clerk
  PROVE  NextServer(ck) \in Clerk
  BY KVAssumption DEF NextServer, Clerk

(* A call is given up. *)
LEMMA CallFailsStep ==
  ASSUME Inv, NEW c \in Clerks, CallFails(c)
  PROVE  Inv'
  <1>1. clerk \in [Clerks -> Clerk]
    BY DEF Inv, TypeOK
  <1>2. clerk' = [clerk EXCEPT ![c] = NextServer(clerk[c])]
    BY DEF CallFails
  <1>3. clerk' \in [Clerks -> Clerk]
    BY <1>1, <1>2, NextServerTyped, Zenon
  <1>4. UNCHANGED <<log, proposed, kv, restarts, calls, handlers, acked>>
    BY DEF CallFails
  <1>5. Shape'
    BY <1>3, <1>4, InvParts, Zenon DEF Shape, Parts
  <1> QED
    BY <1>4, <1>5, InvParts, ClerkSide, Zenon DEF Parts

(* A call reaches a server. *)
LEMMA CallStep ==
  ASSUME Inv, NEW c \in Clerks, NEW i \in Server, Call(c, i)
  PROVE  Inv'
  <1> DEFINE h(n) == [entry |-> clerk[c].op, server |-> i, index |-> 0,
                      call |-> n, committed |-> FALSE]
  <1>1. PICK n \in FreshCall(c) : /\ handlers' = handlers \cup {h(n)}
                                 /\ clerk' = [clerk EXCEPT ![c].call = n]
    BY DEF Call
  <1>2. clerk[c] \in Clerk /\ clerk[c].op \in Op /\ clerk \in [Clerks -> Clerk]
    BY DEF Call, Inv, TypeOK, Clerk
  <1>3. n \in 1 .. MaxCalls /\ n \in 0 .. MaxCalls /\ 0 \in 0 .. MaxIndex
    BY KVAssumption DEF FreshCall
  <1>4. h(n) \in Handler /\ ~h(n).committed
    BY <1>2, <1>3, Zenon DEF Handler
  <1> HIDE DEF h
  <1>5. clerk' \in [Clerks -> Clerk]
    <2>1. [clerk[c] EXCEPT !.call = n] \in Clerk
      BY <1>2, <1>3, Zenon DEF Clerk
    <2> QED
      BY <1>1, <1>2, <2>1, Zenon
  <1>6. UNCHANGED <<log, proposed, kv, restarts, acked>>
    BY DEF Call
  <1>7. calls' \in 0 .. MaxCalls
    BY KVAssumption DEF Call, Inv, TypeOK
  <1>8. Shape'
    BY <1>1, <1>4, <1>5, <1>6, <1>7, InvParts, Zenon DEF Parts, Shape
  <1>9. \A g \in handlers' : g.committed => g.entry \in Range(log)
    BY <1>1, <1>4, InvParts, Zenon DEF Parts
  <1> QED
    BY <1>6, <1>8, <1>9, InvParts, ClerkSide, Zenon DEF Parts

(* A handler gets an index from a leader and waits. *)
LEMMA AppendLogStep ==
  ASSUME Inv, NEW h \in handlers, AppendLog(h)
  PROVE  Inv'
  <1> DEFINE g(k) == [h EXCEPT !.index = k]
  <1>1. PICK k \in StartIndex(h.server) :
            /\ proposed' = proposed \cup {<<k, h.entry>>}
            /\ handlers' = (handlers \ {h}) \cup {g(k)}
            /\ UNCHANGED <<log, kv, restarts, calls, clerk, acked>>
    BY DEF AppendLog, Wait
  <1>2. h \in Handler /\ h.entry \in Op /\ h.server \in Server
    BY DEF Inv, TypeOK, Handler
  <1>3. k \in 1 .. MaxIndex /\ k \in 0 .. MaxIndex
    BY <1>2, KVAssumption DEF StartIndex, Inv, TypeOK, RaftKV
  <1>4. g(k) \in Handler /\ g(k).committed = h.committed /\ g(k).entry = h.entry
    BY <1>2, <1>3 DEF Handler
  <1> HIDE DEF g
  <1>5. proposed' \subseteq (1 .. MaxIndex) \X Op
    BY <1>1, <1>2, <1>3, SMT DEF Inv, TypeOK
  <1>6. Shape'
    BY <1>1, <1>4, <1>5, InvParts, Zenon DEF Parts, Shape
  <1>7. \A f \in handlers' : f.committed => f.entry \in Range(log)
    BY <1>1, <1>4, InvParts, Zenon DEF Parts
  <1> QED
    BY <1>1, <1>6, <1>7, InvParts, ClerkSide, Zenon DEF Parts

(* What a handler that ends without success does to its Clerk. *)
LEMMA GivenUp ==
  ASSUME Inv, NEW h \in handlers,
         clerk' = IF Awaited(h)
                  THEN [clerk EXCEPT ![h.entry.id] = NextServer(@)] ELSE clerk
  PROVE  clerk' \in [Clerks -> Clerk]
  <1>1. h.entry.id \in Clerks /\ clerk \in [Clerks -> Clerk]
    BY DEF Inv, TypeOK, Handler, Op
  <1>2. NextServer(clerk[h.entry.id]) \in Clerk
    BY <1>1, NextServerTyped, Zenon
  <1> QED
    BY <1>1, <1>2, Zenon

(* What a handler returns to its Clerk. *)
LEMMA Returned ==
  ASSUME Inv, NEW h \in handlers, NEW value \in Seq(Name), h.committed, Return(h, value)
  PROVE  clerk' \in [Clerks -> Clerk] /\ acked' \subseteq Op /\ acked' \subseteq Range(log)
  <1>1. /\ h.entry \in Op /\ h.entry.id \in Clerks /\ h.entry \in Range(log)
        /\ clerk \in [Clerks -> Clerk]
        /\ acked \subseteq Op /\ acked \subseteq Range(log)
    BY DEF Inv, TypeOK, Handler, Op, AnsweredChosen
  <1> DEFINE ck == clerk[h.entry.id]
  <1>2. 0 \in 0 .. MaxCalls
    BY KVAssumption
  <1>3. ck \in Clerk
    BY <1>1, Zenon
  <1>4. [ck EXCEPT !.op = NoOp, !.call = 0, !.value = value] \in Clerk
    BY <1>2, <1>3, Zenon DEF Clerk
  <1>5. CASE Awaited(h)
    <2>1. clerk' = [clerk EXCEPT ![h.entry.id] =
                        [ck EXCEPT !.op = NoOp, !.call = 0, !.value = value]]
      BY <1>1, <1>5, Zenon DEF Return
    <2>2. acked' = acked \cup {h.entry}
      BY <1>5, Zenon DEF Return
    <2> HIDE DEF ck
    <2>3. clerk' \in [Clerks -> Clerk]
      BY <1>1, <1>4, <2>1, Zenon
    <2> QED
      BY <1>1, <2>2, <2>3, Zenon
  <1>6. CASE ~Awaited(h)
    BY <1>1, <1>6, Zenon DEF Return
  <1> QED
    BY <1>5, <1>6, Zenon

(* AppendLog returns false. *)
LEMMA AppendFailsStep ==
  ASSUME Inv, NEW h \in handlers, AppendFails(h)
  PROVE  Inv'
  <1>1. clerk' \in [Clerks -> Clerk]
    BY GivenUp, Zenon DEF AppendFails
  <1>2. handlers' \subseteq handlers /\ UNCHANGED <<log, proposed, kv, restarts, calls, acked>>
    BY Zenon DEF AppendFails
  <1>3. Shape'
    BY <1>1, <1>2, InvParts, Zenon DEF Parts, Shape
  <1> QED
    BY <1>2, <1>3, InvParts, ClerkSide, Zenon DEF Parts

(* The steps that change one server keep the invariant if that server's    *)
(* channels still hold what was chosen.                                    *)
LEMMA ServerSide ==
  ASSUME Inv, UNCHANGED log, NEW i \in Server, NEW s \in GoodKV(log),
         kv' = [kv EXCEPT ![i] = s], Shape',
         \A h \in handlers' : h.committed => h.entry \in Range(log),
         acked' \subseteq Range(log)
  PROVE  Inv'
  <1>1. kv' \in [Server -> GoodKV(log)]
    BY InvParts, Zenon DEF Parts
  <1> QED
    BY <1>1, InvParts, InvPartsNext, Zenon DEF Parts

(* A handler that succeeds waits no longer; others are not affected. *)
LEMMA ReceiveStep ==
  ASSUME Inv, NEW h \in handlers, Receive(h)
  PROVE  Inv'
  <1> DEFINE i == h.server
             k == h.index
             op == kv[i].result[k]
             s == [kv[i] EXCEPT !.result[k] = NoOp]
             g == [h EXCEPT !.committed = TRUE]
  <1>1. h \in Handler /\ i \in Server /\ k \in 1 .. MaxIndex /\ kv[i] \in GoodKV(log)
    BY InvParts DEF Parts, Shape, Handler, Receive
  <1>2. op # NoOp /\ op = log[k] /\ k \in 1 .. Len(log)
    <2>1. op # NoOp
      BY DEF Receive
    <2>2. k <= kv[i].prevIndex /\ op = log[k] /\ kv[i].prevIndex <= Len(log)
      BY <1>1, <2>1, Zenon DEF GoodKV
    <2>3. kv[i].prevIndex \in Nat /\ Len(log) \in Nat
      BY <1>1, KVAssumption, LenProperties DEF GoodKV, RaftKV, Inv, TypeOK
    <2> QED
      BY <1>1, <2>1, <2>2, <2>3
  <1>3. log[k] \in Range(log)
    BY <1>2, LenProperties DEF Range, Inv, TypeOK
  <1>4. s \in GoodKV(log)
    <2>1. kv[i] \in RaftKV
      BY <1>1 DEF GoodKV
    <2>2. s \in RaftKV
      BY <1>1, <2>1, Zenon DEF RaftKV
    <2>3. s.prevIndex = kv[i].prevIndex
      BY <2>1 DEF RaftKV
    <2>4. ASSUME NEW n \in 1 .. MaxIndex, s.result[n] # NoOp
          PROVE  s.result[n] = kv[i].result[n]
      BY <1>1, <2>1, <2>4 DEF RaftKV
    <2> QED
      BY <1>1, <2>2, <2>3, <2>4, Zenon DEF GoodKV
  <1>5. kv' = [kv EXCEPT ![i] = s]
    BY <1>1, Zenon DEF Receive, Inv, TypeOK
  <1>6. UNCHANGED <<log, proposed, restarts, calls, acked>>
    BY Zenon DEF Receive
  <1>7. CASE isCommitted(op, h.entry)
    <2>1. handlers' = (handlers \ {h}) \cup {g} /\ UNCHANGED clerk
      BY <1>7, Zenon DEF Receive
    <2>2. g \in Handler /\ g.entry = h.entry
      BY <1>1 DEF Handler
    <2>3. h.entry \in Range(log)
      BY <1>2, <1>3, <1>7 DEF isCommitted
    <2> HIDE DEF g, s, i
    <2>4. Shape'
      BY <1>6, <2>1, <2>2, InvParts, Zenon DEF Parts, Shape
    <2>5. \A f \in handlers' : f.committed => f.entry \in Range(log)
      BY <2>1, <2>2, <2>3, InvParts, Zenon DEF Parts
    <2> QED
      BY <1>1, <1>4, <1>5, <1>6, <2>4, <2>5, InvParts, ServerSide, Zenon DEF Parts
  <1>8. CASE ~isCommitted(op, h.entry)
    <2>1. handlers' = handlers \ {h}
      BY <1>8, Zenon DEF Receive
    <2>2. clerk' \in [Clerks -> Clerk]
      BY <1>8, GivenUp, Zenon DEF Receive
    <2> HIDE DEF s, i
    <2>3. Shape'
      BY <1>6, <2>1, <2>2, InvParts, Zenon DEF Parts, Shape
    <2>4. \A f \in handlers' : f.committed => f.entry \in Range(log)
      BY <2>1, InvParts, Zenon DEF Parts
    <2> QED
      BY <1>1, <1>4, <1>5, <1>6, <2>3, <2>4, InvParts, ServerSide, Zenon DEF Parts
  <1> QED
    BY <1>7, <1>8, Zenon

(* Get answers with the value of its server. *)
LEMMA GetStep ==
  ASSUME Inv, NEW h \in handlers, Get(h)
  PROVE  Inv'
  <1> DEFINE i == h.server
             s == [kv[i] EXCEPT !.ack[h.entry.id] = h.entry.reqId]
  <1>1. /\ h \in Handler /\ i \in Server /\ kv[i] \in GoodKV(log) /\ kv[i] \in RaftKV
        /\ h.entry.id \in Clerks /\ h.entry.reqId \in Nat
    BY InvParts DEF Parts, Shape, Handler, GoodKV, Op
  <1>2. s \in GoodKV(log)
    <2>1. s \in RaftKV
      BY <1>1, Zenon DEF RaftKV
    <2>2. s.prevIndex = kv[i].prevIndex /\ s.result = kv[i].result
      BY <1>1 DEF RaftKV
    <2> QED
      BY <1>1, <2>1, <2>2, Zenon DEF GoodKV
  <1>3. kv' = [kv EXCEPT ![i] = s]
    BY <1>1, Zenon DEF Get, Inv, TypeOK
  <1>4. /\ handlers' = handlers \ {h} /\ UNCHANGED <<log, proposed, restarts, calls>>
        /\ h.committed /\ Return(h, kv[i].db)
    BY Zenon DEF Get
  <1>5. kv[i].db \in Seq(Name)
    BY <1>1 DEF RaftKV
  <1>6. clerk' \in [Clerks -> Clerk] /\ acked' \subseteq Op /\ acked' \subseteq Range(log)
    BY <1>4, <1>5, Returned, Zenon
  <1> HIDE DEF s, i
  <1>7. Shape'
    BY <1>4, <1>6, InvParts, Zenon DEF Parts, Shape
  <1>8. \A f \in handlers' : f.committed => f.entry \in Range(log)
    BY <1>4, InvParts, Zenon DEF Parts
  <1> QED
    BY <1>1, <1>2, <1>3, <1>4, <1>6, <1>7, <1>8, ServerSide, Zenon

(* PutAppend answers. *)
LEMMA PutAppendStep ==
  ASSUME Inv, NEW h \in handlers, PutAppend(h)
  PROVE  Inv'
  <1>1. /\ handlers' = handlers \ {h} /\ UNCHANGED <<log, proposed, kv, restarts, calls>>
        /\ h.committed /\ Return(h, <<>>)
    BY Zenon DEF PutAppend
  <1>2. <<>> \in Seq(Name)
    BY EmptySeq
  <1>3. clerk' \in [Clerks -> Clerk] /\ acked' \subseteq Op /\ acked' \subseteq Range(log)
    BY <1>1, <1>2, Returned, Zenon
  <1>4. Shape'
    BY <1>1, <1>3, InvParts, Zenon DEF Parts, Shape
  <1> QED
    BY <1>1, <1>3, <1>4, InvParts, ClerkSide, Zenon DEF Parts

(* What an operation writes is a value. *)
LEMMA WrittenTyped ==
  ASSUME NEW db \in Seq(Name), NEW op \in Op
  PROVE  written(db, op) \in Seq(Name)
  <1>1. <<op.id, op.reqId>> \in Name
    BY DEF Op, Name
  <1>2. <<<<op.id, op.reqId>>>> \in Seq(Name) /\ Append(db, <<op.id, op.reqId>>) \in Seq(Name)
    BY <1>1, AppendProperties
  <1>3. op.type \in {"Get", "Put", "Append"}
    BY DEF Op, OpType
  <1> QED
    BY <1>2, <1>3 DEF written

(* getApply puts into the channel of an index what was chosen there. *)
LEMMA getApplyStep ==
  ASSUME Inv, NEW i \in Server, getApply(i)
  PROVE  Inv'
  <1> DEFINE s == kv[i]
             index == s.prevIndex + 1
             op == log[index]
             dup == checkDup(s, op)
             db == IF dup THEN s.db ELSE written(s.db, op)
             ack == IF dup THEN s.ack ELSE [s.ack EXCEPT ![op.id] = op.reqId]
             result == [s.result EXCEPT ![index] = op]
             t == [db |-> db, ack |-> ack, result |-> result, prevIndex |-> index]
  <1>1. s \in GoodKV(log) /\ s \in RaftKV /\ log \in Seq(Op) /\ Len(log) <= MaxIndex
    BY InvParts DEF Parts, GoodKV
  <1>2. index \in 1 .. Len(log) /\ index \in 1 .. MaxIndex
    BY <1>1, KVAssumption, LenProperties DEF getApply, RaftKV
  <1>3. op \in Op /\ op.id \in Clerks /\ op.reqId \in Nat
    <2>1. op \in Op
      BY <1>1, <1>2, ElementOfSeq, Zenon
    <2> HIDE DEF op
    <2> QED
      BY <2>1 DEF Op
  <1>4. kv' = [kv EXCEPT ![i] = t]
    BY DEF getApply
  <1>5. UNCHANGED <<log, proposed, restarts, calls, clerk, handlers, acked>>
    BY DEF getApply
  <1>6. db \in Seq(Name)
    BY <1>1, <1>3, WrittenTyped DEF RaftKV
  <1>7. ack \in [Clerks -> Nat \cup {-1}]
    BY <1>1, <1>3 DEF RaftKV
  <1>8. result \in [1 .. MaxIndex -> Op \cup {NoOp}]
    BY <1>1, <1>2, <1>3 DEF RaftKV
  <1>9. index \in 0 .. MaxIndex
    BY <1>2
  <1>10. ASSUME NEW k \in 1 .. MaxIndex, result[k] # NoOp
         PROVE  k <= index /\ result[k] = log[k]
    <2>1. CASE k = index
      <3>1. DOMAIN s.result = 1 .. MaxIndex
        BY <1>1 DEF RaftKV
      <3>2. result[index] = op
        BY <1>2, <3>1, Zenon
      <3> HIDE DEF result
      <3> QED
        BY <1>2, <2>1, <3>2
    <2>2. CASE k # index
      <3>1. result[k] = s.result[k]
        BY <1>1, <1>2, <2>2 DEF RaftKV
      <3>2. k <= s.prevIndex /\ s.result[k] = log[k] /\ s.prevIndex \in Nat
        BY <1>1, <1>10, <3>1, KVAssumption DEF GoodKV, RaftKV
      <3> QED
        BY <3>1, <3>2
    <2> QED
      BY <2>1, <2>2
  <1>11. index <= Len(log)
    BY <1>2
  <1> HIDE DEF db, ack, result, index
  <1>12. t \in RaftKV
    BY <1>6, <1>7, <1>8, <1>9, Zenon DEF RaftKV
  <1>13. t.prevIndex = index /\ t.result = result
    OBVIOUS
  <1>14. t \in GoodKV(log)
    BY <1>10, <1>11, <1>12, <1>13, Zenon DEF GoodKV
  <1> HIDE DEF t
  <1>15. Shape'
    BY <1>5, InvParts, Zenon DEF Parts, Shape
  <1> QED
    BY <1>4, <1>5, <1>14, <1>15, InvParts, ServerSide, Zenon DEF Parts

(* A server that restarts forgets its channels and its handlers. *)
LEMMA RestartKeeps ==
  ASSUME Inv, NEW i \in Server, Restart(i)
  PROVE  Inv'
  <1>1. /\ kv' = [kv EXCEPT ![i] = InitKV] /\ handlers' \subseteq handlers
        /\ UNCHANGED <<proposed, calls, clerk, acked>> /\ Decide
    BY Zenon DEF Restart, StartKVServer
  <1>2. /\ log' \in Seq(Op) /\ Len(log') <= MaxIndex
        /\ Range(log) \subseteq Range(log') /\ GoodKV(log) \subseteq GoodKV(log')
    BY <1>1, DecideKeeps
  <1>3. kv' \in [Server -> GoodKV(log')]
    BY <1>1, <1>2, InitKVGood, InvParts, Zenon DEF Parts
  <1>4. restarts' \in 0 .. MaxRestarts
    BY KVAssumption DEF Restart, StartKVServer, Inv, TypeOK
  <1>5. Shape'
    BY <1>1, <1>4, InvParts, Zenon DEF Parts, Shape
  <1> QED
    BY <1>1, <1>2, <1>3, <1>5, InvParts, InvPartsNext, Zenon DEF Parts

(* Every step of the service keeps the invariant. *)
LEMMA InvStep ==
  ASSUME Inv, [Next]_vars
  PROVE  Inv'
  <1>1. CASE Choose
    BY <1>1, ChooseStep
  <1>2. ASSUME NEW c \in Clerks, NEW type \in OpType, Invoke(c, type) PROVE Inv'
    BY <1>2, InvokeStep
  <1>3. ASSUME NEW c \in Clerks, CallFails(c) PROVE Inv'
    BY <1>3, CallFailsStep
  <1>4. ASSUME NEW c \in Clerks, NEW i \in Server, Call(c, i) PROVE Inv'
    BY <1>4, CallStep
  <1>5. ASSUME NEW h \in handlers, Receive(h) PROVE Inv'
    BY <1>5, ReceiveStep
  <1>6. ASSUME NEW h \in handlers, AppendFails(h) PROVE Inv'
    BY <1>6, AppendFailsStep
  <1>7. ASSUME NEW h \in handlers, Get(h) PROVE Inv'
    BY <1>7, GetStep
  <1>8. ASSUME NEW h \in handlers, PutAppend(h) PROVE Inv'
    BY <1>8, PutAppendStep
  <1>9. ASSUME NEW i \in Server, getApply(i) PROVE Inv'
    BY <1>9, getApplyStep
  <1>10. ASSUME NEW i \in Server, Restart(i) PROVE Inv'
    BY <1>10, RestartKeeps
  <1>11. ASSUME NEW h \in handlers, AppendLog(h) PROVE Inv'
    BY <1>11, AppendLogStep
  <1>12. CASE UNCHANGED vars
    <2>1. UNCHANGED <<log, kv, proposed, restarts, calls, clerk, handlers, acked>>
      BY <1>12 DEF vars
    <2>2. Shape'
      BY <2>1, InvParts, Zenon DEF Parts, Shape
    <2> QED
      BY <2>1, <2>2, InvParts, ClerkSide, Zenon DEF Parts
  <1> QED
    BY <1>1, <1>2, <1>3, <1>4, <1>5, <1>6, <1>7, <1>8, <1>9, <1>10, <1>11, <1>12,
       Zenon DEF Next

(* The invariant holds in every reachable state. *)
LEMMA Invariance == Spec => []Inv
  <1>1. Inv /\ [Next]_vars => Inv'
    BY InvStep
  <1> QED
    BY InitInv, <1>1, PTL DEF Spec

(* Type correctness: no server is handed more than Raft has chosen, and    *)
(* the channel on which a handler waits for an index never holds anything  *)
(* but what was chosen at that index.                                      *)
THEOREM TypeCorrect == Spec => []TypeOK
  <1>1. Inv => TypeOK
    BY DEF Inv
  <1> QED
    BY Invariance, <1>1, PTL

(* RaftKV.AppendLog: whatever a Clerk is told has been done is in the log  *)
(* that Raft has chosen, through every timeout, repetition and restart.    *)
THEOREM AnswersAreChosen == Spec => []AnsweredChosen
  <1>1. Inv => AnsweredChosen
    BY DEF Inv
  <1> QED
    BY Invariance, <1>1, PTL

-----------------------------------------------------------------------------
(* What holds of the service over ReplicatedLog: Raft has not lost only    *)
(* proposals, and no server has applied what is not yet committed there.   *)
OverInv ==
    /\ Inv
    /\ open \subseteq proposed
    /\ position \in [Server -> Nat]
    /\ \A i \in Server : kv[i].prevIndex <= position[i]

(* What the contract decides is what KVRaft may choose. *)
LEMMA ContractDecides ==
  ASSUME OverInv, RaftLog!Decide, log' \in Seq(Op)
  PROVE  Decide
  <1> DEFINE n == Len(log')
             new == [k \in Len(log) + 1 .. n |-> log'[k]]
  <1>1. /\ log \in Seq(Op) /\ Len(log) \in Nat /\ DOMAIN log = 1 .. Len(log)
        /\ Len(log) <= MaxIndex /\ n \in Nat /\ DOMAIN log' = 1 .. n
        /\ proposed \subseteq (1 .. MaxIndex) \X Op /\ open \subseteq proposed
    BY LenProperties DEF OverInv, Inv, TypeOK
  <1>2. \A k \in DOMAIN log : k \in DOMAIN log' /\ log'[k] = log[k]
    <2>1. ASSUME NEW k \in DOMAIN log PROVE k \in DOMAIN log' /\ log'[k] = log[k]
      <3>1. <<k, log[k]>> \in Decided(log')
        BY DEF RaftLog!Decide, Decided
      <3>2. PICK j \in DOMAIN log' : <<k, log[k]>> = <<j, log'[j]>>
        BY <3>1 DEF Decided
      <3> QED
        BY <3>2
    <2> QED
      BY <2>1
  <1>3. Len(log) <= n
    <2>1. CASE Len(log) = 0
      BY <1>1, <2>1
    <2>2. CASE Len(log) # 0
      BY <1>1, <1>2, <2>2
    <2> QED
      BY <2>1, <2>2
  <1>4. ASSUME NEW k \in Len(log) + 1 .. n PROVE <<k, log'[k]>> \in proposed
    <2>1. k \in DOMAIN log' /\ k \notin DOMAIN log
      BY <1>1
    <2>2. <<k, log'[k]>> \in Decided(log')
      BY <2>1 DEF Decided
    <2>3. <<k, log'[k]>> \notin Decided(log)
      <3>1. SUFFICES ASSUME NEW j \in DOMAIN log, <<k, log'[k]>> = <<j, log[j]>>
                     PROVE  FALSE
        BY DEF Decided
      <3> QED
        BY <2>1, <3>1
    <2> QED
      BY <1>1, <2>2, <2>3, Zenon DEF RaftLog!Decide
  <1>5. n <= MaxIndex
    <2>1. CASE n = Len(log)
      BY <1>1, <2>1
    <2>2. CASE n # Len(log)
      <3>1. n \in Nat /\ Len(log) \in Nat
        BY <1>1
      <3> HIDE DEF n
      <3>2. n \in Len(log) + 1 .. n
        BY <1>3, <2>2, <3>1
      <3>3. <<n, log'[n]>> \in proposed
        BY <1>4, <3>2
      <3> QED
        BY <1>1, <3>3
    <2> QED
      BY <2>1, <2>2
  <1>6. new \in [Len(log) + 1 .. n -> {p[2] : p \in proposed}]
    <2>1. ASSUME NEW k \in Len(log) + 1 .. n PROVE log'[k] \in {p[2] : p \in proposed}
      <3>1. <<k, log'[k]>> \in proposed /\ <<k, log'[k]>>[2] = log'[k]
        BY <1>4
      <3> QED
        BY <3>1, Zenon
    <2> QED
      BY <2>1
  <1>7. \A k \in DOMAIN new : <<k, new[k]>> \in proposed
    BY <1>4
  <1>8. log' = [k \in 1 .. n |-> IF k \in DOMAIN log THEN log[k] ELSE new[k]]
    <2>1. log' = [k \in 1 .. n |-> log'[k]]
      BY <1>1, LenProperties
    <2>2. ASSUME NEW k \in 1 .. n
          PROVE  log'[k] = IF k \in DOMAIN log THEN log[k] ELSE new[k]
      BY <1>1, <1>2
    <2> HIDE DEF n, new
    <2> QED
      BY <2>1, <2>2, Zenon
  <1>9. n \in Len(log) .. MaxIndex
    BY <1>1, <1>3, <1>5, KVAssumption
  <1> HIDE DEF n, new
  <1> QED
    BY <1>6, <1>7, <1>8, <1>9, Zenon DEF Decide

(* A step of Raft alone. *)
LEMMA RaftStepMaps ==
  ASSUME OverInv, RaftStep
  PROVE  Choose /\ open' \subseteq proposed' /\ position' \in [Server -> Nat]
         /\ \A i \in Server : kv'[i].prevIndex <= position'[i]
  <1>1. PICK i \in Server : RaftLog!Deliver(i)
    BY DEF RaftStep
  <1>2. /\ RaftLog!Decide /\ log' \in Seq(Op)
        /\ UNCHANGED <<proposed, kv, restarts, calls, clerk, handlers, acked>>
    BY <1>1 DEF RaftStep, RaftLog!Deliver
  <1>3. Choose
    BY <1>2, ContractDecides DEF Choose
  <1>4. open' \subseteq proposed'
    BY <1>2, Zenon DEF OverInv, RaftLog!Decide
  <1>5. PICK p \in {position[i]} \cup {e[1] : e \in Decided(log')} :
            p >= position[i] /\ position' = [position EXCEPT ![i] = p]
    BY <1>1 DEF RaftLog!Deliver
  <1>6. p \in Nat
    <2>1. DOMAIN log' = 1 .. Len(log') /\ Len(log') \in Nat
      BY <1>2, LenProperties
    <2>2. ASSUME NEW e \in Decided(log') PROVE e[1] \in Nat
      BY <2>1 DEF Decided
    <2> QED
      BY <1>5, <2>2 DEF OverInv
  <1>7. ASSUME NEW j \in Server PROVE kv'[j].prevIndex <= position'[j]
    <2>1. kv[j].prevIndex <= position[j] /\ kv[j].prevIndex \in Nat /\ position[j] \in Nat
      BY KVAssumption DEF OverInv, Inv, TypeOK, RaftKV
    <2>2. position'[j] \in Nat /\ position'[j] >= position[j]
      BY <1>5, <1>6 DEF OverInv
    <2> QED
      BY <1>2, <2>1, <2>2
  <1> QED
    BY <1>3, <1>4, <1>5, <1>6, <1>7 DEF OverInv

(* A handler calls Start. *)
LEMMA StartStepMaps ==
  ASSUME OverInv, NEW h \in handlers, StartStep(h)
  PROVE  AppendLog(h) /\ open' \subseteq proposed' /\ position' = position /\ kv' = kv
  <1>1. PICK k \in 1 .. MaxIndex :
            /\ RaftLog!Propose(h.server, k, h.entry)
            /\ log' = log
            /\ proposed' = proposed \cup {<<k, h.entry>>}
            /\ Wait(h, k)
    BY DEF StartStep
  <1>2. h.server \in Server
    BY DEF OverInv, Inv, TypeOK, Handler
  <1>3. k > kv[h.server].prevIndex
    <2>1. /\ kv[h.server].prevIndex <= position[h.server]
          /\ kv[h.server].prevIndex \in Nat /\ position[h.server] \in Nat
      BY <1>2, KVAssumption DEF OverInv, Inv, TypeOK, RaftKV
    <2>2. k > position[h.server]
      BY <1>1 DEF RaftLog!Propose
    <2> QED
      BY <1>1, <2>1, <2>2
  <1>4. k = 1 \/ \E p \in proposed : p[1] = k - 1
    BY <1>1, Zenon DEF OverInv, RaftLog!Propose
  <1>5. k \in StartIndex(h.server)
    <2>1. kv[h.server].prevIndex \in Nat
      BY <1>2, KVAssumption DEF OverInv, Inv, TypeOK, RaftKV
    <2>2. k \in kv[h.server].prevIndex + 1 .. MaxIndex
      BY <1>3, <2>1, KVAssumption
    <2> QED
      BY <1>4, <2>2, Zenon DEF StartIndex
  <1>6. AppendLog(h)
    BY <1>1, <1>5, Zenon DEF AppendLog
  <1>7. open' \subseteq proposed' /\ position' = position
    BY <1>1, Zenon DEF OverInv, RaftLog!Propose
  <1> QED
    BY <1>1, <1>6, <1>7, Zenon DEF Wait

(* A server starts over, and Raft with it. *)
LEMMA RestartStepMaps ==
  ASSUME OverInv, NEW i \in Server, RestartStep(i)
  PROVE  Restart(i) /\ open' \subseteq proposed' /\ position' \in [Server -> Nat]
         /\ \A j \in Server : kv'[j].prevIndex <= position'[j]
  <1>1. /\ RaftLog!Decide /\ log' \in Seq(Op) /\ StartKVServer(i)
        /\ position' = [position EXCEPT ![i] = 0]
    BY DEF RestartStep, RaftLog!Restart
  <1>2. Restart(i)
    BY <1>1, ContractDecides DEF Restart
  <1>3. open' \subseteq proposed' /\ kv' = [kv EXCEPT ![i] = InitKV]
    BY <1>1, Zenon DEF OverInv, RaftLog!Decide, StartKVServer
  <1>4. kv \in [Server -> RaftKV] /\ position \in [Server -> Nat]
    BY DEF OverInv, Inv, TypeOK
  <1>5. ASSUME NEW j \in Server PROVE kv'[j].prevIndex <= position'[j]
    <2>1. CASE j = i
      <3>1. kv'[j].prevIndex = 0 /\ position'[j] = 0
        BY <1>1, <1>3, <1>4, <2>1 DEF InitKV
      <3> QED
        BY <3>1
    <2>2. CASE j # i
      BY <1>1, <1>3, <1>4, <2>2 DEF OverInv
    <2> QED
      BY <2>1, <2>2
  <1> QED
    BY <1>1, <1>2, <1>3, <1>4, <1>5

(* The service does something on its own; only getApply takes a server     *)
(* forward, to where Raft has committed.                                   *)
LEMMA ServiceStepMaps ==
  ASSUME OverInv, ServiceStep
  PROVE  Next /\ open' \subseteq proposed' /\ position' = position
         /\ \A j \in Server : kv'[j].prevIndex <= position[j]
  <1>1. Next /\ open' = open /\ position' = position
    BY Zenon DEF ServiceStep, Next
  <1>2. kv \in [Server -> RaftKV] /\ open \subseteq proposed
        /\ \A j \in Server : kv[j].prevIndex <= position[j]
    BY DEF OverInv, Inv, TypeOK
  <1>3. CASE proposed' = proposed /\ \A j \in Server : kv'[j].prevIndex = kv[j].prevIndex
    BY <1>1, <1>2, <1>3, Zenon
  <1>4. ASSUME NEW c \in Clerks, \/ \E type \in OpType : Invoke(c, type)
                                 \/ CallFails(c)
                                 \/ \E i \in Server : Call(c, i)
        PROVE  proposed' = proposed /\ kv' = kv
    BY <1>4, Zenon DEF Invoke, CallFails, Call
  <1>5. ASSUME NEW h \in handlers, AppendFails(h) \/ PutAppend(h)
        PROVE  proposed' = proposed /\ kv' = kv
    BY <1>5, Zenon DEF AppendFails, PutAppend
  <1>6. ASSUME NEW h \in handlers, Receive(h) \/ Get(h)
        PROVE  proposed' = proposed /\ \A j \in Server : kv'[j].prevIndex = kv[j].prevIndex
    <2>1. h.server \in Server
      BY DEF OverInv, Inv, TypeOK, Handler
    <2>2. CASE Receive(h)
      <3> DEFINE t == [kv[h.server] EXCEPT !.result[h.index] = NoOp]
      <3>1. proposed' = proposed /\ kv' = [kv EXCEPT ![h.server] = t]
        BY <1>2, <2>1, <2>2, Zenon DEF Receive
      <3>2. t.prevIndex = kv[h.server].prevIndex
        BY <1>2, <2>1 DEF RaftKV
      <3> HIDE DEF t
      <3> QED
        BY <1>2, <3>1, <3>2, Zenon
    <2>3. CASE Get(h)
      <3> DEFINE t == [kv[h.server] EXCEPT !.ack[h.entry.id] = h.entry.reqId]
      <3>1. proposed' = proposed /\ kv' = [kv EXCEPT ![h.server] = t]
        BY <1>2, <2>1, <2>3, Zenon DEF Get
      <3>2. t.prevIndex = kv[h.server].prevIndex
        BY <1>2, <2>1 DEF RaftKV
      <3> HIDE DEF t
      <3> QED
        BY <1>2, <3>1, <3>2, Zenon
    <2> QED
      BY <1>6, <2>2, <2>3
  <1>7. ASSUME NEW i \in Server, kv[i].prevIndex < position[i], getApply(i)
        PROVE  proposed' = proposed /\ \A j \in Server : kv'[j].prevIndex <= position[j]
    <2>1. proposed' = proposed
      BY <1>7, Zenon DEF getApply
    <2>2. PICK t : kv' = [kv EXCEPT ![i] = t] /\ t.prevIndex = kv[i].prevIndex + 1
      <3> DEFINE p == kv[i].prevIndex + 1
                 op == log[p]
                 dup == checkDup(kv[i], op)
                 t == [db |-> IF dup THEN kv[i].db ELSE written(kv[i].db, op),
                       ack |-> IF dup THEN kv[i].ack
                               ELSE [kv[i].ack EXCEPT ![op.id] = op.reqId],
                       result |-> [kv[i].result EXCEPT ![p] = op],
                       prevIndex |-> p]
      <3>1. kv' = [kv EXCEPT ![i] = t]
        BY <1>7, Zenon DEF getApply
      <3>2. t.prevIndex = kv[i].prevIndex + 1
        OBVIOUS
      <3> HIDE DEF t
      <3> QED
        BY <3>1, <3>2, Zenon
    <2>3. kv[i].prevIndex + 1 <= position[i]
      BY <1>2, <1>7, KVAssumption DEF OverInv, RaftKV
    <2> QED
      BY <1>2, <2>1, <2>2, <2>3, Zenon
  <1> QED
    BY <1>1, <1>2, <1>3, <1>4, <1>5, <1>6, <1>7, Zenon DEF ServiceStep

(* Every step over ReplicatedLog is a step of KVRaft. *)
LEMMA OverStep ==
  ASSUME OverInv, [OverNext]_overVars
  PROVE  [Next]_vars /\ OverInv'
  <1> DEFINE Good == /\ [Next]_vars
                     /\ open' \subseteq proposed'
                     /\ position' \in [Server -> Nat]
                     /\ \A i \in Server : kv'[i].prevIndex <= position'[i]
  <1>1. /\ open \subseteq proposed /\ position \in [Server -> Nat]
        /\ \A i \in Server : kv[i].prevIndex <= position[i]
    BY DEF OverInv
  <1>2. ASSUME RaftStep PROVE Good
    BY <1>2, RaftStepMaps, Zenon DEF Next
  <1>3. ASSUME NEW h \in handlers, StartStep(h) PROVE Good
    BY <1>1, <1>3, StartStepMaps, Zenon DEF Next
  <1>4. ASSUME NEW i \in Server, RestartStep(i) PROVE Good
    BY <1>4, RestartStepMaps, Zenon DEF Next
  <1>5. ASSUME ServiceStep PROVE Good
    BY <1>1, <1>5, ServiceStepMaps, Zenon
  <1>6. ASSUME UNCHANGED overVars PROVE Good
    <2>1. UNCHANGED vars /\ open' = open /\ position' = position
          /\ proposed' = proposed /\ kv' = kv
      BY <1>6 DEF overVars, vars
    <2> QED
      BY <1>1, <2>1, Zenon
  <1>7. Good
    BY <1>2, <1>3, <1>4, <1>5, <1>6, Zenon DEF OverNext
  <1>8. Inv'
    BY <1>7, InvStep DEF OverInv
  <1> QED
    BY <1>7, <1>8 DEF OverInv

(* The service relies on no more than ReplicatedLog, the contract that     *)
(* raft.go is checked to implement: put on top of anything that keeps the  *)
(* contract (Start, commitTo, stateMachine and Make may do whatever it     *)
(* allows, also commit several entries at once, lose proposals or commit   *)
(* and crash in one step) it behaves as KVRaft says.  So what is proved    *)
(* and checked of KVRaft holds over Raft.                                  *)
THEOREM RestsOnContract == OverSpec => Spec
  <1>1. OverInit => Init /\ OverInv
    <2> SUFFICES ASSUME OverInit PROVE Init /\ OverInv
      OBVIOUS
    <2>1. Init /\ Inv /\ open = {} /\ position = [i \in Server |-> 0]
      BY InitInv DEF OverInit, RaftLog!Init
    <2>2. ASSUME NEW i \in Server PROVE kv[i].prevIndex <= position[i]
      BY <2>1 DEF Init, InitKV
    <2> QED
      BY <2>1, <2>2 DEF OverInv
  <1>2. OverInv /\ [OverNext]_overVars => [Next]_vars /\ OverInv'
    BY OverStep
  <1> QED
    BY <1>1, <1>2, PTL DEF OverSpec, Spec

=============================================================================
