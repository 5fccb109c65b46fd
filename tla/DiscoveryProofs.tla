-------------------------- MODULE DiscoveryProofs --------------------------
(* Theorems about Discovery, for every number of calls, buses, workers and  *)
(* restarts.                                                                *)
EXTENDS Discovery, TLAPS, SequenceTheorems



(***************************************************************************)
(* The pool's queue as a sequence without repeats.                         *)
(***************************************************************************)

(* Pushing a task that is not queued adds exactly that task.               *)
LEMMA AppendElems ==
    ASSUME NEW S, NEW q \in Seq(S), NEW c \in S
    PROVE  /\ Append(q, c) \in Seq(S)
           /\ Elems(Append(q, c)) = Elems(q) \cup {c}
           /\ NoRepeats(q) /\ c \notin Elems(q) => NoRepeats(Append(q, c))
<1> DEFINE p == Append(q, c)
<1>1. /\ p \in Seq(S)
      /\ Len(p) = Len(q) + 1
      /\ \A i \in 1..Len(q) : p[i] = q[i]
      /\ p[Len(q) + 1] = c
  BY AppendProperties
<1>2. DOMAIN p = 1..(Len(q) + 1) /\ DOMAIN q = 1..Len(q) /\ Len(q) \in Nat
  BY <1>1, LenProperties
<1>3. 1..(Len(q) + 1) = 1..Len(q) \cup {Len(q) + 1}
  BY <1>2
<1>4. Elems(p) = Elems(q) \cup {c}
  <2> HIDE DEF p
  <2> QED BY <1>1, <1>2, <1>3 DEF Elems
<1>5. NoRepeats(q) /\ c \notin Elems(q) => NoRepeats(p)
  <2> HIDE DEF p
  <2> QED BY <1>1, <1>2, <1>3 DEF Elems, NoRepeats
<1> QED
  BY <1>1, <1>4, <1>5

(* Taking the first task removes exactly that task.                        *)
LEMMA TailElems ==
    ASSUME NEW S, NEW q \in Seq(S), q # <<>>
    PROVE  /\ Head(q) \in S
           /\ Tail(q) \in Seq(S)
           /\ Head(q) \in Elems(q)
           /\ Elems(Tail(q)) \subseteq Elems(q)
           /\ NoRepeats(q) =>
                NoRepeats(Tail(q)) /\ Head(q) \notin Elems(Tail(q))
<1> DEFINE t == Tail(q)
<1>1. /\ Head(q) \in S
      /\ t \in Seq(S)
      /\ Len(t) = Len(q) - 1
      /\ \A i \in 1..Len(t) : t[i] = q[i + 1]
  BY HeadTailProperties
<1>2. /\ DOMAIN t = 1..(Len(q) - 1) /\ DOMAIN q = 1..Len(q) /\ Len(q) \in Nat
      /\ Len(q) > 0 /\ Head(q) = q[1]
  BY <1>1, LenProperties, EmptySeq
<1>3. Head(q) \in Elems(q)
  BY <1>2 DEF Elems
<1>4. Elems(t) \subseteq Elems(q)
  <2> HIDE DEF t
  <2>1. ASSUME NEW i \in DOMAIN t PROVE i + 1 \in DOMAIN q /\ t[i] = q[i + 1]
    BY <1>1, <1>2
  <2> QED BY <2>1 DEF Elems
<1>5. ASSUME NoRepeats(q) PROVE NoRepeats(t) /\ Head(q) \notin Elems(t)
  <2> HIDE DEF t
  <2>1. ASSUME NEW i \in DOMAIN t
        PROVE  i \in 1..(Len(q) - 1) /\ i + 1 \in DOMAIN q /\ t[i] = q[i + 1]
    BY <1>1, <1>2
  <2>2. NoRepeats(t)
    <3> SUFFICES ASSUME NEW i \in DOMAIN t, NEW j \in DOMAIN t, t[i] = t[j]
                 PROVE  i = j
      BY DEF NoRepeats
    <3>1. i + 1 = j + 1
      BY <2>1, <1>5 DEF NoRepeats
    <3> QED
      BY <3>1, <2>1
  <2>3. ASSUME NEW i \in DOMAIN t PROVE t[i] # Head(q)
    <3>1. 1 \in DOMAIN q /\ i + 1 # 1
      BY <2>1, <1>2
    <3> QED
      BY <3>1, <2>1, <1>2, <1>5 DEF NoRepeats
  <2> QED
    BY <2>2, <2>3 DEF Elems
<1> QED
  BY <1>1, <1>3, <1>4, <1>5

(* The pool starts and restarts empty.                                     *)
LEMMA EmptyElems == Elems(<<>>) = {} /\ NoRepeats(<<>>) /\ <<>> \in Seq(Calls)
BY EmptySeq DEF Elems, NoRepeats

(***************************************************************************)
(* Type correctness.                                                       *)
(***************************************************************************)

LEMMA ResultTypes ==
    /\ Escaped \notin Results
    /\ None \notin Results
    /\ Failures \cap Results = {}
    /\ None \notin Failures
    /\ None # Escaped
    /\ \A why \in {"rejected", "noBus", "sendFailed", "timeout"} :
        Failure(why) \in Failures
    /\ ErrorResult(BadInput) \in Results
<1>1. \A r \in Results : r.status \in {"ok", "error"}
  BY DEF Results, OkResult, ErrorResult
<1>2. \A f \in Failures : f.status = "failed"
  BY DEF Failures, Failure
<1>3. Escaped.status = "escaped"
  BY DEF Escaped
<1>4. Escaped \notin Results /\ Failures \cap Results = {}
  BY <1>1, <1>2, <1>3
<1>5. ErrorResult(BadInput) \in Results
  BY ConstantsAssumption DEF Results
<1>6. \A why \in {"rejected", "noBus", "sendFailed", "timeout"} :
        Failure(why) \in Failures
  BY DEF Failures
<1> QED
  BY <1>4, <1>5, <1>6, NoneAssumption

(* What toMessageBus writes the constructor of Message reads back: result, *)
(* name and correlation id survive the way through the broker.             *)
LEMMA RoundTrip ==
    ASSUME NEW msg \in Replies
    PROVE  /\ FromMessageBus(ToMessageBus(msg)).res = msg.res
           /\ ToMessageBus(msg).corr = msg.corr
           /\ ToMessageBus(msg).to = msg.to
<1>1. msg.res \in Results
  BY DEF Replies
<1>2. StatusOf(StatusText(msg.res.status)) = msg.res.status
  BY <1>1 DEF Results, OkResult, ErrorResult, StatusOf, StatusText
<1>3. Head(<<msg.res.body>>) = msg.res.body
  OBVIOUS
<1>4. msg.res = [status |-> msg.res.status, body |-> msg.res.body]
  BY <1>1 DEF Results, OkResult, ErrorResult
<1> QED
  BY <1>2, <1>3, <1>4 DEF FromMessageBus, ToMessageBus

LEMMA ReplyType ==
    ASSUME NEW r \in Reply
    PROVE  FromMessageBus(r).res \in Results
<1>1. PICK msg \in Replies : r = ToMessageBus(msg)
  BY DEF Reply
<1> QED
  BY <1>1, RoundTrip DEF Replies

LEMMA AnswerType ==
    ASSUME TypeOK, NEW c \in Calls, verdict[c] \in Results
    PROVE  /\ AnswerTo(c) \in Reply
           /\ FromMessageBus(AnswerTo(c)).res = verdict[c]
           /\ AnswerTo(c).corr = MessageOf[c]
<1> DEFINE msg == [corr |-> MessageOf[c], to |-> NameOf[BusOf[c]], res |-> verdict[c]]
<1>1. msg \in Replies
  BY ConstantsAssumption DEF Replies, Messages, Names
<1>2. AnswerTo(c) = ToMessageBus(msg)
  BY DEF AnswerTo
<1> QED
  BY <1>1, <1>2, RoundTrip DEF Reply

LEMMA TypeOKStep == TypeOK /\ [Next]_vars => TypeOK'
<1> SUFFICES ASSUME TypeOK, [Next]_vars PROVE TypeOK'
  OBVIOUS
<1> USE DEF serviceVars, callerVars, Phases, Stages
<1>1. ASSUME NEW c \in Calls, Caller(c) PROVE TypeOK'
  <2>1. CASE Call(c)
    BY <2>1 DEF Call, TypeOK
  <2>2. ASSUME NEW why \in {"rejected", "noBus", "sendFailed", "timeout"},
               Finish(c, Failure(why)), UNCHANGED replies
        PROVE  TypeOK'
    BY <2>2, ResultTypes DEF Finish, TypeOK
  <2>3. CASE Reject(c) \/ ConnectFails(c) \/ SendFails(c) \/ Timeout(c)
    BY <2>2, <2>3 DEF Reject, ConnectFails, SendFails, Timeout
  <2>4. CASE Send(c)
    BY <2>4 DEF Send, TypeOK
  <2>5. CASE Accept(c)
    BY <2>5, ReplyType DEF Accept, Finish, TypeOK
  <2> QED
    BY <1>1, <2>1, <2>3, <2>4, <2>5 DEF Caller
<1>2. CASE Broker
  BY <1>2 DEF Broker, LoseRequest, DropReply, TypeOK
<1>3. CASE Service
  <2>1. CASE Start \/ StartFails
    BY <2>1, ConstantsAssumption DEF Start, StartFails, TypeOK
  <2>2. CASE Stop
    BY <2>2 DEF Stop, TypeOK
  <2>3. CASE Joined \/ DestroyPool \/ Exit \/ Crash
    BY <2>3, EmptyElems DEF Joined, DestroyPool, Exit, Crash, Terminate, TypeOK
  <2>4. ASSUME NEW c \in Calls, Discover(c) PROVE TypeOK'
    <3>1. queue' \in Seq(Calls)
      BY <2>4, AppendElems DEF Discover, Put, TypeOK
    <3> QED
      BY <3>1, <2>4 DEF Discover, Put, TypeOK
  <2> QED
    BY <1>3, <2>1, <2>2, <2>3, <2>4 DEF Service
<1>4. ASSUME NEW w \in Workers, Worker(w) PROVE TypeOK'
  <2>1. CASE Take(w)
    <3>1. Head(queue) \in Calls /\ Tail(queue) \in Seq(Calls)
      BY <2>1, TailElems DEF Take, TypeOK
    <3> QED
      BY <3>1, <2>1 DEF Take, TypeOK
  <2>2. CASE Run(w)
    <3>1. PICK r \in Results : verdict' = [verdict EXCEPT ![exec[w]] = r]
      BY <2>2, ResultTypes DEF Run, Outcomes
    <3> QED
      BY <3>1, <2>2 DEF Run, TypeOK
  <2>3. CASE Escape(w)
    BY <2>3, EmptyElems DEF Escape, Terminate, TypeOK
  <2>4. CASE ReplyTo(w) \/ ReplyFails(w)
    <3>1. exec[w] \in Calls /\ verdict[exec[w]] \in Results
      BY <2>4 DEF ReplyTo, ReplyFails, Attempt, Decided, TypeOK
    <3>2. AnswerTo(exec[w]) \in Reply
      BY <3>1, AnswerType
    <3>3. sent' \in [Calls -> Nat]
      BY <2>4, <3>1 DEF ReplyTo, ReplyFails, Attempt, TypeOK
    <3>4. exec' \in [Workers -> Calls \cup {None}]
      BY <2>4 DEF ReplyTo, ReplyFails, Attempt, Release, TypeOK
    <3> QED
      BY <2>4, <3>2, <3>3, <3>4 DEF ReplyTo, ReplyFails, Attempt, TypeOK
  <2> QED
    BY <1>4, <2>1, <2>2, <2>3, <2>4 DEF Worker
<1>5. CASE UNCHANGED vars
  BY <1>5 DEF vars, TypeOK
<1> QED
  BY <1>1, <1>2, <1>3, <1>4, <1>5 DEF Next

(* Every variable keeps its type, whatever the constants.                  *)
THEOREM TypeCorrect == Spec => []TypeOK
<1>1. Init => TypeOK
  BY EmptyElems, ConstantsAssumption DEF Init, TypeOK, Phases, Stages
<1> QED
  BY <1>1, TypeOKStep, PTL DEF Spec

(***************************************************************************)
(* The inductive invariant.                                                *)
(***************************************************************************)

(* The part of the invariant about where requests are.                     *)
PoolInv == OneTaskPerRequest /\ AtMostOneReply /\ NoTaskWithoutBus /\ PlaceInv

LEMMA PoolStep == TypeOK /\ PoolInv /\ [Next]_vars => PoolInv'
<1> SUFFICES ASSUME TypeOK, PoolInv, [Next]_vars PROVE PoolInv'
  OBVIOUS
<1>t. TypeOK'
  BY TypeOKStep
<1> USE DEF serviceVars, callerVars, PoolInv
<1>0. ASSUME UNCHANGED <<phase, mailbox, queue, exec, verdict, sent>>,
             \A c \in Calls : stage[c] \in {"waiting", "done"} =>
                stage'[c] \in {"waiting", "done"} /\ input'[c] = input[c],
             \A c \in Calls : stage'[c] \in {"idle", "called"} =>
                stage[c] \in {"idle", "called"}
      PROVE  PoolInv'
  <2>1. UNCHANGED <<Queued, Running>>
    BY <1>0 DEF Queued, Running
  <2>2. mailbox \cup Queued \cup Running \subseteq Calls
    BY DEF TypeOK, Queued, Running, Elems
  <2>3. (OneTaskPerRequest /\ AtMostOneReply /\ NoTaskWithoutBus)'
    BY <1>0, <2>1 DEF OneTaskPerRequest, AtMostOneReply, NoTaskWithoutBus
  <2>4. PlaceInv'
    BY <1>0, <2>1, <2>2 DEF PlaceInv
  <2> QED
    BY <2>3, <2>4
<1>1. ASSUME NEW c \in Calls, Caller(c) PROVE PoolInv'
  <2>1. CASE Call(c)
    BY <2>1, <1>0 DEF Call, TypeOK
  <2>2. CASE Reject(c) \/ ConnectFails(c) \/ SendFails(c) \/ Timeout(c) \/ Accept(c)
    BY <2>2, <1>0 DEF Reject, ConnectFails, SendFails, MaySend, Timeout, Accept,
                      Accepts, Finish, TypeOK
  <2>3. CASE Send(c)
    <3> USE <2>3 DEF Send, MaySend
    <3>1. UNCHANGED <<Queued, Running>>
      BY DEF Queued, Running
    <3>2. mailbox \cup Queued \cup Running \subseteq Calls
      BY DEF TypeOK, Queued, Running, Elems
    <3>3. c \notin Queued \cup Running /\ sent[c] = 0 /\ verdict[c] = None
      BY DEF PlaceInv
    <3>4. (OneTaskPerRequest /\ AtMostOneReply /\ NoTaskWithoutBus)'
      BY <3>1, <3>2, <3>3 DEF OneTaskPerRequest, AtMostOneReply, NoTaskWithoutBus
    <3>5. PlaceInv'
      BY <3>1, <3>2, <3>3 DEF PlaceInv, TypeOK
    <3> QED
      BY <3>4, <3>5
  <2> QED
    BY <1>1, <2>1, <2>2, <2>3 DEF Caller
<1>2. CASE Broker
  <2>1. ASSUME NEW c \in Calls, LoseRequest(c) PROVE PoolInv'
    <3> USE <2>1 DEF LoseRequest
    <3>1. UNCHANGED <<Queued, Running>>
      BY DEF Queued, Running
    <3> QED
      BY <3>1 DEF OneTaskPerRequest, AtMostOneReply, NoTaskWithoutBus, PlaceInv
  <2>2. ASSUME NEW r \in replies, DropReply(r) PROVE PoolInv'
    BY <2>2, <1>0 DEF DropReply
  <2> QED
    BY <1>2, <2>1, <2>2 DEF Broker
<1>3. CASE Service
  <2>1. CASE Start \/ StartFails \/ Stop
    <3> USE <2>1 DEF Start, StartFails, Stop
    <3>1. UNCHANGED <<Queued, Running, mailbox, queue, exec, sent, verdict>>
      BY DEF Queued, Running
    <3>2. phase' \in {"leaving", "down"} => phase \in {"leaving", "down"}
      OBVIOUS
    <3> QED
      BY <3>1, <3>2 DEF OneTaskPerRequest, AtMostOneReply, NoTaskWithoutBus, PlaceInv
  <2>0. CASE Joined /\ UNCHANGED queue
    <3> USE <2>0 DEF Joined
    <3>1. UNCHANGED <<Queued, Running, mailbox, queue, exec, sent, verdict, stage, input>>
      BY DEF Queued, Running
    <3> QED
      BY <3>1 DEF OneTaskPerRequest, AtMostOneReply, NoTaskWithoutBus, PlaceInv
  <2>2. CASE (Joined /\ queue' = <<>>) \/ DestroyPool \/ Exit \/ Crash
    <3> USE <2>2 DEF Joined, DestroyPool, Exit, Crash, Terminate
    <3>1. Queued' = {} /\ Running' = {} /\ NoRepeats(queue)' /\ queue' = <<>>
          /\ \A w \in Workers : exec'[w] = None
      BY EmptyElems DEF Queued, Running, TypeOK
    <3>2. UNCHANGED <<stage, input, mailbox, sent, verdict>>
      OBVIOUS
    <3> QED
      BY <3>1, <3>2 DEF OneTaskPerRequest, AtMostOneReply, NoTaskWithoutBus, PlaceInv
  <2>3. ASSUME NEW c \in Calls, Discover(c) PROVE PoolInv'
    <3> USE <2>3 DEF Discover, Put
    <3>1. UNCHANGED Running
      BY DEF Running
    <3>2. c \notin Queued /\ c \notin Running /\ c \in mailbox
      BY DEF OneTaskPerRequest
    <3>3. CASE Dispatches(c) /\ HasPool
      <4>1. Queued' = Queued \cup {c} /\ NoRepeats(queue)'
        BY <3>2, <3>3, AppendElems DEF Queued, OneTaskPerRequest, TypeOK
      <4>2. UNCHANGED <<stage, input, exec, sent, verdict, phase>>
        OBVIOUS
      <4>3. mailbox' = mailbox \ {c}
        OBVIOUS
      <4>4. OneTaskPerRequest'
        BY <3>1, <3>2, <4>1, <4>2, <4>3 DEF OneTaskPerRequest
      <4>5. NoTaskWithoutBus' /\ AtMostOneReply'
        BY <4>2, <3>3 DEF NoTaskWithoutBus, HasPool, AtMostOneReply
      <4>6. PlaceInv'
        BY <3>1, <3>2, <3>3, <4>1, <4>2, <4>3 DEF PlaceInv, Dispatches
      <4> QED
        BY <4>4, <4>5, <4>6
    <3>4. CASE ~(Dispatches(c) /\ HasPool)
      <4>1. UNCHANGED <<queue, Queued>>
        BY <3>4 DEF Queued
      <4> QED
        BY <3>1, <4>1 DEF OneTaskPerRequest, AtMostOneReply, NoTaskWithoutBus, PlaceInv
    <3> QED
      BY <3>3, <3>4
  <2> QED
    BY <1>3, <2>0, <2>1, <2>2, <2>3 DEF Service, Joined
<1>4. ASSUME NEW w \in Workers, Worker(w) PROVE PoolInv'
  <2>1. CASE Take(w)
    <3> USE <2>1 DEF Take
    <3> DEFINE c == Head(queue)
    <3>1. /\ c \in Calls
          /\ c \in Queued
          /\ Queued' \subseteq Queued \ {c}
          /\ NoRepeats(queue)'
      BY TailElems DEF Queued, OneTaskPerRequest, TypeOK
    <3>2. Running' = Running \cup {c}
      BY <3>1, NoneAssumption DEF Running, TypeOK
    <3>3. UNCHANGED <<stage, input, mailbox, sent, verdict, phase>>
      OBVIOUS
    <3>4. c \notin Running /\ c \notin mailbox
      BY <3>1 DEF OneTaskPerRequest
    <3> HIDE DEF c
    <3>5. \A u, v \in Workers : exec'[u] = exec'[v] /\ exec'[u] # None => u = v
      BY <3>4 DEF OneTaskPerRequest, Running, TypeOK, c
    <3>6. OneTaskPerRequest'
      BY <3>1, <3>2, <3>3, <3>4, <3>5 DEF OneTaskPerRequest
    <3>7. NoTaskWithoutBus' /\ AtMostOneReply'
      BY <3>3 DEF NoTaskWithoutBus, HasPool, AtMostOneReply
    <3>8. PlaceInv'
      BY <3>1, <3>2, <3>3 DEF PlaceInv
    <3> QED
      BY <3>6, <3>7, <3>8
  <2>2. CASE Run(w)
    <3> USE <2>2 DEF Run, Undecided
    <3>1. UNCHANGED <<Queued, Running, mailbox, queue, exec, sent, stage, input, phase>>
      BY DEF Queued, Running
    <3>2. exec[w] \in Running
      BY DEF Running
    <3>3. \A c \in Calls : c # exec[w] => verdict'[c] = verdict[c]
      BY DEF TypeOK
    <3>4. mailbox \subseteq Calls /\ Queued \subseteq Calls
      BY DEF TypeOK, Queued, Elems
    <3>5. (OneTaskPerRequest /\ AtMostOneReply /\ NoTaskWithoutBus)'
      BY <3>1 DEF OneTaskPerRequest, AtMostOneReply, NoTaskWithoutBus
    <3>6. PlaceInv'
      BY <3>1, <3>2, <3>3, <3>4 DEF PlaceInv, OneTaskPerRequest
    <3> QED
      BY <3>5, <3>6
  <2>3. CASE Escape(w)
    <3> USE <2>3 DEF Escape, Undecided
    <3>1. exec[w] \in Running /\ exec[w] \in Calls
      BY DEF Running, TypeOK
    <3>2. \A c \in Calls : c # exec[w] => verdict'[c] = verdict[c]
      BY DEF TypeOK
    <3>3. mailbox \subseteq Calls /\ Queued \subseteq Calls
      BY DEF TypeOK, Queued, Elems
    <3>4. CASE exec' = [exec EXCEPT ![w] = None] /\ UNCHANGED <<callerVars, phase, starts, mailbox, queue, sent, replies>>
      <4>1. UNCHANGED <<Queued, mailbox, queue, sent, stage, input, phase>>
        BY <3>4 DEF Queued
      <4>2. Running' \subseteq Running
        BY <3>4 DEF Running, TypeOK
      <4>3. \A u, v \in Workers : exec'[u] = exec'[v] /\ exec'[u] # None => u = v
        BY <3>4 DEF OneTaskPerRequest, TypeOK
      <4>4. (OneTaskPerRequest /\ AtMostOneReply)'
        BY <4>1, <4>2, <4>3 DEF OneTaskPerRequest, AtMostOneReply
      <4>5. NoTaskWithoutBus'
        BY <4>1, <4>2 DEF NoTaskWithoutBus
      <4>6. PlaceInv'
        BY <4>1, <4>2, <3>1, <3>2, <3>3 DEF PlaceInv, OneTaskPerRequest
      <4> QED
        BY <4>4, <4>5, <4>6
    <3>5. CASE Terminate
      <4> USE <3>5 DEF Terminate
      <4>1. Queued' = {} /\ Running' = {} /\ NoRepeats(queue)' /\ queue' = <<>>
            /\ \A u \in Workers : exec'[u] = None
        BY EmptyElems DEF Queued, Running, TypeOK
      <4>2. UNCHANGED <<stage, input, mailbox, sent>>
        OBVIOUS
      <4>3. (OneTaskPerRequest /\ AtMostOneReply /\ NoTaskWithoutBus)'
        BY <4>1, <4>2 DEF OneTaskPerRequest, AtMostOneReply, NoTaskWithoutBus
      <4>4. PlaceInv'
        BY <4>1, <4>2, <3>1, <3>2, <3>3 DEF PlaceInv, OneTaskPerRequest
      <4> QED
        BY <4>3, <4>4
    <3> QED
      BY <3>4, <3>5
  <2>4. CASE ReplyTo(w) \/ ReplyFails(w)
    <3> USE <2>4 DEF ReplyTo, ReplyFails, Attempt, Release, Decided
    <3>1. exec[w] \in Running /\ exec[w] \in Calls
      BY DEF Running, TypeOK
    <3>2. /\ \A c \in Calls : c # exec[w] => sent'[c] = sent[c]
          /\ sent[exec[w]] = 0 /\ sent'[exec[w]] = 1
      BY <3>1 DEF TypeOK, OneTaskPerRequest
    <3>3. UNCHANGED <<Queued, mailbox, queue, verdict, stage, input, phase>>
      BY DEF Queued
    <3>4. Running' = Running \ {exec[w]}
      <4>1. exec'[w] = None /\ \A u \in Workers : u # w => exec'[u] = exec[u]
        BY DEF TypeOK
      <4>2. \A u \in Workers : u # w => exec[u] # exec[w]
        BY DEF OneTaskPerRequest
      <4> QED
        BY <4>1, <4>2 DEF Running
    <3>5. mailbox \subseteq Calls /\ Queued \subseteq Calls /\ Running \subseteq Calls
      BY DEF TypeOK, Queued, Running, Elems
    <3>6. \A u, v \in Workers : exec'[u] = exec'[v] /\ exec'[u] # None => u = v
      BY DEF OneTaskPerRequest, TypeOK
    <3>7. \A c \in (mailbox \cup Queued \cup Running)' : sent'[c] = 0
      BY <3>1, <3>2, <3>3, <3>4, <3>5 DEF OneTaskPerRequest
    <3>8. OneTaskPerRequest'
      BY <3>3, <3>4, <3>6, <3>7 DEF OneTaskPerRequest
    <3>9. AtMostOneReply' /\ NoTaskWithoutBus'
      BY <3>2, <3>3, <3>4 DEF AtMostOneReply, NoTaskWithoutBus
    <3>10. PlaceInv'
      BY <3>1, <3>2, <3>3, <3>4, <3>5 DEF PlaceInv
    <3> QED
      BY <3>8, <3>9, <3>10
  <2> QED
    BY <1>4, <2>1, <2>2, <2>3, <2>4 DEF Worker
<1>5. CASE UNCHANGED vars
  BY <1>5, <1>0 DEF vars, TypeOK
<1> QED
  BY <1>1, <1>2, <1>3, <1>4, <1>5 DEF Next

(* The part about results: what tasks came to, what the broker carries and *)
(* what callers were told.                                                 *)
LEMMA ResultStep == IInv /\ [Next]_vars => (VerdictInv /\ ReplyInv /\ ToldInv)'
<1> SUFFICES ASSUME IInv, [Next]_vars PROVE (VerdictInv /\ ReplyInv /\ ToldInv)'
  OBVIOUS
<1>t. TypeOK'
  BY TypeOKStep DEF IInv
<1> USE DEF serviceVars, callerVars, IInv
<1>0. ASSUME UNCHANGED verdict, replies' \subseteq replies,
             \A c \in Calls : verdict[c] \in Results => input'[c] = input[c]
      PROVE  VerdictInv' /\ ReplyInv'
  BY <1>0 DEF VerdictInv, ReplyInv, AnswerTo
<1>1. ASSUME NEW c \in Calls, Caller(c) PROVE (VerdictInv /\ ReplyInv /\ ToldInv)'
  <2>1. \A d \in Calls : verdict[d] \in Results => input'[d] = input[d]
    BY <1>1, ResultTypes DEF Caller, Call, Reject, ConnectFails, Send, SendFails,
       MaySend, Accept, Timeout, Finish, PlaceInv, TypeOK
  <2>2. UNCHANGED verdict /\ replies' \subseteq replies
    BY <1>1 DEF Caller, Call, Reject, ConnectFails, Send, SendFails, MaySend,
       Accept, Timeout, Finish
  <2>3. ASSUME NEW told \in Results \cup Failures, Finish(c, told)
        PROVE  ToldInv'
    BY <2>3, ResultTypes DEF Finish, ToldInv, TypeOK
  <2>4. ToldInv'
    <3>1. CASE Call(c)
      BY <3>1 DEF Call, ToldInv, TypeOK
    <3>2. CASE Send(c)
      BY <3>2 DEF Send, MaySend, ToldInv, TypeOK
    <3>3. CASE Reject(c) \/ ConnectFails(c) \/ SendFails(c) \/ Timeout(c)
      BY <3>3, <2>3, ResultTypes DEF Reject, ConnectFails, SendFails, Timeout
    <3>4. CASE Accept(c)
      BY <3>4, <2>3, ReplyType DEF Accept, TypeOK
    <3> QED
      BY <1>1, <3>1, <3>2, <3>3, <3>4 DEF Caller
  <2> QED
    BY <2>1, <2>2, <2>4, <1>0
<1>2. CASE Broker
  BY <1>2, <1>0 DEF Broker, LoseRequest, DropReply, ToldInv
<1>3. CASE Service
  <2>1. UNCHANGED <<verdict, replies, input, stage, got>>
    BY <1>3 DEF Service, Start, StartFails, Stop, Joined, DestroyPool, Exit, Crash, Terminate,
       Discover
  <2> QED
    BY <2>1, <1>0 DEF ToldInv
<1>4. ASSUME NEW w \in Workers, Worker(w) PROVE (VerdictInv /\ ReplyInv /\ ToldInv)'
  <2>1. UNCHANGED <<input, stage, got>>
    BY <1>4 DEF Worker, Take, Run, Escape, Terminate, ReplyTo, ReplyFails, Attempt
  <2>2. ToldInv'
    BY <2>1 DEF ToldInv
  <2>3. CASE Take(w) \/ ReplyFails(w)
    BY <2>1, <2>2, <2>3, <1>0 DEF Take, ReplyFails, Attempt
  <2>4. CASE Run(w) \/ Escape(w)
    <3> DEFINE c == exec[w]
    <3>1. c \in Calls /\ c \in Running /\ verdict[c] = None
      BY <2>4 DEF Run, Escape, Undecided, Running, TypeOK
    <3>2. PICK r : /\ r \in Outcomes(input[c]) \/ r = Escaped
                   /\ verdict' = [verdict EXCEPT ![c] = r]
      BY <2>4 DEF Run, Escape
    <3>3. UNCHANGED replies
      BY <2>4 DEF Run, Escape, Terminate
    <3>4. input[c].subject \in JobSubjects
      BY <3>1 DEF PlaceInv
    <3> HIDE DEF c
    <3>5. verdict'[c] = r /\ \A d \in Calls : d # c => verdict'[d] = verdict[d]
      BY <3>1, <3>2 DEF TypeOK
    <3>6. r \in Results => (input[c].payload = "bad" <=> r = ErrorResult(BadInput))
      BY <3>2, <3>4, ResultTypes DEF Outcomes
    <3>7. VerdictInv'
      BY <2>1, <3>4, <3>5, <3>6 DEF VerdictInv
    <3>8. ReplyInv'
      BY <3>1, <3>3, <3>5, ResultTypes DEF ReplyInv, AnswerTo
    <3> QED
      BY <2>2, <3>7, <3>8
  <2>5. CASE ReplyTo(w)
    <3>1. exec[w] \in Calls /\ verdict[exec[w]] \in Results /\ UNCHANGED verdict
          /\ replies' = replies \cup {AnswerTo(exec[w])}
      BY <2>5 DEF ReplyTo, Attempt, Decided, TypeOK
    <3> QED
      BY <2>1, <2>2, <3>1 DEF VerdictInv, ReplyInv, AnswerTo
  <2> QED
    BY <1>4, <2>3, <2>4, <2>5 DEF Worker
<1>5. CASE UNCHANGED vars
  BY <1>5, <1>0 DEF vars, ToldInv
<1> QED
  BY <1>1, <1>2, <1>3, <1>4, <1>5 DEF Next

(* The invariant the safety theorems rest on.                              *)
THEOREM Invariance == Spec => []IInv
<1>1. Init => IInv
  <2> SUFFICES ASSUME Init PROVE IInv
    OBVIOUS
  <2> USE DEF Init
  <2>1. TypeOK
    BY EmptyElems, ConstantsAssumption DEF TypeOK, Phases, Stages
  <2>2. Queued = {} /\ Running = {} /\ NoRepeats(queue)
    BY EmptyElems DEF Queued, Running
  <2>3. OneTaskPerRequest /\ AtMostOneReply /\ NoTaskWithoutBus /\ PlaceInv
    BY <2>2, NoneAssumption
       DEF OneTaskPerRequest, AtMostOneReply, NoTaskWithoutBus, PlaceInv
  <2>4. VerdictInv /\ ReplyInv /\ ToldInv
    BY ResultTypes DEF VerdictInv, ReplyInv, ToldInv
  <2> QED
    BY <2>1, <2>3, <2>4 DEF IInv
<1>2. IInv /\ [Next]_vars => IInv'
  BY TypeOKStep, PoolStep, ResultStep DEF IInv, PoolInv
<1> QED
  BY <1>1, <1>2, PTL DEF Spec

(***************************************************************************)
(* The properties.                                                         *)
(***************************************************************************)

(* No request is in two places and none is answered twice, however a reply  *)
(* fails and how often the service restarts.                                *)
THEOREM ServedOnce == Spec => []ServedAtMostOnce
BY Invariance, PTL DEF IInv, ServedAtMostOnce

(* No task is left when m_bus is destroyed, though requests are pushed to  *)
(* the stopped pool until then.                                            *)
THEOREM ShutdownIsClean == Spec => []NoTaskWithoutBus
BY Invariance, PTL DEF IInv

LEMMA AcceptOwn ==
    ASSUME FreshMessages, IInv, NEW c \in Calls, Accept(c)
    PROVE  /\ verdict[c] \in Results
           /\ got' = [got EXCEPT ![c] = verdict[c]]
<1>1. PICK r \in replies : Accepts(c, r) /\ Finish(c, FromMessageBus(r).res)
  BY DEF Accept
<1>2. PICK d \in Calls : verdict[d] \in Results /\ r = AnswerTo(d)
  BY <1>1 DEF IInv, ReplyInv
<1>3. FromMessageBus(r).res = verdict[d] /\ r.corr = MessageOf[d]
  BY <1>2, AnswerType DEF IInv
<1>4. d = c
  BY <1>1, <1>3 DEF Accepts, FreshMessages
<1> QED
  BY <1>1, <1>2, <1>3, <1>4 DEF Finish

LEMMA VerdictFinal ==
    ASSUME IInv, [Next]_vars
    PROVE  \A c \in Calls : verdict[c] # None => verdict'[c] = verdict[c]
<1>1. CASE UNCHANGED verdict
  BY <1>1
<1>2. CASE \E w \in Workers : Run(w) \/ Escape(w)
  BY <1>2 DEF Run, Escape, Undecided, IInv, TypeOK
<1> QED
  BY <1>1, <1>2 DEF Next, vars, Caller, Call, Reject, ConnectFails, Send,
     SendFails, Accept, Timeout, Finish, Broker, LoseRequest, DropReply,
     Service, Start, StartFails, Stop, Joined, DestroyPool, Exit, Crash, Terminate, Discover,
     Worker, Take, ReplyTo, ReplyFails, Attempt

LEMMA GotFinal ==
    ASSUME IInv, [Next]_vars
    PROVE  \A c \in Calls : got[c] # None => got'[c] = got[c]
<1>1. CASE UNCHANGED got
  BY <1>1
<1>2. ASSUME NEW c \in Calls, NEW told, Finish(c, told), stage[c] # "done"
      PROVE  \A d \in Calls : got[d] # None => got'[d] = got[d]
  BY <1>2 DEF Finish, IInv, TypeOK, ToldInv
<1>3. ASSUME NEW c \in Calls, Caller(c)
      PROVE  \A d \in Calls : got[d] # None => got'[d] = got[d]
  <2>1. CASE Call(c) \/ Send(c)
    BY <1>1, <2>1 DEF Call, Send
  <2>2. CASE Reject(c) \/ ConnectFails(c) \/ SendFails(c) \/ Accept(c) \/ Timeout(c)
    BY <1>2, <2>2 DEF Reject, ConnectFails, SendFails, MaySend, Accept, Accepts,
       Timeout
  <2> QED
    BY <1>3, <2>1, <2>2 DEF Caller
<1> QED
  BY <1>1, <1>3 DEF Next, vars, Broker, LoseRequest, DropReply, callerVars,
     Service, Start, StartFails, Stop, Joined, DestroyPool, Exit, Crash, Terminate, Discover,
     Worker, Take, Run, Escape, ReplyTo, ReplyFails, Attempt

(* What was decided and what was told stays: in particular a late reply    *)
(* does not replace a timeout.                                             *)
THEOREM Finality == Spec => ResultIsFinal
<1>1. IInv /\ [Next]_vars =>
        [\A c \in Calls :
            /\ got[c] # None => got'[c] = got[c]
            /\ verdict[c] # None => verdict'[c] = verdict[c]]_vars
  BY VerdictFinal, GotFinal
<1> QED
  BY <1>1, Invariance, PTL DEF Spec, ResultIsFinal

(* With a fresh Message per call nobody is given somebody else's answer,   *)
(* whatever actor names the callers share.                                 *)
THEOREM OwnAnswers ==
    ASSUME FreshMessages
    PROVE  Spec => []AnswerIsOwn
<1>1. Init => AnswerIsOwn
  BY ResultTypes DEF Init, AnswerIsOwn
<1>2. IInv /\ AnswerIsOwn /\ [Next]_vars => AnswerIsOwn'
  <2> SUFFICES ASSUME IInv, AnswerIsOwn, [Next]_vars,
                      NEW c \in Calls, got'[c] \in Results
               PROVE  got'[c] = verdict'[c]
    BY DEF AnswerIsOwn
  <2>1. CASE got'[c] = got[c]
    BY <2>1, VerdictFinal, ResultTypes DEF AnswerIsOwn
  <2>2. CASE got'[c] # got[c]
    <3>1. PICK d \in Calls : Caller(d)
      BY <2>2 DEF Next, vars, Broker, LoseRequest, DropReply, callerVars,
         Service, Start, StartFails, Stop, Joined, DestroyPool, Exit, Crash, Terminate,
         Discover, Worker, Take, Run, Escape, ReplyTo, ReplyFails, Attempt
    <3>2. CASE Accept(d)
      <4>1. verdict[d] \in Results /\ got' = [got EXCEPT ![d] = verdict[d]]
        BY <3>2, AcceptOwn
      <4>2. d = c /\ got'[c] = verdict[c]
        BY <4>1, <2>2 DEF IInv, TypeOK
      <4> QED
        BY <4>1, <4>2, VerdictFinal, ResultTypes
    <3>3. ASSUME NEW why \in {"rejected", "noBus", "sendFailed", "timeout"},
                 Finish(d, Failure(why))
          PROVE  FALSE
      BY <3>3, <2>2, ResultTypes DEF Finish, IInv, TypeOK
    <3> QED
      BY <3>1, <3>2, <3>3, <2>2
         DEF Caller, Call, Send, Reject, ConnectFails, SendFails, Timeout
  <2> QED
    BY <2>1, <2>2
<1> QED
  BY <1>1, <1>2, Invariance, PTL DEF Spec

(* An answer fits the request: it follows from the two before.             *)
THEOREM AnswersFit ==
    ASSUME FreshMessages
    PROVE  Spec => []AnswerFitsRequest
<1>1. IInv /\ AnswerIsOwn => AnswerFitsRequest
  BY DEF IInv, AnswerIsOwn, AnswerFitsRequest, VerdictInv
<1> QED
  BY <1>1, Invariance, OwnAnswers, PTL

(***************************************************************************)
(* Refinement.                                                             *)
(***************************************************************************)

LEMMA RefineCaller ==
    ASSUME FreshMessages, IInv, NEW c \in Calls, Caller(c)
    PROVE  [Abs!Next]_(Abs!absVars)
<1> USE DEF IInv, askedBar, resultBar, Abs!absVars, Abs!Next
<1>1. UNCHANGED resultBar
  BY DEF Caller, Call, Reject, ConnectFails, Send, SendFails, Accept, Timeout, Finish
<1>2. CASE Call(c)
  <2>1. askedBar' = askedBar \cup {c} /\ c \notin askedBar /\ UNCHANGED got
    BY <1>2 DEF Call, TypeOK
  <2> QED
    BY <1>1, <2>1 DEF Abs!Ask
<1>3. CASE Send(c)
  <2>1. UNCHANGED <<askedBar, got>>
    BY <1>3 DEF Send, MaySend, TypeOK
  <2> QED
    BY <1>1, <2>1
<1>4. ASSUME NEW told, Finish(c, told), stage[c] \in {"called", "waiting"}
      PROVE  /\ UNCHANGED askedBar
             /\ c \in askedBar
             /\ got[c] = None
             /\ got' = [got EXCEPT ![c] = told]
  BY <1>4 DEF Finish, ToldInv, TypeOK
<1>5. CASE Reject(c) \/ ConnectFails(c) \/ SendFails(c) \/ Timeout(c)
  <2>1. PICK why \in {"rejected", "noBus", "sendFailed", "timeout"} :
            Finish(c, Failure(why)) /\ stage[c] \in {"called", "waiting"}
    BY <1>5 DEF Reject, ConnectFails, SendFails, MaySend, Timeout
  <2> QED
    BY <1>1, <1>4, <2>1, ResultTypes DEF Abs!Fail
<1>6. CASE Accept(c)
  <2>1. PICK r \in replies :
            Finish(c, FromMessageBus(r).res) /\ stage[c] = "waiting"
    BY <1>6 DEF Accept, Accepts
  <2>2. verdict[c] \in Results /\ got' = [got EXCEPT ![c] = verdict[c]]
    BY <1>6, AcceptOwn
  <2>3. resultBar[c] = verdict[c] /\ verdict[c] # None
    BY <2>2, ResultTypes
  <2> QED
    BY <1>1, <1>4, <2>1, <2>2, <2>3 DEF Abs!Return
<1> QED
  BY <1>2, <1>3, <1>5, <1>6 DEF Caller

LEMMA RefineWorker ==
    ASSUME IInv, NEW w \in Workers, Worker(w)
    PROVE  [Abs!Next]_(Abs!absVars)
<1> USE DEF IInv, Abs!absVars, Abs!Next
<1>1. UNCHANGED <<askedBar, got>>
  BY DEF Worker, Take, Run, Escape, Terminate, ReplyTo, ReplyFails, Attempt,
     serviceVars, callerVars, askedBar
<1>2. CASE UNCHANGED verdict
  BY <1>1, <1>2 DEF resultBar
<1>3. CASE Run(w) \/ Escape(w)
  <2> DEFINE c == exec[w]
  <2>1. c \in Calls /\ c \in Running /\ verdict[c] = None
    BY <1>3 DEF Run, Escape, Undecided, Running, TypeOK
  <2>2. PICK r \in Results \cup {Escaped} : verdict' = [verdict EXCEPT ![c] = r]
    BY <1>3, ResultTypes DEF Run, Escape, Outcomes
  <2>3. c \in askedBar
    BY <2>1 DEF PlaceInv, askedBar
  <2> HIDE DEF c
  <2>4. CASE r = Escaped
    <3>1. resultBar' = resultBar
      BY <2>1, <2>2, <2>4, ResultTypes DEF resultBar, TypeOK
    <3> QED
      BY <1>1, <3>1
  <2>5. CASE r \in Results
    <3>1. resultBar[c] = None /\ resultBar' = [resultBar EXCEPT ![c] = r]
      BY <2>1, <2>2, <2>5, ResultTypes DEF resultBar, TypeOK
    <3> QED
      BY <1>1, <2>1, <2>3, <2>5, <3>1 DEF Abs!Serve
  <2> QED
    BY <2>4, <2>5
<1> QED
  BY <1>2, <1>3 DEF Worker, Take, ReplyTo, ReplyFails, Attempt

(* With fresh messages the callers, the broker, and a service that crashes *)
(* and restarts do nothing but what RequestReply promises.                 *)
THEOREM Refinement ==
    ASSUME FreshMessages
    PROVE  Spec => ImplementsRequestReply
<1>1. Init => Abs!Init
  BY ResultTypes DEF Init, Abs!Init, askedBar, resultBar
<1>2. IInv /\ [Next]_vars => [Abs!Next]_(Abs!absVars)
  <2> SUFFICES ASSUME IInv, [Next]_vars PROVE [Abs!Next]_(Abs!absVars)
    OBVIOUS
  <2>1. CASE Broker \/ Service \/ UNCHANGED vars
    <3>1. UNCHANGED <<stage, verdict, got>>
      BY <2>1 DEF Broker, LoseRequest, DropReply, Service, Start, StartFails,
         Stop, Joined, DestroyPool, Exit, Crash, Terminate, Discover, vars, callerVars
    <3> QED
      BY <3>1 DEF Abs!absVars, askedBar, resultBar
  <2> QED
    BY <2>1, RefineCaller, RefineWorker DEF Next
<1> QED
  BY <1>1, <1>2, Invariance, PTL DEF Spec, ImplementsRequestReply, Abs!Spec
===========================================================================
