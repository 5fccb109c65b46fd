---------------------------- MODULE Discovery ----------------------------
(***************************************************************************)
(* The request path of fty-discovery-ng, end to end:                       *)
(*                                                                         *)
(*   caller (a REST handler, or any user of disco::MessageBus)             *)
(*     -> Malamute mailbox of the service -> Discovery::discover           *)
(*     -> fty::ThreadPool -> disco::Task::operator() -> reply              *)
(*     -> Malamute -> the caller blocked in MessageBus::send.              *)
(*                                                                         *)
(* The service starts, is stopped by SIGINT, is killed, and is restarted   *)
(* by systemd, at any time; requests and replies may be lost by the        *)
(* broker; a caller stops waiting after ten seconds.  What a job computes  *)
(* is left open here: Protocols.tla and MibsReader.tla open it up.         *)
(***************************************************************************)
EXTENDS Naturals, Sequences, DiscoMessage

CONSTANTS
    Calls,        \* calls of MessageBus::send
    RestCalls,    \* those made by the REST handlers
    Buses,        \* MessageBus objects on the calling side
    BusOf,        \* call -> the bus object it is sent through
    NameOf,       \* bus -> the actor name it connected with
    MessageOf,    \* call -> the Message object it sends
    Workers,      \* threads of Discovery::m_pool
    Inputs,       \* requests: subject and payload
    Outputs,      \* what a job may produce
    Errors,       \* what a job may complain about
    BadInput,     \* the complaint about the payload itself
    MaxStarts,    \* bound: starts of the service
    None

JobSubjects == {"protocols", "mibs", "assets"}

OkResult(out)    == [status |-> "ok", body |-> out]
ErrorResult(err) == [status |-> "error", body |-> err]

Results ==
    {OkResult(out) : out \in Outputs} \cup {ErrorResult(err) : err \in Errors}

(* What a caller is told when the bus, and not the service, fails it.      *)
Failure(why) == [status |-> "failed", body |-> why]
Failures ==
    {Failure(why) : why \in {"rejected", "noBus", "sendFailed", "timeout"}}

(* A job that ends with an exception other than Error has no result.       *)
Escaped == [status |-> "escaped", body |-> "exception"]

Names    == {NameOf[b] : b \in Buses}
Messages == {MessageOf[c] : c \in Calls}

(* The request an Inputs element stands for: a subject some job may or may *)
(* not serve, and a payload that decodes ("good") or does not ("bad":      *)
(* empty or malformed).                                                    *)
ASSUME ConstantsAssumption ==
    /\ RestCalls \subseteq Calls
    /\ BusOf \in [Calls -> Buses]
    /\ Buses = DOMAIN NameOf
    /\ Calls = DOMAIN MessageOf
    /\ \A in \in Inputs : in.payload \in {"good", "bad"}
    /\ BadInput \in Errors
    /\ MaxStarts \in Nat

ASSUME NoneAssumption ==
    /\ None \notin Calls \cup Inputs
    /\ None \notin Results \cup Failures \cup {Escaped}

VARIABLES
    phase,    \* of the service, see Phases
    starts,   \* how often it was started
    mailbox,  \* calls whose request waits in the broker for the service
    queue,    \* tasks of the pool not taken yet
    exec,     \* worker -> the call whose task it runs
    verdict,  \* call -> what its task came to
    sent,     \* call -> replies attempted for it
    replies,  \* replies waiting in the broker, as messagebus::Message
    stage,    \* call -> idle, called, waiting, done
    input,    \* call -> its request
    got       \* call -> what its caller was told

serviceVars == <<phase, starts, queue, exec>>
callerVars  == <<stage, input, got>>
vars == <<phase, starts, mailbox, queue, exec, verdict, sent, replies,
          stage, input, got>>

(* Not running; in run(); in shutdown(); shutdown() has returned; m_pool   *)
(* has been destroyed and m_bus not yet.                                   *)
Phases == {"down", "up", "stopping", "ended", "leaving"}
Stages == {"idle", "called", "waiting", "done"}
Replies == [corr : Messages, to : Names, res : Results]
Reply == {ToMessageBus(m) : m \in Replies}

TypeOK ==
    /\ phase \in Phases
    /\ starts \in 0..MaxStarts
    /\ mailbox \subseteq Calls
    /\ queue \in Seq(Calls)
    /\ exec \in [Workers -> Calls \cup {None}]
    /\ verdict \in [Calls -> Results \cup {None, Escaped}]
    /\ sent \in [Calls -> Nat]
    /\ replies \subseteq Reply
    /\ stage \in [Calls -> Stages]
    /\ input \in [Calls -> Inputs \cup {None}]
    /\ got \in [Calls -> Results \cup Failures \cup {None}]

Init ==
    /\ phase = "down"
    /\ starts = 0
    /\ mailbox = {}
    /\ queue = <<>>
    /\ exec = [w \in Workers |-> None]
    /\ verdict = [c \in Calls |-> None]
    /\ sent = [c \in Calls |-> 0]
    /\ replies = {}
    /\ stage = [c \in Calls |-> "idle"]
    /\ input = [c \in Calls |-> None]
    /\ got = [c \in Calls |-> None]

(***************************************************************************)
(* The calling side.                                                       *)
(***************************************************************************)

(* A REST handler always names a job; only the body it received may fail   *)
(* to decode.  Other users of the bus send what they like.                 *)
Call(c) ==
    /\ stage[c] = "idle"
    /\ \E in \in Inputs :
        /\ c \in RestCalls => in.subject \in JobSubjects
        /\ input' = [input EXCEPT ![c] = in]
    /\ stage' = [stage EXCEPT ![c] = "called"]
    /\ UNCHANGED <<serviceVars, mailbox, verdict, sent, replies, got>>

Finish(c, told) ==
    /\ stage' = [stage EXCEPT ![c] = "done"]
    /\ got' = [got EXCEPT ![c] = told]
    /\ UNCHANGED <<serviceVars, mailbox, verdict, sent, input>>

(* No permission, or the body is not a document of the command.            *)
Reject(c) ==
    /\ c \in RestCalls
    /\ stage[c] = "called"
    /\ Finish(c, Failure("rejected"))
    /\ UNCHANGED replies

(* MessageBus::init of the handler's own bus fails.                        *)
ConnectFails(c) ==
    /\ c \in RestCalls
    /\ stage[c] = "called"
    /\ input[c].payload = "good"
    /\ Finish(c, Failure("noBus"))
    /\ UNCHANGED replies

(* MessageBus::m_mutex is held for the whole of send, the wait included.   *)
BusFree(c) == \A d \in Calls : BusOf[d] = BusOf[c] => stage[d] # "waiting"

MaySend(c) ==
    /\ stage[c] = "called"
    /\ c \in RestCalls => input[c].payload = "good"
    /\ BusFree(c)

Send(c) ==
    /\ MaySend(c)
    /\ mailbox' = mailbox \cup {c}
    /\ stage' = [stage EXCEPT ![c] = "waiting"]
    /\ UNCHANGED <<serviceVars, verdict, sent, replies, input, got>>

SendFails(c) ==
    /\ MaySend(c)
    /\ Finish(c, Failure("sendFailed"))
    /\ UNCHANGED replies

(* The reply a blocked caller is woken by: sent to its actor name, with    *)
(* the correlation id of the message it is sending.  The id is generated   *)
(* once per Message object and kept when the object is sent again, so the  *)
(* object itself stands for it.                                            *)
AcceptsAnyCorrelation(c, r) ==
    /\ stage[c] = "waiting"
    /\ r.to = NameOf[BusOf[c]]

AcceptsAfterReturn(c, r) ==
    /\ stage[c] # "idle"
    /\ r.to = NameOf[BusOf[c]]
    /\ r.corr = MessageOf[c]

Accepts(c, r) ==
    /\ stage[c] = "waiting"
    /\ r.to = NameOf[BusOf[c]]
    /\ r.corr = MessageOf[c]

Accept(c) ==
    \E r \in replies :
        /\ Accepts(c, r)
        /\ Finish(c, FromMessageBus(r).res)
        /\ replies' = replies \ {r}

TimeoutNever(c) == FALSE

(* request gives up after ten seconds.  Time is not modelled: the timeout  *)
(* may come before or after any step of anybody else.                      *)
Timeout(c) ==
    /\ stage[c] = "waiting"
    /\ Finish(c, Failure("timeout"))
    /\ UNCHANGED replies

(***************************************************************************)
(* The broker may lose a request, or drop a reply: nobody of that name is  *)
(* connected any more, or the one who is waits for another correlation id. *)
(***************************************************************************)

LoseRequest(c) ==
    /\ c \in mailbox
    /\ mailbox' = mailbox \ {c}
    /\ UNCHANGED <<serviceVars, callerVars, verdict, sent, replies>>

DropReply(r) ==
    /\ r \in replies
    /\ replies' = replies \ {r}
    /\ UNCHANGED <<serviceVars, callerVars, mailbox, verdict, sent>>

(***************************************************************************)
(* The service: main, Discovery, Daemon.                                   *)
(***************************************************************************)

Start ==
    /\ phase = "down"
    /\ starts < MaxStarts
    /\ starts' = starts + 1
    /\ phase' = "up"
    /\ UNCHANGED <<callerVars, mailbox, queue, exec, verdict, sent, replies>>

(* loadConfig, MessageBus::init or subsribe fails: main returns.           *)
StartFails ==
    /\ phase = "down"
    /\ starts < MaxStarts
    /\ starts' = starts + 1
    /\ UNCHANGED <<callerVars, phase, mailbox, queue, exec, verdict, sent, replies>>

(* Discovery::discover, on the bus's listener thread, looks at the subject *)
(* and at nothing else.  The subscription is only dropped with m_bus, so   *)
(* requests are pushed to a pool that stops, has stopped or is no more.    *)
Dispatches(c) == input[c].subject \in JobSubjects

HasPool == phase \in {"up", "stopping", "ended"}

PutKeepsRequest(c) ==
    /\ queue' = IF Dispatches(c) /\ HasPool THEN Append(queue, c) ELSE queue
    /\ mailbox' = mailbox

(* A task pushed to a pool that is destroyed has no thread that could run  *)
(* it: the request is gone, or (Crash) the process is.                     *)
Put(c) ==
    /\ queue' = IF Dispatches(c) /\ HasPool THEN Append(queue, c) ELSE queue
    /\ mailbox' = mailbox \ {c}

Discover(c) ==
    /\ c \in mailbox
    /\ phase # "down"
    /\ Put(c)
    /\ UNCHANGED <<callerVars, phase, starts, exec, verdict, sent, replies>>

(* SIGINT: stopEvent wakes run(); main goes on to shutdown().              *)
Stop ==
    /\ phase = "up"
    /\ phase' = "stopping"
    /\ UNCHANGED <<callerVars, starts, mailbox, queue, exec, verdict, sent, replies>>

(* m_pool.stop() has joined the workers.  The pool is not part of this     *)
(* repository: what is queued it may have run, may keep, or forget.        *)
Joined ==
    /\ phase = "stopping"
    /\ \A w \in Workers : exec[w] = None
    /\ phase' = "ended"
    /\ queue' \in {queue, <<>>}
    /\ UNCHANGED <<callerVars, starts, mailbox, exec, verdict, sent, replies>>

(* Returning from main destroys the members of Discovery from the last to  *)
(* the first, m_pool before m_bus, and a pool does not go before its       *)
(* threads.  Declared the other way round, m_bus would go first.           *)
DestroyBusFirst ==
    /\ phase = "ended"
    /\ phase' = "leaving"
    /\ UNCHANGED <<callerVars, starts, mailbox, queue, exec, verdict, sent, replies>>

DestroyPool ==
    /\ phase = "ended"
    /\ \A w \in Workers : exec[w] = None
    /\ phase' = "leaving"
    /\ queue' = <<>>
    /\ UNCHANGED <<callerVars, starts, mailbox, exec, verdict, sent, replies>>

Terminate ==
    /\ phase' = "down"
    /\ queue' = <<>>
    /\ exec' = [w \in Workers |-> None]
    /\ UNCHANGED <<callerVars, starts, mailbox, sent, replies>>

(* m_bus is destroyed, main returns.                                       *)
Exit == phase = "leaving" /\ Terminate /\ UNCHANGED verdict

(* SIGTERM, a second SIGINT, a call into the pool DestroyPool destroyed.   *)
Crash == phase # "down" /\ Terminate /\ UNCHANGED verdict

(***************************************************************************)
(* The pool's workers.                                                     *)
(***************************************************************************)

(* A pool that was stopped may still run what is pushed to it, or not:     *)
(* nothing says that it does (Fairness).                                   *)
Take(w) ==
    /\ HasPool
    /\ exec[w] = None
    /\ queue # <<>>
    /\ exec' = [exec EXCEPT ![w] = Head(queue)]
    /\ queue' = Tail(queue)
    /\ UNCHANGED <<callerVars, phase, starts, mailbox, verdict, sent, replies>>

Undecided(w) == HasPool /\ exec[w] # None /\ verdict[exec[w]] = None

(* What Task::operator() can come to for a request: an undecodable payload *)
(* never reaches the job.                                                  *)
Outcomes(in) ==
    IF in.payload = "bad"
    THEN {ErrorResult(BadInput)}
    ELSE Results \ {ErrorResult(BadInput)}

Run(w) ==
    /\ Undecided(w)
    /\ \E r \in Outcomes(input[exec[w]]) :
        verdict' = [verdict EXCEPT ![exec[w]] = r]
    /\ UNCHANGED <<serviceVars, callerVars, mailbox, sent, replies>>

(* The job throws something Task::operator() does not catch.  It leaves    *)
(* without a reply: the pool swallows the exception, or the process dies.  *)
EscapeLosesWorker(w) ==
    /\ Undecided(w)
    /\ input[exec[w]].payload = "good"
    /\ verdict' = [verdict EXCEPT ![exec[w]] = Escaped]
    /\ UNCHANGED <<serviceVars, callerVars, mailbox, sent, replies>>

Escape(w) ==
    /\ Undecided(w)
    /\ input[exec[w]].payload = "good"
    /\ verdict' = [verdict EXCEPT ![exec[w]] = Escaped]
    /\ \/ /\ exec' = [exec EXCEPT ![w] = None]
          /\ UNCHANGED <<callerVars, phase, starts, mailbox, queue, sent, replies>>
       \/ Terminate

Decided(w) == HasPool /\ exec[w] # None /\ verdict[exec[w]] \in Results

(* MessageBus::reply copies the request's correlation id and swaps its     *)
(* from and to.                                                            *)
AnswerToSelf(c) ==
    ToMessageBus(
        [corr |-> MessageOf[c], to |-> "discovery-ng", res |-> verdict[c]])

AnswerTo(c) ==
    ToMessageBus(
        [corr |-> MessageOf[c], to |-> NameOf[BusOf[c]], res |-> verdict[c]])

(* One attempt, whatever comes of it; the task ends and the worker is free *)
Release(w) == exec' = [exec EXCEPT ![w] = None]

Attempt(w) ==
    /\ Decided(w)
    /\ sent' = [sent EXCEPT ![exec[w]] = @ + 1]
    /\ Release(w)
    /\ UNCHANGED <<callerVars, phase, starts, mailbox, queue, verdict>>

ReplyTo(w) == Attempt(w) /\ replies' = replies \cup {AnswerTo(exec[w])}

(* sendReply throws: the error is only logged.                             *)
ReplyFails(w) == Attempt(w) /\ UNCHANGED replies

(***************************************************************************)

Caller(c) ==
    \/ Call(c) \/ Reject(c) \/ ConnectFails(c) \/ Send(c) \/ SendFails(c)
    \/ Accept(c) \/ Timeout(c)

Broker == (\E c \in Calls : LoseRequest(c)) \/ (\E r \in replies : DropReply(r))

Worker(w) == Take(w) \/ Run(w) \/ Escape(w) \/ ReplyTo(w) \/ ReplyFails(w)

Service ==
    \/ Start \/ StartFails \/ Stop \/ Joined \/ DestroyPool \/ Exit \/ Crash
    \/ \E c \in Calls : Discover(c)

Next ==
    \/ \E c \in Calls : Caller(c)
    \/ Broker
    \/ Service
    \/ \E w \in Workers : Worker(w)

Spec == Init /\ [][Next]_vars

(***************************************************************************)
(* Fairness.  The operating system runs the workers, the listener thread   *)
(* and the clock that ends a request's wait; a task is assumed to come to  *)
(* an end (MibsReader.tla says when it does not).  A pool takes tasks until *)
(* it is stopped, and main goes on from each call that returns.  Nothing   *)
(* is assumed of the broker, of signals, of a stopped pool, or of callers  *)
(* that have not called.                                                   *)
(***************************************************************************)

Fairness ==
    /\ \A c \in Calls :
        /\ WF_vars(Reject(c) \/ ConnectFails(c) \/ Send(c) \/ SendFails(c))
        /\ WF_vars(Timeout(c))
    /\ \A w \in Workers :
        /\ WF_vars(phase = "up" /\ Take(w))
        /\ WF_vars(Run(w) \/ Escape(w))
        /\ WF_vars(ReplyTo(w) \/ ReplyFails(w))
    /\ WF_vars(Joined) /\ WF_vars(DestroyPool) /\ WF_vars(Exit)

FairSpec == Spec /\ Fairness

(***************************************************************************)
(* Properties.                                                             *)
(***************************************************************************)

(* No Message object is sent twice: what every REST handler does.          *)
FreshMessages == \A c, d \in Calls : MessageOf[c] = MessageOf[d] => c = d

(* The result a caller is given is the one its own request came to, though *)
(* the REST handlers all connect as "discovery_rest", late replies are     *)
(* still about, and the service may have been restarted in between.        *)
AnswerIsOwn == \A c \in Calls : got[c] \in Results => got[c] = verdict[c]

(* The answer fits the request that was made: only the three subjects of   *)
(* Discovery::discover are ever answered, and an undecodable payload is    *)
(* answered by the complaint about it, whoever else is being answered.     *)
AnswerFitsRequest ==
    \A c \in Calls : got[c] \in Results =>
        /\ input[c].subject \in JobSubjects
        /\ input[c].payload = "bad" <=> got[c] = ErrorResult(BadInput)

(* A task attempts one reply: neither the catch block nor a restart makes  *)
(* a request be answered again.                                            *)
AtMostOneReply == \A c \in Calls : sent[c] <= 1

Elems(s) == {s[i] : i \in DOMAIN s}
NoRepeats(s) == \A i, j \in DOMAIN s : s[i] = s[j] => i = j

Queued == Elems(queue)
Running == {exec[w] : w \in Workers} \ {None}

(* A request is in one place: in the mailbox, in one slot of the pool's    *)
(* queue or with one worker, and nowhere once it was replied to.           *)
OneTaskPerRequest ==
    /\ NoRepeats(queue)
    /\ \A v, w \in Workers : exec[v] = exec[w] /\ exec[v] # None => v = w
    /\ mailbox \cap Queued = {}
    /\ mailbox \cap Running = {}
    /\ Queued \cap Running = {}
    /\ \A c \in mailbox \cup Queued \cup Running : sent[c] = 0

(* A task keeps a pointer to the dispatcher's m_bus, and requests arrive   *)
(* until m_bus is destroyed, after m_pool.stop() has returned too.  None   *)
(* of them is waiting or running when m_bus is destroyed: m_pool, declared *)
(* after it, has gone before.                                              *)
NoTaskWithoutBus ==
    phase \in {"leaving", "down"} => queue = <<>> /\ Running = {}

(* Over crashes, restarts and failed replies a request is served once.     *)
ServedAtMostOnce == OneTaskPerRequest /\ AtMostOneReply

(***************************************************************************)
(* The inductive invariant the properties above follow from.               *)
(***************************************************************************)

(* A request that is somewhere in the service was really sent, and waits   *)
(* undecided until a worker runs it.                                       *)
PlaceInv ==
    /\ \A c \in mailbox \cup Queued \cup Running : stage[c] \in {"waiting", "done"}
    /\ \A c \in mailbox \cup Queued : verdict[c] = None
    /\ \A c \in Queued \cup Running : input[c].subject \in JobSubjects
    /\ \A c \in Calls :
        stage[c] \in {"idle", "called"} => verdict[c] = None /\ sent[c] = 0

(* What a task came to fits the request.                                   *)
VerdictInv ==
    \A c \in Calls : verdict[c] \in Results =>
        /\ input[c].subject \in JobSubjects
        /\ input[c].payload = "bad" <=> verdict[c] = ErrorResult(BadInput)

(* Every reply in the broker answers some request, with its result.        *)
ReplyInv == \A r \in replies :
    \E c \in Calls : verdict[c] \in Results /\ r = AnswerTo(c)

ToldInv == \A c \in Calls : stage[c] = "done" <=> got[c] # None

IInv ==
    /\ TypeOK
    /\ OneTaskPerRequest
    /\ AtMostOneReply
    /\ NoTaskWithoutBus
    /\ PlaceInv
    /\ VerdictInv
    /\ ReplyInv
    /\ ToldInv

(* What a caller was told and what a task came to are final: a reply that  *)
(* comes after the timeout changes nothing for the caller.                 *)
ResultIsFinal ==
    [][\A c \in Calls :
        /\ got[c] # None => got'[c] = got[c]
        /\ verdict[c] # None => verdict'[c] = verdict[c]]_vars

(* Every caller comes back, whatever becomes of the service and of the     *)
(* messages, also when it queues for the mutex of a bus in use.            *)
EveryCallReturns ==
    \A c \in Calls : stage[c] = "called" ~> stage[c] = "done"

(* A task that was pushed to the pool is served, in spite of the tasks     *)
(* before it: it is replied to or ends with an exception, unless the       *)
(* service stops.                                                          *)
QueuedIsServed ==
    \A c \in Calls :
        c \in Queued ~> sent[c] = 1 \/ verdict[c] = Escaped \/ phase # "up"

(* Stopping ends the process, though requests are still dispatched while   *)
(* the workers are joined and after that, and may even be run.             *)
StopCompletes == phase = "stopping" ~> phase = "down"

(* discovery.h calls stop the event "to stop discovery message             *)
(* dispatcher": once it was raised nothing would be dispatched.            *)
StopStopsDispatcher == [][phase # "up" => Len(queue') <= Len(queue)]_vars

(***************************************************************************)
(* The abstract service.                                                   *)
(***************************************************************************)

askedBar  == {c \in Calls : stage[c] # "idle"}
resultBar == [c \in Calls |-> IF verdict[c] \in Results THEN verdict[c] ELSE None]

Abs == INSTANCE RequestReply WITH asked <- askedBar, result <- resultBar

(* Callers, broker and service together do nothing the abstract service    *)
(* does not allow, when messages are fresh.                                *)
ImplementsRequestReply == Abs!Spec
===========================================================================
