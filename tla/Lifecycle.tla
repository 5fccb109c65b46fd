----------------------------- MODULE Lifecycle -----------------------------
(***************************************************************************)
(* The process around the dispatcher: main, Daemon and Config.             *)
(*                                                                         *)
(* Signals are handled on whichever thread the kernel picks, main's, a     *)
(* worker's or the bus library's.  SIGINT fires an event main waits for;   *)
(* SIGHUP reads the configuration file into the Config all workers look    *)
(* at, in the handler itself and without a lock.  fty::Event,              *)
(* fty::ThreadPool, pack and the jobs are external, the last up to what    *)
(* they read of the Config.                                                *)
(***************************************************************************)
EXTENDS Naturals, Sequences, FiniteSets

CONSTANTS
    Workers,      \* threads of m_pool
    Main,         \* the thread that runs main
    Listener,     \* the thread the bus library calls discover on
    Startup,      \* the load main itself does, in the table of loads
    LastVersion,  \* versions of the configuration file there will be
    Bad,          \* those a load may fail to deserialize, half saved, say
    Holds,        \* version -> the fields it has a key for
    MaxSignals,   \* how many signals are sent
    Torn,         \* a field that is being written
    None

Threads  == Workers \cup {Main, Listener}
Loaders  == Threads \cup {Startup}
Versions == 1..LastVersion

(* META(Config, ...): the order in which fields are read from the file.    *)
FieldsWithoutTryAll == <<"actorName", "logConfig", "mibDatabase">>

Fields == <<"actorName", "logConfig", "mibDatabase", "tryAll">>

FieldNames == {"actorName", "logConfig", "mibDatabase", "tryAll"}

(* A load under way: the version read, and the field it writes next.       *)
Loads == [version : Versions, next : 1..Len(Fields) + 1]

ASSUME LifecycleAssumption ==
    /\ Main \notin Workers /\ Listener \notin Workers \cup {Main}
    /\ Startup \notin Threads
    /\ IsFiniteSet(Workers)
    /\ LastVersion \in Nat \ {0} /\ MaxSignals \in Nat
    /\ Bad \subseteq Versions
    /\ Holds \in [Versions -> SUBSET FieldNames]
    /\ Torn \notin 0..LastVersion /\ None \notin 0..LastVersion \cup Loads

Places == {"start", "connect", "load", "snmp", "daemonize", "init",
           "run", "wait", "join", "exited"}

VARIABLES
    config,     \* Config::instance(): field -> version it is of, 0: default
    load,       \* loader -> its load under way, or None
    tangled,    \* the last load failed, or met another
    latest,     \* the version that load found, 0 before the first
    pc,         \* where main is
    ended,      \* None, or how the process ended
    handled,    \* signals that have a handler
    fired,      \* the stop event: None, "early" (before the wait), "heard",
                \* or "missed", when wait() did not notice an early one
    resetting,  \* threads in Daemon::stop after the event
    sent,       \* signals sent
    reloaded,   \* SIGHUP was one of them
    swallowed,  \* SIGINTs the handler was called for
    database,   \* the MIB database SNMP was initialised with
    pool,       \* its threads: to be made "later", "made", or "lost"
    pending,    \* a request waits in its queue
    job,        \* worker -> what its job is doing
    seen,       \* worker -> what it read of the Config
    apart,      \* workers whose job met a load, or what a tangled one left
    litter      \* a directory was left in /tmp

configVars == <<config, load, tangled, latest>>
signalVars == <<handled, fired, resetting, sent, reloaded, swallowed>>
jobVars    == <<pool, pending, job, seen, apart, litter>>
mainVars   == <<pc, ended, database>>
vars == <<configVars, signalVars, jobVars, mainVars>>

Values == 0..LastVersion \cup {Torn}

(* The bus has been connected (or the process is over).                    *)
HasBus == pc \in {"run", "wait", "join", "exited"}

(* Threads there are to run a handler.                                     *)
Running ==
    {Main} \cup (IF HasBus THEN {Listener} ELSE {})
           \cup (IF pool = "made" THEN Workers ELSE {})

ConfigTypes ==
    /\ config \in [FieldNames -> 0..LastVersion]
    /\ load \in [Loaders -> Loads \cup {None}]
    /\ tangled \in BOOLEAN /\ latest \in 0..LastVersion

SignalTypes ==
    /\ handled \subseteq {"INT", "HUP"}
    /\ fired \in {None, "early", "heard", "missed"}
    /\ sent \in 0..MaxSignals /\ reloaded \in BOOLEAN
    /\ swallowed \in 0..MaxSignals

JobTypes ==
    /\ pool \in {"later", "made", "lost"} /\ pending \in BOOLEAN /\ litter \in BOOLEAN
    /\ job \in [Workers -> {"idle", "mibs", "driver", "running", "stuck"}]
    /\ seen \in [Workers -> [mibDatabase : Values \cup {None}, tryAll : Values \cup {None}]]
    /\ apart \subseteq Workers

MainTypes ==
    /\ pc \in Places
    /\ ended \in {None, "clean", "failure", "killed"}
    /\ database \in Values \cup {None}

(* Only threads there are handle signals and do jobs.                      *)
ThreadTypes ==
    /\ resetting \subseteq Running
    /\ \A t \in Threads \ Running : load[t] = None
    /\ \A w \in Workers \ Running : job[w] = "idle"

TypeOK == ConfigTypes /\ SignalTypes /\ JobTypes /\ MainTypes /\ ThreadTypes

Nothing == [mibDatabase |-> None, tryAll |-> None]

Init ==
    /\ config = [f \in FieldNames |-> 0]
    /\ load = [l \in Loaders |-> None] /\ tangled = FALSE /\ latest = 0
    /\ pc = "start" /\ ended = None
    /\ handled = {} /\ fired = None /\ resetting = {}
    /\ sent = 0 /\ reloaded = FALSE /\ swallowed = 0
    /\ database = None
    /\ pool = "later" /\ pending = FALSE /\ litter = FALSE
    /\ job = [w \in Workers |-> "idle"]
    /\ seen = [w \in Workers |-> Nothing]
    /\ apart = {}

Alive    == pc # "exited"
Serving  == pc \in {"run", "wait", "join"}
Reading(w) == job[w] \in {"mibs", "driver"}

(* The process ends.  What the jobs had in /tmp stays there.               *)
Exit(how) ==
    /\ pc' = "exited" /\ ended' = how
    /\ litter' = \E w \in Workers : job[w] # "idle"

(***************************************************************************)
(* Config: reading the file.                                               *)
(***************************************************************************)

Loading == \E l \in Loaders : load[l] # None

(* Whatever the file holds by now.                                         *)
BeginLoad(l) ==
    /\ \E v \in Versions :
        /\ load' = [load EXCEPT ![l] = [version |-> v, next |-> 1]]
        /\ latest' = v
    /\ tangled' = Loading
    /\ apart' = apart \cup {w \in Workers : Reading(w)}

(* A field whose turn it is, and that the file has a key for.              *)
Writes(l, f) ==
    /\ load[l] # None /\ load[l].next <= Len(Fields)
    /\ Fields[load[l].next] = f /\ f \in Holds[load[l].version]

AssignOnce(l) ==
    /\ load[l] # None /\ load[l].next <= Len(Fields)
    /\ config' = [f \in FieldNames |->
                    IF Writes(l, f) /\ config[f] = 0 THEN load[l].version
                    ELSE config[f]]
    /\ load' = [load EXCEPT ![l].next = @ + 1]
    /\ UNCHANGED <<tangled, latest>>

(* One field after the other.  One the file has no key for is left as it   *)
(* is: the default, or what an earlier load, a bad one too, has made of it.*)
Assign(l) ==
    /\ load[l] # None /\ load[l].next <= Len(Fields)
    /\ config' = [f \in FieldNames |->
                    IF Writes(l, f) THEN load[l].version ELSE config[f]]
    /\ load' = [load EXCEPT ![l].next = @ + 1]
    /\ UNCHANGED <<tangled, latest>>

(* What a reader may find: while the field is being written, anything.     *)
Found(f) == {config[f]} \cup {Torn : l \in {k \in Loaders : Writes(k, f)}}

Loaded(l) ==
    /\ load[l] # None /\ load[l].next > Len(Fields)
    /\ load' = [load EXCEPT ![l] = None]
    /\ UNCHANGED <<config, tangled, latest>>

LoadFailsRetried(l) ==
    /\ load[l] # None
    /\ load[l].version \in Bad
    /\ load' = [load EXCEPT ![l].next = 1]
    /\ tangled' = TRUE
    /\ UNCHANGED <<config, latest>>

(* The deserializer gives up, which it may do halfway.                     *)
LoadFails(l) ==
    /\ load[l] # None
    /\ load[l].version \in Bad
    /\ load' = [load EXCEPT ![l] = None]
    /\ tangled' = TRUE
    /\ UNCHANGED <<config, latest>>

(***************************************************************************)
(* main.                                                                   *)
(***************************************************************************)

(* main goes on only when no handler runs on its thread.                   *)
At(place) == pc = place /\ load[Main] = None /\ Main \notin resetting

Goto(place) == pc' = place /\ UNCHANGED ended

Fail == Exit("failure")

(* The Discovery object: its pool first, then the handlers.                *)
Construct ==
    /\ At("start")
    /\ pool' \in {"later", "made"}
    /\ handled' = {"INT", "HUP"}
    /\ Goto("connect")
    /\ UNCHANGED <<configVars, fired, resetting, sent, reloaded, swallowed,
                   pending, job, seen, apart, litter, database>>

(* The slots of both events.  Until here a signal is handled for nobody.   *)
Connect ==
    /\ At("connect")
    /\ BeginLoad(Startup)
    /\ Goto("load")
    /\ UNCHANGED <<config, signalVars, pool, pending, job, seen,
                   litter, database>>

Connected == pc \notin {"start", "connect"}

(* loadConfig, in main.                                                    *)
LoadStep ==
    /\ At("load")
    /\ \/ Assign(Startup) /\ Goto("load") /\ UNCHANGED litter
       \/ Loaded(Startup) /\ Goto("snmp") /\ UNCHANGED litter
       \/ LoadFails(Startup) /\ Fail
    /\ UNCHANGED <<signalVars, pool, pending, job, seen, apart, database>>

InitSnmpEarly ==
    /\ At("snmp")
    /\ database' = 0
    /\ \E daemon \in BOOLEAN : Goto(IF daemon THEN "daemonize" ELSE "init")
    /\ UNCHANGED <<configVars, signalVars, jobVars>>

InitSnmp ==
    /\ At("snmp")
    /\ database' \in Found("mibDatabase")
    /\ \E daemon \in BOOLEAN : Goto(IF daemon THEN "daemonize" ELSE "init")
    /\ UNCHANGED <<configVars, signalVars, jobVars>>

DaemonizeKeepsHandlers ==
    /\ At("daemonize")
    /\ pool' = IF pool = "made" THEN "lost" ELSE pool
    /\ Goto("init")
    /\ UNCHANGED <<configVars, signalVars, pending, job, seen, apart, litter,
                   database>>

(* Two forks.  The child that is left has only the thread that forked: the *)
(* pool's threads are gone, and a handler that ran on one is never done.   *)
Daemonize ==
    /\ At("daemonize")
    /\ pool' = IF pool = "made" THEN "lost" ELSE pool
    /\ load' = [l \in Loaders |-> None]
    /\ tangled' = (tangled \/ Loading)
    /\ resetting' = {}
    /\ Goto("init")
    /\ UNCHANGED <<config, latest, handled, fired, sent, reloaded, swallowed,
                   pending, job, seen, apart, litter, database>>

DaemonizeFails ==
    /\ At("daemonize")
    /\ Fail
    /\ UNCHANGED <<configVars, signalVars, pool, pending, job, seen,
                   apart, database>>

(* Connecting to the bus, which makes its thread, and subscribing, either  *)
(* of which may fail.                                                      *)
InitBus ==
    /\ At("init")
    /\ \/ Goto("run") /\ UNCHANGED litter
       \/ Fail
    /\ UNCHANGED <<configVars, signalVars, pool, pending, job, seen,
                   apart, database>>

(* stop.wait(), which may or may not notice that the event was fired.      *)
Wait ==
    /\ At("run")
    /\ \/ Goto("wait") /\ fired' = IF fired = "early" THEN "missed" ELSE fired
       \/ fired = "early" /\ Goto("join") /\ UNCHANGED fired
    /\ UNCHANGED <<configVars, handled, resetting, sent, reloaded, swallowed, jobVars,
                   database>>

Wake ==
    /\ At("wait") /\ fired = "heard"
    /\ Goto("join")
    /\ UNCHANGED <<configVars, signalVars, jobVars, database>>

(* shutdown: the pool has joined its workers.                              *)
JoinedAnyway == TRUE

JoinedWithQueue == ~pending /\ \A w \in Workers : job[w] = "idle"

Joined == \A w \in Workers : job[w] = "idle"

Shutdown ==
    /\ At("join") /\ Joined
    /\ Exit("clean")
    /\ UNCHANGED <<configVars, signalVars, pool, pending, job, seen,
                   apart, database>>

(***************************************************************************)
(* Signals.                                                                *)
(***************************************************************************)

Send == Alive /\ sent < MaxSignals /\ sent' = sent + 1

(* SIGTERM has no handler, and the others have none at first; nor has      *)
(* SIGINT once it was handled.                                             *)
Kill(s) ==
    /\ Send /\ s \notin handled
    /\ Exit("killed")
    /\ UNCHANGED <<configVars, handled, fired, resetting, reloaded, swallowed,
                   pool, pending, job, seen, apart, database>>

(* A signal is blocked on the thread that handles it, and only there.      *)
Interrupt(t) ==
    /\ "INT" \in handled /\ t \in Running \ resetting
    /\ Send
    /\ swallowed' = swallowed + 1
    /\ fired' = IF ~Connected THEN fired
                ELSE IF pc \in {"wait", "join"} THEN "heard" ELSE "early"
    /\ resetting' = resetting \cup {t}
    /\ UNCHANGED <<configVars, handled, reloaded, jobVars, mainVars>>

ResetInterruptNever(t) ==
    /\ t \in resetting /\ Alive
    /\ resetting' = resetting \ {t}
    /\ UNCHANGED <<configVars, handled, fired, sent, reloaded, swallowed,
                   jobVars, mainVars>>

ResetInterrupt(t) ==
    /\ t \in resetting /\ Alive
    /\ handled' = handled \ {"INT"}
    /\ resetting' = resetting \ {t}
    /\ UNCHANGED <<configVars, fired, sent, reloaded, swallowed, jobVars,
                   mainVars>>

Reload(t) ==
    /\ "HUP" \in handled /\ t \in Running /\ load[t] = None
    /\ Send /\ reloaded' = TRUE
    /\ IF Connected
       THEN BeginLoad(t)
       ELSE UNCHANGED <<load, tangled, latest, apart>>
    /\ UNCHANGED <<config, handled, fired, resetting, swallowed,
                   pool, pending, job, seen, litter, mainVars>>

ReloadStep(t) ==
    /\ Alive
    /\ Assign(t) \/ Loaded(t) \/ LoadFails(t)
    /\ UNCHANGED <<signalVars, jobVars, mainVars>>

(***************************************************************************)
(* Jobs, as far as they read the Config.  An assets job of a device without*)
(* an object id reads it twice: MibsReader::read asks whether to try all,  *)
(* nut::Process tells the driver of the MIB database.                      *)
(***************************************************************************)

(* discover, on the listener's thread, when no handler runs on it.         *)
Request ==
    /\ pc \in {"run", "wait"} /\ ~pending
    /\ load[Listener] = None /\ Listener \notin resetting
    /\ pending' = TRUE
    /\ UNCHANGED <<configVars, signalVars, pool, job, seen, apart,
                   litter, mainVars>>

(* No handler runs on the worker's thread.                                 *)
Works(w, doing) ==
    Alive /\ job[w] = doing /\ load[w] = None /\ w \notin resetting

(* A pool that is not eager makes its threads for the first task.          *)
Take(w) ==
    /\ Works(w, "idle") /\ pending
    /\ pool # "lost" /\ pc # "join"
    /\ pool' = "made" /\ pending' = FALSE
    /\ job' = [job EXCEPT ![w] = "mibs"]
    /\ apart' = IF Loading \/ tangled THEN apart \cup {w} ELSE apart \ {w}
    /\ UNCHANGED <<configVars, signalVars, seen, litter, mainVars>>

Read(w, doing, field, next) ==
    /\ Works(w, doing)
    /\ \E v \in Found(field) : seen' = [seen EXCEPT ![w][field] = v]
    /\ job' = [job EXCEPT ![w] = next]
    /\ UNCHANGED <<configVars, signalVars, pool, pending, apart,
                   litter, mainVars>>

ReadTryAll(w)   == Read(w, "mibs", "tryAll", "driver")
ReadDatabase(w) == Read(w, "driver", "mibDatabase", "running")

(* Some jobs never end (MibsReader.tla, AssetsJob.tla).                    *)
EndJob(w) ==
    /\ Works(w, "running")
    /\ \/ /\ job' = [job EXCEPT ![w] = "idle"]
          /\ seen' = [seen EXCEPT ![w] = Nothing]
       \/ job' = [job EXCEPT ![w] = "stuck"] /\ UNCHANGED seen
    /\ UNCHANGED <<configVars, signalVars, pool, pending, apart, litter, mainVars>>

(***************************************************************************)

MainStep ==
    \/ Construct \/ Connect \/ LoadStep \/ InitSnmp \/ Daemonize \/ DaemonizeFails
    \/ InitBus \/ Wait \/ Wake \/ Shutdown

Handler(t) == ResetInterrupt(t) \/ ReloadStep(t)

Signal ==
    \/ \E s \in {"INT", "HUP", "TERM"} : Kill(s)
    \/ \E t \in Threads : Interrupt(t) \/ Reload(t)

Job(w) == Take(w) \/ ReadTryAll(w) \/ ReadDatabase(w) \/ EndJob(w)

Next ==
    \/ MainStep \/ Signal \/ Request
    \/ \E t \in Threads : Handler(t)
    \/ \E w \in Workers : Job(w)

Spec == Init /\ [][Next]_vars

(* The threads and the handlers on them run.  Nobody has to send a signal, *)
(* edit the file or ask for anything.                                      *)
FairSpec ==
    /\ Spec
    /\ WF_vars(MainStep)
    /\ \A t \in Threads : WF_vars(Handler(t))
    /\ \A w \in Workers : WF_vars(Job(w))

(***************************************************************************)
(* Properties.                                                             *)
(***************************************************************************)

(* When the last load ran alone and to the end, the Config is that load's  *)
(* version of the file in every field this version has a key for: none of  *)
(* them is half written or of another load.                                *)
QuietConfigIsWhole ==
    Connected /\ Alive /\ ~Loading /\ ~tangled =>
        /\ latest \in Versions
        /\ \A f \in Holds[latest] : config[f] = latest

(* What a job read of the Config in two places is what one version of the  *)
(* file says, as far as it says anything, unless a signal made it be read  *)
(* again meanwhile, or an earlier load was tangled.                        *)
OneVersion(read) ==
    \E v \in Versions : \A f \in {"tryAll", "mibDatabase"} :
        read[f] # Torn /\ (f \in Holds[v] => read[f] = v)

JobSeesOneConfig ==
    \A w \in Workers : job[w] \in {"running", "stuck"} /\ w \notin apart =>
        OneVersion(seen[w])

(* The driver is given the MIB database the reader works with, SNMP's,     *)
(* which is initialised once.  A reload only changes the driver's.         *)
OneDatabase ==
    \A w \in Workers : job[w] \in {"running", "stuck"} /\ ~reloaded =>
        seen[w].mibDatabase = database

(* Main returns after its jobs have: directories in /tmp are only left by  *)
(* a process that was killed.                                              *)
OnlyKillsLitter == litter => ended = "killed"

(* Threads there have been: main's, the bus's once it is connected, the    *)
(* pool's once they are made, though the forks may lose them.              *)
Made ==
    {Main} \cup (IF HasBus THEN {Listener} ELSE {})
           \cup (IF pool # "later" THEN Workers ELSE {})

(* However badly it is stuck, no more SIGINTs than there have been threads *)
(* to handle one at once fail to kill the process.                         *)
InterruptsGetThrough == swallowed <= Cardinality(Made)

(* The inductive invariant: what the five rest on.                         *)

(* Nothing but its own writes has touched what an untangled load wrote.    *)
LoadInv == ~tangled =>
    \A l \in Loaders : load[l] # None =>
        /\ \A k \in Loaders : load[k] # None => k = l
        /\ load[l].version = latest
        /\ \A i \in 1..(load[l].next - 1) :
            Fields[i] \in Holds[latest] => config[Fields[i]] = latest

(* What main has to have done before.                                      *)
OrderInv ==
    /\ pc = "start" => handled = {} /\ resetting = {} /\ swallowed = 0
    /\ pc \in {"start", "connect"} => ~Loading
    /\ load[Startup] # None => pc \in {"load", "exited"}
    /\ pending \/ (\E w \in Workers : job[w] # "idle") => Serving \/ ~Alive

(* A job that meets no load reads the Config as it stays meanwhile.        *)
ReadInv == \A w \in Workers \ apart :
    /\ Reading(w) => ~Loading /\ ~tangled
    /\ job[w] = "driver" => seen[w].tryAll = config["tryAll"]

(* Without SIGHUP nothing is loaded but by main, before it reads itself.   *)
DatabaseInv == ~reloaded =>
    /\ \A t \in Threads : load[t] = None
    /\ pc \in {"daemonize", "init"} \/ Serving => database = config["mibDatabase"]

(* Each SIGINT that is swallowed keeps a thread in its handler, until the  *)
(* first of them is done; those of the pool may be lost on the way.        *)
SwallowInv ==
    /\ swallowed <= sent
    /\ "INT" \in handled =>
        IF pool = "lost"
        THEN swallowed <= Cardinality(Workers) + Cardinality(resetting)
        ELSE swallowed <= Cardinality(resetting)

IInv ==
    /\ TypeOK /\ LoadInv /\ OrderInv /\ ReadInv /\ DatabaseInv /\ SwallowInv
    /\ QuietConfigIsWhole /\ JobSeesOneConfig /\ OneDatabase /\ OnlyKillsLitter
    /\ InterruptsGetThrough

(* A SIGINT ends the service: unless a job is stuck, or wait() does not    *)
(* notice that the event was fired before it.                              *)
Stuck == \E w \in Workers : job[w] = "stuck"

InterruptEndsService ==
    fired \in {"early", "heard"} ~> (~Alive \/ Stuck \/ fired = "missed")

(* Requests are taken as long as the service is neither stopped nor stuck, *)
(* daemon or not: unless the pool was made before the forks and lost.      *)
RequestIsTaken ==
    pending /\ pool # "lost" ~> ~pending \/ pc \in {"join", "exited"} \/ Stuck
=============================================================================
