-------------------------- MODULE LifecycleProofs --------------------------
(* Theorems about Lifecycle, for every number of workers, signals and       *)
(* versions of the configuration.                                           *)
EXTENDS Lifecycle, TLAPS, FiniteSetTheorems

(* The fields of Config, to each of which a load comes once.                *)
LEMMA FieldsFacts ==
    /\ Len(Fields) = 4
    /\ \A i \in 1..4 : Fields[i] \in FieldNames
    /\ \A f \in FieldNames : \E i \in 1..4 : Fields[i] = f
<1>1. /\ Len(Fields) = 4
      /\ Fields[1] = "actorName" /\ Fields[2] = "logConfig"
      /\ Fields[3] = "mibDatabase" /\ Fields[4] = "tryAll"
  BY DEF Fields
<1>2. \A i \in 1..4 : i \in {1, 2, 3, 4}
  OBVIOUS
<1> QED
  BY <1>1, <1>2 DEF FieldNames

(* None is not a load, so a load under way can be told from none.           *)
LEMMA LoadFacts ==
    ASSUME TypeOK, NEW l \in Loaders, load[l] # None
    PROVE  /\ load[l].version \in Versions
           /\ load[l].next \in 1..5
BY FieldsFacts DEF TypeOK, ConfigTypes, Loads

(***************************************************************************)
(* Type correctness.                                                       *)
(***************************************************************************)

(* A load that begins is one.                                               *)
LEMMA BeginLoadFacts ==
    ASSUME TypeOK, NEW l \in Loaders, BeginLoad(l)
    PROVE  /\ load' \in [Loaders -> Loads \cup {None}]
           /\ load'[l] # None
           /\ \A k \in Loaders \ {l} : load'[k] = load[k]
           /\ load'[l].next = 1
           /\ load'[l].version = latest'
           /\ latest' \in 0..LastVersion
           /\ tangled' = Loading
           /\ apart' = apart \cup {w \in Workers : Reading(w)}
<1>1. PICK v \in Versions :
        load' = [load EXCEPT ![l] = [version |-> v, next |-> 1]] /\ latest' = v
  BY DEF BeginLoad
<1>2. [version |-> v, next |-> 1] \in Loads /\ v \in 0..LastVersion
  BY FieldsFacts, LifecycleAssumption DEF Loads, Versions
<1>3. None \notin Loads
  BY LifecycleAssumption
<1> QED
  BY <1>1, <1>2, <1>3 DEF TypeOK, ConfigTypes, BeginLoad

(* A field that is read holds a version, or is torn.                        *)
LEMMA FoundType ==
    ASSUME TypeOK, NEW f \in FieldNames
    PROVE  Found(f) \subseteq Values
BY DEF TypeOK, ConfigTypes, Found, Values

(* One step of a load keeps the Config and the loads what they are.         *)
LEMMA AssignFacts ==
    ASSUME TypeOK, NEW l \in Loaders, Assign(l)
    PROVE  /\ \A f \in FieldNames :
                config'[f] = IF Writes(l, f) THEN load[l].version ELSE config[f]
           /\ config' \in [FieldNames -> 0..LastVersion]
           /\ load[l].next \in 1..4 /\ load[l].version \in Versions
           /\ load' \in [Loaders -> Loads \cup {None}]
           /\ \A k \in Loaders : load'[k] = None <=> load[k] = None
           /\ \A k \in Loaders \ {l} : load'[k] = load[k]
           /\ load'[l].next = load[l].next + 1
           /\ load'[l].version = load[l].version
           /\ UNCHANGED <<tangled, latest>>
<1>1. load[l] \in Loads /\ load[l].version \in Versions /\ load[l].next \in 1..4
  BY FieldsFacts, LoadFacts DEF TypeOK, ConfigTypes, Assign
<1> DEFINE r == [load[l] EXCEPT !.next = load[l].next + 1]
<1>2. r \in Loads /\ r.next = load[l].next + 1 /\ r.version = load[l].version
  BY <1>1, FieldsFacts DEF Loads
<1>3. load' = [load EXCEPT ![l] = r]
  BY DEF Assign
<1>4. load[l].version \in 0..LastVersion
  BY <1>1, LifecycleAssumption DEF Versions
<1>5. config' = [f \in FieldNames |->
                    IF Writes(l, f) THEN load[l].version ELSE config[f]]
  BY DEF Assign
<1>7. config' \in [FieldNames -> 0..LastVersion]
  BY <1>4, <1>5 DEF TypeOK, ConfigTypes
<1>8. None \notin Loads /\ load[l] # None
  BY LifecycleAssumption DEF Assign
<1> HIDE DEF r
<1>9. /\ load' \in [Loaders -> Loads \cup {None}]
      /\ \A k \in Loaders : load'[k] = None <=> load[k] = None
      /\ \A k \in Loaders \ {l} : load'[k] = load[k]
      /\ load'[l] = r
  BY <1>2, <1>3, <1>8 DEF TypeOK, ConfigTypes
<1> QED
  BY <1>1, <1>2, <1>5, <1>7, <1>9 DEF Assign

(* A load that ends, well or not, is gone.                                  *)
LEMMA EndLoadFacts ==
    ASSUME TypeOK, NEW l \in Loaders, Loaded(l) \/ LoadFails(l)
    PROVE  /\ load' = [load EXCEPT ![l] = None]
           /\ load' \in [Loaders -> Loads \cup {None}]
           /\ load[l] # None
           /\ UNCHANGED <<config, latest>>
           /\ tangled' \in BOOLEAN
BY DEF TypeOK, ConfigTypes, Loaded, LoadFails

LEMMA LoaderFacts ==
    /\ Threads \subseteq Loaders /\ Startup \in Loaders /\ Startup \notin Threads
    /\ Main \in Threads /\ Workers \subseteq Threads /\ Listener \in Threads
    /\ Listener # Main /\ Listener \notin Workers /\ Main \notin Workers
BY LifecycleAssumption DEF Threads, Loaders

(* All that happens to the Config.                                          *)
LEMMA ConfigSteps ==
    ASSUME [Next]_vars
    PROVE  \/ UNCHANGED configVars
           \/ \E l \in Loaders :
                \/ BeginLoad(l) /\ UNCHANGED config
                \/ Assign(l) \/ Loaded(l) \/ LoadFails(l)
           \/ Daemonize
<1> USE DEF configVars
<1>1. CASE MainStep
  <2>1. CASE Construct \/ InitSnmp \/ DaemonizeFails \/ InitBus \/ Wait \/ Wake \/ Shutdown
    BY <2>1 DEF Construct, InitSnmp, DaemonizeFails, InitBus, Wait, Wake, Shutdown
  <2>2. CASE Connect
    BY <2>2, LoaderFacts DEF Connect
  <2>3. CASE LoadStep
    BY <2>3, LoaderFacts DEF LoadStep
  <2> QED
    BY <1>1, <2>1, <2>2, <2>3 DEF MainStep
<1>2. CASE Signal
  <2>1. ASSUME NEW s \in {"INT", "HUP", "TERM"}, Kill(s) PROVE UNCHANGED configVars
    BY <2>1 DEF Kill
  <2>2. ASSUME NEW t \in Threads, Interrupt(t) PROVE UNCHANGED configVars
    BY <2>2 DEF Interrupt
  <2>3. ASSUME NEW t \in Threads, Reload(t)
        PROVE  UNCHANGED configVars \/ (BeginLoad(t) /\ UNCHANGED config)
    BY <2>3 DEF Reload
  <2> QED
    BY <1>2, <2>1, <2>2, <2>3, LoaderFacts DEF Signal
<1>3. CASE Request
  BY <1>3 DEF Request
<1>4. ASSUME NEW t \in Threads, Handler(t)
      PROVE  UNCHANGED configVars \/ Assign(t) \/ Loaded(t) \/ LoadFails(t)
  BY <1>4 DEF Handler, ResetInterrupt, ReloadStep
<1>5. ASSUME NEW w \in Workers, Job(w) PROVE UNCHANGED configVars
  BY <1>5 DEF Job, Take, ReadTryAll, ReadDatabase, Read, EndJob
<1>6. CASE UNCHANGED vars
  BY <1>6 DEF vars
<1> QED
  BY <1>1, <1>2, <1>3, <1>4, <1>5, <1>6, LoaderFacts DEF Next

LEMMA InitTypeOK == Init => TypeOK
<1> SUFFICES ASSUME Init PROVE TypeOK
  OBVIOUS
<1>0. 0 \in 0..LastVersion /\ 0 \in 0..MaxSignals
  BY LifecycleAssumption
<1>1. ConfigTypes
  BY <1>0 DEF Init, ConfigTypes
<1>2. SignalTypes /\ MainTypes
  BY <1>0 DEF Init, SignalTypes, MainTypes, Places
<1>3. JobTypes
  BY DEF Init, JobTypes, Nothing
<1>4. ThreadTypes
  BY LoaderFacts DEF Init, ThreadTypes, Running
<1> QED
  BY <1>1, <1>2, <1>3, <1>4 DEF TypeOK

LEMMA ConfigTypesStep == TypeOK /\ [Next]_vars => ConfigTypes'
<1> SUFFICES ASSUME TypeOK, [Next]_vars PROVE ConfigTypes'
  OBVIOUS
<1>1. CASE UNCHANGED configVars
  BY <1>1 DEF configVars, TypeOK, ConfigTypes
<1>2. ASSUME NEW l \in Loaders, BeginLoad(l), UNCHANGED config PROVE ConfigTypes'
  BY <1>2, BeginLoadFacts DEF TypeOK, ConfigTypes, Loading
<1>3. ASSUME NEW l \in Loaders, Assign(l) PROVE ConfigTypes'
  BY <1>3, AssignFacts DEF TypeOK, ConfigTypes
<1>4. ASSUME NEW l \in Loaders, Loaded(l) \/ LoadFails(l) PROVE ConfigTypes'
  BY <1>4, EndLoadFacts DEF TypeOK, ConfigTypes
<1>5. CASE Daemonize
  BY <1>5 DEF Daemonize, TypeOK, ConfigTypes, Loading
<1> QED
  BY <1>1, <1>2, <1>3, <1>4, <1>5, ConfigSteps

(* SwallowInv counts the handlers under way, of which each was sent.        *)
LEMMA SignalTypesStep == TypeOK /\ SwallowInv /\ [Next]_vars => SignalTypes'
<1> SUFFICES ASSUME TypeOK, SwallowInv, [Next]_vars PROVE SignalTypes'
  OBVIOUS
<1> USE DEF TypeOK, SignalTypes
<1>0. /\ sent \in Nat /\ MaxSignals \in Nat /\ swallowed \in Nat
      /\ sent < MaxSignals => sent + 1 \in 0..MaxSignals
      /\ sent < MaxSignals => swallowed + 1 \in 0..MaxSignals
  BY LifecycleAssumption DEF SwallowInv
<1>1. CASE MainStep
  <2>1. CASE Construct
    BY <2>1 DEF Construct
  <2>2. CASE Connect \/ LoadStep \/ InitSnmp \/ DaemonizeFails \/ InitBus \/ Wake \/ Shutdown
    BY <2>2 DEF Connect, LoadStep, InitSnmp, DaemonizeFails, InitBus, Wake, Shutdown,
                signalVars
  <2>3. CASE Daemonize \/ Wait
    BY <2>3 DEF Daemonize, Wait
  <2> QED
    BY <1>1, <2>1, <2>2, <2>3 DEF MainStep
<1>2. CASE Signal
  <2>1. ASSUME NEW s \in {"INT", "HUP", "TERM"}, Kill(s) PROVE SignalTypes'
    BY <2>1, <1>0 DEF Kill, Send
  <2>2. ASSUME NEW t \in Threads, Interrupt(t) PROVE SignalTypes'
    BY <2>2, <1>0 DEF Interrupt, Send
  <2>3. ASSUME NEW t \in Threads, Reload(t) PROVE SignalTypes'
    BY <2>3, <1>0 DEF Reload, Send
  <2> QED
    BY <1>2, <2>1, <2>2, <2>3 DEF Signal
<1>3. CASE Request
  BY <1>3 DEF Request, signalVars
<1>4. ASSUME NEW t \in Threads, Handler(t) PROVE SignalTypes'
  BY <1>4 DEF Handler, ResetInterrupt, ReloadStep, signalVars
<1>5. ASSUME NEW w \in Workers, Job(w) PROVE SignalTypes'
  BY <1>5 DEF Job, Take, ReadTryAll, ReadDatabase, Read, EndJob, signalVars
<1>6. CASE UNCHANGED vars
  BY <1>6 DEF vars, signalVars
<1> QED
  BY <1>1, <1>2, <1>3, <1>4, <1>5, <1>6 DEF Next

LEMMA MainTypesStep == TypeOK /\ [Next]_vars => MainTypes'
<1> SUFFICES ASSUME TypeOK, [Next]_vars PROVE MainTypes'
  OBVIOUS
<1> USE DEF TypeOK, MainTypes, Goto, Fail, Exit, At, Places
<1>1. CASE MainStep
  <2>1. CASE InitSnmp
    BY <2>1, FoundType DEF InitSnmp, FieldNames
  <2>2. CASE Construct \/ Connect \/ LoadStep \/ Daemonize \/ DaemonizeFails \/ InitBus
             \/ Wait \/ Wake \/ Shutdown
    BY <2>2 DEF Construct, Connect, LoadStep, Daemonize, DaemonizeFails, InitBus, Wait,
                Wake, Shutdown
  <2> QED
    BY <1>1, <2>1, <2>2 DEF MainStep
<1>2. CASE Signal
  BY <1>2 DEF Signal, Kill, Interrupt, Reload, mainVars
<1>3. CASE Request
  BY <1>3 DEF Request, mainVars
<1>4. ASSUME NEW t \in Threads, Handler(t) PROVE MainTypes'
  BY <1>4 DEF Handler, ResetInterrupt, ReloadStep, mainVars
<1>5. ASSUME NEW w \in Workers, Job(w) PROVE MainTypes'
  BY <1>5 DEF Job, Take, ReadTryAll, ReadDatabase, Read, EndJob, mainVars
<1>6. CASE UNCHANGED vars
  BY <1>6 DEF vars, mainVars
<1> QED
  BY <1>1, <1>2, <1>3, <1>4, <1>5, <1>6 DEF Next

LEMMA JobTypesStep == TypeOK /\ [Next]_vars => JobTypes'
<1> SUFFICES ASSUME TypeOK, [Next]_vars PROVE JobTypes'
  OBVIOUS
<1> USE DEF TypeOK, JobTypes
<1>1. CASE MainStep
  <2>1. CASE Connect
    BY <2>1, LoaderFacts, BeginLoadFacts DEF Connect
  <2>2. CASE Construct \/ LoadStep \/ InitSnmp \/ Daemonize \/ DaemonizeFails \/ InitBus
             \/ Wait \/ Wake \/ Shutdown
    BY <2>2 DEF Construct, LoadStep, InitSnmp, Daemonize, DaemonizeFails, InitBus, Wait,
                Wake, Shutdown, Fail, Exit, jobVars
  <2> QED
    BY <1>1, <2>1, <2>2 DEF MainStep
<1>2. CASE Signal
  <2>1. ASSUME NEW s \in {"INT", "HUP", "TERM"}, Kill(s) PROVE JobTypes'
    BY <2>1 DEF Kill, Exit
  <2>2. ASSUME NEW t \in Threads, Interrupt(t) PROVE JobTypes'
    BY <2>2 DEF Interrupt, jobVars
  <2>3. ASSUME NEW t \in Threads, Reload(t) PROVE JobTypes'
    BY <2>3, LoaderFacts, BeginLoadFacts DEF Reload
  <2> QED
    BY <1>2, <2>1, <2>2, <2>3 DEF Signal
<1>3. CASE Request
  BY <1>3 DEF Request
<1>4. ASSUME NEW t \in Threads, Handler(t) PROVE JobTypes'
  BY <1>4 DEF Handler, ResetInterrupt, ReloadStep, jobVars
<1>5. ASSUME NEW w \in Workers, Job(w) PROVE JobTypes'
  <2>1. CASE Take(w)
    BY <2>1 DEF Take
  <2>2. ASSUME NEW field \in {"tryAll", "mibDatabase"}, NEW v \in Found(field)
        PROVE  [seen EXCEPT ![w][field] = v] \in
                    [Workers -> [mibDatabase : Values \cup {None}, tryAll : Values \cup {None}]]
    <3>1. v \in Values
      BY FoundType DEF FieldNames
    <3>2. CASE field = "tryAll"
      BY <3>1, <3>2
    <3>3. CASE field = "mibDatabase"
      BY <3>1, <3>3
    <3> QED
      BY <3>2, <3>3
  <2>3. ASSUME NEW doing, NEW field \in {"tryAll", "mibDatabase"},
               NEW next \in {"driver", "running"}, Read(w, doing, field, next)
        PROVE  JobTypes'
    <3>1. seen' \in [Workers -> [mibDatabase : Values \cup {None}, tryAll : Values \cup {None}]]
      BY <2>2, <2>3 DEF Read
    <3>2. /\ job' \in [Workers -> {"idle", "mibs", "driver", "running", "stuck"}]
          /\ UNCHANGED <<pool, pending, apart, litter>>
      BY <2>3 DEF Read
    <3> QED
      BY <3>1, <3>2
  <2>4. CASE EndJob(w)
    BY <2>4 DEF EndJob, Nothing
  <2> QED
    BY <1>5, <2>1, <2>3, <2>4 DEF Job, ReadTryAll, ReadDatabase
<1>6. CASE UNCHANGED vars
  BY <1>6 DEF vars, jobVars
<1> QED
  BY <1>1, <1>2, <1>3, <1>4, <1>5, <1>6 DEF Next

(* Once there is a bus, it stays as long as the process.                    *)
LEMMA BusStays == [Next]_vars => (HasBus => HasBus')
<1> SUFFICES ASSUME [Next]_vars, HasBus PROVE HasBus'
  OBVIOUS
<1> USE DEF HasBus
<1>1. CASE MainStep
  BY <1>1 DEF MainStep, Construct, Connect, LoadStep, InitSnmp, Daemonize, DaemonizeFails,
              InitBus, Wait, Wake, Shutdown, At, Goto, Fail, Exit
<1>2. CASE Signal
  BY <1>2 DEF Signal, Kill, Interrupt, Reload, Exit, mainVars
<1>3. CASE UNCHANGED pc
  BY <1>3
<1> QED
  BY <1>1, <1>2, <1>3 DEF Next, Request, Handler, ResetInterrupt, ReloadStep, Job, Take,
     ReadTryAll, ReadDatabase, Read, EndJob, mainVars, vars

(* The pool's threads come and go before there are jobs, or handlers run on *)
(* them.                                                                    *)
LEMMA ThreadTypesStep == TypeOK /\ OrderInv /\ [Next]_vars => ThreadTypes'
<1> SUFFICES ASSUME TypeOK, OrderInv, [Next]_vars PROVE ThreadTypes'
  OBVIOUS
<1> USE DEF ThreadTypes
<1>0. ThreadTypes
  BY DEF TypeOK
<1>r. Main \in Running /\ (pool' = pool => Running \subseteq Running')
  BY BusStays DEF Running
<1>1. CASE MainStep
  <2>1. CASE Construct
    BY <2>1, <1>0, LoaderFacts DEF Construct, At, OrderInv, Loading, Serving, Alive, configVars
  <2>2. CASE Connect
    BY <2>2, <1>0, <1>r, LoaderFacts, BeginLoadFacts DEF Connect, signalVars
  <2>3. CASE LoadStep
    <3>1. UNCHANGED <<pool, job, resetting>>
      BY <2>3 DEF LoadStep, signalVars
    <3>2. \A k \in Threads : load'[k] = load[k]
      BY <2>3, LoaderFacts, AssignFacts, EndLoadFacts DEF LoadStep, TypeOK, ConfigTypes
    <3> QED
      BY <1>0, <1>r, <3>1, <3>2
  <2>4. CASE Daemonize
    BY <2>4, <1>0, LoaderFacts DEF Daemonize, At, OrderInv, Serving, Alive
  <2>5. CASE InitSnmp \/ DaemonizeFails \/ InitBus \/ Wait \/ Wake \/ Shutdown
    BY <2>5, <1>0, <1>r DEF InitSnmp, DaemonizeFails, InitBus, Wait, Wake, Shutdown, configVars,
                signalVars, jobVars
  <2> QED
    BY <1>1, <2>1, <2>2, <2>3, <2>4, <2>5 DEF MainStep
<1>2. CASE Signal
  <2>1. ASSUME NEW s \in {"INT", "HUP", "TERM"}, Kill(s) PROVE ThreadTypes'
    BY <2>1, <1>0, <1>r DEF Kill, configVars
  <2>2. ASSUME NEW t \in Threads, Interrupt(t) PROVE ThreadTypes'
    BY <2>2, <1>0, <1>r DEF Interrupt, configVars, jobVars
  <2>3. ASSUME NEW t \in Threads, Reload(t) PROVE ThreadTypes'
    BY <2>3, <1>0, <1>r, LoaderFacts, BeginLoadFacts DEF Reload
  <2> QED
    BY <1>2, <2>1, <2>2, <2>3 DEF Signal
<1>3. CASE Request
  BY <1>3, <1>0, <1>r DEF Request, configVars, signalVars
<1>4. ASSUME NEW t \in Threads, Handler(t) PROVE ThreadTypes'
  <2>1. CASE ResetInterrupt(t)
    BY <2>1, <1>0, <1>r DEF ResetInterrupt, configVars, jobVars
  <2>2. CASE ReloadStep(t)
    <3>1. UNCHANGED <<pool, job, resetting>>
      BY <2>2 DEF ReloadStep, signalVars, jobVars
    <3>2. \A k \in Threads : load[k] = None => load'[k] = None
      BY <2>2, LoaderFacts, AssignFacts, EndLoadFacts DEF ReloadStep, TypeOK, ConfigTypes
    <3> QED
      BY <1>0, <1>r, <3>1, <3>2
  <2> QED
    BY <1>4, <2>1, <2>2 DEF Handler
<1>5. ASSUME NEW w \in Workers, Job(w) PROVE ThreadTypes'
  <2>1. CASE Take(w)
    <3>1. Running \subseteq Running' /\ Workers \subseteq Running'
      BY <2>1, BusStays DEF Take, Running
    <3> QED
      BY <2>1, <1>0, <3>1, LoaderFacts DEF Take, configVars, signalVars
  <2>2. CASE ReadTryAll(w) \/ ReadDatabase(w) \/ EndJob(w)
    <3>1. w \in Running
      BY <2>2, <1>0, <1>r DEF ReadTryAll, ReadDatabase, Read, EndJob, Works
    <3>2. UNCHANGED <<configVars, signalVars, pool>>
          /\ \A k \in Workers \ {w} : job'[k] = job[k]
      BY <2>2 DEF ReadTryAll, ReadDatabase, Read, EndJob, TypeOK, JobTypes
    <3> QED
      BY <1>0, <1>r, <3>1, <3>2 DEF configVars, signalVars
  <2> QED
    BY <1>5, <2>1, <2>2 DEF Job
<1>6. CASE UNCHANGED vars
  BY <1>6, <1>0, <1>r DEF vars, configVars, signalVars, jobVars
<1> QED
  BY <1>1, <1>2, <1>3, <1>4, <1>5, <1>6 DEF Next

LEMMA TypeOKStep == TypeOK /\ OrderInv /\ SwallowInv /\ [Next]_vars => TypeOK'
BY ConfigTypesStep, SignalTypesStep, MainTypesStep, JobTypesStep, ThreadTypesStep DEF TypeOK

(***************************************************************************)
(* The Config.                                                             *)
(***************************************************************************)

(* A load alone writes every field its version has: when it is done and     *)
(* nothing went wrong, all of these are of that version.                    *)
LEMMA LoadInvStep ==
    ASSUME TypeOK, LoadInv, [Next]_vars
    PROVE  LoadInv'
<1> USE DEF LoadInv
<1>1. CASE UNCHANGED configVars
  BY <1>1 DEF configVars
<1>2. ASSUME NEW l \in Loaders, BeginLoad(l), UNCHANGED config PROVE LoadInv'
  <2> SUFFICES ASSUME ~tangled' PROVE LoadInv'
    OBVIOUS
  <2>1. load'[l].next - 1 = 0 /\ tangled' = Loading
    BY <1>2, BeginLoadFacts
  <2>2. \A i \in 1..(load'[l].next - 1) : FALSE
    BY <2>1
  <2>3. \A k \in Loaders : load'[k] # None => k = l
    BY <1>2, <2>1, BeginLoadFacts DEF Loading
  <2>4. load'[l].version = latest'
    BY <1>2, BeginLoadFacts
  <2> QED
    BY <2>2, <2>3, <2>4
<1>3. ASSUME NEW l \in Loaders, Assign(l), ~tangled PROVE LoadInv'
  <2>0. load[l] # None
    BY <1>3 DEF Assign
  <2>1. \A k \in Loaders : load'[k] # None => k = l
    BY <1>3, <2>0, AssignFacts
  <2>2. ASSUME NEW i \in 1..(load'[l].next - 1)
        PROVE  Fields[i] \in Holds[latest] => config'[Fields[i]] = latest
    <3>1. i \in 1..4 /\ load[l].next \in 1..4 /\ i <= load[l].next
      BY <1>3, AssignFacts
    <3>2. Fields[i] \in FieldNames /\ load[l].version = latest
      BY <1>3, <2>0, <3>1, FieldsFacts
    <3>3. config'[Fields[i]] = IF Writes(l, Fields[i]) THEN latest ELSE config[Fields[i]]
      BY <1>3, <3>2, AssignFacts
    <3>4. CASE i = load[l].next
      BY <2>0, <3>1, <3>2, <3>3, <3>4, FieldsFacts DEF Writes
    <3>5. CASE i # load[l].next
      BY <1>3, <2>0, <3>1, <3>3, <3>5
    <3> QED
      BY <3>4, <3>5
  <2>3. load'[l].version = latest /\ latest' = latest
    BY <1>3, <2>0, AssignFacts
  <2> QED
    BY <2>1, <2>2, <2>3
<1>4. ASSUME NEW l \in Loaders, Loaded(l) \/ LoadFails(l), ~tangled PROVE LoadInv'
  BY <1>4, EndLoadFacts DEF TypeOK, ConfigTypes
<1>5. ASSUME NEW l \in Loaders, Assign(l) \/ Loaded(l) \/ LoadFails(l), tangled
      PROVE  LoadInv'
  BY <1>5 DEF Assign, Loaded, LoadFails
<1>6. CASE Daemonize
  BY <1>6 DEF Daemonize, TypeOK, ConfigTypes
<1> QED
  BY <1>1, <1>2, <1>3, <1>4, <1>5, <1>6, ConfigSteps

LEMMA QuietStep ==
    ASSUME TypeOK, LoadInv, OrderInv, QuietConfigIsWhole, [Next]_vars
    PROVE  QuietConfigIsWhole'
<1> SUFFICES ASSUME Connected', Alive', ~Loading', ~tangled'
             PROVE  /\ latest' \in Versions
                    /\ \A f \in Holds[latest'] : config'[f] = latest'
  BY DEF QuietConfigIsWhole
<1>1. CASE UNCHANGED configVars
  <2>1. Connected
    <3>1. SUFFICES ASSUME ~Connected PROVE FALSE
      OBVIOUS
    <3>2. ~Connect
      BY <1>1, LoaderFacts, BeginLoadFacts DEF Connect, Loading, configVars
    <3> QED
      BY <3>1, <3>2 DEF Next, MainStep, Construct, LoadStep, InitSnmp, Daemonize,
         DaemonizeFails, InitBus, Wait, Wake, Shutdown, At, Goto, Connected, Signal, Kill,
         Interrupt, Reload, Exit, Alive, Request, Handler, ResetInterrupt, ReloadStep, Job, Take,
         ReadTryAll, ReadDatabase, Read, EndJob, mainVars, vars
  <2>2. Alive
    BY DEF Next, MainStep, Construct, Connect, LoadStep, InitSnmp, Daemonize,
         DaemonizeFails, InitBus, Wait, Wake, Shutdown, At, Goto, Signal, Kill,
         Interrupt, Reload, Exit, Alive, Request, Handler, ResetInterrupt, ReloadStep, Job, Take,
         ReadTryAll, ReadDatabase, Read, EndJob, mainVars, vars
  <2> QED
    BY <1>1, <2>1, <2>2 DEF QuietConfigIsWhole, configVars, Loading
<1>2. ASSUME NEW l \in Loaders, BeginLoad(l) PROVE FALSE
  BY <1>2, BeginLoadFacts DEF Loading
<1>3. ASSUME NEW l \in Loaders, Assign(l) PROVE FALSE
  BY <1>3, AssignFacts DEF Loading, Assign
<1>4. ASSUME NEW l \in Loaders, Loaded(l)
      PROVE  /\ latest' \in Versions
             /\ \A f \in Holds[latest'] : config'[f] = latest'
  <2>1. /\ load[l] # None /\ load[l].next > 4
        /\ UNCHANGED <<config, tangled, latest>>
    BY <1>4, FieldsFacts DEF Loaded
  <2>2. load[l].version \in Versions /\ load[l].next - 1 = 4
    BY <2>1, LoadFacts
  <2>3. /\ load[l].version = latest
        /\ \A i \in 1..4 : Fields[i] \in Holds[latest] => config[Fields[i]] = latest
    BY <2>1, <2>2 DEF LoadInv
  <2>4. Holds[latest] \subseteq FieldNames
    BY <2>2, <2>3, LifecycleAssumption
  <2>5. \A f \in Holds[latest] : config[f] = latest
    BY <2>3, <2>4, FieldsFacts
  <2> QED
    BY <2>1, <2>2, <2>3, <2>5
<1>5. ASSUME NEW l \in Loaders, LoadFails(l) PROVE FALSE
  BY <1>5 DEF LoadFails
<1>6. CASE Daemonize
  <2>1. Connected /\ Alive /\ ~Loading /\ ~tangled /\ UNCHANGED <<config, latest>>
    BY <1>6 DEF Daemonize, At, Connected, Alive
  <2> QED
    BY <2>1 DEF QuietConfigIsWhole
<1> QED
  BY <1>1, <1>2, <1>3, <1>4, <1>5, <1>6, ConfigSteps

(***************************************************************************)
(* What main does before what.                                             *)
(***************************************************************************)

LEMMA OrderInvStep ==
    ASSUME TypeOK, OrderInv, [Next]_vars
    PROVE  OrderInv'
<1> USE DEF OrderInv, Serving, Alive, Goto, Fail, Exit, At
<1>0. \A l \in Loaders : ~Loading => load[l] = None
  BY DEF Loading
<1>1. CASE MainStep
  <2>1. CASE Construct
    BY <2>1, <1>0, LoaderFacts DEF Construct, Loading, configVars
  <2>2. CASE Connect
    BY <2>2 DEF Connect
  <2>3. CASE LoadStep
    <3>1. pc' = "load" \/ (load'[Startup] = None /\ pc' \in {"snmp", "exited"})
      BY <2>3, LoaderFacts, EndLoadFacts DEF LoadStep, TypeOK, ConfigTypes
    <3>2. pc = "load" /\ UNCHANGED <<pending, job>>
      BY <2>3 DEF LoadStep
    <3> QED
      BY <3>1, <3>2
  <2>4. CASE Daemonize
    BY <2>4, LoaderFacts DEF Daemonize
  <2>5. CASE InitSnmp \/ DaemonizeFails \/ InitBus \/ Wait \/ Wake \/ Shutdown
    <3>1. /\ pc \in {"snmp", "daemonize", "init", "run", "wait", "join"}
          /\ pc' \in {"daemonize", "init", "run", "wait", "join", "exited"}
          /\ Serving => Serving' \/ ~Alive'
          /\ UNCHANGED <<load, pending, job>>
      BY <2>5 DEF InitSnmp, DaemonizeFails, InitBus, Wait, Wake, Shutdown, configVars, jobVars
    <3>2. load'[Startup] = None
      BY <3>1
    <3>3. pending' \/ (\E w \in Workers : job'[w] # "idle") => Serving' \/ ~Alive'
      BY <3>1
    <3> QED
      BY <3>1, <3>2, <3>3
  <2> QED
    BY <1>1, <2>1, <2>2, <2>3, <2>4, <2>5 DEF MainStep
<1>2. CASE Signal
  <2>1. ASSUME NEW s \in {"INT", "HUP", "TERM"}, Kill(s) PROVE OrderInv'
    BY <2>1 DEF Kill
  <2>2. ASSUME NEW t \in Threads, Interrupt(t) PROVE OrderInv'
    BY <2>2 DEF Interrupt, configVars, jobVars, mainVars, Loading
  <2>3. ASSUME NEW t \in Threads, Reload(t) PROVE OrderInv'
    <3>1. pc # "start" /\ UNCHANGED <<pc, handled, resetting, swallowed, pending, job>>
      BY <2>3 DEF Reload, mainVars
    <3>2. CASE Connected
      <4>1. load'[Startup] = load[Startup]
        BY <2>3, <3>2, LoaderFacts, BeginLoadFacts DEF Reload
      <4> QED
        BY <3>1, <3>2, <4>1 DEF Connected
    <3>3. CASE ~Connected
      BY <2>3, <3>1, <3>3 DEF Reload, Loading
    <3> QED
      BY <3>2, <3>3
  <2> QED
    BY <1>2, <2>1, <2>2, <2>3 DEF Signal
<1>3. CASE Request
  BY <1>3 DEF Request, configVars, signalVars, mainVars, Loading
<1>4. ASSUME NEW t \in Threads, Handler(t) PROVE OrderInv'
  <2>1. CASE ResetInterrupt(t)
    BY <2>1 DEF ResetInterrupt, configVars, jobVars, mainVars, Loading
  <2>2. CASE ReloadStep(t)
    <3>1. UNCHANGED <<pc, handled, resetting, swallowed, pending, job>>
      BY <2>2 DEF ReloadStep, signalVars, jobVars, mainVars
    <3>2. load[t] # None /\ load'[Startup] = load[Startup]
      BY <2>2, LoaderFacts, AssignFacts, EndLoadFacts DEF ReloadStep, Assign, TypeOK, ConfigTypes
    <3>3. pc \notin {"start", "connect"}
      BY <3>2, <1>0, LoaderFacts
    <3> QED
      BY <3>1, <3>2, <3>3
  <2> QED
    BY <1>4, <2>1, <2>2 DEF Handler
<1>5. ASSUME NEW w \in Workers, Job(w) PROVE OrderInv'
  <2>1. UNCHANGED <<pc, handled, resetting, swallowed, load>>
    BY <1>5 DEF Job, Take, ReadTryAll, ReadDatabase, Read, EndJob, configVars, signalVars, mainVars
  <2>2. Serving
    BY <1>5 DEF Job, Take, ReadTryAll, ReadDatabase, Read, EndJob, Works
  <2> QED
    BY <2>1, <2>2 DEF Loading
<1>6. CASE UNCHANGED vars
  BY <1>6 DEF vars, configVars, signalVars, jobVars, mainVars, Loading
<1> QED
  BY <1>1, <1>2, <1>3, <1>4, <1>5, <1>6 DEF Next

(***************************************************************************)
(* What jobs read.                                                         *)
(***************************************************************************)

(* A job that began in peace and met no load reads one Config.              *)
LEMMA ReadInvStep ==
    ASSUME TypeOK, OrderInv, ReadInv, JobSeesOneConfig, QuietConfigIsWhole, [Next]_vars
    PROVE  ReadInv' /\ JobSeesOneConfig'
<1> SUFFICES ASSUME NEW w \in Workers, w \notin apart'
             PROVE  /\ Reading(w)' => ~Loading' /\ ~tangled'
                    /\ job'[w] = "driver" => seen'[w].tryAll = config'["tryAll"]
                    /\ job'[w] \in {"running", "stuck"} =>
                         OneVersion(seen'[w])
  BY DEF ReadInv, JobSeesOneConfig
<1>0. config'["tryAll"] # Torn /\ config["tryAll"] # Torn /\ config["mibDatabase"] # Torn
  BY ConfigTypesStep, LifecycleAssumption DEF TypeOK, ConfigTypes, FieldNames
<1> DEFINE Goal == /\ Reading(w)' => ~Loading' /\ ~tangled'
                   /\ job'[w] = "driver" => seen'[w].tryAll = config'["tryAll"]
                   /\ job'[w] \in {"running", "stuck"} =>
                         OneVersion(seen'[w])
<1>1. CASE job'[w] = job[w] /\ seen'[w] = seen[w] /\ apart \subseteq apart'
  <2>1. w \notin apart
    BY <1>1
  <2>2. job[w] \in {"running", "stuck"} => Goal
    BY <1>1, <2>1 DEF JobSeesOneConfig, Reading
  <2>3. ASSUME Reading(w) PROVE Goal
    <3>1. ~Loading /\ ~tangled /\ (job[w] = "driver" => seen[w].tryAll = config["tryAll"])
      BY <2>1, <2>3 DEF ReadInv
    <3>2. ~Daemonize
      BY <2>3 DEF Daemonize, At, OrderInv, Serving, Alive, Reading
    <3>3. UNCHANGED configVars
      <4>1. ASSUME NEW l \in Loaders, BeginLoad(l) PROVE FALSE
        BY <4>1, <2>3, BeginLoadFacts
      <4>2. ASSUME NEW l \in Loaders, Assign(l) \/ Loaded(l) \/ LoadFails(l) PROVE FALSE
        BY <4>2, <3>1 DEF Loading, Assign, Loaded, LoadFails
      <4> QED
        BY <4>1, <4>2, <3>2, ConfigSteps
    <3> QED
      BY <1>1, <2>3, <3>1, <3>3 DEF Reading, Loading, configVars
  <2>4. CASE job[w] = "idle"
    BY <1>1, <2>4 DEF Reading
  <2> QED
    BY <2>2, <2>3, <2>4 DEF TypeOK, JobTypes, Reading
<1>2. ASSUME NEW u \in Workers, Job(u) PROVE Goal
  <2>0. UNCHANGED configVars
    BY <1>2 DEF Job, Take, ReadTryAll, ReadDatabase, Read, EndJob
  <2>1. CASE u # w
    <3>1. job'[w] = job[w] /\ seen'[w] = seen[w] /\ (w \in apart <=> w \in apart')
      BY <1>2, <2>1 DEF Job, Take, ReadTryAll, ReadDatabase, Read, EndJob, TypeOK, JobTypes
    <3>2. Reading(w)' <=> Reading(w)
      BY <3>1 DEF Reading
    <3> QED
      BY <2>0, <3>1, <3>2 DEF ReadInv, JobSeesOneConfig, Loading, configVars
  <2>2. CASE u = w /\ Take(w)
    BY <2>0, <2>2 DEF Take, TypeOK, JobTypes, Reading, Loading, configVars
  <2>3. CASE u = w /\ ReadTryAll(w)
    <3>1. w \notin apart /\ Reading(w) /\ ~Loading /\ ~tangled
      BY <2>3 DEF ReadTryAll, Read, Works, ReadInv, Reading
    <3>2. Found("tryAll") = {config["tryAll"]}
      BY <3>1 DEF Found, Writes, Loading
    <3>3. seen'[w].tryAll = config["tryAll"] /\ job'[w] = "driver"
      BY <2>3, <3>2 DEF ReadTryAll, Read, TypeOK, JobTypes
    <3> QED
      BY <2>0, <3>1, <3>3 DEF Loading, configVars
  <2>4. CASE u = w /\ ReadDatabase(w)
    <3>1. /\ w \notin apart /\ Reading(w) /\ ~Loading /\ ~tangled
          /\ seen[w].tryAll = config["tryAll"] /\ Alive
      BY <2>4 DEF ReadDatabase, Read, Works, ReadInv, Reading
    <3>2. Found("mibDatabase") = {config["mibDatabase"]}
      BY <3>1 DEF Found, Writes, Loading
    <3>3. /\ seen'[w].mibDatabase = config["mibDatabase"] /\ seen'[w].tryAll = seen[w].tryAll
          /\ job'[w] = "running"
      BY <2>4, <3>2 DEF ReadDatabase, Read, TypeOK, JobTypes
    <3>4. Connected
      BY <3>1 DEF OrderInv, Serving, Connected, Alive, Reading
    <3>5. latest \in Versions /\ \A f \in Holds[latest] : config[f] = latest
      BY <3>1, <3>4 DEF QuietConfigIsWhole
    <3>6. OneVersion(seen'[w])
      BY <1>0, <3>1, <3>3, <3>5 DEF OneVersion
    <3> QED
      BY <3>3, <3>6 DEF Reading
  <2>5. CASE u = w /\ EndJob(w)
    <3>1. job[w] = "running" /\ w \notin apart /\ job'[w] \in {"idle", "stuck"}
          /\ (job'[w] = "stuck" => seen' = seen)
      BY <2>5 DEF EndJob, Works, TypeOK, JobTypes
    <3> QED
      BY <3>1 DEF JobSeesOneConfig, Reading
  <2> QED
    BY <1>2, <2>1, <2>2, <2>3, <2>4, <2>5 DEF Job
<1>3. ASSUME ~\E u \in Workers : Job(u)
      PROVE  job' = job /\ seen' = seen /\ apart \subseteq apart'
  <2>1. CASE MainStep
    <3>1. CASE Connect
      BY <3>1, LoaderFacts, BeginLoadFacts DEF Connect
    <3>2. CASE ~Connect
      BY <2>1, <3>2 DEF MainStep, Construct, LoadStep, InitSnmp, Daemonize, DaemonizeFails, InitBus,
                  Wait, Wake, Shutdown, jobVars
    <3> QED
      BY <3>1, <3>2
  <2>2. CASE Signal
    <3>1. ASSUME NEW s \in {"INT", "HUP", "TERM"}, Kill(s) PROVE UNCHANGED <<job, seen, apart>>
      BY <3>1 DEF Kill
    <3>2. ASSUME NEW t \in Threads, Interrupt(t) PROVE UNCHANGED <<job, seen, apart>>
      BY <3>2 DEF Interrupt, jobVars
    <3>3. ASSUME NEW t \in Threads, Reload(t)
          PROVE  job' = job /\ seen' = seen /\ apart \subseteq apart'
      BY <3>3, LoaderFacts, BeginLoadFacts DEF Reload
    <3> QED
      BY <2>2, <3>1, <3>2, <3>3 DEF Signal
  <2>3. CASE Request
    BY <2>3 DEF Request
  <2>4. ASSUME NEW t \in Threads, Handler(t) PROVE UNCHANGED <<job, seen, apart>>
    BY <2>4 DEF Handler, ResetInterrupt, ReloadStep, jobVars
  <2>5. CASE UNCHANGED vars
    BY <2>5 DEF vars, jobVars
  <2> QED
    BY <1>3, <2>1, <2>2, <2>3, <2>4, <2>5 DEF Next
<1> QED
  BY <1>1, <1>2, <1>3

(***************************************************************************)
(* The MIB database.                                                       *)
(***************************************************************************)

LEMMA DatabaseInvStep ==
    ASSUME TypeOK, OrderInv, DatabaseInv, OneDatabase, [Next]_vars
    PROVE  DatabaseInv' /\ OneDatabase'
<1> USE DEF DatabaseInv, OneDatabase, Serving
<1>1. CASE MainStep
  <2>1. CASE InitSnmp
    <3>1. ASSUME ~reloaded PROVE database' = config["mibDatabase"]
      <4>1. \A l \in Loaders : load[l] = None
        BY <2>1, <3>1 DEF InitSnmp, At, OrderInv, Loaders
      <4>2. Found("mibDatabase") = {config["mibDatabase"]}
        BY <4>1 DEF Found, Writes
      <4> QED
        BY <2>1, <4>2 DEF InitSnmp
    <3>2. \A w \in Workers : job[w] = "idle"
      BY <2>1 DEF InitSnmp, At, OrderInv, Alive
    <3>3. UNCHANGED <<configVars, signalVars, jobVars>>
      BY <2>1 DEF InitSnmp
    <3> QED
      BY <3>1, <3>2, <3>3 DEF configVars, signalVars, jobVars
  <2>2. CASE Connect
    <3>1. pc' = "load" /\ UNCHANGED <<job, seen, reloaded, database>>
      BY <2>2 DEF Connect, Goto, signalVars
    <3>2. \A t \in Threads : load'[t] = load[t]
      BY <2>2, LoaderFacts, BeginLoadFacts DEF Connect
    <3> QED
      BY <3>1, <3>2
  <2>3. CASE LoadStep
    <3>1. pc' \in {"load", "snmp", "exited"} /\ UNCHANGED <<job, seen, reloaded, database>>
      BY <2>3 DEF LoadStep, Goto, Fail, Exit, signalVars
    <3>2. \A t \in Threads : load'[t] = load[t]
      BY <2>3, LoaderFacts, AssignFacts, EndLoadFacts DEF LoadStep, TypeOK, ConfigTypes
    <3> QED
      BY <3>1, <3>2
  <2>4. CASE Daemonize
    BY <2>4, LoaderFacts DEF Daemonize, At, Goto
  <2>5. CASE Construct \/ DaemonizeFails \/ InitBus \/ Wait \/ Wake \/ Shutdown
    <3>1. UNCHANGED <<config, load, reloaded, job, seen, database>>
      BY <2>5 DEF Construct, DaemonizeFails, InitBus, Wait, Wake, Shutdown, configVars,
                  signalVars, jobVars
    <3>2. pc' \in {"daemonize", "init"} \/ Serving' => pc \in {"daemonize", "init"} \/ Serving
      BY <2>5 DEF Construct, DaemonizeFails, InitBus, Wait, Wake, Shutdown, At, Goto, Fail, Exit
    <3> QED
      BY <3>1, <3>2
  <2> QED
    BY <1>1, <2>1, <2>2, <2>3, <2>4, <2>5 DEF MainStep
<1>2. CASE Signal
  <2>1. ASSUME NEW s \in {"INT", "HUP", "TERM"}, Kill(s) PROVE DatabaseInv' /\ OneDatabase'
    BY <2>1 DEF Kill, Exit, configVars
  <2>2. ASSUME NEW t \in Threads, Interrupt(t) PROVE DatabaseInv' /\ OneDatabase'
    BY <2>2 DEF Interrupt, configVars, jobVars, mainVars
  <2>3. ASSUME NEW t \in Threads, Reload(t) PROVE DatabaseInv' /\ OneDatabase'
    BY <2>3 DEF Reload
  <2> QED
    BY <1>2, <2>1, <2>2, <2>3 DEF Signal
<1>3. CASE Request
  BY <1>3 DEF Request, configVars, signalVars, mainVars
<1>4. ASSUME NEW t \in Threads, Handler(t) PROVE DatabaseInv' /\ OneDatabase'
  <2>1. CASE ResetInterrupt(t)
    BY <2>1 DEF ResetInterrupt, configVars, jobVars, mainVars
  <2>2. CASE ReloadStep(t)
    <3>1. load[t] # None
      BY <2>2 DEF ReloadStep, Assign, Loaded, LoadFails
    <3>2. UNCHANGED <<reloaded, job, seen, database>>
      BY <2>2 DEF ReloadStep, signalVars, jobVars, mainVars
    <3> QED
      BY <3>1, <3>2
  <2> QED
    BY <1>4, <2>1, <2>2 DEF Handler
<1>5. ASSUME NEW w \in Workers, Job(w) PROVE DatabaseInv' /\ OneDatabase'
  <2>0. UNCHANGED <<config, load, reloaded, pc, database>>
    BY <1>5 DEF Job, Take, ReadTryAll, ReadDatabase, Read, EndJob, configVars, signalVars, mainVars
  <2>1. \A u \in Workers \ {w} : job'[u] = job[u] /\ seen'[u] = seen[u]
    BY <1>5 DEF Job, Take, ReadTryAll, ReadDatabase, Read, EndJob, TypeOK, JobTypes
  <2>2. ASSUME job'[w] \in {"running", "stuck"}, ~reloaded
        PROVE  seen'[w].mibDatabase = database
    <3>1. CASE ReadDatabase(w)
      <4>1. Serving /\ load[Startup] = None
        BY <3>1 DEF ReadDatabase, Read, Works, OrderInv, Alive
      <4>2. Found("mibDatabase") = {database}
        BY <2>2, <4>1 DEF Found, Writes, Loaders
      <4> QED
        BY <3>1, <4>2 DEF ReadDatabase, Read, TypeOK, JobTypes
    <3>2. CASE EndJob(w)
      <4>1. job[w] = "running" /\ seen' = seen
        BY <2>2, <3>2 DEF EndJob, Works, TypeOK, JobTypes
      <4> QED
        BY <2>2, <4>1
    <3>3. CASE Take(w) \/ ReadTryAll(w)
      BY <2>2, <3>3 DEF Take, ReadTryAll, Read, TypeOK, JobTypes
    <3> QED
      BY <1>5, <3>1, <3>2, <3>3 DEF Job
  <2> QED
    BY <2>0, <2>1, <2>2
<1>6. CASE UNCHANGED vars
  BY <1>6 DEF vars, configVars, signalVars, jobVars, mainVars
<1> QED
  BY <1>1, <1>2, <1>3, <1>4, <1>5, <1>6 DEF Next

(***************************************************************************)
(* Directories.                                                            *)
(***************************************************************************)

(* Main fails before there are jobs and returns after them.                 *)
LEMMA LitterStep ==
    ASSUME TypeOK, OrderInv, OnlyKillsLitter, [Next]_vars
    PROVE  OnlyKillsLitter'
<1> USE DEF OnlyKillsLitter
<1>1. CASE UNCHANGED <<litter, ended>>
  BY <1>1
<1>2. ASSUME NEW how, Exit(how), \A w \in Workers : job[w] = "idle" PROVE OnlyKillsLitter'
  BY <1>2 DEF Exit
<1>3. CASE MainStep
  <2>1. CASE LoadStep \/ DaemonizeFails \/ InitBus
    BY <2>1, <1>1, <1>2 DEF LoadStep, DaemonizeFails, InitBus, Fail, Goto, At, OrderInv, Serving, Alive
  <2>2. CASE Shutdown
    BY <2>2, <1>2 DEF Shutdown, Joined
  <2>3. CASE Construct \/ Connect \/ InitSnmp \/ Daemonize \/ Wait \/ Wake
    BY <2>3, <1>1 DEF Construct, Connect, InitSnmp, Daemonize, Wait, Wake, Goto, jobVars
  <2> QED
    BY <1>3, <2>1, <2>2, <2>3 DEF MainStep
<1>4. CASE Signal
  BY <1>4, <1>1 DEF Signal, Kill, Exit, Interrupt, Reload, jobVars, mainVars
<1>5. ASSUME \/ Request \/ UNCHANGED vars
             \/ \E t \in Threads : Handler(t)
             \/ \E w \in Workers : Job(w)
      PROVE  UNCHANGED <<litter, ended>>
  BY <1>5 DEF Request, Handler, ResetInterrupt, ReloadStep, Job, Take, ReadTryAll, ReadDatabase,
              Read, EndJob, jobVars, mainVars, vars
<1> QED
  BY <1>1, <1>3, <1>4, <1>5 DEF Next

(***************************************************************************)
(* Interrupts.                                                             *)
(***************************************************************************)

(* How many threads there are, with the bus (b) and the pool (p) or not.    *)
LEMMA ThreadCount ==
    ASSUME NEW b \in BOOLEAN, NEW p \in BOOLEAN,
           NEW S, S = {Main} \cup (IF b THEN {Listener} ELSE {})
                            \cup (IF p THEN Workers ELSE {})
    PROVE  /\ IsFiniteSet(S) /\ Cardinality(Workers) \in Nat
           /\ Cardinality(S) = (IF b THEN 2 ELSE 1)
                               + (IF p THEN Cardinality(Workers) ELSE 0)
<1> DEFINE P == IF p THEN Workers ELSE {}
           n == IF p THEN Cardinality(Workers) ELSE 0
<1>1. IsFiniteSet(Workers) /\ Cardinality(Workers) \in Nat
  BY LifecycleAssumption, FS_CardinalityType
<1>2. IsFiniteSet(P) /\ Cardinality(P) = n /\ n \in Nat
  BY <1>1, FS_EmptySet
<1>3. Main \notin P /\ Listener \notin P \cup {Main}
  BY LifecycleAssumption
<1>4. IsFiniteSet(P \cup {Main}) /\ Cardinality(P \cup {Main}) = n + 1
  BY <1>2, <1>3, FS_AddElement
<1>5. /\ IsFiniteSet((P \cup {Main}) \cup {Listener})
      /\ Cardinality((P \cup {Main}) \cup {Listener}) = n + 1 + 1
  BY <1>3, <1>4, FS_AddElement
<1>6. S = IF b THEN (P \cup {Main}) \cup {Listener} ELSE P \cup {Main}
  OBVIOUS
<1> HIDE DEF P, n
<1>7. IsFiniteSet(S) /\ Cardinality(S) = (IF b THEN 2 ELSE 1) + n
  BY <1>2, <1>4, <1>5, <1>6
<1> QED
  BY <1>1, <1>7 DEF n

LEMMA SwallowInvStep ==
    ASSUME TypeOK, OrderInv, SwallowInv, InterruptsGetThrough, [Next]_vars
    PROVE  SwallowInv' /\ InterruptsGetThrough'
<1> USE DEF SwallowInv, InterruptsGetThrough
<1>0. /\ resetting \subseteq Running /\ resetting \subseteq Threads /\ IsFiniteSet(resetting)
      /\ Cardinality(resetting) \in Nat /\ swallowed \in Nat /\ sent \in Nat
  <2>1. resetting \subseteq Running /\ resetting \subseteq Threads
    BY LoaderFacts DEF TypeOK, ThreadTypes, Running
  <2>2. IsFiniteSet(Threads)
    <3>1. Threads = {Main} \cup (IF TRUE THEN {Listener} ELSE {})
                          \cup (IF TRUE THEN Workers ELSE {})
      BY DEF Threads
    <3> QED
      BY <3>1, ThreadCount
  <2>3. IsFiniteSet(resetting) /\ Cardinality(resetting) \in Nat
    BY <2>1, <2>2, FS_Subset, FS_CardinalityType
  <2> QED
    BY <2>1, <2>3, LifecycleAssumption DEF TypeOK, SignalTypes
<1> DEFINE Few == {Main} \cup (IF HasBus THEN {Listener} ELSE {})
           W == Cardinality(Workers)
           few == IF HasBus THEN 2 ELSE 1
           fewNow == IF HasBus' THEN 2 ELSE 1
           crew == IF pool # "later" THEN W ELSE 0
           crewNow == IF pool' # "later" THEN W ELSE 0
<1>c. /\ Running \subseteq Made /\ (pool = "lost" => Running \subseteq Few)
      /\ IsFiniteSet(Made) /\ IsFiniteSet(Few) /\ W \in Nat
      /\ Cardinality(Made) = few + crew
      /\ Cardinality(Few) = few
  <2>1. Running \subseteq Made /\ (pool = "lost" => Running \subseteq Few)
    BY DEF Running, Made
  <2>2. IsFiniteSet(Made) /\ W \in Nat /\ Cardinality(Made) = few + crew
    BY ThreadCount, HasBus \in BOOLEAN, (pool # "later") \in BOOLEAN DEF Made, HasBus
  <2>3. Few = {Main} \cup (IF HasBus THEN {Listener} ELSE {})
                     \cup (IF FALSE THEN Workers ELSE {})
    OBVIOUS
  <2>4. HasBus \in BOOLEAN
    BY DEF HasBus
  <2> HIDE DEF Few
  <2>5. IsFiniteSet(Few) /\ Cardinality(Few) = few + 0
    BY <2>3, <2>4, ThreadCount
  <2> QED
    BY <2>1, <2>2, <2>5
<1>d. swallowed <= Cardinality(Made)
  OBVIOUS
<1>e. Cardinality(Made') = fewNow + crewNow
  <2>1. Made' = {Main} \cup (IF HasBus' THEN {Listener} ELSE {})
                      \cup (IF pool' # "later" THEN Workers ELSE {})
    BY DEF Made
  <2>2. HasBus' \in BOOLEAN /\ (pool' # "later") \in BOOLEAN
    BY DEF HasBus
  <2> QED
    BY <2>1, <2>2, ThreadCount
<1>f. ASSUME swallowed' <= Cardinality(Made), pool # "later" => pool' # "later"
      PROVE  InterruptsGetThrough'
  <2>1. HasBus => HasBus'
    BY BusStays
  <2>2. few <= fewNow /\ few \in Nat /\ fewNow \in Nat
    BY <2>1
  <2>3. crew <= crewNow /\ crew \in Nat /\ crewNow \in Nat
    BY <1>c, <1>f
  <2>4. swallowed' \in Nat
    BY SignalTypesStep, LifecycleAssumption DEF SignalTypes
  <2> HIDE DEF few, fewNow, crew, crewNow
  <2>5. swallowed' <= Cardinality(Made')
    BY <1>c, <1>e, <1>f, <2>2, <2>3, <2>4
  <2> QED
    BY <2>5
<1> HIDE DEF Few, W, few, fewNow, crew, crewNow, InterruptsGetThrough
<1>1. CASE /\ UNCHANGED <<handled, resetting, swallowed>> /\ sent' \in {sent, sent + 1}
           /\ (pool = "lost") <=> (pool' = "lost")
           /\ pool # "later" => pool' # "later"
  BY <1>0, <1>1, <1>d, <1>f
<1>2. CASE MainStep
  <2>1. CASE Construct
    <3>1. swallowed = 0 /\ resetting = {} /\ UNCHANGED <<swallowed, sent, resetting>>
      BY <2>1 DEF Construct, At, OrderInv
    <3>2. Cardinality(resetting) = 0 /\ pool' # "lost"
      BY <2>1, <3>1, FS_EmptySet DEF Construct
    <3>3. InterruptsGetThrough'
      BY <1>c, <1>e, <3>1 DEF fewNow, crewNow, InterruptsGetThrough
    <3> QED
      BY <1>0, <3>1, <3>2, <3>3
  <2>2. CASE Daemonize
    <3>0. InterruptsGetThrough'
      BY <2>2, <1>d, <1>f DEF Daemonize
    <3>1. /\ Main \notin resetting /\ resetting' = {} /\ UNCHANGED <<handled, swallowed, sent>>
          /\ pool' = (IF pool = "made" THEN "lost" ELSE pool) /\ ~HasBus
      BY <2>2 DEF Daemonize, At, HasBus
    <3>2. Cardinality(resetting') = 0
      BY <3>1, FS_EmptySet
    <3>3. CASE pool = "made"
      <4>1. resetting \subseteq Workers
        BY <1>0, <3>1 DEF Running
      <4>2. Cardinality(resetting) <= Cardinality(Workers)
        BY <4>1, LifecycleAssumption, FS_Subset
      <4> QED
        BY <1>0, <1>c, <3>0, <3>1, <3>2, <3>3, <4>2 DEF W
    <3>4. CASE pool = "later"
      <4>1. resetting = {}
        BY <1>0, <3>1, <3>4 DEF Running
      <4> QED
        BY <1>0, <3>0, <3>1, <3>2, <3>4, <4>1
    <3>5. CASE pool = "lost"
      <4>1. resetting = {}
        BY <1>0, <3>1, <3>5 DEF Running
      <4> QED
        BY <1>0, <3>0, <3>1, <3>2, <3>5, <4>1
    <3> QED
      BY <3>3, <3>4, <3>5 DEF TypeOK, JobTypes
  <2>3. CASE Connect \/ LoadStep \/ InitSnmp \/ DaemonizeFails \/ InitBus \/ Wait \/ Wake \/ Shutdown
    <3>1. UNCHANGED <<handled, resetting, swallowed, sent, pool>>
      BY <2>3 DEF Connect, LoadStep, InitSnmp, DaemonizeFails, InitBus, Wait, Wake, Shutdown,
                  signalVars, jobVars
    <3> QED
      BY <1>1, <3>1
  <2> QED
    BY <1>2, <2>1, <2>2, <2>3 DEF MainStep
<1>3. CASE Signal
  <2>1. ASSUME NEW s \in {"INT", "HUP", "TERM"}, Kill(s) PROVE SwallowInv' /\ InterruptsGetThrough'
    BY <2>1, <1>1 DEF Kill, Send
  <2>2. ASSUME NEW t \in Threads, Interrupt(t) PROVE SwallowInv' /\ InterruptsGetThrough'
    <3>1. /\ "INT" \in handled /\ t \in Running \ resetting
          /\ swallowed' = swallowed + 1 /\ sent' = sent + 1
          /\ resetting' = resetting \cup {t} /\ UNCHANGED <<handled, pool>>
      BY <2>2 DEF Interrupt, Send, jobVars
    <3>2. /\ Cardinality(resetting') = Cardinality(resetting) + 1
          /\ resetting' \subseteq Running
      BY <1>0, <3>1, FS_AddElement
    <3>3. CASE pool = "lost"
      <4>1. Cardinality(resetting') <= Cardinality(Few) /\ Cardinality(Few) \in Nat
        BY <1>c, <3>2, <3>3, FS_Subset, FS_CardinalityType
      <4>2. swallowed' <= W + Cardinality(resetting')
        BY <1>0, <1>c, <3>1, <3>2, <3>3 DEF W
      <4>3. swallowed' <= Cardinality(Made)
        BY <1>0, <1>c, <3>1, <3>2, <3>3, <4>1, <4>2 DEF crew
      <4>4. SwallowInv'
        BY <1>0, <3>1, <3>3, <4>2 DEF W
      <4> QED
        BY <1>f, <3>1, <4>3, <4>4
    <3>4. CASE pool # "lost"
      <4>1. Cardinality(resetting') <= Cardinality(Made) /\ Cardinality(Made) \in Nat
        BY <1>c, <3>2, FS_Subset, FS_CardinalityType
      <4> QED
        BY <1>0, <1>f, <3>1, <3>2, <3>4, <4>1
    <3> QED
      BY <3>3, <3>4
  <2>3. ASSUME NEW t \in Threads, Reload(t) PROVE SwallowInv' /\ InterruptsGetThrough'
    BY <2>3, <1>1 DEF Reload, Send
  <2> QED
    BY <1>3, <2>1, <2>2, <2>3 DEF Signal
<1>4. ASSUME NEW t \in Threads, Handler(t) PROVE SwallowInv' /\ InterruptsGetThrough'
  <2>1. CASE ResetInterrupt(t)
    BY <2>1, <1>d, <1>f DEF ResetInterrupt, jobVars
  <2>2. CASE ReloadStep(t)
    BY <2>2, <1>1 DEF ReloadStep, signalVars, jobVars
  <2> QED
    BY <1>4, <2>1, <2>2 DEF Handler
<1>5. ASSUME NEW w \in Workers, Job(w)
      PROVE  /\ UNCHANGED <<handled, resetting, swallowed, sent>>
             /\ (pool = "lost") <=> (pool' = "lost")
             /\ pool # "later" => pool' # "later"
  BY <1>5 DEF Job, Take, ReadTryAll, ReadDatabase, Read, EndJob, signalVars
<1>6. CASE Request \/ UNCHANGED vars
  BY <1>6, <1>1 DEF Request, vars, signalVars, jobVars
<1> QED
  BY <1>1, <1>2, <1>3, <1>4, <1>5, <1>6 DEF Next

(***************************************************************************)
(* The theorems.                                                           *)
(***************************************************************************)

LEMMA InitIInv == Init => IInv
<1> SUFFICES ASSUME Init PROVE IInv
  OBVIOUS
<1>1. TypeOK
  BY InitTypeOK
<1>2. LoadInv /\ OrderInv /\ DatabaseInv
  BY LoaderFacts DEF Init, LoadInv, OrderInv, DatabaseInv, Loading, Serving, Alive
<1>3. ReadInv /\ QuietConfigIsWhole /\ JobSeesOneConfig /\ OneDatabase /\ OnlyKillsLitter
  BY DEF Init, ReadInv, QuietConfigIsWhole, JobSeesOneConfig, OneDatabase, OnlyKillsLitter, Connected,
         Reading
<1>4. SwallowInv /\ InterruptsGetThrough
  <2>1. HasBus \in BOOLEAN /\ (pool # "later") \in BOOLEAN
    BY DEF HasBus
  <2>2. Cardinality(Made) \in Nat
    <3> DEFINE n == IF pool # "later" THEN Cardinality(Workers) ELSE 0
    <3>1. Cardinality(Workers) \in Nat /\ Cardinality(Made) = (IF HasBus THEN 2 ELSE 1) + n
      BY <2>1, ThreadCount DEF Made
    <3>2. n \in Nat
      BY <3>1
    <3> HIDE DEF n
    <3> QED
      BY <3>1, <3>2
  <2>3. Cardinality(resetting) = 0
    BY FS_EmptySet DEF Init
  <2> QED
    BY <2>2, <2>3, LifecycleAssumption DEF Init, SwallowInv, InterruptsGetThrough
<1> QED
  BY <1>1, <1>2, <1>3, <1>4 DEF IInv

LEMMA IInvStep == IInv /\ [Next]_vars => IInv'
<1> SUFFICES ASSUME IInv, [Next]_vars PROVE IInv'
  OBVIOUS
<1>1. TypeOK' /\ LoadInv' /\ OrderInv'
  BY TypeOKStep, LoadInvStep, OrderInvStep DEF IInv
<1>2. ReadInv' /\ JobSeesOneConfig' /\ QuietConfigIsWhole'
  BY ReadInvStep, QuietStep DEF IInv
<1>3. DatabaseInv' /\ OneDatabase' /\ OnlyKillsLitter' /\ SwallowInv' /\ InterruptsGetThrough'
  BY DatabaseInvStep, LitterStep, SwallowInvStep DEF IInv
<1> QED
  BY <1>1, <1>2, <1>3 DEF IInv

(* The inductive invariant: every step of main, of a signal and of a job    *)
(* keeps it.                                                                *)
THEOREM Invariance == Spec => []IInv
BY InitIInv, IInvStep, PTL DEF Spec

(* Every variable keeps its type, and only threads there are handle signals *)
(* and do jobs, across the forks of daemonize.                              *)
THEOREM TypeCorrect == Spec => []TypeOK
<1>1. IInv => TypeOK
  BY DEF IInv
<1> QED
  BY <1>1, Invariance, PTL

(* What a load that met no other leaves is the readable version it found,   *)
(* in every field that has a key for, however reloads and their handlers    *)
(* interleave.                                                              *)
THEOREM WholeConfig == Spec => []QuietConfigIsWhole
<1>1. IInv => QuietConfigIsWhole
  BY DEF IInv
<1> QED
  BY <1>1, Invariance, PTL

(* A job that meets no reload reads what one version of the file says where *)
(* it says anything, whatever was reloaded before and is after.             *)
THEOREM OneConfig == Spec => []JobSeesOneConfig
<1>1. IInv => JobSeesOneConfig
  BY DEF IInv
<1> QED
  BY <1>1, Invariance, PTL

(* Until the first SIGHUP, drivers are given the database SNMP has.         *)
THEOREM SameDatabase == Spec => []OneDatabase
<1>1. IInv => OneDatabase
  BY DEF IInv
<1> QED
  BY <1>1, Invariance, PTL

(* No way main ends by itself leaves a job's directory behind.              *)
THEOREM CleanEnd == Spec => []OnlyKillsLitter
<1>1. IInv => OnlyKillsLitter
  BY DEF IInv
<1> QED
  BY <1>1, Invariance, PTL

(* With n threads by now, the bus library's and the pool's among them once  *)
(* they are made, at most n SIGINTs come to nothing; the next one kills.    *)
THEOREM InterruptsCount == Spec => []InterruptsGetThrough
<1>1. IInv => InterruptsGetThrough
  BY DEF IInv
<1> QED
  BY <1>1, Invariance, PTL
=============================================================================
