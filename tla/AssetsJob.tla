----------------------------- MODULE AssetsJob -----------------------------
(***************************************************************************)
(* job::Assets::run after the MIBs were read: a NUT driver is run in a     *)
(* directory of its own, and what it prints is mapped to asset attributes  *)
(* (AssetAttributes.tla) through a table that all workers share.           *)
(*                                                                         *)
(* Several workers run the job at once.  They meet in /tmp, where          *)
(* nut::Process makes its directory, and in Mapper::mapping(), a static    *)
(* that is filled the first time it is needed, without a lock.  The        *)
(* wallet, fty::Process, the driver and pack's deserializer are external.  *)
(***************************************************************************)
EXTENDS AssetAttributes

CONSTANTS
    Jobs,       \* assets jobs the pool runs at once
    Inputs,     \* [request, output] a job may meet, see below
    Holes,      \* names a mapping may hold that is not complete
    TempDirs,   \* names mkdtemp makes up
    SharedDir,  \* "/tmp/nut", what is used when it fails
    PipeSize    \* how much the pipe to the parent of a driver holds

(* credentialId: the document the wallet has for it, or None               *)
(* account:      a user name and a password are given                      *)
(* port:         the one asked for, not yet cut to 16 bits, or None        *)
Requests ==
    [protocol : {"nut_snmp", "nut_xml_pdc", "nut_powercom", "other"},
     credentialId : Documents \cup {None}, community : BOOLEAN,
     account : BOOLEAN, port : (Nat \ {0}) \cup {None}]

(* What a driver prints is lines, [key, value], of some size together.     *)
Outputs == [size : Nat, lines : Lines]

ASSUME InputAssumption ==
    /\ Inputs \subseteq [request : Requests, output : Outputs]
    /\ Holes \subseteq SUBSET DOMAIN Inventory
    /\ SharedDir \notin TempDirs
    /\ PipeSize \in Nat

ASSUME NoneAssumption ==
    None \notin {"ok", "error", "escaped"} \cup TempDirs \cup {SharedDir}

Places == {"start", "create", "init", "credentials", "run", "wait", "map",
           "load", "loading", "lookup", "cleanup", "done"}

VARIABLES
    request,   \* job -> its parameters
    pc,        \* job -> where it is
    reader,    \* job -> the session of its MibsReader, or None
    root,      \* job -> nut::Process::m_root
    dirs,      \* directories there are
    given,     \* job -> arguments of its driver, as to whom it asks and how
    driver,    \* job -> none, running, ok (exit status 0) or failed
    output,    \* job -> what its driver prints
    pipe,      \* job -> how much of it was written
    readable,  \* mapping.conf can be read
    mapping,   \* the static of Mapper::mapping(): unset, partial or full
    raced,     \* it was used while some other worker was filling it
    told,      \* job -> None, ok, error or escaped
    out        \* job -> the assets it answers with

jobVars    == <<request, pc, reader, given, told, out>>
dirVars    == <<root, dirs>>
driverVars == <<driver, output, pipe>>
mapVars    == <<readable, mapping, raced>>
vars == <<jobVars, dirVars, driverVars, mapVars>>

TypeOK ==
    /\ \A j \in Jobs : [request |-> request[j], output |-> output[j]] \in Inputs
    /\ pc \in [Jobs -> Places]
    /\ reader \in [Jobs -> Sessions \cup {None}]
    /\ root \in [Jobs -> TempDirs \cup {SharedDir, None}]
    /\ dirs \subseteq TempDirs \cup {SharedDir}
    /\ given \in [Jobs -> Arguments]
    /\ driver \in [Jobs -> {"none", "running", "ok", "failed"}]
    /\ pipe \in [Jobs -> 0..PipeSize]
    /\ readable \in BOOLEAN
    /\ mapping \in {"unset", "partial", "full"}
    /\ raced \in BOOLEAN
    /\ told \in [Jobs -> {None, "ok", "error", "escaped"}]
    /\ DOMAIN out = Jobs
    /\ \A j \in Jobs : told[j] = "ok" <=> out[j] # <<>>

Init ==
    /\ \E input \in [Jobs -> Inputs] :
        /\ request = [j \in Jobs |-> input[j].request]
        /\ output = [j \in Jobs |-> input[j].output]
    /\ pc = [j \in Jobs |-> "start"]
    /\ reader = [j \in Jobs |-> None]
    /\ root = [j \in Jobs |-> None]
    /\ dirs \in {{}, {SharedDir}}
    /\ given = [j \in Jobs |-> NewDriver]
    /\ driver = [j \in Jobs |-> "none"]
    /\ pipe = [j \in Jobs |-> 0]
    /\ readable \in BOOLEAN
    /\ mapping = "unset"
    /\ raced = FALSE
    /\ told = [j \in Jobs |-> None]
    /\ out = [j \in Jobs |-> <<>>]

Goto(j, place) == pc' = [pc EXCEPT ![j] = place]

(* Leaving run() once the nut::Process exists: its destructor is next.     *)
Leave(j, status) == Goto(j, "cleanup") /\ told' = [told EXCEPT ![j] = status]

(* Leaving it before: available() fails, credentials are missing or do not *)
(* fit, the MIBs cannot be read, or the socket to the wallet fails, whose  *)
(* exception MibsReader's session does not catch either.                   *)
Refuse(j) ==
    /\ pc[j] = "start"
    /\ \E status \in {"error", "escaped"} :
        /\ status = "escaped" =>
            request[j].protocol = "nut_snmp" /\ request[j].credentialId # None
        /\ told' = [told EXCEPT ![j] = status]
    /\ Goto(j, "done")
    /\ UNCHANGED <<request, reader, given, out, dirVars, driverVars, mapVars>>

(***************************************************************************)
(* Reading the MIBs, which MibsReader.tla opens up: any of it may fail.    *)
(***************************************************************************)

(* uint16_t(...) of m_params.port.                                         *)
NarrowNot(port) == port

Narrow(port) == port % 65536

ReadMibs(j) ==
    /\ pc[j] = "start"
    /\ LET r == request[j]
           session == NewSession(Narrow(Port(r)))
       IN  \/ r.protocol # "nut_snmp" /\ UNCHANGED reader
           \/ /\ r.protocol = "nut_snmp" /\ r.credentialId # None
              /\ reader' = [reader EXCEPT ![j] = SessionCredentials(session, r.credentialId)]
           \/ /\ r.protocol = "nut_snmp" /\ r.credentialId = None /\ r.community
              /\ reader' = [reader EXCEPT ![j] = SessionCommunity(session)]
    /\ Goto(j, "create")
    /\ UNCHANGED <<request, given, told, out, dirVars, driverVars, mapVars>>

(***************************************************************************)
(* nut::Process.                                                           *)
(***************************************************************************)

(* mkdtemp makes a directory nobody has.  When it cannot, every job uses   *)
(* the same name, which nobody makes.                                      *)
Create(j) ==
    /\ pc[j] = "create"
    /\ \/ \E d \in TempDirs \ dirs :
            root' = [root EXCEPT ![j] = d] /\ dirs' = dirs \cup {d}
       \/ root' = [root EXCEPT ![j] = SharedDir] /\ UNCHANGED dirs
    /\ Goto(j, "init")
    /\ UNCHANGED <<request, reader, given, out, told, driverVars, mapVars>>

HttpPort == 80

(* Each driver has a port of its own when it is given none; GenApi's is    *)
(* never given one.                                                        *)
DriverPort(r) ==
    LET port == Narrow(Port(r))
    IN  CASE r.protocol = "nut_powercom" -> 0
          [] r.protocol = "nut_snmp" -> IF port # 0 THEN port ELSE SnmpPort
          [] OTHER -> IF port # 0 THEN port ELSE HttpPort

WithPort(args, r) == [args EXCEPT !.port = DriverPort(r)]

Setup(j) ==
    /\ pc[j] = "init"
    /\ request[j].protocol # "other"
    /\ given' = [given EXCEPT ![j] = WithPort(@, request[j])]
    /\ Goto(j, "credentials")
    /\ UNCHANGED <<request, reader, out, told, dirVars, driverVars, mapVars>>

(* No such protocol, or no executable of its driver.                       *)
SetupFails(j) ==
    /\ pc[j] = "init"
    /\ Leave(j, "error")
    /\ UNCHANGED <<request, reader, given, out, dirVars, driverVars, mapVars>>

(* setCredentialId, by protocol and kind of document: what the driver is   *)
(* told.  XML_PDC needs nothing.                                           *)
FromWallet(args, r) ==
    CASE r.protocol = "nut_snmp" -> DriverCredentials(args, r.credentialId)
      [] r.protocol = "nut_powercom" /\ r.credentialId.kind = "password" ->
            [args EXCEPT !.accounts = {"wallet account"}]
      [] OTHER -> args

(* A community is only refused when there is no credential id.             *)
CredentialsFit(r) ==
    IF r.credentialId # None
    THEN r.protocol = "nut_snmp" => r.credentialId.kind # "password"
    ELSE r.community => r.protocol = "nut_snmp"

FromRequest(args, r) ==
    IF r.credentialId # None THEN FromWallet(args, r)
    ELSE IF r.community THEN DriverCommunity(args) ELSE args

(* setCredential adds the request's account to whatever the wallet gave.   *)
WithAccount(args, r) ==
    IF r.account /\ r.protocol = "nut_powercom"
    THEN [args EXCEPT !.accounts = @ \cup {"account"}] ELSE args

(* What setTimeout and setMib answer is not looked at.                     *)
SetCredentials(j) ==
    LET r == request[j]
    IN  /\ pc[j] = "credentials"
        /\ CredentialsFit(r)
        /\ given' = [given EXCEPT ![j] = WithAccount(FromRequest(@, r), r)]
        /\ Goto(j, "run")
        /\ UNCHANGED <<request, reader, told, out, dirVars, driverVars, mapVars>>

(* Credentials that do not fit, or no answer from the wallet.              *)
CredentialsFail(j) ==
    /\ pc[j] = "credentials"
    /\ \/ ~CredentialsFit(request[j])
       \/ /\ request[j].credentialId # None
          /\ request[j].protocol \in {"nut_snmp", "nut_powercom"}
    /\ Leave(j, "error")
    /\ UNCHANGED <<request, reader, given, out, dirVars, driverVars, mapVars>>

(* For SNMP only the wallet's own exceptions are caught, and not those of  *)
(* the socket to it.  (The pool catches them, or the process dies with all *)
(* its jobs: Discovery.tla has both.)                                      *)
WalletEscapes(j) ==
    /\ pc[j] = "credentials"
    /\ request[j].credentialId # None /\ request[j].protocol = "nut_snmp"
    /\ Leave(j, "escaped")
    /\ UNCHANGED <<request, reader, given, out, dirVars, driverVars, mapVars>>

Launch(j) ==
    /\ pc[j] = "run"
    /\ driver' = [driver EXCEPT ![j] = "running"]
    /\ Goto(j, "wait")
    /\ UNCHANGED <<request, reader, given, out, told, dirVars, output, pipe, mapVars>>

LaunchFails(j) ==
    /\ pc[j] = "run"
    /\ Leave(j, "error")
    /\ UNCHANGED <<request, reader, given, out, dirVars, driverVars, mapVars>>

(* The driver blocks while the pipe is full.                               *)
MayWrite(j) ==
    driver[j] = "running" /\ pipe[j] < output[j].size /\ pipe[j] < PipeSize

DriverWrites(j) ==
    /\ MayWrite(j)
    /\ pipe' = [pipe EXCEPT ![j] = @ + 1]
    /\ UNCHANGED <<jobVars, dirVars, driver, output, mapVars>>

(* It ends when all is written, well or not.                               *)
DriverExits(j) ==
    /\ driver[j] = "running"
    /\ pipe[j] = output[j].size
    /\ \E status \in {"ok", "failed"} : driver' = [driver EXCEPT ![j] = status]
    /\ UNCHANGED <<jobVars, dirVars, output, pipe, mapVars>>

(* The driver is waited for first, and read then: what it wrote is in the  *)
(* pipe.                                                                   *)
ReadyWhenWell(j) == pc[j] = "wait" /\ driver[j] = "ok"

Ready(j) == pc[j] = "wait" /\ driver[j] # "running"

Collect(j) ==
    /\ Ready(j)
    /\ IF driver[j] = "failed"
       THEN Leave(j, "error")
       ELSE Goto(j, "map") /\ UNCHANGED told
    /\ UNCHANGED <<request, reader, given, out, dirVars, driverVars, mapVars>>

(* The destructor, also when an exception is on its way.                   *)
RemovesAll(j) == TempDirs

Removes(j) == {root[j]}

Cleanup(j) ==
    /\ pc[j] = "cleanup"
    /\ dirs' = dirs \ Removes(j)
    /\ Goto(j, "done")
    /\ UNCHANGED <<request, reader, given, out, told, root, driverVars, mapVars>>

(***************************************************************************)
(* Mapper::mapping().  Filling it makes hasValue() true before the         *)
(* inventory, its second field, is in.  Two workers in it at once race:    *)
(* whatever one of them reads or leaves behind may be complete or not.     *)
(***************************************************************************)

Others(j) == \E k \in Jobs \ {j} : pc[k] \in {"load", "loading"}

races(j) == raced' = (raced \/ Others(j))

(* !mapping.hasValue()                                                     *)
MappingMissing == mapping = "unset"

CheckMapping(j) ==
    /\ pc[j] = "map"
    /\ races(j)
    /\ Goto(j, IF MappingMissing THEN "load" ELSE "lookup")
    /\ UNCHANGED <<request, reader, given, out, told, dirVars, driverVars, readable, mapping>>

LoadBegins(j) ==
    /\ pc[j] = "load" /\ readable
    /\ races(j)
    /\ mapping' \in {"partial"} \cup (IF Others(j) THEN {mapping} ELSE {})
    /\ Goto(j, "loading")
    /\ UNCHANGED <<request, reader, given, out, told, dirVars, driverVars, readable>>

(* The file cannot be opened: that is only logged, and tried again.        *)
LoadFails(j) ==
    /\ pc[j] = "load" /\ ~readable
    /\ races(j)
    /\ Goto(j, "lookup")
    /\ UNCHANGED <<request, reader, given, out, told, dirVars, driverVars, readable, mapping>>

Loaded == IF raced THEN {"partial", "full"} ELSE {"full"}

LoadEnds(j) ==
    /\ pc[j] = "loading"
    /\ races(j)
    /\ mapping' \in Loaded
    /\ Goto(j, "lookup")
    /\ UNCHANGED <<request, reader, given, out, told, dirVars, driverVars, readable>>

Mappings == Holes \cup {{}, DOMAIN Inventory}

Answer ==
    [input \in Inputs |->
        [names \in Mappings |-> Parse(input.output.lines, names, input.request)]]

(* One lookup stands for those of all the keys the driver printed: when    *)
(* nobody interferes they find the same names.                             *)
Names(j) ==
    IF Others(j) THEN Holes \cup {DOMAIN Inventory}
    ELSE CASE mapping = "full" -> {DOMAIN Inventory}
           [] mapping = "partial" -> Holes
           [] mapping = "unset" -> {{}}

Lookup(j) ==
    /\ pc[j] = "lookup"
    /\ races(j)
    /\ \E names \in Names(j) :
        out' = [out EXCEPT
            ![j] = Answer[[request |-> request[j], output |-> output[j]]][names]]
    /\ Leave(j, "ok")
    /\ UNCHANGED <<request, reader, given, dirVars, driverVars, readable, mapping>>

(***************************************************************************)

Job(j) ==
    \/ Refuse(j) \/ ReadMibs(j) \/ Create(j) \/ Setup(j) \/ SetupFails(j)
    \/ SetCredentials(j) \/ CredentialsFail(j) \/ WalletEscapes(j)
    \/ Launch(j) \/ LaunchFails(j) \/ Collect(j) \/ Cleanup(j)
    \/ CheckMapping(j) \/ LoadBegins(j) \/ LoadFails(j) \/ LoadEnds(j)
    \/ Lookup(j)

Driver(j) == DriverWrites(j) \/ DriverExits(j)

Next == \E j \in Jobs : Job(j) \/ Driver(j)

Spec == Init /\ [][Next]_vars

(* The operating system runs the workers and the drivers; a driver is      *)
(* assumed to end once what it prints is written.                          *)
FairSpec == Spec /\ \A j \in Jobs : WF_vars(Job(j)) /\ WF_vars(Driver(j))

(***************************************************************************)
(* Properties.                                                             *)
(***************************************************************************)

Inside(j) == pc[j] \notin {"start", "create", "done"}
OwnRoots  == {root[j] : j \in {k \in Jobs : Inside(k)}} \cap TempDirs

(* The directories of mkdtemp there are belong to the jobs under way, one  *)
(* each: none is removed under a driver, and none is left behind, however  *)
(* a job ends.  (Jobs that had to use /tmp/nut share it.)                  *)
DirectoriesAreOwn ==
    /\ dirs \cap TempDirs = OwnRoots
    /\ \A j, k \in Jobs :
        Inside(j) /\ Inside(k) /\ root[j] = root[k] /\ j # k => root[j] = SharedDir

(* Two pieces of code turn a wallet document or a community into an SNMP   *)
(* version, level and protocols, snmp::Session's and nut::Process's.  The  *)
(* driver asks as the MIBs were read, and is told of nobody else; where a  *)
(* port cut to 16 bits is none, the driver alone takes 161.  (The wallet   *)
(* is asked twice; its document is taken not to change meanwhile.)         *)
AtSomePort(session) ==
    [session EXCEPT !.port = IF session.port = 0 THEN SnmpPort ELSE session.port]

Speaks(j) ==
    DriverSession(given[j]) = AtSomePort(reader[j]) /\ given[j].accounts = {}

DriverSpeaksAsReader ==
    \A j \in Jobs :
        driver[j] # "none" /\ request[j].protocol = "nut_snmp" => Speaks(j)

(* What is told of the a-th asset of an answer by the driver's lines: by   *)
(* the first line of each key, of device a only when there is a chain.     *)
Chained(j) == Len(out[j]) > 1

Printed(j, a) ==
    LET lines == output[j].lines
        of(i) == IF Chained(j) THEN lines[i].key.name ELSE LookedUp(lines[i].key)
        number(i) == IF Chained(j) THEN lines[i].key.num ELSE NumberIn(lines[i].key)
    IN  {AddAssetVal(Inventory[of(i)], number(i), lines[i].value, TRUE) :
            i \in {i \in DOMAIN lines :
                /\ \A h \in 1..(i - 1) : lines[h].key # lines[i].key
                /\ Chained(j) => lines[i].key.chain = Digits(a)
                /\ of(i) \in DOMAIN Inventory}}

(* The answer is complete: run() is left for good.                         *)
Answers(j) == pc[j] = "cleanup" /\ told[j] = "ok"

Told(j, a) ==
    {e \in out[j][a].ext : e.readOnly /\ e.attr # "daisy_chain"}

(* An answer is made of all the driver printed before it ended well, with  *)
(* the whole inventory mapping: unless two workers met in mapping() while  *)
(* it was being filled, or there is none to read.  And of nothing else: a  *)
(* device of a chain is given nothing another device printed, however many *)
(* there are.                                                              *)
AnswerIsWhole ==
    \A j \in Jobs : Answers(j) =>
        /\ driver[j] = "ok" /\ pipe[j] = output[j].size
        /\ \A a \in DOMAIN out[j] :
            /\ Told(j, a) \subseteq Printed(j, a)
            /\ readable /\ ~raced => Printed(j, a) \subseteq Told(j, a)

(* A device may print its manufacturer, its model or its serial number     *)
(* under several names, but it has one of each.                            *)
OneOfEach(j, a) ==
    \A d, e \in Printed(j, a) :
        d.attr \in IdentityAttrs /\ d.attr = e.attr => d.value = e.value

(* Jobs that discover the same device give it the same uuid, or none: also *)
(* when one of them sees half of the mapping.  (One that prints different  *)
(* serial numbers under two names is given the uuid of the name that is    *)
(* mapped by then.)  Only a device that prints an empty manufacturer,      *)
(* model or serial number gets a new one each time.                        *)
IdentityIsStable ==
    \A j, k \in Jobs :
        Answers(j) /\ told[k] = "ok" /\ output[j] = output[k] =>
            \A a \in DOMAIN out[j] :
                LET uuid == out[j][a].uuid
                IN  /\ OneOfEach(j, a) =>
                            uuid = NoUuid \/ out[k][a].uuid \in {NoUuid, uuid}
                    /\ uuid.kind = "random" => \E e \in Printed(j, a) :
                            e.attr \in IdentityAttrs /\ e.value = ""

(* An asset is answered with the port its driver asked at, whoever chose   *)
(* it: but for ports that are none, which are cut where they are used and  *)
(* answered as they came, and where a driver other than SNMP's chose.      *)
(* NUT's "pdu" is an epdu in every answer, and every epdu, and nothing     *)
(* else, knows its place in the chain, wherever its type was read.         *)
PortIsTheDrivers(j, a) ==
    \/ request[j].protocol = "nut_powercom"
    \/ Find(out[j][a].ext, "port") = ToString(given[j].port)
    \/ Port(request[j]) \notin Ports
    \/ request[j].protocol # "nut_snmp" /\ request[j].port = None

KnowsItsPlace(j, a) ==
    /\ out[j][a].subtype \notin {"pdu", "ats"}
    /\ {e.value : e \in {e \in out[j][a].ext : e.attr = "daisy_chain"}} =
           IF out[j][a].subtype # "epdu" THEN {}
           ELSE IF Chained(j) THEN {ToString(a)} ELSE {"0"}

EndpointIsReached ==
    \A j \in Jobs : Answers(j) =>
        \A a \in DOMAIN out[j] : PortIsTheDrivers(j, a) /\ KnowsItsPlace(j, a)

(* A driver that prints more than the pipe holds is never done, and holds  *)
(* its worker; but every other job ends, whatever the drivers beside it do *)
OthersEnd == \A j \in Jobs : output[j].size <= PipeSize ~> pc[j] = "done"

(***************************************************************************)
(* The inductive invariant.                                                *)
(***************************************************************************)

ToldInv == \A j \in Jobs : told[j] # None => pc[j] \in {"cleanup", "done"}

(* What the reader of an SNMP job was given, by ReadMibs.                  *)
SessionOf(r) ==
    LET session == NewSession(Narrow(Port(r)))
    IN  IF r.credentialId # None THEN SessionCredentials(session, r.credentialId)
        ELSE SessionCommunity(session)

(* A driver's arguments are put together before it runs, its port first.   *)
GivenInv ==
    \A j \in Jobs :
        /\ pc[j] \in {"start", "create", "init"} => given[j] = NewDriver
        /\ pc[j] = "credentials" => given[j] = WithPort(NewDriver, request[j])
        /\ pc[j] \in {"run", "wait", "map", "load", "loading", "lookup"} \/ told[j] = "ok" =>
               given[j].port = DriverPort(request[j])

SpeakInv ==
    \A j \in Jobs : request[j].protocol = "nut_snmp" =>
        /\ pc[j] \in {"create", "init", "credentials"} =>
            /\ reader[j] = SessionOf(request[j])
            /\ request[j].credentialId # None \/ request[j].community
        /\ pc[j] = "run" \/ driver[j] # "none" => Speaks(j)

DriverInv ==
    \A j \in Jobs :
        /\ pc[j] \in {"start", "create", "init", "credentials", "run"} => driver[j] = "none"
        /\ driver[j] = "ok" => pipe[j] = output[j].size
        /\ pc[j] = "wait" => driver[j] # "none"
        /\ pc[j] \in {"map", "load", "loading", "lookup"} \/ told[j] = "ok" => driver[j] = "ok"

(* As long as no two workers met in mapping().                             *)
MapInv ==
    ~raced =>
        /\ readable => \A j \in Jobs : pc[j] = "lookup" => mapping = "full"
        /\ \A j \in Jobs : pc[j] = "load" => mapping = "unset"
        /\ mapping = "partial" => \E j \in Jobs : pc[j] = "loading"
        /\ \A j, k \in Jobs : {pc[j], pc[k]} \subseteq {"load", "loading"} => j = k

(* An answer is what parse makes of what the driver printed.               *)
AnswerInv ==
    \A j \in Jobs : told[j] = "ok" =>
        \E names \in Mappings :
            /\ out[j] = Parse(output[j].lines, names, request[j])
            /\ readable /\ ~raced => names = DOMAIN Inventory

IInv ==
    /\ TypeOK /\ DirectoriesAreOwn
    /\ ToldInv /\ GivenInv /\ SpeakInv /\ DriverInv /\ MapInv /\ AnswerInv
=============================================================================
