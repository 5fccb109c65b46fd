-------------------------- MODULE AssetsJobProofs --------------------------
(* Theorems about AssetsJob, for every number of jobs and drivers, whatever *)
(* they print and are asked, and every mapping.                             *)
EXTENDS AssetsJob, TLAPS, WellFoundedInduction

(***************************************************************************)
(* What the request, the reader and the driver know of each other.         *)
(***************************************************************************)

(* Ports are cut to 16 bits.                                                *)
LEMMA NarrowFits ==
    /\ \A n \in Nat : Narrow(n) \in Ports
    /\ \A n \in Ports : Narrow(n) = n
    /\ {0, SnmpPort, HttpPort} \subseteq Ports /\ Ports \subseteq Nat /\ SnmpPort # 0
<1>1. \A n \in Nat : Narrow(n) \in Ports
  BY SMT DEF Narrow, Ports
<1>2. ASSUME NEW n \in Ports PROVE Narrow(n) = n
  <2>1. n \in Int /\ 0 <= n /\ n < 65536
    BY SMT DEF Ports
  <2>2. n % 65536 = n
    BY <2>1, SMT
  <2> QED
    BY <2>2, SMT DEF Narrow
<1>3. {0, SnmpPort, HttpPort} \subseteq Ports /\ Ports \subseteq Nat /\ SnmpPort # 0
  BY SMT DEF Ports, SnmpPort, HttpPort
<1> QED
  BY <1>1, <1>2, <1>3

(* What a job is asked is a request, and its driver's text has lines.       *)
LEMMA InputFacts ==
    ASSUME TypeOK, NEW j \in Jobs
    PROVE  /\ request[j] \in Requests
           /\ output[j].size \in Nat /\ output[j].lines \in Lines
<1> DEFINE input == [request |-> request[j], output |-> output[j]]
<1>1. input \in Inputs /\ input.request = request[j] /\ input.output = output[j]
  BY DEF TypeOK
<1> HIDE DEF input
<1> QED
  BY <1>1, InputAssumption DEF Outputs

(* A request's port is one, but for the drivers that choose it themselves.  *)
LEMMA PortFacts ==
    ASSUME TypeOK, NEW j \in Jobs
    PROVE  /\ Port(request[j]) \in Nat /\ Narrow(Port(request[j])) \in Ports
           /\ request[j].protocol = "nut_snmp" => Port(request[j]) # 0
           /\ DriverPort(request[j]) \in Ports
<1>1. request[j].port # None => request[j].port \in Nat \ {0}
  BY InputFacts DEF Requests
<1>2. Port(request[j]) \in Nat /\ (request[j].protocol = "nut_snmp" => Port(request[j]) # 0)
  BY <1>1, NarrowFits DEF Port
<1>3. Narrow(Port(request[j])) \in Ports
  BY <1>2, NarrowFits
<1>4. DriverPort(request[j]) \in Ports
  BY <1>3, NarrowFits DEF DriverPort
<1> QED
  BY <1>2, <1>3, <1>4

(* A session is one whatever the wallet's document says.                    *)
LEMMA SessionIsTyped ==
    ASSUME NEW port \in Ports
    PROVE  /\ NewSession(port) \in Sessions /\ SessionCommunity(NewSession(port)) \in Sessions
           /\ \A doc \in Documents : SessionCredentials(NewSession(port), doc) \in Sessions
<1> USE DEF Sessions, NewSession, SessionCommunity
<1>1. NewSession(port) \in Sessions /\ SessionCommunity(NewSession(port)) \in Sessions
  OBVIOUS
<1>2. ASSUME NEW doc \in Documents
      PROVE  SessionCredentials(NewSession(port), doc) \in Sessions
  <2>1. /\ SessionLevel(doc.level) \in 0..3
        /\ SessionAuth(doc.auth) \in {"usmHMACMD5", "usmHMACSHA1", "none"}
        /\ SessionPriv(doc.priv) \in {"usmDES", "usmAES", "none"}
    BY DEF SessionLevel, SessionAuth, SessionPriv
  <2> QED
    BY <2>1 DEF SessionCredentials
<1> QED
  BY <1>1, <1>2

(* So are a driver's arguments.                                             *)
LEMMA ArgumentsAreTyped ==
    ASSUME NEW args \in Arguments
    PROVE  /\ DriverCommunity(args) \in Arguments
           /\ \A doc \in Documents : DriverCredentials(args, doc) \in Arguments
           /\ \A port \in Ports : [args EXCEPT !.port = port] \in Arguments
           /\ \A a \in SUBSET {"wallet account", "account"} : [args EXCEPT !.accounts = a] \in Arguments
<1> USE DEF Arguments
<1>1. DriverCommunity(args) \in Arguments
  BY DEF DriverCommunity
<1>2. ASSUME NEW doc \in Documents PROVE DriverCredentials(args, doc) \in Arguments
  <2>1. /\ DriverLevel(doc.level) \in {"", "noAuthNoPriv", "authNoPriv", "authPriv"}
        /\ DriverAuth(doc.auth) \in {"", "MD5", "SHA"}
        /\ DriverPriv(doc.priv) \in {"", "DES", "AES"}
    BY DEF DriverLevel, DriverAuth, DriverPriv
  <2> QED
    BY <1>1, <2>1 DEF DriverCredentials
<1>3. ASSUME NEW port \in Ports PROVE [args EXCEPT !.port = port] \in Arguments
  OBVIOUS
<1>4. ASSUME NEW a \in SUBSET {"wallet account", "account"}
      PROVE  [args EXCEPT !.accounts = a] \in Arguments
  OBVIOUS
<1> QED
  BY <1>1, <1>2, <1>3, <1>4

(* A record is known by its fields.                                         *)
LEMMA RecordsAreFields ==
    /\ \A x \in Arguments :
        x = [version |-> x.version, level |-> x.level, auth |-> x.auth, priv |-> x.priv,
             port |-> x.port, accounts |-> x.accounts]
    /\ \A x \in Sessions :
        x = [version |-> x.version, level |-> x.level, auth |-> x.auth, priv |-> x.priv,
             port |-> x.port]
    /\ \A x \in Sessions, q \in Ports :
        [x EXCEPT !.port = q] = [version |-> x.version, level |-> x.level, auth |-> x.auth,
                                 priv |-> x.priv, port |-> q]
<1>1. \A x \in Arguments :
        x = [version |-> x.version, level |-> x.level, auth |-> x.auth, priv |-> x.priv,
             port |-> x.port, accounts |-> x.accounts]
  <2>1. ASSUME NEW V, NEW L, NEW A, NEW P, NEW N, NEW C,
               NEW x \in [version : V, level : L, auth : A, priv : P, port : N, accounts : C]
        PROVE  x = [version |-> x.version, level |-> x.level, auth |-> x.auth, priv |-> x.priv,
                    port |-> x.port, accounts |-> x.accounts]
    OBVIOUS
  <2> QED
    BY <2>1 DEF Arguments
<1>2. \A x \in Sessions :
        x = [version |-> x.version, level |-> x.level, auth |-> x.auth, priv |-> x.priv,
             port |-> x.port]
  BY DEF Sessions
<1>3. ASSUME NEW x \in Sessions, NEW q \in Ports
      PROVE  [x EXCEPT !.port = q] = [version |-> x.version, level |-> x.level, auth |-> x.auth,
                                      priv |-> x.priv, port |-> q]
  <2> DEFINE y == [x EXCEPT !.port = q]
  <2>1. y \in Sessions
    BY DEF Sessions
  <2>2. y.version = x.version /\ y.level = x.level /\ y.auth = x.auth /\ y.priv = x.priv /\ y.port = q
    BY DEF Sessions
  <2> HIDE DEF y
  <2> QED
    BY <1>2, <2>1, <2>2 DEF y
<1> QED
  BY <1>1, <1>2, <1>3

(* The two translations of a document or a community say the same.          *)
LEMMA SameCredentials ==
    ASSUME NEW p \in Ports, NEW q \in Ports
    PROVE  LET session == NewSession(p)
               args == [NewDriver EXCEPT !.port = q]
           IN  /\ DriverSession(DriverCommunity(args)) = [SessionCommunity(session) EXCEPT !.port = q]
               /\ DriverCommunity(args).accounts = {}
               /\ \A doc \in Documents : doc.kind # "password" =>
                    /\ DriverSession(DriverCredentials(args, doc)) =
                           [SessionCredentials(session, doc) EXCEPT !.port = q]
                    /\ DriverCredentials(args, doc).accounts = {}
<1> DEFINE session == NewSession(p)
           args == [NewDriver EXCEPT !.port = q]
<1>1. args = [version |-> "", level |-> "", auth |-> "", priv |-> "", port |-> q, accounts |-> {}]
  <2>1. NewDriver \in Arguments
    BY NarrowFits DEF NewDriver, Arguments
  <2>2. args \in Arguments
    BY <2>1, ArgumentsAreTyped
  <2>3. /\ args.version = "" /\ args.level = "" /\ args.auth = "" /\ args.priv = ""
        /\ args.port = q /\ args.accounts = {}
    BY DEF NewDriver
  <2> QED
    BY <2>2, <2>3, RecordsAreFields
<1> HIDE DEF args
<1>2. /\ DriverSession(DriverCommunity(args)) = [SessionCommunity(session) EXCEPT !.port = q]
      /\ DriverCommunity(args).accounts = {}
  <2> DEFINE asked == DriverCommunity(args)
             read == SessionCommunity(session)
  <2>1. /\ asked.version = "v1" /\ asked.level = "" /\ asked.auth = "" /\ asked.priv = ""
        /\ asked.port = q /\ asked.accounts = {}
    BY <1>1 DEF DriverCommunity
  <2>2. read.version = "v1" /\ read.level = 0 /\ read.auth = "none" /\ read.priv = "none"
    BY DEF SessionCommunity, NewSession
  <2>3. read \in Sessions
    BY SessionIsTyped
  <2> HIDE DEF asked, read
  <2>4. DriverSession(asked) = [version |-> "v1", level |-> 0, auth |-> "none", priv |-> "none",
                                port |-> q]
    BY <2>1 DEF DriverSession
  <2>5. [read EXCEPT !.port = q] = [version |-> "v1", level |-> 0, auth |-> "none",
                                    priv |-> "none", port |-> q]
    BY <2>2, <2>3, RecordsAreFields
  <2> QED
    BY <2>1, <2>4, <2>5 DEF asked, read
<1>3. ASSUME NEW doc \in Documents, doc.kind = "snmpv3"
      PROVE  /\ DriverSession(DriverCredentials(args, doc)) =
                    [SessionCredentials(session, doc) EXCEPT !.port = q]
             /\ DriverCredentials(args, doc).accounts = {}
  <2> DEFINE given3 == [version |-> "v3", level |-> DriverLevel(doc.level),
                        auth |-> DriverAuth(doc.auth), priv |-> DriverPriv(doc.priv),
                        port |-> q, accounts |-> {}]
  <2>1. DriverCredentials(args, doc) = given3
    BY <1>1, <1>3 DEF DriverCredentials
  <2>2. SessionCredentials(session, doc) =
            [version |-> "v3", level |-> SessionLevel(doc.level),
             auth |-> SessionAuth(doc.auth), priv |-> SessionPriv(doc.priv), port |-> p]
    BY <1>3 DEF SessionCredentials, NewSession
  <2>3. DriverSession(given3).level = SessionLevel(doc.level)
    BY DEF DriverSession, DriverLevel, SessionLevel, Documents
  <2>4. DriverSession(given3).auth = SessionAuth(doc.auth)
    BY DEF DriverSession, DriverAuth, SessionAuth, Documents
  <2>5. DriverSession(given3).priv = SessionPriv(doc.priv)
    BY DEF DriverSession, DriverPriv, SessionPriv, Documents
  <2>6. DriverSession(given3) =
            [version |-> "v3", level |-> SessionLevel(doc.level),
             auth |-> SessionAuth(doc.auth), priv |-> SessionPriv(doc.priv), port |-> q]
    BY <2>3, <2>4, <2>5 DEF DriverSession
  <2> QED
    BY <2>1, <2>2, <2>6
<1>4. ASSUME NEW doc \in Documents, doc.kind = "snmpv1"
      PROVE  /\ DriverCredentials(args, doc) = DriverCommunity(args)
             /\ SessionCredentials(session, doc) = SessionCommunity(session)
  BY <1>4 DEF DriverCredentials, SessionCredentials
<1>5. \A doc \in Documents : doc.kind \in {"snmpv3", "snmpv1", "password"}
  BY DEF Documents
<1> QED
  BY <1>2, <1>3, <1>4, <1>5 DEF args

(***************************************************************************)
(* What parse answers with, in short.                                      *)
(***************************************************************************)

Type(lines) == ValueOf(Dictionary(lines), Named("device.type"))
Count(lines) == CountOf(Dictionary(lines))

(* The device's number is told only of a chain.                             *)
Subs(lines) == IF Count(lines) > 1 THEN 1..Count(lines) ELSE {1}
Address(lines, a) == IF Count(lines) > 1 THEN ToString(a) ELSE ""

KeysOf(lines, a) ==
    IF Count(lines) > 1 THEN {k \in DOMAIN Dictionary(lines) : InChain(k, a)}
    ELSE DOMAIN Dictionary(lines)

ExtOf(lines, names, a) ==
    IF Count(lines) > 1 THEN Mapped(Dictionary(lines), KeysOf(lines, a), TRUE, names)
    ELSE Mapped(Dictionary(lines), KeysOf(lines, a), FALSE, names)

(* The number of devices is an integer, below a hundred.                    *)
LEMMA CountIsANumber ==
    ASSUME NEW lines
    PROVE  /\ Count(lines) \in Int /\ Count(lines) < 100
           /\ \A a \in 1..Count(lines) : ToString(a) # ""
<1> DEFINE text == ValueOf(Dictionary(lines), Named("device.count"))
<1>1. CASE text \in DOMAIN Number
  BY <1>1, NumberAssumption DEF Count, CountOf
<1>2. CASE text \notin DOMAIN Number
  BY <1>2 DEF Count, CountOf
<1> QED
  BY <1>1, <1>2

(* One asset for each device of the chain, or one in all.                   *)
LEMMA ParseShape ==
    ASSUME NEW lines, NEW names, NEW r
    PROVE  LET answer == Parse(lines, names, r)
           IN  /\ DOMAIN answer = Subs(lines) /\ answer # <<>>
               /\ Len(answer) > 1 <=> Count(lines) > 1
               /\ \A a \in Subs(lines) : answer[a] =
                    Enriched(Address(lines, a), Type(lines), ExtOf(lines, names, a), r)
<1> DEFINE answer == Parse(lines, names, r)
           asset(a) == Enriched(Address(lines, a), Type(lines), ExtOf(lines, names, a), r)
<1>1. Count(lines) \in Int
  BY CountIsANumber
<1>2. CASE Count(lines) > 1
  <2>1. answer = [a \in 1..Count(lines) |-> asset(a)]
    BY <1>2 DEF Parse, Address, Type, ExtOf, KeysOf, Count
  <2> HIDE DEF answer, asset
  <2>2. DOMAIN answer = 1..Count(lines) /\ \A a \in 1..Count(lines) : answer[a] = asset(a)
    BY <2>1
  <2>3. Len(answer) = Count(lines)
    BY <1>1, <1>2, <2>1
  <2>4. 1 \in DOMAIN answer
    BY <1>1, <1>2, <2>2
  <2> QED
    BY <1>2, <2>2, <2>3, <2>4 DEF Subs, asset, answer
<1>3. CASE ~(Count(lines) > 1)
  <2>1. answer = <<asset(1)>>
    BY <1>3 DEF Parse, Address, Type, ExtOf, KeysOf, Count
  <2> HIDE DEF answer, asset
  <2>2. DOMAIN answer = {1} /\ answer[1] = asset(1) /\ Len(answer) = 1
    BY <2>1
  <2> QED
    BY <1>3, <2>2 DEF Subs, asset, answer
<1> QED
  BY <1>2, <1>3

(***************************************************************************)
(* The inductive invariant, part by part.                                  *)
(***************************************************************************)

LEMMA InitIInv == Init => IInv
<1> SUFFICES ASSUME Init PROVE IInv
  OBVIOUS
<1>1. PICK input \in [Jobs -> Inputs] :
        /\ request = [j \in Jobs |-> input[j].request]
        /\ output = [j \in Jobs |-> input[j].output]
  BY DEF Init
<1>2. \A j \in Jobs : [request |-> request[j], output |-> output[j]] \in Inputs
  <2> SUFFICES ASSUME NEW j \in Jobs
               PROVE  [request |-> request[j], output |-> output[j]] \in Inputs
    OBVIOUS
  <2>1. input[j] \in Inputs /\ request[j] = input[j].request /\ output[j] = input[j].output
    BY <1>1
  <2>2. input[j] = [request |-> input[j].request, output |-> input[j].output]
    BY <2>1, InputAssumption
  <2> QED
    BY <2>1, <2>2
<1>3. NewDriver \in Arguments
  BY NarrowFits DEF NewDriver, Arguments
<1>4. TypeOK
  <2>1. /\ given \in [Jobs -> Arguments] /\ reader \in [Jobs -> Sessions \cup {None}]
        /\ driver \in [Jobs -> {"none", "running", "ok", "failed"}]
    BY <1>3 DEF Init
  <2>2. pipe \in [Jobs -> 0..PipeSize]
    BY InputAssumption DEF Init
  <2>3. /\ pc \in [Jobs -> Places] /\ root \in [Jobs -> TempDirs \cup {SharedDir, None}]
        /\ dirs \subseteq TempDirs \cup {SharedDir}
        /\ readable \in BOOLEAN /\ mapping \in {"unset", "partial", "full"} /\ raced \in BOOLEAN
    BY DEF Init, Places
  <2>4. told \in [Jobs -> {None, "ok", "error", "escaped"}] /\ DOMAIN out = Jobs
    BY DEF Init
  <2>5. \A j \in Jobs : told[j] = "ok" <=> out[j] # <<>>
    BY NoneAssumption DEF Init
  <2> QED
    BY <1>2, <2>1, <2>2, <2>3, <2>4, <2>5 DEF TypeOK
<1>5. DirectoriesAreOwn
  BY InputAssumption DEF Init, DirectoriesAreOwn, OwnRoots, Inside
<1>6. ToldInv /\ GivenInv /\ SpeakInv /\ DriverInv
  BY NoneAssumption DEF Init, ToldInv, GivenInv, SpeakInv, DriverInv
<1>7. MapInv /\ AnswerInv
  BY NoneAssumption DEF Init, MapInv, AnswerInv
<1> QED
  BY <1>4, <1>5, <1>6, <1>7 DEF IInv

(* What changes is of the declared types.                                   *)
LEMMA TypeOKStep ==
    ASSUME TypeOK, ToldInv, NEW i \in Jobs, Job(i) \/ Driver(i)
    PROVE  TypeOK'
<1> USE DEF TypeOK, Places, Goto, jobVars, dirVars, driverVars, mapVars
<1>0. \A status \in {"ok", "error", "escaped"} : told[i] = status => pc[i] \in {"cleanup", "done"}
  BY NoneAssumption DEF ToldInv
<1>1. CASE Refuse(i)
  BY <1>1, <1>0 DEF Refuse
<1>2. CASE ReadMibs(i)
  <2>1. reader' \in [Jobs -> Sessions \cup {None}]
    <3>1. Narrow(Port(request[i])) \in Ports /\ request[i].credentialId \in Documents \cup {None}
      BY PortFacts, InputFacts DEF Requests
    <3> DEFINE session == NewSession(Narrow(Port(request[i])))
    <3>2. /\ SessionCommunity(session) \in Sessions
          /\ \A doc \in Documents : SessionCredentials(session, doc) \in Sessions
      BY <3>1, SessionIsTyped
    <3>3. \/ UNCHANGED reader
          \/ /\ request[i].credentialId # None
             /\ reader' = [reader EXCEPT ![i] = SessionCredentials(session, request[i].credentialId)]
          \/ reader' = [reader EXCEPT ![i] = SessionCommunity(session)]
      BY <1>2 DEF ReadMibs
    <3> HIDE DEF session
    <3> QED
      BY <3>1, <3>2, <3>3
  <2> QED
    BY <1>2, <2>1 DEF ReadMibs
<1>3. CASE Create(i)
  BY <1>3, <1>0 DEF Create
<1>4. CASE Setup(i)
  <2>1. given' \in [Jobs -> Arguments]
    <3>1. WithPort(given[i], request[i]) \in Arguments
      BY PortFacts, ArgumentsAreTyped DEF WithPort
    <3> QED
      BY <1>4, <3>1 DEF Setup
  <2> QED
    BY <1>4, <2>1 DEF Setup
<1>5. CASE SetupFails(i)
  BY <1>5, <1>0 DEF SetupFails, Leave
<1>6. CASE SetCredentials(i)
  <2> DEFINE r == request[i]
             first == FromRequest(given[i], r)
  <2>1. r.credentialId \in Documents \cup {None} /\ given[i] \in Arguments
    BY InputFacts DEF Requests
  <2>2. FromWallet(given[i], r) \in Arguments \/ r.credentialId = None
    BY <2>1, ArgumentsAreTyped DEF FromWallet
  <2>3. first \in Arguments
    BY <2>1, <2>2, ArgumentsAreTyped DEF FromRequest
  <2>4. WithAccount(first, r) \in Arguments
    <3>1. first.accounts \cup {"account"} \in SUBSET {"wallet account", "account"}
      BY <2>3 DEF Arguments
    <3> HIDE DEF first
    <3> QED
      BY <2>3, <3>1, ArgumentsAreTyped DEF WithAccount
  <2>5. given' = [given EXCEPT ![i] = WithAccount(first, r)]
    BY <1>6 DEF SetCredentials
  <2> HIDE DEF first, r
  <2> QED
    BY <1>6, <2>4, <2>5 DEF SetCredentials
<1>7. CASE CredentialsFail(i)
  BY <1>7, <1>0 DEF CredentialsFail, Leave
<1>8. CASE WalletEscapes(i)
  BY <1>8, <1>0 DEF WalletEscapes, Leave
<1>9. CASE Launch(i)
  BY <1>9, <1>0 DEF Launch
<1>10. CASE LaunchFails(i)
  BY <1>10, <1>0 DEF LaunchFails, Leave
<1>11. CASE Collect(i)
  <2>1. CASE driver[i] = "failed"
    <3>1. /\ pc[i] = "wait" /\ pc' = [pc EXCEPT ![i] = "cleanup"]
          /\ told' = [told EXCEPT ![i] = "error"]
          /\ UNCHANGED <<request, reader, given, out, root, dirs, driver, output, pipe,
                         readable, mapping, raced>>
      BY <1>11, <2>1 DEF Collect, Leave, Ready
    <3> QED
      BY <3>1, <1>0
  <2>2. CASE driver[i] # "failed"
    BY <1>11, <2>2, <1>0 DEF Collect
  <2> QED
    BY <2>1, <2>2
<1>12. CASE Cleanup(i)
  BY <1>12, <1>0 DEF Cleanup, Removes
<1>13. CASE CheckMapping(i)
  BY <1>13, <1>0 DEF CheckMapping, races, MappingMissing
<1>14. CASE LoadBegins(i)
  BY <1>14, <1>0 DEF LoadBegins, races
<1>15. CASE LoadFails(i)
  BY <1>15, <1>0 DEF LoadFails, races
<1>16. CASE LoadEnds(i)
  BY <1>16, <1>0 DEF LoadEnds, races, Loaded
<1>17. CASE Lookup(i)
  <2>1. PICK names \in Names(i) : out' = [out EXCEPT
            ![i] = Answer[[request |-> request[i], output |-> output[i]]][names]]
    BY <1>17 DEF Lookup
  <2>2. Names(i) \subseteq Mappings
    BY DEF Names, Mappings
  <2>3. out'[i] = Parse(output[i].lines, names, request[i])
    BY <2>1, <2>2 DEF Answer
  <2>4. out'[i] # <<>>
    BY <2>3, ParseShape
  <2>5. told' = [told EXCEPT ![i] = "ok"] /\ pc' = [pc EXCEPT ![i] = "cleanup"]
    BY <1>17 DEF Lookup, Leave
  <2> QED
    BY <1>17, <2>1, <2>4, <2>5 DEF Lookup, races
<1>18. CASE DriverWrites(i)
  <2>1. pipe[i] \in Nat /\ pipe[i] < PipeSize
    BY <1>18 DEF DriverWrites, MayWrite
  <2>2. pipe[i] + 1 \in 0..PipeSize
    BY <2>1, InputAssumption
  <2> QED
    BY <1>18, <2>2 DEF DriverWrites
<1>19. CASE DriverExits(i)
  BY <1>19, <1>0 DEF DriverExits
<1> QED
  BY <1>1, <1>2, <1>3, <1>4, <1>5, <1>6, <1>7, <1>8, <1>9, <1>10, <1>11, <1>12,
     <1>13, <1>14, <1>15, <1>16, <1>17, <1>18, <1>19 DEF Job, Driver

(* What a job answers with is known when it leaves run(), and not before.   *)
LEMMA ToldStep ==
    ASSUME TypeOK, ToldInv, NEW i \in Jobs, Job(i) \/ Driver(i)
    PROVE  ToldInv'
<1> USE DEF TypeOK, ToldInv, jobVars, dirVars, driverVars, mapVars, Goto
<1>1. CASE Refuse(i)
  BY <1>1 DEF Refuse
<1>2. CASE ReadMibs(i)
  BY <1>2 DEF ReadMibs
<1>3. CASE Create(i)
  BY <1>3 DEF Create
<1>4. CASE Setup(i)
  BY <1>4 DEF Setup
<1>5. CASE SetupFails(i)
  BY <1>5 DEF SetupFails, Leave
<1>6. CASE SetCredentials(i)
  BY <1>6 DEF SetCredentials
<1>7. CASE CredentialsFail(i)
  BY <1>7 DEF CredentialsFail, Leave
<1>8. CASE WalletEscapes(i)
  BY <1>8 DEF WalletEscapes, Leave
<1>9. CASE Launch(i)
  BY <1>9 DEF Launch
<1>10. CASE LaunchFails(i)
  BY <1>10 DEF LaunchFails, Leave
<1>11. CASE Collect(i)
  BY <1>11 DEF Collect, Leave, Ready
<1>12. CASE Cleanup(i)
  BY <1>12 DEF Cleanup, Removes
<1>13. CASE CheckMapping(i)
  BY <1>13 DEF CheckMapping, races, MappingMissing
<1>14. CASE LoadBegins(i)
  BY <1>14 DEF LoadBegins, races
<1>15. CASE LoadFails(i)
  BY <1>15 DEF LoadFails, races
<1>16. CASE LoadEnds(i)
  BY <1>16 DEF LoadEnds, races
<1>17. CASE Lookup(i)
  BY <1>17 DEF Lookup, Leave, races
<1>18. CASE DriverWrites(i)
  BY <1>18 DEF DriverWrites, MayWrite
<1>19. CASE DriverExits(i)
  BY <1>19 DEF DriverExits
<1> QED
  BY <1>1, <1>2, <1>3, <1>4, <1>5, <1>6, <1>7, <1>8, <1>9, <1>10, <1>11, <1>12,
     <1>13, <1>14, <1>15, <1>16, <1>17, <1>18, <1>19 DEF Job, Driver

(* A driver is launched once, and waited for.                               *)
LEMMA DriverStep ==
    ASSUME TypeOK, ToldInv, DriverInv, NEW i \in Jobs, Job(i) \/ Driver(i)
    PROVE  DriverInv'
<1> USE DEF TypeOK, ToldInv, DriverInv, jobVars, dirVars, driverVars, mapVars, Goto
<1>1. CASE Refuse(i)
  BY <1>1, NoneAssumption DEF Refuse
<1>2. CASE ReadMibs(i)
  BY <1>2, NoneAssumption DEF ReadMibs
<1>3. CASE Create(i)
  BY <1>3, NoneAssumption DEF Create
<1>4. CASE Setup(i)
  BY <1>4, NoneAssumption DEF Setup
<1>5. CASE SetupFails(i)
  BY <1>5, NoneAssumption DEF SetupFails, Leave
<1>6. CASE SetCredentials(i)
  BY <1>6, NoneAssumption DEF SetCredentials
<1>7. CASE CredentialsFail(i)
  BY <1>7, NoneAssumption DEF CredentialsFail, Leave
<1>8. CASE WalletEscapes(i)
  BY <1>8, NoneAssumption DEF WalletEscapes, Leave
<1>9. CASE Launch(i)
  BY <1>9, NoneAssumption DEF Launch
<1>10. CASE LaunchFails(i)
  BY <1>10, NoneAssumption DEF LaunchFails, Leave
<1>11. CASE Collect(i)
  BY <1>11, NoneAssumption DEF Collect, Leave, Ready
<1>12. CASE Cleanup(i)
  BY <1>12, NoneAssumption DEF Cleanup, Removes
<1>13. CASE CheckMapping(i)
  BY <1>13, NoneAssumption DEF CheckMapping, races, MappingMissing
<1>14. CASE LoadBegins(i)
  BY <1>14, NoneAssumption DEF LoadBegins, races
<1>15. CASE LoadFails(i)
  BY <1>15, NoneAssumption DEF LoadFails, races
<1>16. CASE LoadEnds(i)
  BY <1>16, NoneAssumption DEF LoadEnds, races
<1>17. CASE Lookup(i)
  BY <1>17, NoneAssumption DEF Lookup, Leave, races
<1>18. CASE DriverWrites(i)
  BY <1>18, NoneAssumption DEF DriverWrites, MayWrite
<1>19. CASE DriverExits(i)
  BY <1>19, NoneAssumption DEF DriverExits
<1> QED
  BY <1>1, <1>2, <1>3, <1>4, <1>5, <1>6, <1>7, <1>8, <1>9, <1>10, <1>11, <1>12,
     <1>13, <1>14, <1>15, <1>16, <1>17, <1>18, <1>19 DEF Job, Driver

(* A directory is made for one job, and removed by that job alone.          *)
LEMMA DirectoriesStep ==
    ASSUME TypeOK, DirectoriesAreOwn, NEW i \in Jobs, Job(i) \/ Driver(i)
    PROVE  DirectoriesAreOwn'
<1> USE DEF TypeOK, DirectoriesAreOwn, jobVars, dirVars, driverVars, mapVars, Goto
<1>1. CASE Refuse(i)
  <2>1. root' = root /\ dirs' = dirs /\ \A j \in Jobs : Inside(j)' = Inside(j)
    BY <1>1 DEF Inside, Refuse
  <2> QED
    BY <2>1 DEF OwnRoots
<1>2. CASE ReadMibs(i)
  <2>1. root' = root /\ dirs' = dirs /\ \A j \in Jobs : Inside(j)' = Inside(j)
    BY <1>2 DEF Inside, ReadMibs
  <2> QED
    BY <2>1 DEF OwnRoots
<1>3. CASE Create(i)
  <2>1. /\ pc[i] = "create" /\ pc' = [pc EXCEPT ![i] = "init"]
        /\ \/ \E d \in TempDirs \ dirs :
                root' = [root EXCEPT ![i] = d] /\ dirs' = dirs \cup {d}
           \/ root' = [root EXCEPT ![i] = SharedDir] /\ UNCHANGED dirs
    BY <1>3 DEF Create
  <2>2. ~Inside(i) /\ Inside(i)' /\ \A j \in Jobs \ {i} : Inside(j)' = Inside(j) /\ root'[j] = root[j]
    BY <2>1 DEF Inside
  <2>a. \A x : x \in OwnRoots <=> x \in TempDirs /\ \E k \in Jobs : Inside(k) /\ x = root[k]
    BY DEF OwnRoots
  <2>b. \A x : x \in OwnRoots' <=> x \in TempDirs /\ \E k \in Jobs : Inside(k)' /\ x = root'[k]
    BY DEF OwnRoots
  <2>3. OwnRoots' = OwnRoots \cup ({root'[i]} \cap TempDirs)
    <3>1. ASSUME NEW x PROVE x \in OwnRoots' <=> x \in OwnRoots \cup ({root'[i]} \cap TempDirs)
      <4> HIDE DEF DirectoriesAreOwn, TypeOK
      <4> QED
        BY <2>2, <2>a, <2>b
    <3> QED
      BY <3>1, Zenon
  <2>4. CASE UNCHANGED dirs /\ root' = [root EXCEPT ![i] = SharedDir]
    <3>1. root'[i] = SharedDir
      BY <2>4
    <3> QED
      BY <2>2, <2>3, <2>4, <3>1, InputAssumption
  <2>5. ASSUME NEW d \in TempDirs \ dirs,
               root' = [root EXCEPT ![i] = d], dirs' = dirs \cup {d}
        PROVE  DirectoriesAreOwn'
    <3>1. root'[i] = d /\ \A j \in Jobs : Inside(j) => root[j] # d
      BY <2>5 DEF OwnRoots
    <3> QED
      BY <2>2, <2>3, <2>5, <3>1
  <2> QED
    BY <2>1, <2>4, <2>5
<1>4. CASE Setup(i)
  <2>1. root' = root /\ dirs' = dirs /\ \A j \in Jobs : Inside(j)' = Inside(j)
    BY <1>4 DEF Inside, Setup
  <2> QED
    BY <2>1 DEF OwnRoots
<1>5. CASE SetupFails(i)
  <2>1. root' = root /\ dirs' = dirs /\ \A j \in Jobs : Inside(j)' = Inside(j)
    BY <1>5 DEF Inside, SetupFails, Leave
  <2> QED
    BY <2>1 DEF OwnRoots
<1>6. CASE SetCredentials(i)
  <2>1. root' = root /\ dirs' = dirs /\ \A j \in Jobs : Inside(j)' = Inside(j)
    BY <1>6 DEF Inside, SetCredentials
  <2> QED
    BY <2>1 DEF OwnRoots
<1>7. CASE CredentialsFail(i)
  <2>1. root' = root /\ dirs' = dirs /\ \A j \in Jobs : Inside(j)' = Inside(j)
    BY <1>7 DEF Inside, CredentialsFail, Leave
  <2> QED
    BY <2>1 DEF OwnRoots
<1>8. CASE WalletEscapes(i)
  <2>1. root' = root /\ dirs' = dirs /\ \A j \in Jobs : Inside(j)' = Inside(j)
    BY <1>8 DEF Inside, WalletEscapes, Leave
  <2> QED
    BY <2>1 DEF OwnRoots
<1>9. CASE Launch(i)
  <2>1. root' = root /\ dirs' = dirs /\ \A j \in Jobs : Inside(j)' = Inside(j)
    BY <1>9 DEF Inside, Launch
  <2> QED
    BY <2>1 DEF OwnRoots
<1>10. CASE LaunchFails(i)
  <2>1. root' = root /\ dirs' = dirs /\ \A j \in Jobs : Inside(j)' = Inside(j)
    BY <1>10 DEF Inside, LaunchFails, Leave
  <2> QED
    BY <2>1 DEF OwnRoots
<1>11. CASE Collect(i)
  <2>1. root' = root /\ dirs' = dirs /\ \A j \in Jobs : Inside(j)' = Inside(j)
    BY <1>11 DEF Inside, Collect, Leave, Ready
  <2> QED
    BY <2>1 DEF OwnRoots
<1>12. CASE Cleanup(i)
  <2>1. pc[i] = "cleanup" /\ pc' = [pc EXCEPT ![i] = "done"] /\ dirs' = dirs \ {root[i]} /\ root' = root
    BY <1>12 DEF Cleanup, Removes
  <2>2. Inside(i) /\ ~Inside(i)' /\ \A j \in Jobs \ {i} : Inside(j)' = Inside(j)
    BY <2>1 DEF Inside
  <2>3. \A j \in Jobs : j # i /\ Inside(j) /\ root[j] \in TempDirs => root[j] # root[i]
    BY <2>2, InputAssumption
  <2>a. \A x : x \in OwnRoots <=> x \in TempDirs /\ \E k \in Jobs : Inside(k) /\ x = root[k]
    BY DEF OwnRoots
  <2>b. \A x : x \in OwnRoots' <=> x \in TempDirs /\ \E k \in Jobs : Inside(k)' /\ x = root'[k]
    BY DEF OwnRoots
  <2>4. OwnRoots' = OwnRoots \ {root[i]}
    <3>1. ASSUME NEW x PROVE x \in OwnRoots' <=> x \in OwnRoots \ {root[i]}
      <4> HIDE DEF DirectoriesAreOwn, TypeOK
      <4> QED
        BY <2>1, <2>2, <2>3, <2>a, <2>b
    <3> QED
      BY <3>1, Zenon
  <2> QED
    BY <2>1, <2>2, <2>4
<1>13. CASE CheckMapping(i)
  <2>1. root' = root /\ dirs' = dirs /\ \A j \in Jobs : Inside(j)' = Inside(j)
    BY <1>13 DEF Inside, CheckMapping, races, MappingMissing
  <2> QED
    BY <2>1 DEF OwnRoots
<1>14. CASE LoadBegins(i)
  <2>1. root' = root /\ dirs' = dirs /\ \A j \in Jobs : Inside(j)' = Inside(j)
    BY <1>14 DEF Inside, LoadBegins, races
  <2> QED
    BY <2>1 DEF OwnRoots
<1>15. CASE LoadFails(i)
  <2>1. root' = root /\ dirs' = dirs /\ \A j \in Jobs : Inside(j)' = Inside(j)
    BY <1>15 DEF Inside, LoadFails, races
  <2> QED
    BY <2>1 DEF OwnRoots
<1>16. CASE LoadEnds(i)
  <2>1. root' = root /\ dirs' = dirs /\ \A j \in Jobs : Inside(j)' = Inside(j)
    BY <1>16 DEF Inside, LoadEnds, races
  <2> QED
    BY <2>1 DEF OwnRoots
<1>17. CASE Lookup(i)
  <2>1. root' = root /\ dirs' = dirs /\ \A j \in Jobs : Inside(j)' = Inside(j)
    BY <1>17 DEF Inside, Lookup, Leave, races
  <2> QED
    BY <2>1 DEF OwnRoots
<1>18. CASE DriverWrites(i)
  <2>1. root' = root /\ dirs' = dirs /\ \A j \in Jobs : Inside(j)' = Inside(j)
    BY <1>18 DEF Inside, DriverWrites, MayWrite
  <2> QED
    BY <2>1 DEF OwnRoots
<1>19. CASE DriverExits(i)
  <2>1. root' = root /\ dirs' = dirs /\ \A j \in Jobs : Inside(j)' = Inside(j)
    BY <1>19 DEF Inside, DriverExits
  <2> QED
    BY <2>1 DEF OwnRoots
<1> QED
  BY <1>1, <1>2, <1>3, <1>4, <1>5, <1>6, <1>7, <1>8, <1>9, <1>10, <1>11, <1>12,
     <1>13, <1>14, <1>15, <1>16, <1>17, <1>18, <1>19 DEF Job, Driver

(* Only when two workers meet in mapping() is it used half filled.          *)
LEMMA MapStep ==
    ASSUME TypeOK, MapInv, NEW i \in Jobs, Job(i) \/ Driver(i)
    PROVE  MapInv'
<1> USE DEF TypeOK, MapInv, Others, jobVars, dirVars, driverVars, mapVars, Goto
<1>1. CASE Refuse(i)
  BY <1>1 DEF Refuse
<1>2. CASE ReadMibs(i)
  BY <1>2 DEF ReadMibs
<1>3. CASE Create(i)
  BY <1>3 DEF Create
<1>4. CASE Setup(i)
  BY <1>4 DEF Setup
<1>5. CASE SetupFails(i)
  BY <1>5 DEF SetupFails, Leave
<1>6. CASE SetCredentials(i)
  BY <1>6 DEF SetCredentials
<1>7. CASE CredentialsFail(i)
  BY <1>7 DEF CredentialsFail, Leave
<1>8. CASE WalletEscapes(i)
  BY <1>8 DEF WalletEscapes, Leave
<1>9. CASE Launch(i)
  BY <1>9 DEF Launch
<1>10. CASE LaunchFails(i)
  BY <1>10 DEF LaunchFails, Leave
<1>11. CASE Collect(i)
  BY <1>11 DEF Collect, Leave, Ready
<1>12. CASE Cleanup(i)
  BY <1>12 DEF Cleanup, Removes
<1>13. CASE CheckMapping(i)
  <2>1. /\ pc[i] = "map" /\ mapping' = mapping /\ readable' = readable /\ raced' = (raced \/ Others(i))
        /\ pc' = [pc EXCEPT ![i] = IF mapping = "unset" THEN "load" ELSE "lookup"]
    BY <1>13 DEF CheckMapping, races, MappingMissing
  <2> SUFFICES ASSUME ~raced' PROVE MapInv'
    OBVIOUS
  <2>2. ~raced /\ \A k \in Jobs : pc[k] \notin {"load", "loading"}
    BY <2>1
  <2>3. mapping # "partial"
    BY <2>2
  <2>4. CASE mapping = "unset"
    <3>1. pc'[i] = "load" /\ \A k \in Jobs \ {i} : pc'[k] = pc[k]
      BY <2>1, <2>4
    <3> QED
      BY <2>1, <2>2, <2>4, <3>1
  <2>5. CASE mapping = "full"
    <3>1. pc'[i] = "lookup" /\ \A k \in Jobs \ {i} : pc'[k] = pc[k]
      BY <2>1, <2>5
    <3> QED
      BY <2>1, <2>2, <2>5, <3>1
  <2> QED
    BY <2>3, <2>4, <2>5
<1>14. CASE LoadBegins(i)
  BY <1>14 DEF LoadBegins, races
<1>15. CASE LoadFails(i)
  BY <1>15 DEF LoadFails, races
<1>16. CASE LoadEnds(i)
  BY <1>16 DEF LoadEnds, races, Loaded
<1>17. CASE Lookup(i)
  BY <1>17 DEF Lookup, Leave, races
<1>18. CASE DriverWrites(i)
  BY <1>18 DEF DriverWrites, MayWrite
<1>19. CASE DriverExits(i)
  BY <1>19 DEF DriverExits
<1> QED
  BY <1>1, <1>2, <1>3, <1>4, <1>5, <1>6, <1>7, <1>8, <1>9, <1>10, <1>11, <1>12,
     <1>13, <1>14, <1>15, <1>16, <1>17, <1>18, <1>19 DEF Job, Driver

(* The port stays as init() set it, whatever credentials follow.            *)
LEMMA PortIsKept ==
    ASSUME NEW args \in Arguments, NEW r \in Requests
    PROVE  WithAccount(FromRequest(args, r), r).port = args.port
<1>1. DriverCommunity(args).port = args.port /\ DriverCommunity(args) \in Arguments
  <2>1. DriverCommunity(args) \in Arguments
    BY ArgumentsAreTyped
  <2> QED
    BY <2>1 DEF Arguments, DriverCommunity
<1>2. ASSUME NEW a \in Arguments, NEW s \in SUBSET {"wallet account", "account"}
      PROVE  [a EXCEPT !.accounts = s].port = a.port /\ [a EXCEPT !.accounts = s] \in Arguments
  BY ArgumentsAreTyped DEF Arguments
<1>3. ASSUME NEW doc \in Documents
      PROVE  DriverCredentials(args, doc).port = args.port /\ DriverCredentials(args, doc) \in Arguments
  BY <1>1, ArgumentsAreTyped DEF DriverCredentials
<1>4. r.credentialId \in Documents \cup {None}
  BY DEF Requests
<1>5. r.credentialId # None =>
        FromWallet(args, r).port = args.port /\ FromWallet(args, r) \in Arguments
  BY <1>2, <1>3, <1>4 DEF FromWallet
<1>6. FromRequest(args, r).port = args.port /\ FromRequest(args, r) \in Arguments
  BY <1>1, <1>5 DEF FromRequest
<1> DEFINE first == FromRequest(args, r)
<1> HIDE DEF first
<1>7. first.accounts \cup {"account"} \in SUBSET {"wallet account", "account"}
  BY <1>6 DEF Arguments, first
<1>8. WithAccount(first, r).port = first.port
  BY <1>2, <1>6, <1>7 DEF WithAccount, first
<1> QED
  BY <1>6, <1>8 DEF first

(* What an SNMP driver is told agrees with what the reader was.             *)
LEMMA CredentialsAgree ==
    ASSUME NEW r \in Requests, r.protocol = "nut_snmp", CredentialsFit(r),
           r.credentialId # None \/ r.community,
           Narrow(Port(r)) \in Ports, DriverPort(r) \in Ports
    PROVE  /\ DriverSession(WithAccount(FromRequest(WithPort(NewDriver, r), r), r)) =
                AtSomePort(SessionOf(r))
           /\ WithAccount(FromRequest(WithPort(NewDriver, r), r), r).accounts = {}
<1> DEFINE first == WithPort(NewDriver, r)
           args == WithAccount(FromRequest(first, r), r)
           new == NewSession(Narrow(Port(r)))
           session == SessionOf(r)
<1>1. args = FromRequest(first, r)
  BY DEF WithAccount
<1>2. /\ DriverSession(DriverCommunity(first)) = [SessionCommunity(new) EXCEPT !.port = DriverPort(r)]
      /\ DriverCommunity(first).accounts = {}
      /\ \A doc \in Documents : doc.kind # "password" =>
            /\ DriverSession(DriverCredentials(first, doc)) =
                   [SessionCredentials(new, doc) EXCEPT !.port = DriverPort(r)]
            /\ DriverCredentials(first, doc).accounts = {}
  BY SameCredentials DEF WithPort
<1>3. r.credentialId # None => r.credentialId \in Documents /\ r.credentialId.kind # "password"
  BY DEF Requests, CredentialsFit
<1> HIDE DEF first, new
<1>4. DriverSession(args) = [session EXCEPT !.port = DriverPort(r)] /\ args.accounts = {}
  <2>1. CASE r.credentialId # None
    <3>1. args = DriverCredentials(first, r.credentialId)
      BY <1>1, <2>1 DEF FromRequest, FromWallet
    <3>2. session = SessionCredentials(new, r.credentialId)
      BY <2>1 DEF SessionOf, new
    <3> HIDE DEF args, session
    <3> QED
      BY <1>2, <1>3, <2>1, <3>1, <3>2
  <2>2. CASE r.credentialId = None
    <3>1. args = DriverCommunity(first)
      BY <1>1, <2>2 DEF FromRequest
    <3>2. session = SessionCommunity(new)
      BY <2>2 DEF SessionOf, new
    <3> HIDE DEF args, session
    <3> QED
      BY <1>2, <3>1, <3>2
  <2> QED
    BY <2>1, <2>2
<1>5. session.port = Narrow(Port(r))
  <2>1. /\ SessionCommunity(new).port = Narrow(Port(r)) /\ new.port = Narrow(Port(r))
    BY DEF SessionCommunity, NewSession, new
  <2>2. \A doc \in Documents : SessionCredentials(new, doc).port = Narrow(Port(r))
    BY <2>1 DEF SessionCredentials
  <2> QED
    BY <1>3, <2>1, <2>2 DEF SessionOf, new
<1>6. DriverPort(r) = IF Narrow(Port(r)) = 0 THEN SnmpPort ELSE Narrow(Port(r))
  BY DEF DriverPort
<1> HIDE DEF args, session
<1>7. DriverSession(args) = AtSomePort(session)
  BY <1>4, <1>5, <1>6 DEF AtSomePort
<1> QED
  BY <1>4, <1>7 DEF args, session, first

(* The port is set by init(), and the credentials after it.                 *)
LEMMA GivenStep ==
    ASSUME TypeOK, ToldInv, GivenInv, NEW i \in Jobs, Job(i) \/ Driver(i)
    PROVE  GivenInv'
<1> USE DEF TypeOK, GivenInv, jobVars, dirVars, driverVars, mapVars, Goto
<1>0. told[i] = "ok" => pc[i] \in {"cleanup", "done"}
  BY NoneAssumption DEF ToldInv
<1>1. CASE Refuse(i)
  BY <1>1, <1>0 DEF Refuse
<1>2. CASE ReadMibs(i)
  BY <1>2, <1>0 DEF ReadMibs
<1>3. CASE Create(i)
  BY <1>3, <1>0 DEF Create
<1>4. CASE Setup(i)
  <2>1. /\ pc[i] = "init" /\ pc' = [pc EXCEPT ![i] = "credentials"]
        /\ given' = [given EXCEPT ![i] = WithPort(NewDriver, request[i])]
    BY <1>4 DEF Setup
  <2> QED
    BY <1>4, <2>1, <1>0 DEF Setup
<1>5. CASE SetupFails(i)
  BY <1>5, <1>0 DEF SetupFails, Leave
<1>6. CASE SetCredentials(i)
  <2> DEFINE args == WithAccount(FromRequest(given[i], request[i]), request[i])
  <2>1. given' = [given EXCEPT ![i] = args] /\ pc' = [pc EXCEPT ![i] = "run"] /\ pc[i] = "credentials"
    BY <1>6 DEF SetCredentials
  <2>2. args.port = given[i].port
    BY InputFacts, PortIsKept
  <2>3. given[i].port = DriverPort(request[i])
    <3>1. given[i] = WithPort(NewDriver, request[i])
      BY <2>1
    <3> QED
      BY <3>1 DEF NewDriver, WithPort
  <2> HIDE DEF args
  <2> QED
    BY <1>6, <2>1, <2>2, <2>3, <1>0 DEF SetCredentials
<1>7. CASE CredentialsFail(i)
  BY <1>7, <1>0 DEF CredentialsFail, Leave
<1>8. CASE WalletEscapes(i)
  BY <1>8, <1>0 DEF WalletEscapes, Leave
<1>9. CASE Launch(i)
  BY <1>9, <1>0 DEF Launch
<1>10. CASE LaunchFails(i)
  BY <1>10, <1>0 DEF LaunchFails, Leave
<1>11. CASE Collect(i)
  BY <1>11, <1>0 DEF Collect, Leave, Ready
<1>12. CASE Cleanup(i)
  BY <1>12, <1>0 DEF Cleanup, Removes
<1>13. CASE CheckMapping(i)
  BY <1>13, <1>0 DEF CheckMapping, races, MappingMissing
<1>14. CASE LoadBegins(i)
  BY <1>14, <1>0 DEF LoadBegins, races
<1>15. CASE LoadFails(i)
  BY <1>15, <1>0 DEF LoadFails, races
<1>16. CASE LoadEnds(i)
  BY <1>16, <1>0 DEF LoadEnds, races
<1>17. CASE Lookup(i)
  BY <1>17, <1>0 DEF Lookup, Leave, races
<1>18. CASE DriverWrites(i)
  BY <1>18, <1>0 DEF DriverWrites, MayWrite
<1>19. CASE DriverExits(i)
  BY <1>19, <1>0 DEF DriverExits
<1> QED
  BY <1>1, <1>2, <1>3, <1>4, <1>5, <1>6, <1>7, <1>8, <1>9, <1>10, <1>11, <1>12,
     <1>13, <1>14, <1>15, <1>16, <1>17, <1>18, <1>19 DEF Job, Driver

(* The driver is told what the reader was.                                  *)
LEMMA SpeakStep ==
    ASSUME TypeOK, ToldInv, GivenInv, DriverInv, SpeakInv, NEW i \in Jobs, Job(i) \/ Driver(i)
    PROVE  SpeakInv'
<1> USE DEF TypeOK, SpeakInv, jobVars, dirVars, driverVars, mapVars, Goto
<1>1. CASE Refuse(i)
  <2>1. /\ UNCHANGED <<request, reader, given>>
        /\ \A j \in Jobs : /\ driver'[j] # "none" => driver[j] # "none" \/ pc[j] = "run"
                           /\ pc'[j] \in {"create", "init", "credentials"} =>
                                    pc[j] \in {"create", "init", "credentials"}
                           /\ pc'[j] = "run" => pc[j] = "run"
    BY <1>1 DEF Refuse
  <2> QED
    BY <2>1 DEF Speaks
<1>2. CASE ReadMibs(i)
  <2>1. /\ UNCHANGED <<request, given, driver>> /\ pc[i] = "start" /\ pc' = [pc EXCEPT ![i] = "create"]
    BY <1>2 DEF ReadMibs
  <2>2. \A j \in Jobs \ {i} : reader'[j] = reader[j]
    BY <1>2 DEF ReadMibs
  <2>3. request[i].protocol = "nut_snmp" =>
          /\ reader'[i] = SessionOf(request[i])
          /\ request[i].credentialId # None \/ request[i].community
    BY <1>2 DEF ReadMibs, SessionOf
  <2>4. driver[i] = "none"
    BY <2>1 DEF DriverInv
  <2> QED
    BY <2>1, <2>2, <2>3, <2>4 DEF Speaks
<1>3. CASE Create(i)
  <2>1. /\ UNCHANGED <<request, reader, given>>
        /\ \A j \in Jobs : /\ driver'[j] # "none" => driver[j] # "none" \/ pc[j] = "run"
                           /\ pc'[j] \in {"create", "init", "credentials"} =>
                                    pc[j] \in {"create", "init", "credentials"}
                           /\ pc'[j] = "run" => pc[j] = "run"
    BY <1>3 DEF Create
  <2> QED
    BY <2>1 DEF Speaks
<1>4. CASE Setup(i)
  <2>1. /\ UNCHANGED <<request, reader, driver>> /\ pc[i] = "init"
        /\ pc' = [pc EXCEPT ![i] = "credentials"] /\ \A j \in Jobs \ {i} : given'[j] = given[j]
    BY <1>4 DEF Setup
  <2>2. driver[i] = "none"
    BY <2>1 DEF DriverInv
  <2> QED
    BY <2>1, <2>2 DEF Speaks
<1>5. CASE SetupFails(i)
  <2>1. /\ UNCHANGED <<request, reader, given>>
        /\ \A j \in Jobs : /\ driver'[j] # "none" => driver[j] # "none" \/ pc[j] = "run"
                           /\ pc'[j] \in {"create", "init", "credentials"} =>
                                    pc[j] \in {"create", "init", "credentials"}
                           /\ pc'[j] = "run" => pc[j] = "run"
    BY <1>5 DEF SetupFails, Leave
  <2> QED
    BY <2>1 DEF Speaks
<1>6. CASE SetCredentials(i)
  <2> DEFINE r == request[i]
             args == WithAccount(FromRequest(given[i], r), r)
  <2>1. /\ UNCHANGED <<request, reader, driver>> /\ pc[i] = "credentials" /\ CredentialsFit(r)
        /\ pc' = [pc EXCEPT ![i] = "run"] /\ given' = [given EXCEPT ![i] = args]
    BY <1>6 DEF SetCredentials
  <2>2. driver[i] = "none" /\ given[i] = WithPort(NewDriver, r)
    BY <2>1 DEF DriverInv, GivenInv
  <2>3. ASSUME r.protocol = "nut_snmp" PROVE Speaks(i)'
    <3>1. reader[i] = SessionOf(r) /\ (r.credentialId # None \/ r.community)
      BY <2>1, <2>3
    <3>2. r \in Requests /\ Narrow(Port(r)) \in Ports /\ DriverPort(r) \in Ports
      BY InputFacts, PortFacts
    <3>3. given'[i] = WithAccount(FromRequest(WithPort(NewDriver, r), r), r)
      BY <2>1, <2>2
    <3>4. reader'[i] = SessionOf(r)
      BY <2>1, <3>1
    <3> QED
      BY <2>1, <2>3, <3>1, <3>2, <3>3, <3>4, CredentialsAgree DEF Speaks
  <2> HIDE DEF args
  <2> QED
    BY <2>1, <2>2, <2>3 DEF Speaks
<1>7. CASE CredentialsFail(i)
  <2>1. /\ UNCHANGED <<request, reader, given>>
        /\ \A j \in Jobs : /\ driver'[j] # "none" => driver[j] # "none" \/ pc[j] = "run"
                           /\ pc'[j] \in {"create", "init", "credentials"} =>
                                    pc[j] \in {"create", "init", "credentials"}
                           /\ pc'[j] = "run" => pc[j] = "run"
    BY <1>7 DEF CredentialsFail, Leave
  <2> QED
    BY <2>1 DEF Speaks
<1>8. CASE WalletEscapes(i)
  <2>1. /\ UNCHANGED <<request, reader, given>>
        /\ \A j \in Jobs : /\ driver'[j] # "none" => driver[j] # "none" \/ pc[j] = "run"
                           /\ pc'[j] \in {"create", "init", "credentials"} =>
                                    pc[j] \in {"create", "init", "credentials"}
                           /\ pc'[j] = "run" => pc[j] = "run"
    BY <1>8 DEF WalletEscapes, Leave
  <2> QED
    BY <2>1 DEF Speaks
<1>9. CASE Launch(i)
  <2>1. /\ UNCHANGED <<request, reader, given>>
        /\ \A j \in Jobs : /\ driver'[j] # "none" => driver[j] # "none" \/ pc[j] = "run"
                           /\ pc'[j] \in {"create", "init", "credentials"} =>
                                    pc[j] \in {"create", "init", "credentials"}
                           /\ pc'[j] = "run" => pc[j] = "run"
    BY <1>9 DEF Launch
  <2> QED
    BY <2>1 DEF Speaks
<1>10. CASE LaunchFails(i)
  <2>1. /\ UNCHANGED <<request, reader, given>>
        /\ \A j \in Jobs : /\ driver'[j] # "none" => driver[j] # "none" \/ pc[j] = "run"
                           /\ pc'[j] \in {"create", "init", "credentials"} =>
                                    pc[j] \in {"create", "init", "credentials"}
                           /\ pc'[j] = "run" => pc[j] = "run"
    BY <1>10 DEF LaunchFails, Leave
  <2> QED
    BY <2>1 DEF Speaks
<1>11. CASE Collect(i)
  <2>1. /\ UNCHANGED <<request, reader, given>>
        /\ \A j \in Jobs : /\ driver'[j] # "none" => driver[j] # "none" \/ pc[j] = "run"
                           /\ pc'[j] \in {"create", "init", "credentials"} =>
                                    pc[j] \in {"create", "init", "credentials"}
                           /\ pc'[j] = "run" => pc[j] = "run"
    BY <1>11 DEF Collect, Leave, Ready
  <2> QED
    BY <2>1 DEF Speaks
<1>12. CASE Cleanup(i)
  <2>1. /\ UNCHANGED <<request, reader, given>>
        /\ \A j \in Jobs : /\ driver'[j] # "none" => driver[j] # "none" \/ pc[j] = "run"
                           /\ pc'[j] \in {"create", "init", "credentials"} =>
                                    pc[j] \in {"create", "init", "credentials"}
                           /\ pc'[j] = "run" => pc[j] = "run"
    BY <1>12 DEF Cleanup, Removes
  <2> QED
    BY <2>1 DEF Speaks
<1>13. CASE CheckMapping(i)
  <2>1. /\ UNCHANGED <<request, reader, given>>
        /\ \A j \in Jobs : /\ driver'[j] # "none" => driver[j] # "none" \/ pc[j] = "run"
                           /\ pc'[j] \in {"create", "init", "credentials"} =>
                                    pc[j] \in {"create", "init", "credentials"}
                           /\ pc'[j] = "run" => pc[j] = "run"
    BY <1>13 DEF CheckMapping, races, MappingMissing
  <2> QED
    BY <2>1 DEF Speaks
<1>14. CASE LoadBegins(i)
  <2>1. /\ UNCHANGED <<request, reader, given>>
        /\ \A j \in Jobs : /\ driver'[j] # "none" => driver[j] # "none" \/ pc[j] = "run"
                           /\ pc'[j] \in {"create", "init", "credentials"} =>
                                    pc[j] \in {"create", "init", "credentials"}
                           /\ pc'[j] = "run" => pc[j] = "run"
    BY <1>14 DEF LoadBegins, races
  <2> QED
    BY <2>1 DEF Speaks
<1>15. CASE LoadFails(i)
  <2>1. /\ UNCHANGED <<request, reader, given>>
        /\ \A j \in Jobs : /\ driver'[j] # "none" => driver[j] # "none" \/ pc[j] = "run"
                           /\ pc'[j] \in {"create", "init", "credentials"} =>
                                    pc[j] \in {"create", "init", "credentials"}
                           /\ pc'[j] = "run" => pc[j] = "run"
    BY <1>15 DEF LoadFails, races
  <2> QED
    BY <2>1 DEF Speaks
<1>16. CASE LoadEnds(i)
  <2>1. /\ UNCHANGED <<request, reader, given>>
        /\ \A j \in Jobs : /\ driver'[j] # "none" => driver[j] # "none" \/ pc[j] = "run"
                           /\ pc'[j] \in {"create", "init", "credentials"} =>
                                    pc[j] \in {"create", "init", "credentials"}
                           /\ pc'[j] = "run" => pc[j] = "run"
    BY <1>16 DEF LoadEnds, races
  <2> QED
    BY <2>1 DEF Speaks
<1>17. CASE Lookup(i)
  <2>1. /\ UNCHANGED <<request, reader, given>>
        /\ \A j \in Jobs : /\ driver'[j] # "none" => driver[j] # "none" \/ pc[j] = "run"
                           /\ pc'[j] \in {"create", "init", "credentials"} =>
                                    pc[j] \in {"create", "init", "credentials"}
                           /\ pc'[j] = "run" => pc[j] = "run"
    BY <1>17 DEF Lookup, Leave, races
  <2> QED
    BY <2>1 DEF Speaks
<1>18. CASE DriverWrites(i)
  <2>1. /\ UNCHANGED <<request, reader, given>>
        /\ \A j \in Jobs : /\ driver'[j] # "none" => driver[j] # "none" \/ pc[j] = "run"
                           /\ pc'[j] \in {"create", "init", "credentials"} =>
                                    pc[j] \in {"create", "init", "credentials"}
                           /\ pc'[j] = "run" => pc[j] = "run"
    BY <1>18 DEF DriverWrites, MayWrite
  <2> QED
    BY <2>1 DEF Speaks
<1>19. CASE DriverExits(i)
  <2>1. /\ UNCHANGED <<request, reader, given>>
        /\ \A j \in Jobs : /\ driver'[j] # "none" => driver[j] # "none" \/ pc[j] = "run"
                           /\ pc'[j] \in {"create", "init", "credentials"} =>
                                    pc[j] \in {"create", "init", "credentials"}
                           /\ pc'[j] = "run" => pc[j] = "run"
    BY <1>19 DEF DriverExits
  <2> QED
    BY <2>1 DEF Speaks
<1> QED
  BY <1>1, <1>2, <1>3, <1>4, <1>5, <1>6, <1>7, <1>8, <1>9, <1>10, <1>11, <1>12,
     <1>13, <1>14, <1>15, <1>16, <1>17, <1>18, <1>19 DEF Job, Driver

(* An answer is parsed once, with the whole mapping unless workers met.     *)
LEMMA AnswerStep ==
    ASSUME TypeOK, MapInv, AnswerInv, NEW i \in Jobs, Job(i) \/ Driver(i)
    PROVE  AnswerInv'
<1> USE DEF TypeOK, AnswerInv, jobVars, dirVars, driverVars, mapVars, Goto
<1>1. CASE Refuse(i)
  <2>1. /\ UNCHANGED <<request, output, readable, out>> /\ (~raced' => ~raced)
        /\ \A j \in Jobs : told'[j] = "ok" => told[j] = "ok"
    BY <1>1 DEF Refuse
  <2> QED
    BY <2>1
<1>2. CASE ReadMibs(i)
  <2>1. /\ UNCHANGED <<request, output, readable, out>> /\ (~raced' => ~raced)
        /\ \A j \in Jobs : told'[j] = "ok" => told[j] = "ok"
    BY <1>2 DEF ReadMibs
  <2> QED
    BY <2>1
<1>3. CASE Create(i)
  <2>1. /\ UNCHANGED <<request, output, readable, out>> /\ (~raced' => ~raced)
        /\ \A j \in Jobs : told'[j] = "ok" => told[j] = "ok"
    BY <1>3 DEF Create
  <2> QED
    BY <2>1
<1>4. CASE Setup(i)
  <2>1. /\ UNCHANGED <<request, output, readable, out>> /\ (~raced' => ~raced)
        /\ \A j \in Jobs : told'[j] = "ok" => told[j] = "ok"
    BY <1>4 DEF Setup
  <2> QED
    BY <2>1
<1>5. CASE SetupFails(i)
  <2>1. /\ UNCHANGED <<request, output, readable, out>> /\ (~raced' => ~raced)
        /\ \A j \in Jobs : told'[j] = "ok" => told[j] = "ok"
    BY <1>5 DEF SetupFails, Leave
  <2> QED
    BY <2>1
<1>6. CASE SetCredentials(i)
  <2>1. /\ UNCHANGED <<request, output, readable, out>> /\ (~raced' => ~raced)
        /\ \A j \in Jobs : told'[j] = "ok" => told[j] = "ok"
    BY <1>6 DEF SetCredentials
  <2> QED
    BY <2>1
<1>7. CASE CredentialsFail(i)
  <2>1. /\ UNCHANGED <<request, output, readable, out>> /\ (~raced' => ~raced)
        /\ \A j \in Jobs : told'[j] = "ok" => told[j] = "ok"
    BY <1>7 DEF CredentialsFail, Leave
  <2> QED
    BY <2>1
<1>8. CASE WalletEscapes(i)
  <2>1. /\ UNCHANGED <<request, output, readable, out>> /\ (~raced' => ~raced)
        /\ \A j \in Jobs : told'[j] = "ok" => told[j] = "ok"
    BY <1>8 DEF WalletEscapes, Leave
  <2> QED
    BY <2>1
<1>9. CASE Launch(i)
  <2>1. /\ UNCHANGED <<request, output, readable, out>> /\ (~raced' => ~raced)
        /\ \A j \in Jobs : told'[j] = "ok" => told[j] = "ok"
    BY <1>9 DEF Launch
  <2> QED
    BY <2>1
<1>10. CASE LaunchFails(i)
  <2>1. /\ UNCHANGED <<request, output, readable, out>> /\ (~raced' => ~raced)
        /\ \A j \in Jobs : told'[j] = "ok" => told[j] = "ok"
    BY <1>10 DEF LaunchFails, Leave
  <2> QED
    BY <2>1
<1>11. CASE Collect(i)
  <2>1. /\ UNCHANGED <<request, output, readable, out>> /\ (~raced' => ~raced)
        /\ \A j \in Jobs : told'[j] = "ok" => told[j] = "ok"
    BY <1>11 DEF Collect, Leave, Ready
  <2> QED
    BY <2>1
<1>12. CASE Cleanup(i)
  <2>1. /\ UNCHANGED <<request, output, readable, out>> /\ (~raced' => ~raced)
        /\ \A j \in Jobs : told'[j] = "ok" => told[j] = "ok"
    BY <1>12 DEF Cleanup, Removes
  <2> QED
    BY <2>1
<1>13. CASE CheckMapping(i)
  <2>1. /\ UNCHANGED <<request, output, readable, out>> /\ (~raced' => ~raced)
        /\ \A j \in Jobs : told'[j] = "ok" => told[j] = "ok"
    BY <1>13 DEF CheckMapping, races, MappingMissing
  <2> QED
    BY <2>1
<1>14. CASE LoadBegins(i)
  <2>1. /\ UNCHANGED <<request, output, readable, out>> /\ (~raced' => ~raced)
        /\ \A j \in Jobs : told'[j] = "ok" => told[j] = "ok"
    BY <1>14 DEF LoadBegins, races
  <2> QED
    BY <2>1
<1>15. CASE LoadFails(i)
  <2>1. /\ UNCHANGED <<request, output, readable, out>> /\ (~raced' => ~raced)
        /\ \A j \in Jobs : told'[j] = "ok" => told[j] = "ok"
    BY <1>15 DEF LoadFails, races
  <2> QED
    BY <2>1
<1>16. CASE LoadEnds(i)
  <2>1. /\ UNCHANGED <<request, output, readable, out>> /\ (~raced' => ~raced)
        /\ \A j \in Jobs : told'[j] = "ok" => told[j] = "ok"
    BY <1>16 DEF LoadEnds, races
  <2> QED
    BY <2>1
<1>17. CASE Lookup(i)
  <2>1. PICK names \in Names(i) : out' = [out EXCEPT
            ![i] = Answer[[request |-> request[i], output |-> output[i]]][names]]
    BY <1>17 DEF Lookup
  <2>2. Names(i) \subseteq Mappings
    BY DEF Names, Mappings
  <2>3. [request |-> request[i], output |-> output[i]] \in Inputs
    OBVIOUS
  <2>4. out'[i] = Parse(output[i].lines, names, request[i])
    BY <2>1, <2>2, <2>3 DEF Answer
  <2>5. /\ UNCHANGED <<request, output, readable>> /\ raced' = (raced \/ Others(i))
        /\ \A j \in Jobs \ {i} : told'[j] = told[j] /\ out'[j] = out[j]
    BY <1>17, <2>1 DEF Lookup, Leave, races
  <2>6. readable /\ ~raced' => names = DOMAIN Inventory
    <3>1. pc[i] = "lookup"
      BY <1>17 DEF Lookup
    <3> QED
      BY <2>1, <2>5, <3>1 DEF Names, MapInv
  <2>7. \A j \in Jobs \ {i} : told'[j] = "ok" =>
            \E n \in Mappings :
                /\ out'[j] = Parse(output'[j].lines, n, request'[j])
                /\ readable' /\ ~raced' => n = DOMAIN Inventory
    <3> SUFFICES ASSUME NEW j \in Jobs \ {i}, told'[j] = "ok"
                 PROVE  \E n \in Mappings :
                            /\ out'[j] = Parse(output'[j].lines, n, request'[j])
                            /\ readable' /\ ~raced' => n = DOMAIN Inventory
      OBVIOUS
    <3>1. PICK n \in Mappings :
            /\ out[j] = Parse(output[j].lines, n, request[j])
            /\ readable /\ ~raced => n = DOMAIN Inventory
      BY <2>5 DEF AnswerInv
    <3>2. out'[j] = Parse(output'[j].lines, n, request'[j])
      BY <2>5, <3>1
    <3>3. readable' /\ ~raced' => n = DOMAIN Inventory
      BY <2>5, <3>1
    <3> QED
      BY <3>2, <3>3
  <2>8. \E n \in Mappings :
            /\ out'[i] = Parse(output'[i].lines, n, request'[i])
            /\ readable' /\ ~raced' => n = DOMAIN Inventory
    BY <2>1, <2>2, <2>4, <2>5, <2>6
  <2> QED
    BY <2>7, <2>8
<1>18. CASE DriverWrites(i)
  <2>1. /\ UNCHANGED <<request, output, readable, out>> /\ (~raced' => ~raced)
        /\ \A j \in Jobs : told'[j] = "ok" => told[j] = "ok"
    BY <1>18 DEF DriverWrites, MayWrite
  <2> QED
    BY <2>1
<1>19. CASE DriverExits(i)
  <2>1. /\ UNCHANGED <<request, output, readable, out>> /\ (~raced' => ~raced)
        /\ \A j \in Jobs : told'[j] = "ok" => told[j] = "ok"
    BY <1>19 DEF DriverExits
  <2> QED
    BY <2>1
<1> QED
  BY <1>1, <1>2, <1>3, <1>4, <1>5, <1>6, <1>7, <1>8, <1>9, <1>10, <1>11, <1>12,
     <1>13, <1>14, <1>15, <1>16, <1>17, <1>18, <1>19 DEF Job, Driver

(* The inductive invariant is one.                                          *)
LEMMA IInvStep == IInv /\ [Next]_vars => IInv'
<1> SUFFICES ASSUME IInv, [Next]_vars PROVE IInv'
  OBVIOUS
<1>1. /\ TypeOK /\ DirectoriesAreOwn /\ ToldInv /\ GivenInv
      /\ SpeakInv /\ DriverInv /\ MapInv /\ AnswerInv
  BY DEF IInv
<1>2. ASSUME NEW i \in Jobs, Job(i) \/ Driver(i) PROVE IInv'
  <2>1. TypeOK' /\ DirectoriesAreOwn' /\ ToldInv' /\ GivenInv'
    BY <1>1, <1>2, TypeOKStep, DirectoriesStep, ToldStep, GivenStep
  <2>2. SpeakInv' /\ DriverInv' /\ MapInv' /\ AnswerInv'
    BY <1>1, <1>2, SpeakStep, DriverStep, MapStep, AnswerStep
  <2> QED
    BY <2>1, <2>2 DEF IInv
<1>3. CASE UNCHANGED vars
  <2> USE <1>1, <1>3 DEF vars, jobVars, dirVars, driverVars, mapVars
  <2>1. TypeOK'
    BY DEF TypeOK
  <2>2. DirectoriesAreOwn'
    BY DEF DirectoriesAreOwn, OwnRoots, Inside
  <2>3. ToldInv' /\ GivenInv' /\ DriverInv'
    BY DEF ToldInv, GivenInv, DriverInv
  <2>4. SpeakInv'
    BY DEF SpeakInv, Speaks
  <2>5. MapInv' /\ AnswerInv'
    BY DEF MapInv, AnswerInv
  <2> QED
    BY <2>1, <2>2, <2>3, <2>4, <2>5 DEF IInv
<1> QED
  BY <1>2, <1>3 DEF Next

(***************************************************************************)
(* What the jobs keep.                                                     *)
(***************************************************************************)

(* However the steps of the workers and their drivers interleave.           *)
THEOREM Invariance == Spec => []IInv
<1>1. Init => IInv
  BY InitIInv
<1>2. IInv /\ [Next]_vars => IInv'
  BY IInvStep
<1> QED
  BY <1>1, <1>2, PTL DEF Spec

(* Every variable keeps its type.                                           *)
THEOREM TypeCorrect == Spec => []TypeOK
<1>1. IInv => TypeOK
  BY DEF IInv
<1> QED
  BY <1>1, Invariance, PTL

(* nut::Process: no job's directory is removed by another, or left behind.  *)
THEOREM OwnDirectories == Spec => []DirectoriesAreOwn
<1>1. IInv => DirectoriesAreOwn
  BY DEF IInv
<1> QED
  BY <1>1, Invariance, PTL

(* nut::Process and snmp::Session: a driver asks as the MIBs were read.     *)
THEOREM SameSession == Spec => []DriverSpeaksAsReader
<1>1. IInv => DriverSpeaksAsReader
  BY DEF IInv, SpeakInv, DriverSpeaksAsReader
<1> QED
  BY <1>1, Invariance, PTL

(***************************************************************************)
(* What parse makes of the lines.                                          *)
(***************************************************************************)

(* Some number is the least of any.                                         *)
LEMMA Least == ASSUME NEW T, T \subseteq Nat, T # {} PROVE \E m \in T : \A k \in T : m <= k
<1> DEFINE R == OpToRel(<, Nat)
<1>1. IsWellFoundedOn(R, Nat)
  BY NatLessThanWellFounded
<1>2. PICK m \in T : \A k \in T : ~(<<k, m>> \in R)
  <2> HIDE DEF R
  <2> QED
    BY <1>1, WFMin
<1>3. \A k \in T : ~(k < m)
  BY <1>2 DEF OpToRel
<1> QED
  BY <1>3

(* The line counts: no earlier one has its key.                             *)
IsFirst(lines, i) == \A h \in 1..(i - 1) : lines[h].key # lines[i].key

(* tmpMap holds the first line of each key.                                 *)
LEMMA DictionaryFacts ==
    ASSUME NEW lines \in Lines
    PROVE  LET dict == Dictionary(lines)
           IN  /\ DOMAIN dict = {lines[i].key : i \in DOMAIN lines} /\ DOMAIN dict \subseteq Keys
               /\ \A i \in DOMAIN lines : IsFirst(lines, i) => dict[lines[i].key] = lines[i].value
               /\ \A k \in DOMAIN dict : \E i \in DOMAIN lines :
                    lines[i].key = k /\ IsFirst(lines, i) /\ dict[k] = lines[i].value
<1> DEFINE dict == Dictionary(lines)
           holds(k, i) == lines[i].key = k /\ \A h \in 1..(i - 1) : lines[h].key # k
           first(k) == CHOOSE i \in DOMAIN lines : holds(k, i)
<1>0. /\ DOMAIN lines \subseteq Nat \ {0}
      /\ \A i \in DOMAIN lines : lines[i].key \in Keys /\ 1..(i - 1) \subseteq DOMAIN lines
  <2>1. Len(lines) \in Nat /\ DOMAIN lines = 1..Len(lines)
    BY DEF Lines
  <2>2. ASSUME NEW i \in DOMAIN lines PROVE lines[i].key \in Keys
    <3>1. lines[i] \in Rows
      BY <2>1 DEF Lines
    <3> QED
      BY <3>1 DEF Rows
  <2>3. ASSUME NEW i \in DOMAIN lines PROVE 1..(i - 1) \subseteq DOMAIN lines
    <3>1. i \in Nat /\ i >= 1 /\ i <= Len(lines)
      BY <2>1
    <3>2. ASSUME NEW h \in 1..(i - 1) PROVE h \in 1..Len(lines)
      BY <2>1, <3>1
    <3> QED
      BY <2>1, <3>2
  <2>4. DOMAIN lines \subseteq Nat \ {0}
    BY <2>1
  <2> QED
    BY <2>2, <2>3, <2>4
<1>1. dict = [k \in {lines[i].key : i \in DOMAIN lines} |-> lines[first(k)].value]
  BY DEF Dictionary
<1> HIDE DEF dict
<1>2. ASSUME NEW k \in {lines[i].key : i \in DOMAIN lines}
      PROVE  \E i \in DOMAIN lines : holds(k, i)
  <2> DEFINE T == {i \in DOMAIN lines : lines[i].key = k}
  <2>1. T \subseteq Nat /\ T # {}
    BY <1>0
  <2>2. PICK m \in T : \A i \in T : m <= i
    BY <2>1, Least
  <2>3. \A h \in 1..(m - 1) : h \in DOMAIN lines /\ ~(m <= h)
    BY <1>0
  <2> QED
    BY <2>2, <2>3
<1>3. ASSUME NEW k \in {lines[i].key : i \in DOMAIN lines}
      PROVE  first(k) \in DOMAIN lines /\ holds(k, first(k)) /\ dict[k] = lines[first(k)].value
  BY <1>1, <1>2
<1>4. ASSUME NEW i \in DOMAIN lines, IsFirst(lines, i)
      PROVE  dict[lines[i].key] = lines[i].value
  <2> DEFINE k == lines[i].key
             f == first(k)
  <2>1. f \in DOMAIN lines /\ holds(k, f) /\ dict[k] = lines[f].value
    <3>1. k \in {lines[h].key : h \in DOMAIN lines}
      OBVIOUS
    <3> HIDE DEF k
    <3> QED
      BY <1>3, <3>1
  <2> HIDE DEF f
  <2>2. i \in Nat \ {0} /\ f \in Nat \ {0}
    BY <1>0, <2>1
  <2>3. ~(i < f)
    <3>1. i < f => i \in 1..(f - 1)
      BY <2>2
    <3> QED
      BY <2>1, <3>1
  <2>4. ~(f < i)
    <3>1. f < i => f \in 1..(i - 1)
      BY <2>2
    <3> QED
      BY <1>4, <2>1, <3>1 DEF IsFirst
  <2>5. i = f
    BY <2>2, <2>3, <2>4
  <2> QED
    BY <2>1, <2>5
<1>5. DOMAIN dict = {lines[i].key : i \in DOMAIN lines}
  BY <1>1
<1>6. ASSUME NEW k \in DOMAIN dict
      PROVE  \E i \in DOMAIN lines :
                lines[i].key = k /\ IsFirst(lines, i) /\ dict[k] = lines[i].value
  <2>1. first(k) \in DOMAIN lines /\ holds(k, first(k)) /\ dict[k] = lines[first(k)].value
    BY <1>3, <1>5
  <2> QED
    BY <2>1 DEF IsFirst
<1> QED
  BY <1>0, <1>4, <1>5, <1>6 DEF dict

(* A key without its device: that of the device itself.                     *)
LEMMA SuffixFacts ==
    ASSUME NEW key \in Keys
    PROVE  /\ LookedUp(Suffix(key)) = key.name /\ NumberIn(Suffix(key)) = key.num
           /\ key = [chain |-> key.chain, name |-> key.name, num |-> key.num]
<1>1. /\ Suffix(key).chain = <<>> /\ Suffix(key).name = key.name /\ Suffix(key).num = key.num
  BY DEF Keys, Suffix
<1>2. key = [chain |-> key.chain, name |-> key.name, num |-> key.num]
  BY DEF Keys
<1> QED
  BY <1>1, <1>2 DEF LookedUp, NumberIn

(* A device's key as it is looked up.                                       *)
Stripped(lines, key) == IF Count(lines) > 1 THEN Suffix(key) ELSE key

Entry(lines, key, value) ==
    AddAssetVal(Inventory[LookedUp(Stripped(lines, key))], NumberIn(Stripped(lines, key)),
                value, TRUE)

(* The keys a device is told of, and the lines they come from.              *)
LEMMA ExtFacts ==
    ASSUME NEW lines \in Lines, NEW names, NEW a
    PROVE  /\ \A e : e \in ExtOf(lines, names, a) <=>
                \E k \in KeysOf(lines, a) :
                    /\ LookedUp(Stripped(lines, k)) \in names
                    /\ e = Entry(lines, k, Dictionary(lines)[k])
           /\ \A e : e \in ExtOf(lines, names, a) <=>
                \E i \in DOMAIN lines :
                    /\ IsFirst(lines, i)
                    /\ Count(lines) > 1 => lines[i].key.chain = Digits(a)
                    /\ LookedUp(Stripped(lines, lines[i].key)) \in names
                    /\ e = Entry(lines, lines[i].key, lines[i].value)
<1> DEFINE dict == Dictionary(lines)
<1>1. ASSUME NEW e
      PROVE  e \in ExtOf(lines, names, a) <=>
                \E k \in KeysOf(lines, a) :
                    LookedUp(Stripped(lines, k)) \in names /\ e = Entry(lines, k, dict[k])
  <2>1. CASE Count(lines) > 1
    BY <2>1 DEF ExtOf, Mapped, Stripped, Entry
  <2>2. CASE ~(Count(lines) > 1)
    BY <2>2 DEF ExtOf, Mapped, Stripped, Entry
  <2> QED
    BY <2>1, <2>2
<1>2. \A k : k \in KeysOf(lines, a) <=>
                k \in DOMAIN dict /\ (Count(lines) > 1 => k.chain = Digits(a))
  BY DEF KeysOf, InChain
<1>3. ASSUME NEW e
      PROVE  e \in ExtOf(lines, names, a) <=>
                \E i \in DOMAIN lines :
                    /\ IsFirst(lines, i)
                    /\ Count(lines) > 1 => lines[i].key.chain = Digits(a)
                    /\ LookedUp(Stripped(lines, lines[i].key)) \in names
                    /\ e = Entry(lines, lines[i].key, lines[i].value)
  <2>1. ASSUME NEW i \in DOMAIN lines, IsFirst(lines, i),
               Count(lines) > 1 => lines[i].key.chain = Digits(a),
               LookedUp(Stripped(lines, lines[i].key)) \in names,
               e = Entry(lines, lines[i].key, lines[i].value)
        PROVE  e \in ExtOf(lines, names, a)
    <3>1. lines[i].key \in KeysOf(lines, a) /\ dict[lines[i].key] = lines[i].value
      <4>1. /\ DOMAIN dict = {lines[h].key : h \in DOMAIN lines}
            /\ \A h \in DOMAIN lines : IsFirst(lines, h) => dict[lines[h].key] = lines[h].value
        BY DictionaryFacts
      <4> HIDE DEF dict
      <4> QED
        BY <1>2, <2>1, <4>1
    <3> DEFINE k == lines[i].key
    <3>2. e = Entry(lines, k, dict[k]) /\ LookedUp(Stripped(lines, k)) \in names
      BY <2>1, <3>1
    <3> HIDE DEF k
    <3> QED
      BY <1>1, <3>1, <3>2 DEF k
  <2>2. ASSUME NEW k \in KeysOf(lines, a), LookedUp(Stripped(lines, k)) \in names,
               e = Entry(lines, k, dict[k])
        PROVE  \E i \in DOMAIN lines :
                    /\ IsFirst(lines, i)
                    /\ Count(lines) > 1 => lines[i].key.chain = Digits(a)
                    /\ LookedUp(Stripped(lines, lines[i].key)) \in names
                    /\ e = Entry(lines, lines[i].key, lines[i].value)
    <3>1. PICK i \in DOMAIN lines :
                lines[i].key = k /\ IsFirst(lines, i) /\ dict[k] = lines[i].value
      BY <1>2, DictionaryFacts
    <3> QED
      BY <1>2, <2>2, <3>1
  <2> QED
    BY <1>1, <2>1, <2>2
<1> QED
  BY <1>1, <1>3

(* Knowing fewer names, a driver's text tells less.                         *)
LEMMA ExtGrows ==
    ASSUME NEW lines \in Lines, NEW few, NEW more, few \subseteq more, NEW a
    PROVE  ExtOf(lines, few, a) \subseteq ExtOf(lines, more, a)
BY ExtFacts

(* One manufacturer, model and serial number, with the whole mapping.       *)
OneOfEachIn(lines, a) ==
    \A d, e \in ExtOf(lines, DOMAIN Inventory, a) :
        d.attr \in IdentityAttrs /\ d.attr = e.attr => d.value = e.value

(* Then it is the same one, however much is mapped.                         *)
LEMMA OneIdentity ==
    ASSUME NEW lines \in Lines, NEW a, OneOfEachIn(lines, a),
           NEW m \in SUBSET DOMAIN Inventory, NEW n \in SUBSET DOMAIN Inventory,
           NEW d \in ExtOf(lines, m, a), NEW e \in ExtOf(lines, n, a),
           d.attr \in IdentityAttrs, d.attr = e.attr
    PROVE  d.value = e.value
<1>1. d \in ExtOf(lines, DOMAIN Inventory, a) /\ e \in ExtOf(lines, DOMAIN Inventory, a)
  BY ExtGrows
<1> QED
  BY <1>1 DEF OneOfEachIn

(* What is found is there.                                                  *)
LEMMA FindFacts ==
    ASSUME NEW ext, NEW attr, Has(ext, attr)
    PROVE  \E e \in ext : e.attr = attr /\ Find(ext, attr) = e.value
BY DEF Has, Find

(* So a device has one uuid, or none as long as too little is mapped.       *)
LEMMA OneUuid ==
    ASSUME NEW lines \in Lines, NEW a, OneOfEachIn(lines, a),
           NEW m \in SUBSET DOMAIN Inventory, NEW n \in SUBSET DOMAIN Inventory
    PROVE  \/ Uuid(ExtOf(lines, m, a)) = NoUuid
           \/ Uuid(ExtOf(lines, n, a)) \in {NoUuid, Uuid(ExtOf(lines, m, a))}
<1> DEFINE x == ExtOf(lines, m, a)
           y == ExtOf(lines, n, a)
<1>1. CASE \A attr \in IdentityAttrs : Has(x, attr) /\ Has(y, attr)
  <2>1. ASSUME NEW attr \in IdentityAttrs PROVE Find(x, attr) = Find(y, attr)
    <3>1. Has(x, attr) /\ Has(y, attr)
      BY <1>1
    <3>2. PICK d \in x : d.attr = attr /\ Find(x, attr) = d.value
      BY <3>1, FindFacts
    <3>3. PICK e \in y : e.attr = attr /\ Find(y, attr) = e.value
      BY <3>1, FindFacts
    <3> QED
      BY <3>2, <3>3, OneIdentity
  <2>2. {"manufacturer", "model", "serial_no"} \subseteq IdentityAttrs
    BY DEF IdentityAttrs
  <2> HIDE DEF x, y
  <2>3. Uuid(x) = Uuid(y)
    BY <1>1, <2>1, <2>2 DEF Uuid
  <2> QED
    BY <2>3 DEF x, y
<1>2. CASE ~(\A attr \in IdentityAttrs : Has(x, attr) /\ Has(y, attr))
  <2> HIDE DEF x, y
  <2>1. Uuid(x) = NoUuid \/ Uuid(y) = NoUuid
    BY <1>2 DEF Uuid
  <2> QED
    BY <2>1 DEF x, y
<1> QED
  BY <1>1, <1>2

(* It is random when the manufacturer, model or serial number is empty.     *)
LEMMA RandomUuid ==
    ASSUME NEW ext, Uuid(ext).kind = "random"
    PROVE  \E e \in ext : e.attr \in IdentityAttrs /\ e.value = ""
<1>1. \A attr \in IdentityAttrs : Has(ext, attr)
  BY DEF Uuid, NoUuid
<1>2. {"manufacturer", "model", "serial_no"} \subseteq IdentityAttrs
  BY DEF IdentityAttrs
<1>3. "" \in {Find(ext, "manufacturer"), Find(ext, "model"), Find(ext, "serial_no")}
  BY <1>1 DEF Uuid, GenerateUUID
<1>4. PICK attr \in IdentityAttrs : Find(ext, attr) = ""
  BY <1>2, <1>3
<1>5. PICK e \in ext : e.attr = attr /\ Find(ext, attr) = e.value
  BY <1>1, FindFacts
<1> QED
  BY <1>4, <1>5

(* What enrichAsset adds is told apart from what the driver printed.        *)
LEMMA EnrichedFacts ==
    ASSUME NEW sub, NEW type, NEW ext, NEW r
    PROVE  LET asset == Enriched(sub, type, ext, r)
           IN  /\ asset.subtype = Subtype(type, ext) /\ asset.uuid = Uuid(ext)
               /\ \A e : e \in asset.ext <=>
                    \/ e \in ext
                    \/ e = AddAssetVal("port", <<>>, ToString(Port(r)), FALSE)
                    \/ e \in DaisyChain(sub, Subtype(type, ext))
                    \/ e \in asset.ext /\ e.readOnly = FALSE /\ e.attr \notin {"port", "daisy_chain"}
<1> DEFINE asset == Enriched(sub, type, ext, r)
           own == {AddAssetVal("protocol", <<>>, r.protocol, FALSE),
                   AddAssetVal("sub_address", <<>>, sub, FALSE)}
           power == {AddAssetVal("max_power", <<>>, p, FALSE) : p \in MaxPower(ext)}
           snmp == IF r.protocol = "nut_snmp" THEN SnmpEndpoint(r) ELSE {}
<1>1. /\ asset.subtype = Subtype(type, ext) /\ asset.uuid = Uuid(ext)
      /\ asset.ext = ext \cup (own \cup {AddAssetVal("port", <<>>, ToString(Port(r)), FALSE)})
            \cup power \cup snmp \cup DaisyChain(sub, Subtype(type, ext))
  BY DEF Enriched
<1>2. \A e \in own \cup power : e.readOnly = FALSE /\ e.attr \notin {"port", "daisy_chain"}
  BY DEF AddAssetVal
<1>3. ASSUME NEW e \in snmp
      PROVE  e.readOnly = FALSE /\ e.attr \notin {"port", "daisy_chain"}
  <2>1. PICK attr \in {"secw_credential_id", "community", "MIB"} :
            e = AddAssetVal(attr, <<>>, "", FALSE)
    BY DEF SnmpEndpoint
  <2> QED
    BY <2>1 DEF AddAssetVal
<1> HIDE DEF asset, own, power, snmp
<1> QED
  BY <1>1, <1>2, <1>3 DEF asset

(* What the driver printed is never one of those.                           *)
LEMMA ExtIsMapped ==
    ASSUME NEW lines \in Lines, NEW names \in SUBSET DOMAIN Inventory, NEW a,
           NEW e \in ExtOf(lines, names, a)
    PROVE  e.readOnly = TRUE /\ e.attr \notin {"port", "daisy_chain"}
<1>1. PICK k \in KeysOf(lines, a) :
        /\ LookedUp(Stripped(lines, k)) \in names
        /\ e = Entry(lines, k, Dictionary(lines)[k])
  BY ExtFacts
<1> QED
  BY <1>1, InventoryAssumption DEF Entry, AddAssetVal

(* An answer is its job's lines, mapped and enriched.                       *)
LEMMA AnswerFacts ==
    ASSUME IInv, NEW j \in Jobs, told[j] = "ok"
    PROVE  /\ output[j].lines \in Lines
           /\ DOMAIN out[j] = Subs(output[j].lines)
           /\ Chained(j) <=> Count(output[j].lines) > 1
           /\ \E names \in SUBSET DOMAIN Inventory :
                /\ readable /\ ~raced => names = DOMAIN Inventory
                /\ \A a \in DOMAIN out[j] : out[j][a] =
                    Enriched(Address(output[j].lines, a), Type(output[j].lines),
                             ExtOf(output[j].lines, names, a), request[j])
<1>1. TypeOK /\ AnswerInv
  BY DEF IInv
<1>2. output[j].lines \in Lines
  BY <1>1, InputFacts
<1>3. PICK names \in Mappings :
        /\ out[j] = Parse(output[j].lines, names, request[j])
        /\ readable /\ ~raced => names = DOMAIN Inventory
  BY <1>1 DEF AnswerInv
<1>4. names \in SUBSET DOMAIN Inventory
  BY InputAssumption DEF Mappings
<1>5. /\ DOMAIN out[j] = Subs(output[j].lines)
      /\ Len(out[j]) > 1 <=> Count(output[j].lines) > 1
      /\ \A a \in Subs(output[j].lines) : out[j][a] =
            Enriched(Address(output[j].lines, a), Type(output[j].lines),
                     ExtOf(output[j].lines, names, a), request[j])
  BY <1>3, ParseShape
<1> QED
  BY <1>2, <1>3, <1>4, <1>5 DEF Chained

(* The place in a chain that is told is the address, or 0.                  *)
LEMMA DaisyFacts ==
    ASSUME NEW sub, NEW subtype
    PROVE  /\ subtype # "epdu" => DaisyChain(sub, subtype) = {}
           /\ \A e \in DaisyChain(sub, subtype) :
                e.attr = "daisy_chain" /\ e.value = IF sub = "" THEN "0" ELSE sub
           /\ subtype = "epdu" => \E e \in DaisyChain(sub, subtype) : TRUE
<1>1. CASE subtype = "epdu"
  <2> DEFINE place == IF sub = "" THEN "0" ELSE sub
             entry == AddAssetVal("daisy_chain", <<>>, place, TRUE)
  <2>1. DaisyChain(sub, subtype) = {entry}
    BY <1>1 DEF DaisyChain
  <2>2. entry.attr = "daisy_chain" /\ entry.value = place
    BY DEF AddAssetVal
  <2> HIDE DEF entry
  <2> QED
    BY <1>1, <2>1, <2>2
<1>2. CASE subtype # "epdu"
  <2>1. DaisyChain(sub, subtype) = {}
    BY <1>2 DEF DaisyChain
  <2> QED
    BY <1>2, <2>1
<1> QED
  BY <1>1, <1>2

(* What is told of an asset is what its lines say under the names known.    *)
LEMMA ToldIsExt ==
    ASSUME NEW lines \in Lines, NEW names \in SUBSET DOMAIN Inventory, NEW j \in Jobs, NEW a,
           NEW sub, NEW type, NEW r,
           out[j][a] = Enriched(sub, type, ExtOf(lines, names, a), r)
    PROVE  Told(j, a) = ExtOf(lines, names, a)
<1> DEFINE ext == ExtOf(lines, names, a)
<1>1. \A e \in ext : e.readOnly = TRUE /\ e.attr \notin {"port", "daisy_chain"}
  BY ExtIsMapped
<1>2. ASSUME NEW e
      PROVE  e \in out[j][a].ext <=>
                \/ e \in ext
                \/ e = AddAssetVal("port", <<>>, ToString(Port(r)), FALSE)
                \/ e \in DaisyChain(sub, Subtype(type, ext))
                \/ e \in out[j][a].ext /\ e.readOnly = FALSE /\ e.attr \notin {"port", "daisy_chain"}
  <2> DEFINE asset == Enriched(sub, type, ext, r)
  <2>1. e \in asset.ext <=>
            \/ e \in ext
            \/ e = AddAssetVal("port", <<>>, ToString(Port(r)), FALSE)
            \/ e \in DaisyChain(sub, Subtype(type, ext))
            \/ e \in asset.ext /\ e.readOnly = FALSE /\ e.attr \notin {"port", "daisy_chain"}
    <3> HIDE DEF ext
    <3> QED
      BY EnrichedFacts
  <2>2. out[j][a] = asset
    OBVIOUS
  <2> HIDE DEF asset, ext
  <2> QED
    BY <2>1, <2>2
<1>3. AddAssetVal("port", <<>>, ToString(Port(r)), FALSE).readOnly = FALSE
  BY DEF AddAssetVal
<1>4. \A e \in DaisyChain(sub, Subtype(type, ext)) : e.attr = "daisy_chain"
  <2> DEFINE subtype == Subtype(type, ext)
  <2> HIDE DEF subtype
  <2>1. \A e \in DaisyChain(sub, subtype) : e.attr = "daisy_chain"
    BY DaisyFacts
  <2> QED
    BY <2>1 DEF subtype
<1> HIDE DEF ext
<1>5. ASSUME NEW e PROVE e \in Told(j, a) <=> e \in ext
  BY <1>1, <1>2, <1>3, <1>4 DEF Told
<1> QED
  BY <1>5 DEF ext

(* What was printed of it is what its lines say under all names.            *)
LEMMA PrintedIsExt ==
    ASSUME NEW j \in Jobs, output[j].lines \in Lines, NEW a,
           Chained(j) <=> Count(output[j].lines) > 1
    PROVE  Printed(j, a) = ExtOf(output[j].lines, DOMAIN Inventory, a)
<1> DEFINE lines == output[j].lines
           of(i) == IF Chained(j) THEN lines[i].key.name ELSE LookedUp(lines[i].key)
           number(i) == IF Chained(j) THEN lines[i].key.num ELSE NumberIn(lines[i].key)
<1>1. ASSUME NEW i \in DOMAIN lines
      PROVE  /\ of(i) = LookedUp(Stripped(lines, lines[i].key))
             /\ AddAssetVal(Inventory[of(i)], number(i), lines[i].value, TRUE) =
                    Entry(lines, lines[i].key, lines[i].value)
  <2>1. lines[i].key \in Keys
    BY DictionaryFacts
  <2>2. LookedUp(Suffix(lines[i].key)) = lines[i].key.name
    BY <2>1, SuffixFacts
  <2>3. NumberIn(Suffix(lines[i].key)) = lines[i].key.num
    BY <2>1, SuffixFacts
  <2>4. of(i) = LookedUp(Stripped(lines, lines[i].key))
    BY <2>2 DEF Stripped
  <2>5. number(i) = NumberIn(Stripped(lines, lines[i].key))
    BY <2>3 DEF Stripped
  <2> HIDE DEF of, number
  <2> QED
    BY <2>4, <2>5 DEF Entry
<1>2. ASSUME NEW e
      PROVE  e \in Printed(j, a) <=>
                \E i \in DOMAIN lines :
                    /\ IsFirst(lines, i) /\ (Chained(j) => lines[i].key.chain = Digits(a))
                    /\ of(i) \in DOMAIN Inventory
                    /\ e = AddAssetVal(Inventory[of(i)], number(i), lines[i].value, TRUE)
  BY DEF Printed, IsFirst
<1> HIDE DEF lines, of, number
<1>3. ASSUME NEW e PROVE e \in Printed(j, a) <=> e \in ExtOf(lines, DOMAIN Inventory, a)
  <2>1. lines \in Lines /\ (Chained(j) <=> Count(lines) > 1)
    BY DEF lines
  <2>2. e \in ExtOf(lines, DOMAIN Inventory, a) <=>
            \E i \in DOMAIN lines :
                /\ IsFirst(lines, i)
                /\ Count(lines) > 1 => lines[i].key.chain = Digits(a)
                /\ LookedUp(Stripped(lines, lines[i].key)) \in DOMAIN Inventory
                /\ e = Entry(lines, lines[i].key, lines[i].value)
    BY <2>1, ExtFacts
  <2>3. ASSUME NEW i \in DOMAIN lines
        PROVE  (/\ IsFirst(lines, i) /\ (Chained(j) => lines[i].key.chain = Digits(a))
                /\ of(i) \in DOMAIN Inventory
                /\ e = AddAssetVal(Inventory[of(i)], number(i), lines[i].value, TRUE))
               <=> (/\ IsFirst(lines, i)
                    /\ Count(lines) > 1 => lines[i].key.chain = Digits(a)
                    /\ LookedUp(Stripped(lines, lines[i].key)) \in DOMAIN Inventory
                    /\ e = Entry(lines, lines[i].key, lines[i].value))
    BY <1>1, <2>1
  <2> QED
    BY <1>2, <2>2, <2>3
<1> QED
  BY <1>3 DEF lines


(* mapper.cpp, Assets::parse: an answer is what the driver printed, mapped. *)
THEOREM WholeAnswers == Spec => []AnswerIsWhole
<1>1. IInv => AnswerIsWhole
  <2> SUFFICES ASSUME IInv, NEW j \in Jobs, Answers(j)
               PROVE  /\ driver[j] = "ok" /\ pipe[j] = output[j].size
                      /\ \A a \in DOMAIN out[j] :
                          /\ Told(j, a) \subseteq Printed(j, a)
                          /\ readable /\ ~raced => Printed(j, a) \subseteq Told(j, a)
    BY DEF AnswerIsWhole
  <2>1. told[j] = "ok"
    BY DEF Answers
  <2>2. driver[j] = "ok" /\ pipe[j] = output[j].size
    BY <2>1 DEF IInv, DriverInv
  <2> DEFINE lines == output[j].lines
  <2>3. lines \in Lines /\ (Chained(j) <=> Count(lines) > 1)
    BY <2>1, AnswerFacts
  <2>4. PICK names \in SUBSET DOMAIN Inventory :
            /\ readable /\ ~raced => names = DOMAIN Inventory
            /\ \A a \in DOMAIN out[j] : out[j][a] =
                Enriched(Address(lines, a), Type(lines), ExtOf(lines, names, a), request[j])
    BY <2>1, AnswerFacts
  <2>5. ASSUME NEW a \in DOMAIN out[j]
        PROVE  /\ Told(j, a) \subseteq Printed(j, a)
               /\ readable /\ ~raced => Printed(j, a) \subseteq Told(j, a)
    <3>1. Told(j, a) = ExtOf(lines, names, a)
      BY <2>3, <2>4, ToldIsExt
    <3>2. Printed(j, a) = ExtOf(lines, DOMAIN Inventory, a)
      BY <2>3, PrintedIsExt
    <3>3. ExtOf(lines, names, a) \subseteq ExtOf(lines, DOMAIN Inventory, a)
      BY <2>3, ExtGrows
    <3> QED
      BY <2>4, <3>1, <3>2, <3>3
  <2> QED
    BY <2>2, <2>5
<1> QED
  BY <1>1, Invariance, PTL

(* What enrichAsset derives from the entries alone.                         *)
LEMMA EnrichedFields ==
    ASSUME NEW sub, NEW type, NEW ext, NEW r
    PROVE  /\ Enriched(sub, type, ext, r).uuid = Uuid(ext)
           /\ Enriched(sub, type, ext, r).subtype = Subtype(type, ext)
BY DEF Enriched

(* enrichAsset, generateUUID: jobs that meet one device agree on who it is. *)
THEOREM StableIdentity == Spec => []IdentityIsStable
<1>1. IInv => IdentityIsStable
  <2> SUFFICES ASSUME IInv, NEW j \in Jobs, NEW k \in Jobs, Answers(j), told[k] = "ok",
                      output[j] = output[k], NEW a \in DOMAIN out[j]
               PROVE  LET uuid == out[j][a].uuid
                      IN  /\ OneOfEach(j, a) =>
                                uuid = NoUuid \/ out[k][a].uuid \in {NoUuid, uuid}
                          /\ uuid.kind = "random" => \E e \in Printed(j, a) :
                                e.attr \in IdentityAttrs /\ e.value = ""
    BY DEF IdentityIsStable
  <2> DEFINE lines == output[j].lines
  <2>1. /\ told[j] = "ok"
        /\ lines \in Lines /\ (Chained(j) <=> Count(lines) > 1)
        /\ DOMAIN out[j] = DOMAIN out[k]
    BY AnswerFacts DEF Answers
  <2>2. PICK m \in SUBSET DOMAIN Inventory : \A b \in DOMAIN out[j] : out[j][b] =
            Enriched(Address(lines, b), Type(lines), ExtOf(lines, m, b), request[j])
    BY <2>1, AnswerFacts
  <2>3. PICK n \in SUBSET DOMAIN Inventory : \A b \in DOMAIN out[k] : out[k][b] =
            Enriched(Address(lines, b), Type(lines), ExtOf(lines, n, b), request[k])
    BY <2>1, AnswerFacts
  <2>4. out[j][a].uuid = Uuid(ExtOf(lines, m, a))
    <3> HIDE DEF lines
    <3>1. out[j][a] = Enriched(Address(lines, a), Type(lines), ExtOf(lines, m, a), request[j])
      BY <2>1, <2>2
    <3> QED
      BY <3>1, EnrichedFields
  <2>5. out[k][a].uuid = Uuid(ExtOf(lines, n, a))
    <3> HIDE DEF lines
    <3>1. out[k][a] = Enriched(Address(lines, a), Type(lines), ExtOf(lines, n, a), request[k])
      BY <2>1, <2>3
    <3> QED
      BY <3>1, EnrichedFields
  <2>6. ASSUME OneOfEach(j, a)
        PROVE  out[j][a].uuid = NoUuid \/ out[k][a].uuid \in {NoUuid, out[j][a].uuid}
    <3>1. Printed(j, a) = ExtOf(lines, DOMAIN Inventory, a)
      BY <2>1, PrintedIsExt
    <3>2. OneOfEachIn(lines, a)
      BY <2>6, <3>1 DEF OneOfEach, OneOfEachIn
    <3> QED
      BY <2>1, <2>4, <2>5, <3>2, OneUuid
  <2>7. ASSUME out[j][a].uuid.kind = "random"
        PROVE  \E e \in Printed(j, a) : e.attr \in IdentityAttrs /\ e.value = ""
    <3>1. PICK e \in ExtOf(lines, m, a) : e.attr \in IdentityAttrs /\ e.value = ""
      BY <2>4, <2>7, RandomUuid
    <3>2. ExtOf(lines, m, a) \subseteq ExtOf(lines, DOMAIN Inventory, a)
      BY <2>1, ExtGrows
    <3>3. Printed(j, a) = ExtOf(lines, DOMAIN Inventory, a)
      BY <2>1, PrintedIsExt
    <3> QED
      BY <3>1, <3>2, <3>3
  <2> QED
    BY <2>6, <2>7
<1> QED
  BY <1>1, Invariance, PTL

(* An asset's port is the one of its request.                               *)
LEMMA PortTold ==
    ASSUME NEW lines \in Lines, NEW names \in SUBSET DOMAIN Inventory, NEW a,
           NEW sub, NEW type, NEW r
    PROVE  Find(Enriched(sub, type, ExtOf(lines, names, a), r).ext, "port") = ToString(Port(r))
<1> DEFINE ext == ExtOf(lines, names, a)
           all == Enriched(sub, type, ext, r).ext
           port == AddAssetVal("port", <<>>, ToString(Port(r)), FALSE)
           subtype == Subtype(type, ext)
<1>1. \A e \in ext : e.attr # "port"
  BY ExtIsMapped
<1> HIDE DEF ext
<1>2. \A e : e \in all <=>
            \/ e \in ext
            \/ e = port
            \/ e \in DaisyChain(sub, subtype)
            \/ e \in all /\ e.readOnly = FALSE /\ e.attr \notin {"port", "daisy_chain"}
  BY EnrichedFacts
<1>3. port.attr = "port" /\ port.value = ToString(Port(r))
  BY DEF AddAssetVal
<1> HIDE DEF all, port, subtype
<1>4. \A e \in DaisyChain(sub, subtype) : e.attr = "daisy_chain"
  BY DaisyFacts
<1>5. \A e \in all : e.attr = "port" => e = port
  BY <1>1, <1>2, <1>4
<1>6. Has(all, "port")
  BY <1>2, <1>3 DEF Has
<1>7. Find(all, "port") = ToString(Port(r))
  BY <1>3, <1>5, <1>6, FindFacts
<1> QED
  BY <1>7 DEF all, ext

(* The place in a chain that is told for an address, and those an asset has. *)
Place(sub) == IF sub = "" THEN "0" ELSE sub

PlacesIn(ext) == {e.value : e \in {e \in ext : e.attr = "daisy_chain"}}

(* An asset's place in the chain is its address, when it is an epdu.        *)
LEMMA PlaceTold ==
    ASSUME NEW lines \in Lines, NEW names \in SUBSET DOMAIN Inventory, NEW a,
           NEW sub, NEW type, NEW r,
           NEW asset, asset = Enriched(sub, type, ExtOf(lines, names, a), r)
    PROVE  /\ asset.subtype \notin {"pdu", "ats"}
           /\ asset.subtype # "epdu" => PlacesIn(asset.ext) = {}
           /\ asset.subtype = "epdu" => PlacesIn(asset.ext) = {Place(sub)}
<1> DEFINE ext == ExtOf(lines, names, a)
           port == AddAssetVal("port", <<>>, ToString(Port(r)), FALSE)
           subtype == Subtype(type, ext)
           found == SubtypeKept(type, ext)
<1>0. asset = Enriched(sub, type, ext, r)
  OBVIOUS
<1>1. \A e \in ext : e.attr # "daisy_chain"
  BY ExtIsMapped
<1> HIDE DEF ext
<1>2. \A e : e \in asset.ext <=>
            \/ e \in ext
            \/ e = port
            \/ e \in DaisyChain(sub, subtype)
            \/ e \in asset.ext /\ e.readOnly = FALSE /\ e.attr \notin {"port", "daisy_chain"}
  <2>1. \A e : e \in Enriched(sub, type, ext, r).ext <=>
            \/ e \in ext
            \/ e = port
            \/ e \in DaisyChain(sub, subtype)
            \/ e \in Enriched(sub, type, ext, r).ext /\ e.readOnly = FALSE
               /\ e.attr \notin {"port", "daisy_chain"}
    BY EnrichedFacts
  <2> HIDE DEF port, subtype
  <2> QED
    BY <1>0, <2>1
<1>3. asset.subtype = subtype
  BY <1>0, EnrichedFields
<1>4. port.attr = "port"
  BY DEF AddAssetVal
<1>5. subtype \notin {"pdu", "ats"}
  <2> HIDE DEF found
  <2>1. subtype = CASE found = "pdu" -> "epdu" [] found = "ats" -> "sts" [] OTHER -> found
    BY DEF Subtype, found
  <2> HIDE DEF subtype
  <2> QED
    BY <2>1
<1> HIDE DEF port, subtype
<1>6. /\ subtype # "epdu" => DaisyChain(sub, subtype) = {}
      /\ \A e \in DaisyChain(sub, subtype) :
            e.attr = "daisy_chain" /\ e.value = IF sub = "" THEN "0" ELSE sub
      /\ subtype = "epdu" => \E e \in DaisyChain(sub, subtype) : TRUE
  BY DaisyFacts
<1>7. {e \in asset.ext : e.attr = "daisy_chain"} = DaisyChain(sub, subtype)
  BY <1>1, <1>2, <1>4, <1>6
<1>8. {e.value : e \in DaisyChain(sub, subtype)} =
            IF subtype # "epdu" THEN {} ELSE {IF sub = "" THEN "0" ELSE sub}
  BY <1>6
<1> QED
  BY <1>3, <1>5, <1>7, <1>8 DEF PlacesIn, Place

(* nut::Process::init, enrichAsset: an answer says where its driver asked,  *)
(* and which device of the chain it is about.                               *)
THEOREM ReachedEndpoint == Spec => []EndpointIsReached
<1>1. IInv => EndpointIsReached
  <2> SUFFICES ASSUME IInv, NEW j \in Jobs, Answers(j), NEW a \in DOMAIN out[j]
               PROVE  PortIsTheDrivers(j, a) /\ KnowsItsPlace(j, a)
    BY DEF EndpointIsReached
  <2> DEFINE lines == output[j].lines
             r == request[j]
  <2>1. /\ TypeOK /\ told[j] = "ok"
        /\ lines \in Lines /\ DOMAIN out[j] = Subs(lines)
        /\ Chained(j) <=> Count(lines) > 1
    BY AnswerFacts DEF Answers, IInv
  <2>2. PICK names \in SUBSET DOMAIN Inventory : \A b \in DOMAIN out[j] : out[j][b] =
            Enriched(Address(lines, b), Type(lines), ExtOf(lines, names, b), r)
    BY <2>1, AnswerFacts
  <2> HIDE DEF lines, r
  <2>3. PortIsTheDrivers(j, a)
    <3>1. Find(out[j][a].ext, "port") = ToString(Port(r))
      BY <2>1, <2>2, PortTold
    <3>2. given[j].port = DriverPort(r)
      BY <2>1 DEF IInv, GivenInv, r
    <3>3. ASSUME r.protocol # "nut_powercom", Port(r) \in Ports,
                 r.protocol = "nut_snmp" \/ r.port # None
          PROVE  DriverPort(r) = Port(r)
      <4>1. Port(r) # 0
        BY <2>1, <3>3, PortFacts, InputFacts DEF r, Requests, Port
      <4>2. Narrow(Port(r)) = Port(r)
        BY <3>3, NarrowFits
      <4> QED
        BY <3>3, <4>1, <4>2 DEF DriverPort
    <3> QED
      BY <3>1, <3>2, <3>3 DEF PortIsTheDrivers, r
  <2>4. KnowsItsPlace(j, a)
    <3> DEFINE place == IF Address(lines, a) = "" THEN "0" ELSE Address(lines, a)
    <3>1. /\ out[j][a].subtype \notin {"pdu", "ats"}
          /\ PlacesIn(out[j][a].ext) =
                 IF out[j][a].subtype # "epdu" THEN {} ELSE {place}
      <4>1. out[j][a] = Enriched(Address(lines, a), Type(lines), ExtOf(lines, names, a), r)
        BY <2>2
      <4> DEFINE sub == Address(lines, a)
                 type == Type(lines)
                 asset == out[j][a]
      <4>2. asset = Enriched(sub, type, ExtOf(lines, names, a), r)
        BY <4>1
      <4> HIDE DEF sub, type, asset
      <4>3. /\ asset.subtype \notin {"pdu", "ats"}
            /\ asset.subtype # "epdu" => PlacesIn(asset.ext) = {}
            /\ asset.subtype = "epdu" => PlacesIn(asset.ext) = {Place(sub)}
        BY <2>1, <4>2, PlaceTold
      <4> QED
        BY <4>3 DEF asset, sub, Place
    <3>2. place = IF Chained(j) THEN ToString(a) ELSE "0"
      <4>1. CASE Chained(j)
        <5>1. Address(lines, a) = ToString(a) /\ a \in 1..Count(lines)
          BY <2>1, <4>1 DEF Address, Subs
        <5> QED
          BY <4>1, <5>1, CountIsANumber
      <4>2. CASE ~Chained(j)
        BY <2>1, <4>2 DEF Address
      <4> QED
        BY <4>1, <4>2
    <3> HIDE DEF place
    <3> QED
      BY <3>1, <3>2 DEF KnowsItsPlace, PlacesIn
  <2> QED
    BY <2>3, <2>4
<1> QED
  BY <1>1, Invariance, PTL
============================================================================
