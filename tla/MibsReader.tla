---------------------------- MODULE MibsReader ----------------------------
(***************************************************************************)
(* Reading the MIBs of a device over SNMP: impl::MibsReader on top of      *)
(* impl::snmp::Session, as driven by job::Mibs::run and by the first half  *)
(* of job::Assets::run.                                                    *)
(*                                                                         *)
(* Every request is two steps, sending it and hearing of it, because       *)
(* snmp_sess_synch_response blocks the worker in between.  net-snmp and    *)
(* the device are external: any request may also time out or fail.         *)
(***************************************************************************)
EXTENDS Naturals, Sequences, FiniteSets, SequencesExt

CONSTANTS
    Noise,      \* MIBs filterMib holds back
    Root,       \* the MIB the walk's root is printed in
    Agents,     \* devices: [oid, has, walk], see below
    Jobs,       \* jobs to run: "mibs", "assets"
    Requests,   \* what callers pass: [credentialId, community, mib]
    None

(* knownMibs(): the module of every entry.                                 *)
Known == <<
    "PowerNet-MIB", "PowerNet-MIB", "PowerNet-MIB", "Baytech-MIB-503-1",
    "BESTPOWER-MIB", "CPQPOWER-MIB", "CPS-MIB", "DeltaUPS-MIB", "EATON-OIDS",
    "EATON-GENESIS-II-MIB", "EATON-EPDU-MIB", "EATON-EPDU-PU-SW-MIB",
    "CPQPOWER-MIB", "TRIPPUPS1-MIB", "UPS-MIB", "MG-SNMP-UPS-MIB", "XUPS-MIB",
    "EATON-OIDS", "XPPC-MIB" >>

(* The table of mapMibToLegacy.  Its keys are objects; of two rows with    *)
(* one key, a std::map keeps the first.                                    *)
LegacyRows == <<
    <<"PowerNet-MIB::automaticXferSwitch", "apc_ats">>,
    <<"PowerNet-MIB::masterSwitchMSP", "apc_pdu">>,
    <<"PowerNet-MIB::masterSwitchrPDU", "apc_pdu">>,
    <<"PowerNet-MIB::masterSwitchrPDU2", "apc_pdu">>,
    <<"PowerNet-MIB::smartUPS2200", "apc_ats">>,
    <<"PowerNet-MIB::smartUPS3000", "apc_ats">>,
    <<"PowerNet-MIB::smartUPS2", "apc_ats">>,
    <<"PowerNet-MIB::smartUPS450", "apc_ats">>,
    <<"PowerNet-MIB::smartUPS700", "apc_ats">>,
    <<"Baytech-MIB-503-1::baytech", "baytech">>,
    <<"BESTPOWER-MIB::bestPower", "bestpower">>,
    <<"CPQPOWER-MIB::ups", "cpqpower">>, <<"CPS-MIB::cps", "cyberpower">>,
    <<"DeltaUPS-MIB::upsv4", "delta_ups">>,
    <<"MG-SNMP-UPS-MIB::upsmg", "eaton_ats16">>,
    <<"EATON-ATS2-MIB::ats2", "eaton_ats16_g2">>,
    <<"EATON-OIDS::sts", "eaton_ats30">>,
    <<"EATON-GENESIS-II-MIB::eaton", "aphel_genesisII">>,
    <<"EATON-OIDS::pduAgent.6", "aphel_revelation">>,
    <<"EATON-EPDU-MIB::eatonEpdu", "eaton_epdu">>,
    <<"PM-MIB::pm3024", "emerson_avocent_pdu">>,
    <<"EATON-EPDU-PU-SW-MIB::pulizzi", "pulizzi_switched1">>,
    <<"CPQPOWER-MIB::pdu2", "hpe_epdu">>, <<"NET-SNMP-TC::linux", "huawei">>,
    <<"MG-SNMP-UPS-MIB::upsmg", "mge">>, <<"EATON-OIDS::xupsMIB", "pw">>,
    <<"EATON-OIDS::eatonPowerChainDevice", "pxgx_ups">>,
    <<"PDU2-MIB::raritan", "raritan">>, <<"PDU2-MIB::pdu2", "raritan_px2">>,
    <<"XPPC-MIB::ppc", "xppc">>, <<"SOCOMECUPS-MIB::netvision", "netvision">>,
    <<"TRIPPUPS1-MIB::trippUPS1", "tripplite">>, <<"UPS-MIB::upsMIB", "ietf">> >>

(* A device: the MIB its sysObjectID.0 names (None when it has none), the  *)
(* entries of Known it answers for, and the MIBs of its objects in the     *)
(* order GETNEXT visits them: what stands before the "::" of their names,  *)
(* which every key of the table has.                                       *)

(* What a walk of it may name.                                             *)
Walked(a) == {Root} \cup Range(a.walk)

ASSUME AgentAssumption == \A a \in Agents :
    /\ a.has \subseteq DOMAIN Known
    /\ a.walk \in Seq(Walked(a))
    /\ \A i \in DOMAIN LegacyRows : LegacyRows[i][1] \notin Walked(a)
ASSUME NoneAssumption ==
    /\ None \notin {Known[i] : i \in DOMAIN Known}
    /\ \A a \in Agents : None \notin Walked(a)

Versions == {"unset", "v1", "v3"}
Places   == {"start", "name", "oid", "known", "walk", "chosen", "done"}

VARIABLES
    job,      \* the job run, from Jobs
    request,  \* its parameters
    agent,    \* the device it talks to
    tryAll,   \* Config::tryAll
    pc,       \* where it is
    version,  \* m_sess.version
    isOpen,   \* MibsReader::m_isOpen
    opens,    \* sessions opened
    gets,     \* GET requests sent
    heard,    \* the device answered at least once
    waiting,  \* a request is out
    entry,    \* entry of Known to read next
    pos,      \* object of the device the walk is at, 0: its root
    mibs,     \* MibList being filled
    told      \* [status, list] the job came to, None before

jobVars == <<job, request, agent, tryAll>>
vars == <<jobVars, pc, version, isOpen, opens, gets, heard, waiting, entry, pos,
          mibs, told>>

Names == {Known[i] : i \in DOMAIN Known}
         \cup UNION {{a.oid} \cup Walked(a) : a \in Agents}

TypeOK ==
    /\ job \in Jobs /\ request \in Requests /\ agent \in Agents
    /\ tryAll \in BOOLEAN
    /\ pc \in Places
    /\ version \in Versions
    /\ isOpen \in BOOLEAN /\ heard \in BOOLEAN /\ waiting \in BOOLEAN
    /\ opens \in Nat /\ gets \in Nat
    /\ entry \in 1..(Len(Known) + 1)
    /\ pos \in 0..Len(agent.walk)
    /\ mibs \subseteq Names \ {None}
    /\ told # None => told.status \in {"ok", "error"}

Init ==
    /\ job \in Jobs /\ request \in Requests /\ agent \in Agents
    /\ tryAll \in BOOLEAN
    /\ pc = "start"
    /\ version = "unset"
    /\ isOpen = FALSE /\ opens = 0
    /\ gets = 0 /\ heard = FALSE /\ waiting = FALSE
    /\ entry = 1 /\ pos = 0
    /\ mibs = {}
    /\ told = None

(***************************************************************************)
(* Starting the job.                                                       *)
(***************************************************************************)

sessionVars == <<isOpen, opens, gets, heard, waiting, entry, pos>>

Done(status, list) ==
    /\ pc' = "done"
    /\ told' = [status |-> status, list |-> list]

Fail == Done("error", <<>>)

(* available() fails, no credentials are given, or the wallet has none of  *)
(* that name.  A credential id is preferred to a community.  (When it is   *)
(* the socket to the wallet that fails, the exception is not an Error:     *)
(* Discovery.tla tells the two apart, here both are failures.)             *)
Refuse ==
    /\ pc = "start"
    /\ Fail
    /\ UNCHANGED <<jobVars, version, sessionVars, mibs>>

FirstPlaceOid == "oid"

FirstPlace == IF job = "mibs" THEN "name" ELSE "oid"

(* Credentials of another kind leave the session's version as it was.      *)
VersionOf(kind) ==
    CASE kind = "snmpv3" -> "v3" [] kind = "snmpv1" -> "v1" [] OTHER -> "unset"

Begin ==
    /\ pc = "start"
    /\ \/ /\ request.credentialId # None
          /\ version' = VersionOf(request.credentialId)
       \/ /\ request.credentialId = None
          /\ request.community
          /\ version' = "v1"
    /\ pc' = FirstPlace
    /\ UNCHANGED <<jobVars, sessionVars, mibs, told>>

(***************************************************************************)
(* The session.                                                            *)
(***************************************************************************)

Reading == pc \in {"name", "oid", "known"}

OpenAgain ==
    /\ pc \in {"name", "oid"} /\ ~waiting /\ ~isOpen
    /\ opens' = opens + 1
    /\ UNCHANGED <<jobVars, pc, version, isOpen, gets, heard, waiting, entry, pos,
                   mibs, told>>

Open ==
    /\ pc \in {"name", "oid"} /\ ~waiting /\ ~isOpen
    /\ isOpen' = TRUE
    /\ opens' = opens + 1
    /\ UNCHANGED <<jobVars, pc, version, gets, heard, waiting, entry, pos, mibs,
                   told>>

OpenFails ==
    /\ pc \in {"name", "oid"} /\ ~waiting /\ ~isOpen
    /\ Fail
    /\ UNCHANGED <<jobVars, version, sessionVars, mibs>>

AskGetPastEnd ==
    /\ Reading /\ ~waiting
    /\ pc \in {"name", "oid"} => isOpen
    /\ waiting' = TRUE
    /\ gets' = gets + 1
    /\ UNCHANGED <<jobVars, pc, version, isOpen, opens, heard, entry, pos, mibs,
                   told>>

AskGet ==
    /\ Reading /\ ~waiting
    /\ pc \in {"name", "oid"} => isOpen
    /\ pc = "known" => entry <= Len(Known)
    /\ waiting' = TRUE
    /\ gets' = gets + 1
    /\ UNCHANGED <<jobVars, pc, version, isOpen, opens, heard, entry, pos, mibs,
                   told>>

AskNext ==
    /\ pc = "walk" /\ ~waiting
    /\ waiting' = TRUE
    /\ UNCHANGED <<jobVars, pc, version, isOpen, opens, gets, heard, entry, pos,
                   mibs, told>>

(* The device answers the request that is out, or both attempts time out.  *)
Hear == waiting /\ waiting' = FALSE /\ heard' = TRUE
Miss == waiting /\ waiting' = FALSE /\ UNCHANGED heard

readVars == <<jobVars, version, isOpen, opens, gets>>

(***************************************************************************)
(* MibsReader::readName, which only job::Mibs calls.                       *)
(***************************************************************************)

NameRead ==
    /\ pc = "name"
    /\ Hear
    /\ pc' = "oid"
    /\ UNCHANGED <<readVars, entry, pos, mibs, told>>

(* An error answer, or none.                                               *)
NameUnread ==
    /\ pc = "name"
    /\ Hear \/ Miss
    /\ Fail
    /\ UNCHANGED <<readVars, entry, pos, mibs>>

(***************************************************************************)
(* MibsReader::read.                                                       *)
(***************************************************************************)

OidRead ==
    /\ pc = "oid"
    /\ agent.oid # None
    /\ Hear
    /\ mibs' = {agent.oid}
    /\ pc' = "chosen"
    /\ UNCHANGED <<readVars, entry, pos, told>>

(* No sysObjectID.0, or no answer: try something else.                     *)
OidUnread ==
    /\ pc = "oid"
    /\ (agent.oid = None /\ Hear) \/ Miss
    /\ pc' = IF tryAll THEN "walk" ELSE "known"
    /\ UNCHANGED <<readVars, entry, pos, mibs, told>>

(* Reading known entries one by one.  A failure means nothing: go on.      *)
KnownRead ==
    /\ pc = "known"
    /\ \/ Hear /\ mibs' = mibs \cup {Known[e] : e \in agent.has \cap {entry}}
       \/ Miss /\ UNCHANGED mibs
    /\ entry' = entry + 1
    /\ UNCHANGED <<readVars, pc, pos, told>>

(* The list is complete.  An empty one is an error.                        *)
Collected ==
    IF mibs = {}
    THEN Fail
    ELSE pc' = "chosen" /\ UNCHANGED told

KnownEnd ==
    /\ pc = "known" /\ ~waiting /\ entry > Len(Known)
    /\ Collected
    /\ UNCHANGED <<readVars, heard, waiting, entry, pos, mibs>>

(* The callback of the walk: filterMib.                                    *)
UnfilteredAll(ms) == ms

Unfiltered(ms) == ms \ Noise

WalkNext ==
    /\ pc = "walk" /\ pos < Len(agent.walk)
    /\ Hear
    /\ pos' = pos + 1
    /\ mibs' = mibs \cup Unfiltered({agent.walk[pos + 1]})
    /\ UNCHANGED <<readVars, pc, entry, told>>

WalkEndV1Ignored ==
    /\ pc = "walk" /\ pos = Len(agent.walk) /\ version = "v1"
    /\ Hear
    /\ UNCHANGED <<readVars, pc, entry, pos, mibs, told>>

(* Past the last object.  SNMPv1 answers noSuchName, which ends the walk.  *)
(* SNMPv3 answers without error, with the name that was asked for and the  *)
(* value endOfMibView: the name goes to the callback, the break leaves the *)
(* loop over the variables, and the walk asks for the same name again.     *)
WalkEndV1 ==
    /\ pc = "walk" /\ pos = Len(agent.walk) /\ version = "v1"
    /\ Hear
    /\ Collected
    /\ UNCHANGED <<readVars, entry, pos, mibs>>

WalkedName == IF pos = 0 THEN Root ELSE agent.walk[pos]

WalkEndV3 ==
    /\ pc = "walk" /\ pos = Len(agent.walk) /\ version # "v1"
    /\ Hear
    /\ mibs' = mibs \cup Unfiltered({WalkedName})
    /\ UNCHANGED <<readVars, pc, entry, pos, told>>

(* A timeout ends the walk as its end does, with what was collected.       *)
WalkTimeout ==
    /\ pc = "walk"
    /\ Miss
    /\ Collected
    /\ UNCHANGED <<readVars, entry, pos, mibs>>

(* STAT_ERROR: the request could not even be sent.                         *)
WalkFails ==
    /\ pc = "walk"
    /\ Miss
    /\ Fail
    /\ UNCHANGED <<readVars, entry, pos, mibs>>

(***************************************************************************)
(* What the jobs make of the list.                                         *)
(***************************************************************************)

Rank(mib) ==
    CASE mib = "XUPS-MIB" -> 1 [] mib = "MG-SNMP-UPS-MIB" -> 2 [] OTHER -> 3

Sorted(list) ==
    \A i, j \in DOMAIN list : i < j => Rank(list[i]) <= Rank(list[j])

LegacyByModule(mib) ==
    LET rows == {i \in DOMAIN LegacyRows :
                    LegacyRows[i][1] = mib \/ LegacyRows[i][1] = mib \o "::pdu2"}
    IN  IF rows = {} THEN "" ELSE LegacyRows[Min(rows)][2]

MapMibToLegacy(mib) ==
    LET rows == {i \in DOMAIN LegacyRows : LegacyRows[i][1] = mib}
    IN  IF rows = {} THEN "" ELSE LegacyRows[Min(rows)][2]

ReportMibs ==
    /\ pc = "chosen" /\ job = "mibs"
    /\ \E list \in SetToSeqs(mibs) : Sorted(list) /\ Done("ok", list)
    /\ UNCHANGED <<jobVars, version, sessionVars, mibs>>

(* job::Assets answers with the MIB it was told to use, or else the first  *)
(* of the set, whichever that is, and gives the driver NUT's name for it.  *)
ReportAssets ==
    /\ pc = "chosen" /\ job = "assets"
    /\ \E mib \in IF request.mib # None THEN {request.mib} ELSE mibs :
        Done("ok", <<mib, MapMibToLegacy(mib)>>)
    /\ UNCHANGED <<jobVars, version, sessionVars, mibs>>

Next ==
    \/ Refuse \/ Begin \/ Open \/ OpenFails \/ AskGet \/ AskNext
    \/ NameRead \/ NameUnread \/ OidRead \/ OidUnread
    \/ KnownRead \/ KnownEnd
    \/ WalkNext \/ WalkEndV1 \/ WalkEndV3 \/ WalkTimeout \/ WalkFails
    \/ ReportMibs \/ ReportAssets

Spec == Init /\ [][Next]_vars

(* A worker runs the job alone; net-snmp ends every wait.                  *)
FairSpec == Spec /\ WF_vars(Next)

(***************************************************************************)
(* Properties.                                                             *)
(***************************************************************************)

(* readName and read share one session: no request goes out on a session   *)
(* that is not open, and none is opened over another, which would leak it. *)
OpenedOnce == opens <= 1 /\ (waiting => opens = 1)

(* However much is lost, the name, the object id and each known entry are  *)
(* asked for once.  A device that never answers costs the mibs job one     *)
(* request, not the whole list: a caller only waits ten seconds.           *)
GetBudget ==
    /\ gets <= 2 + Len(Known)
    /\ job = "mibs" /\ ~heard => gets <= 1 /\ mibs = {} /\ pc # "walk"

Entries == {Known[e] : e \in agent.has}
OnWalk  == IF version # "v1" /\ agent.walk = <<>>
           THEN {Root}
           ELSE Range(agent.walk) \ Noise

SomeMib == pc = "chosen" => mibs # {}

ToldFits ==
    told # None /\ told.status = "ok" /\ (job = "assets" => request.mib = None) =>
        LET listed == IF job = "mibs" THEN Range(told.list) ELSE {told.list[1]}
        IN  \/ listed = {agent.oid}
            \/ ~tryAll /\ listed \subseteq Entries
            \/ tryAll /\ listed \subseteq OnWalk

(* Both jobs take the first MIB of the list as given: there is one.  What  *)
(* is listed is the device's: its object id, known entries it really has,  *)
(* or MIBs met on the walk that the filter lets through.  Only when there  *)
(* is nothing to walk may SNMPv3 list the root of the walk instead.        *)
ListFitsDevice == SomeMib /\ ToldFits

(* The driver is only told a name of NUT's for the very MIB the device's   *)
(* object id, the request or the walk's own entry names, never for one of  *)
(* the same vendor: what is found by entries or on a walk are modules, and *)
(* a module may be that of an ATS and of a PDU.                            *)
DriverMibIsExact ==
    told # None /\ told.status = "ok" /\ job = "assets" /\ told.list[2] # "" =>
        told.list[1] \in {agent.oid, request.mib}

(***************************************************************************)
(* The inductive invariant.                                                *)
(***************************************************************************)

(* A session is opened before it is used, and there is none before.        *)
SessionInv ==
    /\ isOpen <=> opens = 1
    /\ opens <= 1
    /\ pc = "start" => opens = 0
    /\ pc \in {"known", "walk", "chosen"} => opens = 1
    /\ waiting => opens = 1 /\ pc \in {"name", "oid", "known", "walk"}

(* What was asked for up to each place, the request that is out included.  *)
Out == IF waiting THEN 1 ELSE 0

BudgetInv ==
    /\ pc = "start" => gets = 0
    /\ pc = "name" => gets <= Out
    /\ pc = "oid" => gets <= 1 + Out
    /\ pc = "known" => gets <= 1 + entry + Out /\ (waiting => entry <= Len(Known))
    /\ job = "mibs" /\ ~heard => pc \in {"start", "name", "done"}

(* Where the names in the list come from, by the way they were found.      *)
OriginInv ==
    /\ pc \in {"start", "name", "oid"} => mibs = {}
    /\ pc = "known" => ~tryAll /\ mibs \subseteq Entries
    /\ pc = "walk" => tryAll /\ mibs \subseteq OnWalk
    /\ pc = "chosen" =>
        \/ mibs = {agent.oid}
        \/ ~tryAll /\ mibs \subseteq Entries
        \/ tryAll /\ mibs \subseteq OnWalk
    /\ pc # "done" => told = None

IInv ==
    /\ TypeOK /\ SessionInv /\ BudgetInv /\ OriginInv
    /\ GetBudget /\ SomeMib /\ ToldFits /\ DriverMibIsExact

(***************************************************************************)
(* Liveness.                                                               *)
(***************************************************************************)

(* The job comes to an end, and its worker is free for other requests.     *)
(* jobs/mibs.h says that it returns a list.                                *)
JobEnds == <>(pc = "done")

(* So it does as long as it does not walk a device over SNMPv3.            *)
WalksV3 ==
    tryAll /\ request.credentialId # None /\ VersionOf(request.credentialId) # "v1"

JobEndsWithoutV3Walk == ~WalksV3 => <>(pc = "done")
===========================================================================
