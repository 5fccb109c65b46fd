-------------------------- MODULE MibsReaderProofs --------------------------
(* Theorems about MibsReader, for every device, request and filter.         *)
EXTENDS MibsReader, TLAPS, FiniteSetTheorems

(***************************************************************************)
(* The tables and lists.                                                   *)
(***************************************************************************)

(* The known entries are 19, and none of their modules has a NUT name.      *)
LEMMA KnownFacts ==
    /\ Len(Known) = 19 /\ DOMAIN Known = 1..19
    /\ \A e \in DOMAIN Known : \A i \in DOMAIN LegacyRows : LegacyRows[i][1] # Known[e]
<1>1. Len(Known) = 19 /\ DOMAIN Known = 1..19
  BY DEF Known
<1>2. \A e \in DOMAIN Known : \A i \in DOMAIN LegacyRows : LegacyRows[i][1] # Known[e]
  BY SMTT(60) DEF Known, LegacyRows
<1> QED
  BY <1>1, <1>2

(* A MIB that is given to a driver under a name is a key of the table.      *)
LEMMA NamedIsKey ==
    ASSUME NEW mib, MapMibToLegacy(mib) # ""
    PROVE  \E i \in DOMAIN LegacyRows : LegacyRows[i][1] = mib
<1>1. {i \in DOMAIN LegacyRows : LegacyRows[i][1] = mib} # {}
  BY DEF MapMibToLegacy
<1> QED
  BY <1>1

(* An ordering of a set holds its elements, and all of a singleton's.       *)
LEMMA Ordering ==
    ASSUME NEW S, NEW list \in SetToSeqs(S)
    PROVE  /\ Range(list) \subseteq S
           /\ \A x : S = {x} => Range(list) = {x}
<1>1. list \in [1..Cardinality(S) -> S]
  BY DEF SetToSeqs
<1>2. ASSUME NEW x, S = {x} PROVE Range(list) = {x}
  <2>1. Cardinality(S) = 1
    BY <1>2, FS_Singleton
  <2>2. 1 \in 1..Cardinality(S)
    BY <2>1
  <2> QED
    BY <1>1, <1>2, <2>2 DEF Range
<1> QED
  BY <1>1, <1>2 DEF Range

(* No MIB on the device's side is None, and a walk is within the device.    *)
LEMMA AgentFacts ==
    ASSUME TypeOK
    PROVE  /\ Len(agent.walk) \in Nat
           /\ DOMAIN agent.walk = 1..Len(agent.walk)
           /\ \A i \in 1..Len(agent.walk) : agent.walk[i] \in Range(agent.walk)
           /\ Walked(agent) \subseteq Names \ {None}
           /\ Entries \subseteq Names \ {None}
           /\ agent.oid \in Names
           /\ Range(agent.walk) \subseteq Walked(agent) /\ Root \in Walked(agent)
           /\ agent.has \subseteq DOMAIN Known
<1>1. agent \in Agents
  BY DEF TypeOK
<1>2. agent.walk \in Seq(Walked(agent)) /\ agent.has \subseteq DOMAIN Known
  BY <1>1, AgentAssumption
<1>3. Len(agent.walk) \in Nat /\ DOMAIN agent.walk = 1..Len(agent.walk)
  BY <1>2
<1>4. Walked(agent) \subseteq Names \ {None} /\ agent.oid \in Names
  BY <1>1, NoneAssumption DEF Names
<1>5. Entries \subseteq Names \ {None}
  BY <1>2, NoneAssumption DEF Entries, Names
<1>6. \A i \in 1..Len(agent.walk) : agent.walk[i] \in Range(agent.walk)
  BY <1>3 DEF Range
<1>7. Range(agent.walk) \subseteq Walked(agent) /\ Root \in Walked(agent)
  BY DEF Walked
<1> QED
  BY <1>2, <1>3, <1>4, <1>5, <1>6, <1>7

(***************************************************************************)
(* Type correctness.                                                       *)
(***************************************************************************)

LEMMA InitIInv == Init => IInv
<1> SUFFICES ASSUME Init PROVE IInv
  OBVIOUS
<1>1. TypeOK
  <2>1. Len(agent.walk) \in Nat
    BY AgentAssumption DEF Init
  <2>2. 0 \in 0..Len(agent.walk) /\ 1 \in 1..(Len(Known) + 1)
    BY <2>1, KnownFacts
  <2> QED
    BY <2>2 DEF Init, TypeOK, Places, Versions
<1>2. SessionInv /\ BudgetInv /\ OriginInv
  BY DEF Init, SessionInv, BudgetInv, Out, OriginInv
<1>3. SomeMib /\ GetBudget /\ ToldFits /\ DriverMibIsExact
  BY KnownFacts DEF Init, SomeMib, GetBudget, ToldFits, DriverMibIsExact
<1> QED
  BY <1>1, <1>2, <1>3 DEF IInv
(* Sessions are opened once, and before anything is sent.                   *)
LEMMA SessionStep ==
    ASSUME TypeOK, SessionInv, [Next]_vars
    PROVE  SessionInv'
<1> USE DEF SessionInv, jobVars, sessionVars, TypeOK, Versions, Places
<1>1. CASE Refuse
  BY <1>1 DEF Refuse, Fail, Done
<1>2. CASE Begin
  BY <1>2 DEF Begin, FirstPlace, VersionOf
<1>3. CASE Open
  BY <1>3 DEF Open
<1>4. CASE OpenFails
  BY <1>4 DEF OpenFails, Fail, Done
<1>5. CASE AskGet
  BY <1>5 DEF AskGet, Reading
<1>6. CASE AskNext
  BY <1>6 DEF AskNext
<1>7. CASE NameRead
  BY <1>7 DEF NameRead, Hear, readVars
<1>8. CASE NameUnread
  BY <1>8 DEF NameUnread, Hear, Miss, Fail, Done, readVars
<1>9. CASE OidRead
  BY <1>9 DEF OidRead, Hear, readVars
<1>10. CASE OidUnread
  BY <1>10 DEF OidUnread, Hear, Miss, readVars
<1>11. CASE KnownRead
  BY <1>11 DEF KnownRead, Hear, Miss, readVars
<1>12. CASE KnownEnd
  BY <1>12 DEF KnownEnd, Collected, Fail, Done, readVars
<1>13. CASE WalkNext
  BY <1>13 DEF WalkNext, Hear, readVars
<1>14. CASE WalkEndV1
  BY <1>14 DEF WalkEndV1, Hear, Collected, Fail, Done, readVars
<1>15. CASE WalkEndV3
  BY <1>15 DEF WalkEndV3, Hear, readVars
<1>16. CASE WalkTimeout
  BY <1>16 DEF WalkTimeout, Miss, Collected, Fail, Done, readVars
<1>17. CASE WalkFails
  BY <1>17 DEF WalkFails, Miss, Fail, Done, readVars
<1>18. CASE ReportMibs
  BY <1>18 DEF ReportMibs, Done
<1>19. CASE ReportAssets
  BY <1>19 DEF ReportAssets, Done
<1>20. CASE UNCHANGED vars
  BY <1>20 DEF vars
<1> QED
  BY <1>1, <1>2, <1>3, <1>4, <1>5, <1>6, <1>7, <1>8, <1>9, <1>10,
     <1>11, <1>12, <1>13, <1>14, <1>15, <1>16, <1>17, <1>18, <1>19, <1>20 DEF Next

(* No entry is read twice.                                                  *)
LEMMA BudgetStep ==
    ASSUME TypeOK, SessionInv, BudgetInv, GetBudget, OriginInv, [Next]_vars
    PROVE  BudgetInv' /\ GetBudget'
<1> USE KnownFacts DEF SessionInv, BudgetInv, GetBudget, OriginInv, Out, jobVars, sessionVars, TypeOK
<1>1. CASE Refuse
  BY <1>1 DEF Refuse, Fail, Done
<1>2. CASE Begin
  BY <1>2 DEF Begin, FirstPlace, VersionOf
<1>3. CASE Open
  BY <1>3 DEF Open
<1>4. CASE OpenFails
  BY <1>4 DEF OpenFails, Fail, Done
<1>5. CASE AskGet
  BY <1>5 DEF AskGet, Reading
<1>6. CASE AskNext
  BY <1>6 DEF AskNext
<1>7. CASE NameRead
  BY <1>7 DEF NameRead, Hear, readVars
<1>8. CASE NameUnread
  BY <1>8 DEF NameUnread, Hear, Miss, Fail, Done, readVars
<1>9. CASE OidRead
  BY <1>9 DEF OidRead, Hear, readVars
<1>10. CASE OidUnread
  BY <1>10 DEF OidUnread, Hear, Miss, readVars
<1>11. CASE KnownRead
  BY <1>11 DEF KnownRead, Hear, Miss, readVars
<1>12. CASE KnownEnd
  BY <1>12 DEF KnownEnd, Collected, Fail, Done, readVars
<1>13. CASE WalkNext
  BY <1>13 DEF WalkNext, Hear, readVars
<1>14. CASE WalkEndV1
  BY <1>14 DEF WalkEndV1, Hear, Collected, Fail, Done, readVars
<1>15. CASE WalkEndV3
  BY <1>15 DEF WalkEndV3, Hear, readVars
<1>16. CASE WalkTimeout
  BY <1>16 DEF WalkTimeout, Miss, Collected, Fail, Done, readVars
<1>17. CASE WalkFails
  BY <1>17 DEF WalkFails, Miss, Fail, Done, readVars
<1>18. CASE ReportMibs
  BY <1>18 DEF ReportMibs, Done
<1>19. CASE ReportAssets
  BY <1>19 DEF ReportAssets, Done
<1>20. CASE UNCHANGED vars
  BY <1>20 DEF vars
<1> QED
  BY <1>1, <1>2, <1>3, <1>4, <1>5, <1>6, <1>7, <1>8, <1>9, <1>10,
     <1>11, <1>12, <1>13, <1>14, <1>15, <1>16, <1>17, <1>18, <1>19, <1>20 DEF Next

(* Every variable keeps its type, and None is never listed.                 *)
LEMMA TypeOKStep ==
    ASSUME TypeOK, SessionInv, BudgetInv, [Next]_vars
    PROVE  TypeOK'
<1> USE KnownFacts, AgentFacts DEF TypeOK, SessionInv, BudgetInv, Places, Versions, jobVars, sessionVars
<1>1. CASE Refuse
  BY <1>1 DEF Refuse, Fail, Done
<1>2. CASE Begin
  BY <1>2 DEF Begin, FirstPlace, VersionOf
<1>3. CASE Open
  BY <1>3 DEF Open
<1>4. CASE OpenFails
  BY <1>4 DEF OpenFails, Fail, Done
<1>5. CASE AskGet
  BY <1>5 DEF AskGet, Reading
<1>6. CASE AskNext
  BY <1>6 DEF AskNext
<1>7. CASE NameRead
  BY <1>7 DEF NameRead, Hear, readVars
<1>8. CASE NameUnread
  BY <1>8 DEF NameUnread, Hear, Miss, Fail, Done, readVars
<1>9. CASE OidRead
  BY <1>9 DEF OidRead, Hear, readVars
<1>10. CASE OidUnread
  BY <1>10 DEF OidUnread, Hear, Miss, readVars
<1>11. CASE KnownRead
  <2>1. {Known[e] : e \in agent.has \cap {entry}} \subseteq Entries
    BY DEF Entries
  <2>2. mibs' \subseteq mibs \cup Entries
    BY <1>11, <2>1 DEF KnownRead
  <2>3. mibs' \subseteq Names \ {None} /\ entry' \in 1..(Len(Known) + 1)
    BY <1>11, <2>2 DEF KnownRead, Hear, Miss
  <2> QED
    BY <1>11, <2>3 DEF KnownRead, Hear, Miss, readVars
<1>12. CASE KnownEnd
  BY <1>12 DEF KnownEnd, Collected, Fail, Done, readVars
<1>13. CASE WalkNext
  <2>1. pos + 1 \in 1..Len(agent.walk) /\ pos + 1 \in 0..Len(agent.walk)
    BY <1>13 DEF WalkNext
  <2>2. Unfiltered({agent.walk[pos + 1]}) \subseteq Walked(agent)
    BY <2>1 DEF Unfiltered
  <2>3. mibs' \subseteq Names \ {None}
    BY <1>13, <2>2 DEF WalkNext
  <2> QED
    BY <1>13, <2>1, <2>3 DEF WalkNext, Hear, readVars
<1>14. CASE WalkEndV1
  <2>1. UNCHANGED <<jobVars, version, isOpen, opens, gets, entry, pos, mibs>>
    BY <1>14 DEF WalkEndV1, readVars
  <2>2. waiting' = FALSE /\ heard' = TRUE
    BY <1>14 DEF WalkEndV1, Hear
  <2>3. pc' \in {"done", "chosen"} /\ (told' = told \/ told'.status = "error")
    BY <1>14 DEF WalkEndV1, Collected, Fail, Done
  <2> QED
    BY <2>1, <2>2, <2>3
<1>15. CASE WalkEndV3
  <2>1. WalkedName \in Walked(agent)
    BY <1>15 DEF WalkEndV3, WalkedName
  <2>2. mibs' \subseteq Names \ {None}
    BY <1>15, <2>1 DEF WalkEndV3, Unfiltered
  <2> QED
    BY <1>15, <2>2 DEF WalkEndV3, Hear, readVars
<1>16. CASE WalkTimeout
  <2>1. UNCHANGED <<jobVars, version, isOpen, opens, gets, entry, pos, mibs>>
    BY <1>16 DEF WalkTimeout, readVars
  <2>2. waiting' = FALSE /\ UNCHANGED heard
    BY <1>16 DEF WalkTimeout, Miss
  <2>3. pc' \in {"done", "chosen"} /\ (told' = told \/ told'.status = "error")
    BY <1>16 DEF WalkTimeout, Collected, Fail, Done
  <2> QED
    BY <2>1, <2>2, <2>3
<1>17. CASE WalkFails
  BY <1>17 DEF WalkFails, Miss, Fail, Done, readVars
<1>18. CASE ReportMibs
  BY <1>18 DEF ReportMibs, Done
<1>19. CASE ReportAssets
  BY <1>19 DEF ReportAssets, Done
<1>20. CASE UNCHANGED vars
  BY <1>20 DEF vars
<1> QED
  BY <1>1, <1>2, <1>3, <1>4, <1>5, <1>6, <1>7, <1>8, <1>9, <1>10,
     <1>11, <1>12, <1>13, <1>14, <1>15, <1>16, <1>17, <1>18, <1>19, <1>20 DEF Next

(* Each place of the job adds to the list what it may.                      *)
LEMMA OriginStep ==
    ASSUME TypeOK, SessionInv, OriginInv, SomeMib, [Next]_vars
    PROVE  OriginInv' /\ SomeMib'
<1> USE AgentFacts DEF OriginInv, SomeMib, Entries, OnWalk, SessionInv, jobVars, sessionVars
<1>1. CASE Refuse
  BY <1>1 DEF Refuse, Fail, Done
<1>2. CASE Begin
  BY <1>2 DEF Begin, FirstPlace, VersionOf
<1>3. CASE Open
  BY <1>3 DEF Open
<1>4. CASE OpenFails
  BY <1>4 DEF OpenFails, Fail, Done
<1>5. CASE AskGet
  BY <1>5 DEF AskGet, Reading
<1>6. CASE AskNext
  BY <1>6 DEF AskNext
<1>7. CASE NameRead
  BY <1>7 DEF NameRead, Hear, readVars
<1>8. CASE NameUnread
  BY <1>8 DEF NameUnread, Hear, Miss, Fail, Done, readVars
<1>9. CASE OidRead
  BY <1>9 DEF OidRead, Hear, readVars
<1>10. CASE OidUnread
  BY <1>10 DEF OidUnread, Hear, Miss, readVars
<1>11. CASE KnownRead
  BY <1>11 DEF KnownRead, Hear, Miss, readVars
<1>12. CASE KnownEnd
  BY <1>12 DEF KnownEnd, Collected, Fail, Done, readVars
<1>13. CASE WalkNext
  <2>1. pos + 1 \in 1..Len(agent.walk) /\ agent.walk # <<>>
    BY <1>13 DEF WalkNext, TypeOK
  <2>2. Unfiltered({agent.walk[pos + 1]}) \subseteq OnWalk
    BY <2>1 DEF Unfiltered
  <2> QED
    BY <1>13, <2>2 DEF WalkNext, Hear, readVars
<1>14. CASE WalkEndV1
  BY <1>14 DEF WalkEndV1, Hear, Collected, Fail, Done, readVars
<1>15. CASE WalkEndV3
  <2>1. agent.walk = <<>> => pos = 0
    BY <1>15 DEF WalkEndV3
  <2>2. agent.walk # <<>> => pos \in 1..Len(agent.walk)
    BY <1>15 DEF WalkEndV3, TypeOK
  <2>3. Unfiltered({WalkedName}) \subseteq OnWalk
    BY <1>15, <2>1, <2>2 DEF WalkEndV3, WalkedName, Unfiltered
  <2> QED
    BY <1>15, <2>3 DEF WalkEndV3, Hear, readVars
<1>16. CASE WalkTimeout
  BY <1>16 DEF WalkTimeout, Miss, Collected, Fail, Done, readVars
<1>17. CASE WalkFails
  BY <1>17 DEF WalkFails, Miss, Fail, Done, readVars
<1>18. CASE ReportMibs
  BY <1>18 DEF ReportMibs, Done
<1>19. CASE ReportAssets
  BY <1>19 DEF ReportAssets, Done
<1>20. CASE UNCHANGED vars
  BY <1>20 DEF vars
<1> QED
  BY <1>1, <1>2, <1>3, <1>4, <1>5, <1>6, <1>7, <1>8, <1>9, <1>10,
     <1>11, <1>12, <1>13, <1>14, <1>15, <1>16, <1>17, <1>18, <1>19, <1>20 DEF Next

(* What job::Mibs lists is the list that was read, in some order.           *)
LEMMA ReportMibsFits ==
    ASSUME TypeOK, OriginInv, ReportMibs
    PROVE  ToldFits' /\ DriverMibIsExact'
<1>1. PICK list \in SetToSeqs(mibs) : Done("ok", list)
  BY DEF ReportMibs
<1>2. job' = "mibs" /\ told'.list = list /\ UNCHANGED <<agent, tryAll, version>>
  BY <1>1 DEF ReportMibs, Done, jobVars
<1>3. Range(list) \subseteq mibs /\ (mibs = {agent.oid} => Range(list) = {agent.oid})
  BY Ordering
<1>4. \/ Range(list) = {agent.oid}
      \/ ~tryAll /\ Range(list) \subseteq Entries
      \/ tryAll /\ Range(list) \subseteq OnWalk
  BY <1>3 DEF ReportMibs, OriginInv
<1>5. Entries' = Entries /\ OnWalk' = OnWalk
  BY <1>2 DEF Entries, OnWalk
<1> QED
  BY <1>2, <1>4, <1>5 DEF ToldFits, DriverMibIsExact

(* What job::Assets answers with was read, or asked for; entries and MIBs   *)
(* of a walk have no name in the table.                                     *)
LEMMA ReportAssetsFits ==
    ASSUME TypeOK, OriginInv, ReportAssets
    PROVE  ToldFits' /\ DriverMibIsExact'
<1>1. PICK mib \in IF request.mib # None THEN {request.mib} ELSE mibs :
        Done("ok", <<mib, MapMibToLegacy(mib)>>)
  BY DEF ReportAssets
<1>2. /\ job' = "assets" /\ told'.list[1] = mib
      /\ told'.list[2] = MapMibToLegacy(mib)
      /\ UNCHANGED <<agent, request, tryAll, version>>
  BY <1>1 DEF ReportAssets, Done, jobVars
<1>3. Entries' = Entries /\ OnWalk' = OnWalk
  BY <1>2 DEF Entries, OnWalk
<1>4. request.mib = None =>
        \/ mib = agent.oid
        \/ ~tryAll /\ mib \in Entries
        \/ tryAll /\ mib \in OnWalk
  BY <1>1 DEF ReportAssets, OriginInv
<1>5. ToldFits'
  BY <1>2, <1>3, <1>4 DEF ToldFits
<1>6. ASSUME NEW module \in Entries \cup OnWalk PROVE MapMibToLegacy(module) = ""
  <2>1. CASE module \in Entries
    <3>1. PICK e \in DOMAIN Known : module = Known[e]
      BY <2>1, AgentFacts DEF Entries
    <3>2. \A i \in DOMAIN LegacyRows : LegacyRows[i][1] # module
      BY <3>1, KnownFacts
    <3> QED
      BY <3>2, NamedIsKey
  <2>2. CASE module \in OnWalk
    <3>1. module \in Walked(agent)
      BY <2>2, AgentFacts DEF OnWalk
    <3>2. \A i \in DOMAIN LegacyRows : LegacyRows[i][1] # module
      BY <3>1, AgentAssumption DEF TypeOK
    <3> QED
      BY <3>2, NamedIsKey
  <2> QED
    BY <1>6, <2>1, <2>2
<1>7. DriverMibIsExact'
  BY <1>1, <1>2, <1>4, <1>6 DEF DriverMibIsExact
<1> QED
  BY <1>5, <1>7

LEMMA AnswerStep ==
    ASSUME TypeOK, OriginInv, ToldFits, DriverMibIsExact, [Next]_vars
    PROVE  ToldFits' /\ DriverMibIsExact'
<1>1. CASE ReportMibs
  BY <1>1, ReportMibsFits
<1>2. CASE ReportAssets
  BY <1>2, ReportAssetsFits
<1>3. ASSUME UNCHANGED told, told = None PROVE ToldFits' /\ DriverMibIsExact'
  BY <1>3 DEF ToldFits, DriverMibIsExact
<1>4. ASSUME Fail PROVE ToldFits' /\ DriverMibIsExact'
  BY <1>4 DEF Fail, Done, ToldFits, DriverMibIsExact
<1>5. CASE \/ Begin \/ Open \/ AskGet \/ AskNext \/ NameRead \/ OidRead \/ OidUnread
           \/ KnownRead \/ WalkNext \/ WalkEndV3
  <2>1. told' = told /\ told = None
    BY <1>5 DEF OriginInv, Begin, Open, AskGet, Reading, AskNext, NameRead, OidRead,
        OidUnread, KnownRead, WalkNext, WalkEndV3
  <2> QED
    BY <2>1, <1>3
<1>6. CASE Refuse \/ OpenFails \/ NameUnread \/ WalkFails
  BY <1>4, <1>6 DEF Refuse, OpenFails, NameUnread, WalkFails
<1>7. CASE KnownEnd \/ WalkEndV1 \/ WalkTimeout
  <2>1. told = None /\ (Fail \/ told' = told)
    BY <1>7 DEF OriginInv, KnownEnd, WalkEndV1, WalkTimeout, Collected
  <2> QED
    BY <2>1, <1>3, <1>4
<1>8. CASE UNCHANGED vars
  <2>1. UNCHANGED <<job, request, agent, tryAll, version, told>>
    BY <1>8 DEF vars, jobVars
  <2>2. Entries' = Entries /\ OnWalk' = OnWalk
    BY <2>1 DEF Entries, OnWalk
  <2> QED
    BY <2>1, <2>2 DEF ToldFits, DriverMibIsExact
<1> QED
  BY <1>1, <1>2, <1>5, <1>6, <1>7, <1>8 DEF Next

(***************************************************************************)
(* The theorems.                                                           *)
(***************************************************************************)

LEMMA IInvStep == IInv /\ [Next]_vars => IInv'
<1> SUFFICES ASSUME IInv, [Next]_vars PROVE IInv'
  OBVIOUS
<1>1. TypeOK' /\ SessionInv'
  BY TypeOKStep, SessionStep DEF IInv
<1>2. BudgetInv' /\ GetBudget'
  BY BudgetStep DEF IInv
<1>3. OriginInv' /\ SomeMib' /\ ToldFits' /\ DriverMibIsExact'
  BY OriginStep, AnswerStep DEF IInv
<1> QED
  BY <1>1, <1>2, <1>3 DEF IInv

(* The inductive invariant of reading the MIBs, for every device, request   *)
(* and filter.                                                              *)
THEOREM Invariance == Spec => []IInv
BY InitIInv, IInvStep, PTL DEF Spec

(* Every variable keeps its type: the walk stays within the device, and no  *)
(* MIB that is not one gets into the list.                                  *)
THEOREM TypeCorrect == Spec => []TypeOK
<1>1. IInv => TypeOK
  BY DEF IInv
<1> QED
  BY <1>1, Invariance, PTL

(* One session is opened, before the first request and for all of them.     *)
THEOREM OneSession == Spec => []OpenedOnce
<1>1. IInv => OpenedOnce
  BY DEF IInv, SessionInv, OpenedOnce
<1> QED
  BY <1>1, Invariance, PTL

(* At most 21 GET requests are sent however much is lost, and one to a      *)
(* device that never answers the mibs job.                                  *)
THEOREM BoundedGets == Spec => []GetBudget
<1>1. IInv => GetBudget
  BY DEF IInv
<1> QED
  BY <1>1, Invariance, PTL

(* Something is listed, and it is the device's own: of one source, and      *)
(* filtered.                                                                *)
THEOREM OwnMibs == Spec => []ListFitsDevice
<1>1. IInv => ListFitsDevice
  BY DEF IInv, ListFitsDevice
<1> QED
  BY <1>1, Invariance, PTL

(* No driver is told a MIB that was guessed from a module.                  *)
THEOREM ExactDriverMib == Spec => []DriverMibIsExact
<1>1. IInv => DriverMibIsExact
  BY DEF IInv
<1> QED
  BY <1>1, Invariance, PTL
=============================================================================
