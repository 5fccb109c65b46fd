----------------------------- MODULE ProbeJob -----------------------------
(***************************************************************************)
(* What a job that looks a device over in several ways promises, without   *)
(* the web pages, datagrams and errors each way is made of: it tries every *)
(* way once, whatever became of the others, in whatever order, and then    *)
(* answers once, with the ways that worked, each once and by rank.         *)
(* Protocols.tla implements it.                                            *)
(***************************************************************************)
EXTENDS Naturals, Sequences

CONSTANTS
    Ways,       \* numbers: the ways, by rank
    FakeList    \* what is answered for the address of the tests

VARIABLES
    fake,       \* the address is that of the tests
    tried,      \* the ways tried
    works,      \* those of them that worked
    told,       \* "none", "error", or "ok" once there is an answer
    answer      \* the answer, empty until then

absVars == <<fake, tried, works, told, answer>>

Init ==
    /\ fake \in BOOLEAN
    /\ tried = {} /\ works = {}
    /\ told = "none" /\ answer = <<>>

(* A way is tried; whether it works is known, and stays so.                *)
Try(way) ==
    /\ told = "none" /\ ~fake /\ way \in Ways \ tried
    /\ tried' = tried \cup {way}
    /\ works' \in {works, works \cup {way}}
    /\ UNCHANGED <<fake, told, answer>>

(* A list of exactly these ways, none of them twice, by rank.              *)
Ranks(list, ways) ==
    /\ list \in Seq(Ways)
    /\ {list[i] : i \in DOMAIN list} = ways
    /\ \A i, j \in DOMAIN list : i < j => list[i] < list[j]

(* No answer before every way was tried.                                   *)
Report ==
    /\ told = "none" /\ ~fake /\ tried = Ways
    /\ told' = "ok" /\ Ranks(answer', works)
    /\ UNCHANGED <<fake, tried, works>>

(* An error is only told of a device that was not looked over at all.      *)
Refuse ==
    /\ told = "none" /\ ~fake /\ tried = {}
    /\ told' = "error"
    /\ UNCHANGED <<fake, tried, works, answer>>

Pretend ==
    /\ told = "none" /\ fake
    /\ told' = "ok" /\ answer' = FakeList
    /\ UNCHANGED <<fake, tried, works>>

Next == Report \/ Refuse \/ Pretend \/ \E way \in Ways : Try(way)

Spec == Init /\ [][Next]_absVars
===========================================================================
