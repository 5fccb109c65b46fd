--------------------------- MODULE DiscoMessage ---------------------------
(***************************************************************************)
(* disco::Message as messagebus::Message: a map of strings and a list of   *)
(* payloads.  Names, subject and correlation id are copied as they are;    *)
(* the status becomes a word that the other end has to read back, and the  *)
(* payload the only element of the list.                                   *)
(***************************************************************************)
EXTENDS Sequences

StatusTextError(status) == status

StatusText(status) == IF status = "ok" THEN "ok" ELSE "ko"

(* A status that is missing or unknown leaves the default, Ok.             *)
StatusOf(text) == IF text = "ko" THEN "error" ELSE "ok"

ToMessageBus(msg) ==
    [corr     |-> msg.corr,
     to       |-> msg.to,
     status   |-> StatusText(msg.res.status),
     userData |-> <<msg.res.body>>]

FromMessageBus(bus) ==
    [corr |-> bus.corr,
     to   |-> bus.to,
     res  |-> [status |-> StatusOf(bus.status), body |-> Head(bus.userData)]]
===========================================================================
