-------------------------- MODULE MCNotificationBell --------------------------
(* NotificationBell with few sources.                                      *)
EXTENDS NotificationBell, TLC

CONSTANTS record, alert, match, colleague

(* The colleague is an administrator: he alone is told of alerts.          *)
SmallAudience ==
  record :> {Reader} @@ alert :> {colleague} @@ match :> {Reader, colleague}

(* The bridge alone, with two kinds of source that take turns in it, and   *)
(* the bell with the simplest of sources.                                  *)
BridgeCast(sources) == [sources |-> sources, faults |-> MaxFaults, bell |-> FALSE]
BellCast == [sources |-> {record}, faults |-> 0, bell |-> TRUE]
SmallCasts ==
  {BridgeCast({record, alert}), BridgeCast({match, record}), BellCast}

(* Who comes and goes while the bell is watched is its reader.             *)
ColleagueStays == cast.bell => colleague \in member'
=============================================================================
