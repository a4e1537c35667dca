---------------------------- MODULE TrafficLimit ----------------------------
(***************************************************************************)
(* The traffic limit of a user with a package                              *)
(* (internal/handler/traffic_limit_enforcer.go). Every few minutes         *)
(* CheckAll takes out a user whose package has ended, resets the traffic   *)
(* of a user whose month is over, and compares what was charged            *)
(* (TrafficMeter) with the limit: a user who reached it loses its clients  *)
(* and is_over_limit is set, a user below it is to get them back.          *)
(*                                                                         *)
(* A pass works on the users' rows as it listed them; the administrator    *)
(* may change the limit or reset the cycle meanwhile. The user has one     *)
(* client of the package (a row of user_inbound_configs) and one of a      *)
(* private route. A call of the agent is answered, or is not and was       *)
(* carried out or not, before the next one.                                *)
(*                                                                         *)
(* Not here: notices, multipliers, the limiter's settings on the node, the *)
(* assignment of packages, so that a user without one stays so, other      *)
(* grants of the same inbound (ManagedAccess), deadlines on the node; and  *)
(* the handlers that call the enforcer's helpers on their own, above all   *)
(* NewUserStatusHandler: the account is active throughout. Enabling one    *)
(* gives the private route of a user over the limit back, which no pass    *)
(* takes off again (resumeUserPrivateRouted does not ask for               *)
(* is_over_limit, CheckAll passes a user marked already), and beside an    *)
(* expulsion it may put the package's client back.                         *)
(***************************************************************************)
EXTENDS TrafficMeter

CONSTANTS Limit,       \* the package's, in units
          Requests,    \* what the administrator and the calendar may do
          MaxRequests, \* bound: how often
          MaxFaults    \* bound: calls and statements that fail, restarts of the panel

ASSUME LimitAssumption ==
  /\ Limit \in Nat \ {0}
  /\ Requests \subseteq {"limit", "reset", "month", "end"}
  /\ MaxRequests \in Nat /\ MaxFaults \in Nat

VARIABLES
  user,      \* the row of users
  config,    \* there is a row of user_inbound_configs
  check,     \* where CheckAll stands
  requests, faults

limits == <<user, config, check>>
bounds == <<requests, faults>>
vars == <<meter, limits, bounds>>

---------------------------------------------------------------------------
\* due: the day of the reset has come and last_reset_at is of another month.
Account == [pkg : BOOLEAN, ended : BOOLEAN, due : BOOLEAN, limit : {0, Limit}, over : BOOLEAN]

Steps == {"idle", "expel", "expelRoute", "drop", "reset", "mark", "ask", "compare",
          "remove", "suspend", "block", "restore", "resume", "unblock"}

\* limit: as listed. safe: removeUserFromAllInbounds had no failure. then: where
\* the pass goes on after a restoration.
Check == [pc : Steps, limit : {0, Limit}, safe : BOOLEAN, then : {"idle", "compare"}]

Idle == [pc |-> "idle", limit |-> 0, safe |-> FALSE, then |-> "idle"]

Goto(pc) == check' = IF pc = "idle" THEN Idle ELSE [check EXCEPT !.pc = pc]
Fault == faults < MaxFaults /\ faults' = faults + 1
Charging == <<boot, passed, known, cache, report, row, misjudged, crossed, cleared>>

\* trafficLimitExceeded
Exceeds(limit) == limit > 0 /\ row.used >= limit

---------------------------------------------------------------------------
(* A pass of CheckAll.                                                     *)

\* ListUsersWithPackage, and which branch the listed row takes.
List ==
  /\ check.pc = "idle" /\ user.pkg
  /\ check' = [Idle EXCEPT !.pc = IF user.ended THEN "expel" ELSE IF user.due THEN "reset" ELSE "compare",
                           !.limit = user.limit]
  /\ UNCHANGED <<meter, user, config, bounds>>

\* A call that puts a client on or takes it off: answered; or not, and then it
\* was carried out or not.
Answered(c, on) == SetClient(c, on) /\ UNCHANGED faults
Unanswered(c, on) == Fault /\ (SetClient(c, on) \/ UNCHANGED <<present, counter>>)

\* removeUserFromAllInbounds of a package that ended, deleting the row; the call
\* or the deletion fails, and the row stays.
Expel ==
  /\ check.pc = "expel"
  /\ \/ config /\ Answered("direct", FALSE) /\ config' = FALSE
     \/ config /\ Unanswered("direct", FALSE) /\ UNCHANGED config
     \/ ~config /\ UNCHANGED <<present, counter, config, faults>>
  /\ check' = [check EXCEPT !.pc = "expelRoute", !.safe = ~config']
  /\ UNCHANGED <<Charging, user, requests>>

\* suspendUserPrivateRouted, whose failures are only logged.
Suspend(from, next) ==
  /\ check.pc = from
  /\ Answered("routed", FALSE) \/ Unanswered("routed", FALSE)
  /\ Goto(next)
  /\ UNCHANGED <<Charging, user, config, requests>>

\* RemovePackageFromUser, which leaves is_over_limit.
Drop ==
  /\ check.pc = "drop"
  /\ \/ user' = [user EXCEPT !.pkg = FALSE, !.limit = Limit] /\ UNCHANGED faults
     \/ Fault /\ UNCHANGED user
  /\ Goto("idle")
  /\ UNCHANGED <<meter, config, requests>>

\* The month's reset; without it the pass goes on as if none was due.
Reset ==
  /\ check.pc = "reset"
  /\ \/ ResetCycle /\ Goto("mark") /\ UNCHANGED faults
     \/ Fault /\ UNCHANGED <<row, cleared>> /\ Goto("compare")
  /\ UNCHANGED <<node, known, cache, misjudged, crossed, report, user, config, requests>>

\* UpdateUserLastResetAt, whose failure is only logged.
Mark ==
  /\ check.pc = "mark"
  /\ \/ user' = [user EXCEPT !.due = FALSE] /\ UNCHANGED faults
     \/ Fault /\ UNCHANGED user
  /\ Goto("ask")
  /\ UNCHANGED <<meter, config, requests>>

\* IsUserOverLimit answers over; an error is read as no.
WasOver(over) ==
  \/ over = user.over /\ UNCHANGED faults
  \/ ~over /\ Fault

\* After the reset the user's clients come back before the comparison.
Ask ==
  /\ check.pc = "ask"
  /\ \E over \in BOOLEAN :
       /\ WasOver(over)
       /\ check' = [check EXCEPT !.pc = IF over THEN "restore" ELSE "compare", !.then = "compare"]
  /\ UNCHANGED <<meter, user, config, requests>>

\* The limit against what is charged and is_over_limit; without either answer the
\* pass leaves the user.
Compare ==
  /\ check.pc = "compare"
  /\ \/ \E over \in BOOLEAN :
          /\ WasOver(over)
          /\ check' = IF Exceeds(check.limit) = over THEN Idle
                      ELSE [check EXCEPT !.pc = IF over THEN "restore" ELSE "remove", !.then = "idle"]
     \/ Fault /\ check' = Idle
  /\ UNCHANGED <<meter, user, config, requests>>

\* removeUserFromAllInbounds of a user over the limit, whose result is not used.
Remove ==
  /\ check.pc = "remove"
  /\ \/ config /\ (Answered("direct", FALSE) \/ Unanswered("direct", FALSE))
     \/ ~config /\ UNCHANGED <<present, counter, faults>>
  /\ Goto("suspend")
  /\ UNCHANGED <<Charging, user, config, requests>>

\* UpdateUserOverLimit, whose failure is not noticed.
SetOver(from, over, next) ==
  /\ check.pc = from
  /\ \/ user' = [user EXCEPT !.over = over] /\ UNCHANGED faults
     \/ Fault /\ UNCHANGED user
  /\ Goto(next)
  /\ UNCHANGED <<meter, config, requests>>

\* hasLegacyPackageInboundAccess, on the database as it is, for an active account.
HasAccess == user.pkg /\ ~user.ended /\ ~user.over

\* restoreUserToInbounds: addUserToInbound asks for the access first, and
\* is_over_limit, which is cleared only afterwards, denies it: no pass puts the
\* package's client back.
Restore ==
  /\ check.pc = "restore"
  /\ IF config /\ HasAccess THEN Answered("direct", TRUE) \/ Unanswered("direct", TRUE)
                            ELSE UNCHANGED <<present, counter, faults>>
  /\ Goto("resume")
  /\ UNCHANGED <<Charging, user, config, requests>>

\* resumeUserPrivateRouted: the client, then its rule; without the rule the client
\* is taken off again.
Resume ==
  /\ check.pc = "resume"
  /\ Answered("routed", TRUE) \/ \E on \in BOOLEAN : Unanswered("routed", on)
  /\ Goto("unblock")
  /\ UNCHANGED <<Charging, user, config, requests>>

\* Mutant of AfterExpulsion: the package goes whatever the node answered.
DropAnyway == "drop"

\* After an expulsion; a client that may have stayed is tried again.
AfterExpulsion == IF check.safe THEN "drop" ELSE "idle"

Enforce ==
  \/ List \/ Expel \/ Suspend("expelRoute", AfterExpulsion) \/ Drop
  \/ Reset \/ Mark \/ Ask \/ Compare
  \/ Remove \/ Suspend("suspend", "block") \/ SetOver("block", TRUE, "idle")
  \/ Restore \/ Resume \/ SetOver("unblock", FALSE, check.then)

---------------------------------------------------------------------------
(* The administrator, the calendar, and the panel's restart.               *)

Request(kind) ==
  /\ kind \in Requests /\ requests < MaxRequests
  /\ requests' = requests + 1
  /\ UNCHANGED <<config, check, faults>>

\* NewUserTrafficLimitHandler: no limit, or the package's.
SetLimit(l) ==
  /\ Request("limit") /\ user.pkg
  /\ user' = [user EXCEPT !.limit = l]
  /\ UNCHANGED meter

\* handleResetUserCycle
ManualReset ==
  /\ Request("reset")
  /\ ResetCycle
  /\ UNCHANGED <<node, known, cache, misjudged, crossed, report, user>>

MonthTurns ==
  /\ Request("month") /\ user.pkg
  /\ user' = [user EXCEPT !.due = TRUE]
  /\ UNCHANGED meter

PackageEnds ==
  /\ Request("end") /\ user.pkg
  /\ user' = [user EXCEPT !.ended = TRUE]
  /\ UNCHANGED meter

PanelRestarts ==
  /\ Fault
  /\ Forget /\ check' = Idle
  /\ UNCHANGED <<node, known, misjudged, crossed, row, cleared, user, config, requests>>

---------------------------------------------------------------------------
Init ==
  /\ MeterInit
  /\ user = [pkg |-> TRUE, ended |-> FALSE, due |-> FALSE, limit |-> Limit, over |-> FALSE]
  /\ config = TRUE
  /\ check = Idle /\ requests = 0 /\ faults = 0

Meter ==
  /\ Collect
  /\ UNCHANGED <<limits, bounds>>

MeterFault ==
  /\ Fault /\ \E s \in Slot : Lose(s)
  /\ UNCHANGED <<limits, requests>>

Next ==
  \/ Meter \/ MeterFault \/ Enforce
  \/ \E l \in {0, Limit} : SetLimit(l)
  \/ ManualReset \/ MonthTurns \/ PackageEnds \/ PanelRestarts

Spec == Init /\ [][Next]_vars

---------------------------------------------------------------------------
TypeOK ==
  /\ MeterTypeOK
  /\ user \in Account /\ config \in BOOLEAN
  /\ check \in Check
  /\ requests \in 0..MaxRequests /\ faults \in 0..MaxFaults

\* A package is taken from its user, and the client's row with it, only when the
\* client is gone from the node: nothing would find it later
\* (removeUserFromAllInbounds, RemovePackageFromUser).
DroppedIsGone == ~user.pkg => "direct" \notin present
=============================================================================
