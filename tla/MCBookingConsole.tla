-------------------------- MODULE MCBookingConsole --------------------------
(***************************************************************************)
(* Instance of BookingConsole for TLC: a route for one or two applicants   *)
(* that must not be split and asks for a passport of 20 days, a route that *)
(* is disabled; one applicant on file, and a second passport.              *)
(***************************************************************************)
EXTENDS BookingConsole, TLC

CONSTANTS wizard, page, script, p1, p2, r1, r2, k1, k2

MCRouteConfig ==
  r1 :> [enabled |-> TRUE, min |-> 1, max |-> 2, noSplit |-> TRUE,
         afterTravel |-> TRUE, fromToday |-> 20, afterDays |-> 5]
  @@ r2 :> [enabled |-> FALSE, min |-> 1, max |-> 2, noSplit |-> FALSE,
            afterTravel |-> FALSE, fromToday |-> 0, afterDays |-> 0]

MCBorn == 1 :> [state |-> "LIVE", passport |-> p1, expiry |-> 40, client |-> k1]

R(fields) == [pc |-> "read"] @@ fields
MCScripted ==
  {R([op |-> "update", case |-> 1, route |-> r, split |-> s, travel |-> t]) :
     r \in {None, r2}, s \in {TRUE}, t \in {38}}
  \cup {R([op |-> "add", case |-> 1, applicant |-> a, position |-> None,
           primary |-> b]) : a \in {1, 2}, b \in BOOLEAN}
  \cup {R([op |-> o, case |-> 1, applicant |-> a]) : o \in {"primary", "remove"}, a \in {1, 2}}
  \cup {R([op |-> "reorder", case |-> 1, order |-> o]) : o \in {1 :> 2, 1 :> 2 @@ 2 :> 1}}
  \cup {R([op |-> "edit", applicant |-> 1, passport |-> p2, expiry |-> 10, client |-> None])}
  \cup {R([op |-> "person", passport |-> p2, expiry |-> 40, client |-> k2])}
  \cup {R([op |-> "erase", applicant |-> a]) : a \in {1, 2}}
  \cup {R([op |-> "dismiss", client |-> k]) : k \in {k1, k2}}
=============================================================================
