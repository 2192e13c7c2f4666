------------------------------ MODULE Reservation ------------------------------
(***************************************************************************)
(* What the outbox promises about an accepted claim, without lease,        *)
(* writers, batches or retries: how the two halves of a row may move, and  *)
(* that a half is confirmed only for a name its candidate owns.  This is   *)
(* what a client that polls its claim may rely on.                         *)
(***************************************************************************)
EXTENDS Naturals

CONSTANTS
    Rows,       \* claims
    DotnsRows   \* claims that carry a dotns block

VARIABLES
    status,     \* status and dotns_status of every row
    owner       \* who owns each row's name on each chain

vars == <<status, owner>>

Lanes   == {"people", "dotns"}
Initial(l) == IF l = "people" THEN "RESERVED" ELSE "PENDING"
Done(l) == IF l = "people" THEN "ASSIGNED" ELSE "RESERVED"

\* The half is the writer's to move: submitted or waiting to be, and, for
\* dotNS, only behind a registered name.
Open(l, r) == /\ status[l][r] \in {Initial(l), "SUBMITTING", "RETRY_AFTER"}
              /\ l = "dotns" => status["people"][r] = "ASSIGNED"

Init == /\ status = [l \in Lanes |-> [r \in Rows |-> "NULL"]]
        /\ owner  = [l \in Lanes |-> [r \in Rows |-> "none"]]

Accept(r) ==
    /\ status["people"][r] = "NULL"
    /\ \E s \in {"QUEUED", "RESERVED"} :
         status' = [status EXCEPT !["people"][r] = s,
                                  !["dotns"][r] = IF r \in DotnsRows THEN "PENDING" ELSE "NULL"]
    /\ UNCHANGED owner

Promote(r) ==
    /\ status["people"][r] = "QUEUED"
    /\ status' = [status EXCEPT !["people"][r] = "RESERVED"]
    /\ UNCHANGED owner

\* Submitted, or put back: any number of times, in any order.
Work(l, r) ==
    /\ Open(l, r)
    /\ \E s \in {"SUBMITTING", "RETRY_AFTER"} : status' = [status EXCEPT ![l][r] = s]
    /\ UNCHANGED owner

Confirm(l, r) ==
    /\ Open(l, r)
    /\ owner[l][r] = "candidate"
    /\ status' = [status EXCEPT ![l][r] = Done(l)]
    /\ UNCHANGED owner

\* A failed People half takes the dotNS half with it.
Fail(l, r) ==
    /\ Open(l, r)
    /\ IF l = "people" /\ status["dotns"][r] = "PENDING"
       THEN status' = [status EXCEPT !["people"][r] = "FAILED_TERMINAL",
                                     !["dotns"][r] = "ABANDONED"]
       ELSE status' = [status EXCEPT ![l][r] = "FAILED_TERMINAL"]
    /\ UNCHANGED owner

\* The client's dotNS signature aged out.
Expire(r) ==
    /\ Open("dotns", r)
    /\ status' = [status EXCEPT !["dotns"][r] = "EXPIRED"]
    /\ UNCHANGED owner

\* One extrinsic registers the names of several rows, possibly long after the
\* rows were given up; the dotNS call never precedes the People name.
Land(l, S) ==
    /\ \A r \in S : /\ owner[l][r] = "none"
                    /\ status["people"][r] \notin {"NULL", "QUEUED"}
                    /\ l = "dotns" => status["people"][r] = "ASSIGNED"
    /\ owner' = [owner EXCEPT ![l] = [r \in Rows |-> IF r \in S THEN "candidate" ELSE @[r]]]
    /\ UNCHANGED status

Taken(l, r) ==
    /\ owner[l][r] = "none"
    /\ status[l][r] # "NULL"
    /\ owner' = [owner EXCEPT ![l][r] = "other"]
    /\ UNCHANGED status

Next == \/ \E r \in Rows : Accept(r) \/ Promote(r) \/ Expire(r)
        \/ \E l \in Lanes, r \in Rows : Work(l, r) \/ Confirm(l, r) \/ Fail(l, r) \/ Taken(l, r)
        \/ \E l \in Lanes, S \in SUBSET Rows : Land(l, S)

Spec == Init /\ [][Next]_vars
================================================================================
