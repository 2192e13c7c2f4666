--------------------------- MODULE UsernameSearch ---------------------------
(***************************************************************************)
(* Public username search: the per-address limit, the proof-of-compute     *)
(* gate with its bearer bypass and one-shot puzzles, and keyset paging     *)
(* over a projection the indexer keeps changing.  A row's place in the     *)
(* page order (display key, lite base, lite digits, account) is its rank.  *)
(***************************************************************************)
EXTENDS Serving

CONSTANTS
  GateModes,    \* POC_ENABLED, as a set of deployments
  Accounts,     \* accounts with a username
  Listed,       \* those a search may show: prefix, name form and key format fit
  FirstRanks,   \* the projection's order when the clients arrive
  MaxRank,      \* bound: places in the order
  MaxChanges,   \* bound: rows the indexer moves or removes
  MaxLimit,     \* MAX_LIMIT, the clamp of a page size
  Window,       \* validity_window_ms
  PruneGrace,   \* PRUNE_GRACE
  Slack,        \* a replica's clock lag plus the wait before its insert
  MaxPuzzles    \* bound: puzzles issued

ASSUME SearchAssumption ==
  /\ {MaxRank, MaxChanges, Window, PruneGrace, Slack, MaxPuzzles} \subseteq Nat
  /\ MaxLimit \in Nat \ {0}
  /\ Slack <= PruneGrace /\ IsFiniteSet(Accounts)
  /\ None \notin {"Missing", "Malformed", "Checksum", "Expired", "InsufficientWork"}
  /\ Listed \subseteq Accounts /\ FirstRanks \in [Accounts -> 1..MaxRank]
  /\ \A a, b \in Accounts : a # b => FirstRanks[a] # FirstRanks[b]

VARIABLES
  gate,      \* whether the proof-of-compute gate is configured
  puzzles,   \* puzzles[p]: when it was issued, or None; nothing is stored of it
  spent,     \* spent_puzzles: expires_at by puzzle, or None
  passed,    \* history: how often a puzzle let a request through
  rank,      \* assigned_usernames: rank by account, None without a row
  changes,   \* rows changed so far
  walk       \* one client's walk: [cursor, seen, stable, done]

searchVars == <<gate, puzzles, spent, passed, rank, changes, walk>>

Puzzles == 1..MaxPuzzles

SearchIdle ==
  /\ gate = FALSE /\ changes = 0 /\ puzzles = <<>> /\ spent = <<>> /\ passed = <<>>
  /\ rank = <<>> /\ walk = <<>>

\* one puzzle was issued before
SearchInit ==
  /\ gate \in GateModes
  /\ puzzles = [p \in Puzzles |-> IF p = 1 THEN 0 ELSE None]
  /\ spent = [p \in Puzzles |-> None]
  /\ passed = [p \in Puzzles |-> 0]
  /\ rank = FirstRanks
  /\ changes = 0
  /\ walk = [cursor |-> 0, seen |-> [a \in Accounts |-> 0], stable |-> Accounts,
             done |-> FALSE]

-----------------------------------------------------------------------------
(* Requests. *)

NoSolution == [form |-> "absent", p |-> 1, sealed |-> TRUE, work |-> TRUE]
Solved == {[NoSolution EXCEPT !.form = "ok", !.p = q] : q \in {q \in Puzzles : puzzles[q] # None}}
Absent == [form |-> "absent"]

\* a replica's clock may lag the database's
Clocks == {t \in {now, now - Slack} : t >= 0}

Fine == [cursor |-> TRUE, fields |-> TRUE]
SearchRequests ==
       [flawed : {FALSE}, op : {"issue"}]
  \cup [flawed : {FALSE}, op : {"search"}, header : {GoodBearer}, proof : {NoSolution},
        clock : {now}, query : {Fine}, limit : {1, MaxLimit + 1}]
  \cup [flawed : {FALSE}, op : {"search"}, header : {Absent}, proof : Solved,
        clock : Clocks, query : {Fine}, limit : {1}]
  \cup [flawed : {TRUE}, op : {"search"}, header : BadBearers,
        proof : {NoSolution, [NoSolution EXCEPT !.form = "malformed"]}
                  \cup UNION {{[s EXCEPT !.sealed = FALSE], [s EXCEPT !.work = FALSE]}
                              : s \in Solved},
        clock : {now}, query : {Fine}, limit : {1}]
  \cup [flawed : {TRUE}, op : {"search"}, header : {Absent}, proof : Solved,
        clock : {now}, query : {[Fine EXCEPT !.cursor = FALSE], [Fine EXCEPT !.fields = FALSE]},
        limit : {1}]

\* the walking client waits for a page before it asks for the next one
Walking == {c \in Conns : pc[c] \in {"consume", "query"} /\ loc[c].walking}

\* the handler inside the gate: the query map is validated, then the page read
AfterGate(c, in, walking) ==
  IF in.query = Fine
  THEN Suspend(c, in, "query", [walking |-> walking,
                                limit |-> IF in.limit > MaxLimit THEN MaxLimit ELSE in.limit])
  ELSE Finish(c, "BadRequest")

\* verify_offline, in the order of its answers
Refusal(proof, clock) ==
  CASE proof.form = "absent" -> "Missing"
    [] proof.form = "malformed" -> "Malformed"
    [] proof.form = "ok" ->
         IF ~proof.sealed THEN "Checksum"
         ELSE IF clock - puzzles[proof.p] > Window THEN "Expired"
         ELSE IF ~proof.work THEN "InsufficientWork" ELSE None

\* POST /poc/issue is mounted only with the gate
IssuePuzzle(c, in) ==
  LET p == CHOOSE q \in Puzzles : puzzles[q] = None IN
  /\ in.op = "issue" /\ NoCharge
  /\ \E q \in Puzzles : puzzles[q] = None
  /\ puzzles' = IF gate THEN [puzzles EXCEPT ![p] = now] ELSE puzzles
  /\ Finish(c, IF gate THEN "puzzle" ELSE "NotFound")

\* GET /usernames/search: the limit, then the gate; a bad bearer is anonymous
SearchArrives(c, in) ==
  /\ in.op = "search"
  /\ Charge(Subject, Payment(Subject))
  /\ LET walking == Walking = {} /\ ~walk.done IN
     IF Payment(Subject) = None THEN Finish(c, "RateLimited")
     ELSE IF ~gate \/ AuthRejection(ServiceKeys, in.header) = None
       THEN AfterGate(c, in, walking)
     ELSE IF Refusal(in.proof, in.clock) # None THEN Finish(c, Refusal(in.proof, in.clock))
     ELSE Suspend(c, in, "consume", [walking |-> walking, limit |-> 0])
  /\ UNCHANGED puzzles

SearchArrive(c) ==
  \E in \in SearchRequests :
    /\ Arrive(c, in)
    /\ IssuePuzzle(c, in) \/ SearchArrives(c, in)
    /\ UNCHANGED <<gate, spent, passed, rank, changes, walk>>

-----------------------------------------------------------------------------
(* One-shot puzzles. *)

\* INSERT ... ON CONFLICT DO NOTHING; a lost answer leaves the puzzle spent
Consume(c) ==
  LET p == req[c].proof.p
      taken == [spent EXCEPT ![p] = puzzles[p] + Window] IN
  /\ pc[c] = "consume" /\ NoCharge
  /\ \/ Answered /\ spent[p] = None /\ spent' = taken
        /\ passed' = [passed EXCEPT ![p] = @ + 1]
        /\ AfterGate(c, req[c], loc[c].walking)
     \/ Answered /\ spent[p] # None /\ Finish(c, "Replayed") /\ UNCHANGED <<spent, passed>>
     \/ Failed /\ Finish(c, "Internal") /\ UNCHANGED passed
        /\ spent' \in {spent, IF spent[p] = None THEN taken ELSE spent}
  /\ UNCHANGED <<gate, puzzles, rank, changes, walk>>

PrunableAtOnce(p) == spent[p] # None /\ spent[p] < now  \* variant: no grace

\* validity ended more than the grace ago, by the database's clock
Prunable(p) == spent[p] # None /\ spent[p] < now - PruneGrace

PruneExpired ==
  /\ gate /\ \E p \in Puzzles : Prunable(p)
  /\ spent' = [p \in Puzzles |-> IF Prunable(p) THEN None ELSE spent[p]]
  /\ UNCHANGED <<servingVars, gate, puzzles, passed, rank, changes, walk>>

-----------------------------------------------------------------------------
(* Pages. *)

\* the first n listed accounts after the cursor
Fetched(cursor, n) ==
  LET after == {a \in Listed : rank[a] # None /\ rank[a] > cursor} IN
    {a \in after : Cardinality({b \in after : rank[b] < rank[a]}) < n}
LastOf(as) == CHOOSE a \in as : \A b \in as : rank[b] <= rank[a]

\* limit + 1 rows are read; the extra one only says that there is more
SearchPage(c) ==
  LET l == loc[c]
      rows == Fetched(walk.cursor, l.limit + 1)
      more == Cardinality(rows) > l.limit
      page == IF more THEN rows \ {LastOf(rows)} ELSE rows IN
  /\ pc[c] = "query" /\ NoCharge
  /\ \/ /\ Answered /\ Finish(c, "page")
        /\ walk' = IF ~l.walking THEN walk ELSE
             [walk EXCEPT !.seen = [a \in Accounts |-> @[a] + IF a \in page THEN 1 ELSE 0],
                          !.cursor = IF more THEN rank[LastOf(page)] ELSE @,
                          !.done = ~more]
     \/ Failed /\ Finish(c, "Internal") /\ UNCHANGED walk
  /\ UNCHANGED <<gate, puzzles, spent, passed, rank, changes>>

\* the indexer moves, adds or removes a row between pages
ProjectionChanges ==
  /\ changes < MaxChanges /\ changes' = changes + 1
  /\ \E a \in Accounts, r \in {None} \cup (1..MaxRank \ {rank[b] : b \in Accounts}) :
       /\ rank[a] # r
       /\ rank' = [rank EXCEPT ![a] = r]
       /\ walk' = [walk EXCEPT !.stable = @ \ {a}]
  /\ UNCHANGED <<servingVars, gate, puzzles, spent, passed>>

SearchDropped(c) ==
  /\ Drop(c)
  /\ spent' \in {spent, IF pc[c] = "consume" /\ spent[req[c].proof.p] = None
                        THEN [spent EXCEPT ![req[c].proof.p] = puzzles[req[c].proof.p] + Window]
                        ELSE spent}
  /\ UNCHANGED <<gate, puzzles, passed, rank, changes, walk>>

\* lag and wait together stay within the slack
SearchTick ==
  /\ \A c \in Conns : pc[c] = "consume" => now - req[c].clock < Slack
  /\ Tick /\ UNCHANGED searchVars

SearchNext ==
  \/ \E c \in Conns : SearchArrive(c) \/ Consume(c) \/ SearchPage(c) \/ SearchDropped(c)
  \/ PruneExpired
  \/ ProjectionChanges
  \/ SearchTick

-----------------------------------------------------------------------------
\* Once only: a puzzle lets one request through whatever replicas, late inserts,
\* lost answers and the pruner do, and a walk over the pages shows a row that did
\* not change meanwhile at most once, exactly once when it ends, and never a row
\* that is not to be shown.
ServedOnce == role = "search" =>
  /\ \A p \in Puzzles : passed[p] <= 1
  /\ \A a \in Accounts :
       /\ a \in walk.stable => walk.seen[a] <= 1
       /\ a \in walk.stable \cap Listed /\ walk.done => walk.seen[a] = 1
       /\ a \notin Listed => walk.seen[a] = 0

\* A handler is at one of its awaits, only issued puzzles are spent, and no two
\* accounts share a place in the order the pages follow.
SearchTypeOK == role = "search" =>
  /\ pc \in [Conns -> {"idle", "consume", "query"}]
  /\ changes \in 0..MaxChanges
  /\ \A p \in Puzzles : spent[p] # None => puzzles[p] # None
  /\ \A a, b \in Accounts : a # b /\ rank[a] # None => rank[a] # rank[b]
=============================================================================
