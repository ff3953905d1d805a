----------------------------- MODULE DataRights -----------------------------
(* Account deletion and the two organisation trees it rewrites: the deletion *)
(* routes and DataRightsService.processDeletion (data-rights.ts), the legal  *)
(* holds that block it (legal-hold.ts), and the sponsor decision that builds *)
(* the trees meanwhile (sponsor-decision/route.ts, sponsor-matching.ts). A   *)
(* user's place is kept twice: User.upline_id, read by compliance review,    *)
(* and OrgTreeEdge, read by /grow. Each request is a worker that may die     *)
(* between any two of its awaits. A deletion's transaction is READ           *)
(* COMMITTED: its statements are steps, each sees what others have           *)
(* committed by then, a row it has written is locked and what it wrote is    *)
(* seen when it commits. Left out: the fields scrubbed one by one, the       *)
(* notifications, the certificate, suspended accounts, the columns the       *)
(* recomputation writes and the 24 hours of cooling-off, which only delay a  *)
(* confirmation.                                                             *)
EXTENDS Integers, Sequences, FiniteSets

CONSTANTS
  NumUsers,     \* the REP users of one organisation type, in id order
  Workers,      \* requests in progress
  MaxRequests,  \* UserDataDeletion rows
  Leavers,      \* the users who may ask for deletion
  Investigated, \* the users a hold may be placed on
  Lapsers,      \* the members whose sponsorship may lapse
  MaxOutside    \* LegalHold rows ever placed and sponsorships ever ended

ASSUME DataRightsConstants ==
  /\ NumUsers \in Nat \ {0} /\ MaxRequests \in Nat
  /\ Investigated \subseteq 1..NumUsers /\ Leavers \subseteq 1..NumUsers
  /\ Lapsers \subseteq 1..NumUsers /\ MaxOutside \in Nat

Users == 1..NumUsers
Nobody == 0
Ids == Users \cup {Nobody}

VARIABLES
  upline,     \* User.upline_id
  edges,      \* the confirmed OrgTreeEdge rows, <<sponsor, recruit>>
  sponsored,  \* the sponsor of the member's ACTIVE Sponsorship
  scrubbed,   \* users anonymised by a committed deletion
  request,    \* the UserDataDeletion rows, in creation order
  holds,      \* ACTIVE LegalHold rows of each user
  placed,     \* LegalHold rows ever created
  lapses,     \* sponsorships ended
  worker,
  crossed     \* history: users who came under a sponsor in the gap of MoveEdges

vars == <<upline, edges, sponsored, scrubbed, request, holds, placed, lapses, worker, crossed>>
tree == <<upline, edges, sponsored, lapses, crossed>>
legal == <<holds, placed>>

(* A worker in a deletion's transaction keeps what it has written and not    *)
(* committed: the users moved, the edges gone, the edges come, and whether it *)
(* found an edge to its user, without which it deletes none.                 *)
Working(at, u, id, s) ==
  [at |-> at, user |-> u, id |-> id, other |-> s, moved |-> {}, gone |-> {}, came |-> {},
   inbound |-> FALSE]
Idle == Working("idle", Nobody, 0, Nobody)
InDeletion == {"tx", "moved", "edges", "checked"}
Stages == {"idle", "accept", "post", "confirm", "held", "clear", "place"} \cup InDeletion
Becomes(w, rec) == worker' = [worker EXCEPT ![w] = rec]
Rows == 1..MaxRequests

RequestRow == [user : Users, status : {"PENDING", "HELD", "COMPLETED"}]
WorkerState == [at : Stages, user : Ids, id : Nat, other : Ids, moved : SUBSET Users,
                gone : SUBSET (Users \X Users), came : SUBSET (Users \X Users),
                inbound : BOOLEAN]

Sound(rec) ==
  /\ rec.at # "idle" => rec.user \in Users
  /\ rec.at = "accept" => rec.other \in Users
  /\ rec.at \in {"confirm", "held", "clear"} \cup InDeletion =>
       rec.id \in DOMAIN request /\ request[rec.id].user = rec.user

TypeOK ==
  /\ upline \in [Users -> Ids]
  /\ edges \subseteq Users \X Users
  /\ sponsored \in [Users -> Ids]
  /\ scrubbed \subseteq Users
  /\ request \in Seq(RequestRow) /\ Len(request) <= MaxRequests
  /\ holds \in [Users -> Nat] /\ placed \in Nat /\ lapses \in Nat
  /\ worker \in [Workers -> WorkerState]
  /\ \A w \in Workers : Sound(worker[w])
  /\ crossed \subseteq Users

Init ==
  /\ upline = [u \in Users |-> Nobody] /\ edges = {}
  /\ sponsored = [u \in Users |-> Nobody] /\ scrubbed = {}
  /\ request = <<>>
  /\ holds = [u \in Users |-> 0] /\ placed = 0 /\ lapses = 0
  /\ worker = [w \in Workers |-> Idle] /\ crossed = {}

(* The rows a deletion in progress has written: no other writes them until  *)
(* it is over.                                                               *)
UserLocked(v) == \E x \in Workers : v \in worker[x].moved
EdgesLocked(w, E) ==
  \E x \in Workers \ {w} : E \cap (worker[x].gone \cup worker[x].came) # {}

(* A deletion of s has moved its users and not yet its edges.                *)
InTheGap(w, s) == worker[w].at = "moved" /\ worker[w].user = s
-----------------------------------------------------------------------------
(* matchSponsor over resolveSponsorCandidatePool: the least loaded, then the *)
(* least id, of every other user of the organisation. A deleted user is      *)
(* still one of them, and so are the member's own recruits.                  *)
Load(s) == Cardinality({m \in Users : sponsored[m] = s})
Chosen(s, u) ==
  /\ s # u
  /\ \A x \in Users \ {u} : Load(s) < Load(x) \/ (Load(s) = Load(x) /\ s <= x)

AcceptMatch(w, u) ==
  /\ worker[w] = Idle
  /\ \E s \in Users :
       /\ Chosen(s, u)
       /\ Becomes(w, Working("accept", u, 0, s))
  /\ UNCHANGED <<tree, scrubbed, request, legal>>

(* One transaction: Sponsorship, OrgTreeEdge, upline_id. Two unique indexes  *)
(* may refuse it: a second ACTIVE sponsorship, a second equal edge. It waits *)
(* for a deletion that has written the same user or edge.                    *)
AcceptCommit(w) ==
  LET u == worker[w].user
      s == worker[w].other
  IN  /\ worker[w].at = "accept"
      /\ sponsored[u] = Nobody /\ <<s, u>> \notin edges
      /\ ~UserLocked(u) /\ ~EdgesLocked(w, {<<s, u>>})
      /\ sponsored' = [sponsored EXCEPT ![u] = s]
      /\ edges' = edges \cup {<<s, u>>}
      /\ upline' = [upline EXCEPT ![u] = s]
      /\ crossed' = IF \E x \in Workers : InTheGap(x, s) THEN crossed \cup {u}
                                                         ELSE crossed \ {u}
      /\ Becomes(w, Idle)
      /\ UNCHANGED <<scrubbed, request, legal, lapses>>

AcceptRefused(w) ==
  /\ worker[w].at = "accept"
  /\ sponsored[worker[w].user] # Nobody \/ <<worker[w].other, worker[w].user>> \in edges
  /\ Becomes(w, Idle)
  /\ UNCHANGED <<tree, scrubbed, request, legal>>

(* The lapse cascade or a conversion takes the row out of ACTIVE; the upline *)
(* and the edge stay.                                                        *)
SponsorshipLapses(u) ==
  /\ u \in Lapsers /\ placed + lapses < MaxOutside /\ sponsored[u] # Nobody
  /\ lapses' = lapses + 1
  /\ sponsored' = [sponsored EXCEPT ![u] = Nobody]
  /\ UNCHANGED <<upline, edges, crossed, scrubbed, request, legal, worker>>
-----------------------------------------------------------------------------
(* POST /api/data-rights/deletion: a PENDING or HELD row is returned as it   *)
(* is, else one is created.                                                  *)
PostRead(w, u) ==
  /\ worker[w] = Idle /\ u \in Leavers /\ Len(request) < MaxRequests
  /\ \A i \in DOMAIN request : request[i].user = u => request[i].status = "COMPLETED"
  /\ Becomes(w, Working("post", u, 0, Nobody))
  /\ UNCHANGED <<tree, scrubbed, request, legal>>

PostCreate(w) ==
  /\ worker[w].at = "post" /\ Len(request) < MaxRequests
  /\ request' = Append(request, [user |-> worker[w].user, status |-> "PENDING"])
  /\ Becomes(w, Idle)
  /\ UNCHANGED <<tree, scrubbed, legal>>

(* POST /api/data-rights/deletion/confirm: only a PENDING row is processed,  *)
(* and reading it claims nothing.                                            *)
Confirm(w, i) ==
  /\ worker[w] = Idle
  /\ i \in DOMAIN request /\ request[i].status = "PENDING"
  /\ Becomes(w, Working("confirm", request[i].user, i, Nobody))
  /\ UNCHANGED <<tree, scrubbed, request, legal>>

CheckHold(w) ==
  /\ worker[w].at = "confirm"
  /\ Becomes(w, [worker[w] EXCEPT !.at =
                    IF holds[worker[w].user] > 0 THEN "held" ELSE "clear"])
  /\ UNCHANGED <<tree, scrubbed, request, legal>>

MarkHeld(w) ==
  /\ worker[w].at = "held"
  /\ request' = [request EXCEPT ![worker[w].id].status = "HELD"]
  /\ Becomes(w, Idle)
  /\ UNCHANGED <<tree, scrubbed, legal>>

(* Seeded fault: the request is marked before the transaction, not in it. *)
BeginDeletionMarked(w) ==
  /\ worker[w].at = "clear"
  /\ request' = [request EXCEPT ![worker[w].id].status = "COMPLETED"]
  /\ Becomes(w, [worker[w] EXCEPT !.at = "tx", !.other = upline[worker[w].user]])
  /\ UNCHANGED <<tree, scrubbed, legal>>

(* The transaction reads the user, and with it the new upline of everyone    *)
(* who is to move.                                                           *)
BeginDeletion(w) ==
  /\ worker[w].at = "clear"
  /\ Becomes(w, [worker[w] EXCEPT !.at = "tx", !.other = upline[worker[w].user]])
  /\ UNCHANGED <<tree, scrubbed, request, legal>>
-----------------------------------------------------------------------------
Recruits(u, E) == {v \in Users : <<u, v>> \in E}
Inbound(u, E) == {e \in E : e[2] = u}

(* Seeded fault: the recruits in the tree of edges are moved. *)
ReparentedByEdge(u) == Recruits(u, edges)

(* Everyone whose upline is u moves to u's own upline.                       *)
Reparented(u) == {v \in Users : upline[v] = u}

MoveUsers(w) ==
  LET u == worker[w].user
  IN  /\ worker[w].at = "tx"
      /\ \A v \in Reparented(u) : ~UserLocked(v)
      /\ Becomes(w, [worker[w] EXCEPT !.at = "moved", !.moved = Reparented(u)])
      /\ UNCHANGED <<tree, scrubbed, request, legal>>

(* Seeded fault: the edges of the deleted user go, and none is re-pointed. *)
RepointedNowhere(u, n) == {}

(* The edges to u's recruits move to n, or go when there is no n.            *)
Repointed(u, n) == IF n = Nobody THEN {} ELSE {<<n, v>> : v \in Recruits(u, edges)}

(* An edge from n that is already there: the re-point breaks the unique      *)
(* index.                                                                    *)
Collides(u, n) == \E v \in Recruits(u, edges) : <<n, v>> \in edges

MoveEdges(w) ==
  LET u == worker[w].user
      n == worker[w].other
      old == {e \in edges : e[1] = u}
  IN  /\ worker[w].at = "moved" /\ ~Collides(u, n)
      /\ ~EdgesLocked(w, old \cup Repointed(u, n))
      /\ Becomes(w, [worker[w] EXCEPT !.at = "edges", !.gone = old, !.came = Repointed(u, n),
                                       !.inbound = Inbound(u, edges) # {}])
      /\ UNCHANGED <<tree, scrubbed, request, legal>>

(* The users in the tree under root: in every set that holds root and, with  *)
(* a sponsor, the sponsor's recruits.                                        *)
Under(root, E) ==
  {x \in Users : \A C \in SUBSET Users :
     root \in C /\ (\A e \in E : e[1] \in C => e[2] \in C) => x \in C}

(* Seeded fault: a visited set ends the recursion. *)
OverflowsNever(root, E) == FALSE

(* buildNode recurses over the edges with no visited set: a cycle under the  *)
(* root overflows the stack, and the transaction it runs in is rolled back.  *)
OnCycle(x, E) == \E e \in E : e[1] = x /\ x \in Under(e[2], E)
Overflows(root, E) == \E x \in Under(root, E) : OnCycle(x, E)

(* The tree of edges as the transaction sees it when the edges to its user   *)
(* are gone too.                                                             *)
Dropped(r, E) == IF r.inbound THEN Inbound(r.user, E) ELSE {}
Seen(r) == LET E == (edges \ r.gone) \cup r.came IN E \ Dropped(r, E)

(* The roots recomputed: the new upline or, without one, every recruit.      *)
RecomputeRoots(r) ==
  IF r.gone = {} THEN {}
  ELSE IF r.other = Nobody THEN Recruits(r.user, r.gone) ELSE {r.other}

RecomputeFails(r) == \E root \in RecomputeRoots(r) : Overflows(root, Seen(r))

(* The edges to u go, and the trees whose root changed are recomputed.       *)
Recompute(w) ==
  LET r == worker[w]
      drop == Dropped(r, edges)
  IN  /\ r.at = "edges" /\ ~RecomputeFails(r) /\ ~EdgesLocked(w, drop)
      /\ Becomes(w, [r EXCEPT !.at = "checked", !.gone = @ \cup drop,
                              !.came = @ \ Dropped(r, @)])
      /\ UNCHANGED <<tree, scrubbed, request, legal>>

(* The rest of the transaction: the scrub, COMPLETED, and the commit.        *)
CommitDeletion(w) ==
  LET u == worker[w].user
      n == worker[w].other
  IN  /\ worker[w].at = "checked"
      /\ upline' = [v \in Users |-> IF v \in worker[w].moved THEN n ELSE upline[v]]
      /\ edges' = (edges \ worker[w].gone) \cup worker[w].came
      /\ scrubbed' = scrubbed \cup {u}
      /\ request' = [request EXCEPT ![worker[w].id].status = "COMPLETED"]
      /\ crossed' = IF \E x \in Workers : InTheGap(x, n) THEN crossed \cup worker[w].moved
                                                         ELSE crossed
      /\ Becomes(w, Idle)
      /\ UNCHANGED <<sponsored, lapses, legal>>

AbortDeletion(w) ==
  /\ \/ worker[w].at = "moved" /\ Collides(worker[w].user, worker[w].other)
     \/ worker[w].at = "edges" /\ RecomputeFails(worker[w])
  /\ Becomes(w, Idle)
  /\ UNCHANGED <<tree, scrubbed, request, legal>>

(* The process dies, or the database ends a transaction that waits too long: *)
(* what the worker had not committed never happens.                          *)
Die(w) ==
  /\ worker[w] # Idle
  /\ Becomes(w, Idle)
  /\ UNCHANGED <<tree, scrubbed, request, legal>>
-----------------------------------------------------------------------------
(* placeHold returns the ACTIVE hold it finds, else creates one; liftHold    *)
(* lifts the one row it is given.                                            *)
PlaceRead(w, u) ==
  /\ worker[w] = Idle /\ u \in Investigated /\ placed + lapses < MaxOutside /\ holds[u] = 0
  /\ Becomes(w, Working("place", u, 0, Nobody))
  /\ UNCHANGED <<tree, scrubbed, request, legal>>

PlaceCreate(w) ==
  /\ worker[w].at = "place" /\ placed + lapses < MaxOutside
  /\ placed' = placed + 1
  /\ holds' = [holds EXCEPT ![worker[w].user] = @ + 1]
  /\ Becomes(w, Idle)
  /\ UNCHANGED <<tree, scrubbed, request>>

LiftHold(u) ==
  /\ holds[u] > 0
  /\ holds' = [holds EXCEPT ![u] = @ - 1]
  /\ UNCHANGED <<tree, scrubbed, request, placed, worker>>

WorkerStep(w) ==
  \/ AcceptCommit(w) \/ AcceptRefused(w)
  \/ PostCreate(w)
  \/ CheckHold(w) \/ MarkHeld(w)
  \/ BeginDeletion(w) \/ MoveUsers(w) \/ MoveEdges(w) \/ Recompute(w)
  \/ CommitDeletion(w) \/ AbortDeletion(w)
  \/ PlaceCreate(w) \/ Die(w)
  \/ \E u \in Users : AcceptMatch(w, u) \/ PostRead(w, u) \/ PlaceRead(w, u)
  \/ \E i \in Rows : Confirm(w, i)

Next ==
  \/ \E w \in Workers : WorkerStep(w)
  \/ \E u \in Users : SponsorshipLapses(u) \/ LiftHold(u)

Spec == Init /\ [][Next]_vars
-----------------------------------------------------------------------------
(* The two trees agree on every user who is left: whoever has an upline has  *)
(* the edge from that upline, though re-matches leave older edges behind and *)
(* deletions rewrite the two in different statements; but for a user who     *)
(* came under a sponsor, by a match or another deletion, just when a         *)
(* deletion of that sponsor had moved its users and not yet its edges.       *)
UplineHasEdge ==
  \A u \in Users \ (scrubbed \cup crossed) :
    upline[u] # Nobody => <<upline[u], u>> \in edges

(* What data-rights.ts says of its two re-parents: the edges go to the "SAME *)
(* newUplineId the logical re-parent" computed, so no exception.             *)
TreesAlwaysAgree ==
  \A u \in Users \ scrubbed : upline[u] # Nobody => <<upline[u], u>> \in edges

(* A deletion moves nobody away from a live sponsor: while the sponsor of an *)
(* ACTIVE sponsorship is not deleted, the member's upline is that sponsor,   *)
(* also when the member was matched anew during the deletion.                *)
SponsorIsUpline ==
  \A u \in Users :
    sponsored[u] # Nobody /\ sponsored[u] \notin scrubbed => upline[u] = sponsored[u]

(* Matching lets two users sponsor each other, and deleting one would leave  *)
(* the other their own upline; no committed deletion does, but for the users *)
(* UplineHasEdge excepts: without the edge the recomputation sees no cycle.  *)
NobodyTheirOwnUpline == \A u \in Users \ (scrubbed \cup crossed) : upline[u] # u

(* A request says COMPLETED only of a user who is scrubbed, and a scrubbed   *)
(* user has a request that was processed, however many requests ran at once  *)
(* or were rolled back.                                                      *)
ScrubIsRecorded ==
  /\ \A i \in DOMAIN request :
       request[i].status = "COMPLETED" => request[i].user \in scrubbed
  /\ \A u \in scrubbed :
       \E i \in DOMAIN request : request[i].user = u /\ request[i].status # "PENDING"

(* data-rights.ts:620: nothing below the check runs while a hold is in       *)
(* force.                                                                    *)
NothingScrubbedUnderHold ==
  [][\A u \in scrubbed' \ scrubbed : holds[u] = 0]_vars
=============================================================================
