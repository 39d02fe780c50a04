------------------------------ MODULE CreateApi ------------------------------
(***************************************************************************)
(* The HTTP handler that creates resolutions (cmd/controlplane): callers   *)
(* send a request to one of several processes, each of which limits the    *)
(* creations it runs; the service transaction of Resolution happens inside *)
(* a handler, whose answer may be lost; a caller repeats a retryable or    *)
(* lost request with its key and its claims in any order.                  *)
(***************************************************************************)
EXTENDS Resolution, Sequences

CONSTANTS
  Processes,
  MaximumRequests, \* slots of the concurrency channel of a process
  Bodies,          \* sequences of claims (they stand for targets too) that callers send
  Wants            \* what the callers may want: each has its identity, key (or None) and claims

Members(s) == {s[n] : n \in DOMAIN s}

VARIABLES
  want,  \* of each caller: its identity, key and claims
  http,  \* of each caller: the handler of its request, and the last answer
  slots  \* tokens in the concurrency channel of each process

apiVars == <<resVars, want, http, slots>>

\* "retry": not asked yet, or an answer that is lost or says that it may be retried.
Reply(status) == [status |-> status, id |-> None, version |-> 0, state |-> "received", created |-> FALSE]
Idle(reply) == [pc |-> "idle", process |-> None, body |-> << >>, reply |-> reply]

ApiInit ==
  /\ Init
  /\ want \in Wants
  /\ http = [c \in Clients |-> Idle(Reply("retry"))]
  /\ slots = [p \in Processes |-> 0]

-----------------------------------------------------------------------------
(* The request *)

\* limit: a free slot or 429.
Limit(c, p) ==
  /\ http[c].pc = "idle" /\ http[c].reply.status = "retry"
  /\ \E body \in Bodies :
       /\ Members(body) = want[c].claims
       /\ IF slots[p] < MaximumRequests
          THEN /\ slots' = [slots EXCEPT ![p] = @ + 1]
               /\ http' = [http EXCEPT ![c] =
                    [pc |-> "admitted", process |-> p, body |-> body, reply |-> Reply("retry")]]
          ELSE /\ http' = [http EXCEPT ![c] = Idle(Reply("retry"))]
               /\ UNCHANGED slots
  /\ UNCHANGED <<resVars, want>>

\* The handler returns, its slot with it; the caller gets the answer or nothing.
Respond(c, reply) ==
  /\ slots' = [slots EXCEPT ![http[c].process] = @ - 1]
  /\ http' \in {[http EXCEPT ![c] = Idle(r)] : r \in {reply, Reply("retry")}}
  /\ UNCHANGED want

HasDuplicate(s) == \E m, n \in DOMAIN s : m # n /\ s[m] = s[n]

\* The error of the first check that fails.
Refusal(c) ==
  IF want[c].identity = "none" THEN "AUTHENTICATION_REQUIRED"
  ELSE IF want[c].identity = "no scope" THEN "RESOLUTION_CREATE_DENIED"
  ELSE IF want[c].key = None THEN "INVALID_IDEMPOTENCY_KEY"
  ELSE IF HasDuplicate(http[c].body) THEN "INVALID_REQUEST"
  ELSE "none"

Refuse(c) ==
  /\ http[c].pc = "admitted" /\ Refusal(c) # "none"
  /\ Respond(c, Reply(Refusal(c)))
  /\ UNCHANGED resVars

\* sort.Strings on a body without duplicates.
Sorted(body) ==
  CHOOSE s \in [DOMAIN body -> Members(body)] :
    Members(s) = Members(body) /\ \A m, n \in DOMAIN s : m < n => s[m] <= s[n]

\* Sorting keeps the members and forgets their order.
ASSUME SortAssumption ==
  \A b, d \in {x \in Bodies : ~HasDuplicate(x)} :
    /\ Sorted(b) \in Digests /\ Members(Sorted(b)) = Members(b)
    /\ Members(b) = Members(d) => Sorted(b) = Sorted(d)

\* Mutant of Canonical: the claims stay in the order of the request.
AsSent(body) == body

\* The canonical document; the digest stands for it.
Canonical(body) == Sorted(body)

-----------------------------------------------------------------------------
(* Service.Create within the handler *)

Begin(c) ==
  /\ http[c].pc = "admitted" /\ Refusal(c) = "none"
  /\ CreateInsert(c)
  /\ tx'[c].key = want[c].key /\ tx'[c].digest = Canonical(http[c].body)
  /\ http' = [http EXCEPT ![c] =
       [pc |-> "creating", process |-> http[c].process, body |-> << >>, reply |-> Reply("retry")]]
  /\ UNCHANGED <<want, slots>>

Accepted(i, row, created) ==
  [status |-> "ACCEPTED", id |-> i, version |-> row.version, state |-> row.state, created |-> created]

\* An existing record answers with the resolution as it is now, or with 409.
ClaimKey(c) ==
  LET found == idem[tx[c].key] IN
  /\ http[c].pc = "creating" /\ CreateClaimKey(c)
  /\ \/ found = None /\ UNCHANGED <<want, http, slots>>
     \/ /\ found # None
        /\ Respond(c, IF found.digest = tx[c].digest THEN Accepted(found.id, res[found.id], FALSE)
                      ELSE Reply("IDEMPOTENCY_KEY_REUSED"))

\* A commit whose result is unknown is an error like any other.
Commit(c) ==
  /\ http[c].pc = "creating" /\ CreateCommit(c)
  /\ \E reply \in {Accepted(tx[c].id, res'[tx[c].id], TRUE), Reply("retry")} :
       Respond(c, reply)

\* The transaction, or what precedes it, fails.
Fail(c) ==
  /\ \/ http[c].pc = "admitted" /\ Refusal(c) = "none" /\ UNCHANGED resVars
     \/ http[c].pc = "creating" /\ CreateRollback(c)
  /\ Respond(c, Reply("retry"))

-----------------------------------------------------------------------------
(* Specification *)

ApiNext ==
  \/ \E c \in Clients :
       \/ \E p \in Processes : Limit(c, p)
       \/ Refuse(c) \/ Begin(c) \/ ClaimKey(c) \/ Commit(c) \/ Fail(c)
  \/ /\ \/ \E d \in Drivers : Transition(d)
        \/ \E p \in Planners, i \in Ids, plan \in Plans : Queue(p, i, plan)
     /\ UNCHANGED <<want, http, slots>>

ApiSpec == ApiInit /\ [][ApiNext]_apiVars

-----------------------------------------------------------------------------
(* Properties *)

\* What a caller is told is true, over races, failures, lost answers and retries
\* with reordered claims: what was accepted is the resolution of its key and
\* claims in a state it has been in, one caller at most is told that it was created,
\* and a key is called reused only if other claims hold it (docs/resolution-create-api.md:
\* "Claim and target order is not semantically significant").
AnswersAreTrue ==
  \A c \in Clients : LET r == http[c].reply IN
    /\ r.status = "ACCEPTED" =>
         /\ res[r.id].key = want[c].key /\ Members(res[r.id].digest) = want[c].claims
         /\ \E e \in History(r.id) : e.version = r.version /\ e.state = r.state
         /\ \A b \in Clients \ {c} :
              ~(http[b].reply.status = "ACCEPTED" /\ r.id = http[b].reply.id
                /\ r.created /\ http[b].reply.created)
    /\ r.status = "IDEMPOTENCY_KEY_REUSED" =>
         idem[want[c].key] # None /\ Members(idem[want[c].key].digest) # want[c].claims
=============================================================================
