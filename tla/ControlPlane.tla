----------------------------- MODULE ControlPlane -----------------------------
(***************************************************************************)
(* The control-plane process (cmd/controlplane/main.go): it opens its      *)
(* dependencies in order, serves HTTP beside the outbox and reconciliation *)
(* runners in an errgroup, and on a signal or a first error lets all of    *)
(* them return before it releases what it opened.                          *)
(***************************************************************************)
EXTENDS Naturals, FiniteSets

CONSTANTS
  Requests,  \* HTTP requests that can be in flight at once
  None

Runners == {"outbox", "reconciliation"}
Goroutines == Runners \cup {"server", "shutdown"}

VARIABLES
  stage,     \* of run
  signalled, \* SIGINT or SIGTERM has cancelled the root context
  database, nats, \* resources with a deferred release
  listening, closing, \* the HTTP server accepts; Shutdown has begun
  active,    \* requests in flight
  running,   \* goroutines that have not returned
  firstError, \* what cancelled the errgroup
  timedOut,  \* Shutdown ran out of its 10 seconds
  exit,
  cause      \* history: what cancelled the service context

vars == <<stage, signalled, database, nats, listening, closing, active, running, firstError,
          timedOut, exit, cause>>

-----------------------------------------------------------------------------
(* Types and initial state *)

Resource == {"unopened", "open", "released"}
Stages == {"config", "database", "delivery", "application", "serve", "drain", "close", "stopped"}
Errors == {"canceled", "listen", "shutdown"}

\* Every variable keeps the type of the values it models.
TypeOK ==
  /\ stage \in Stages
  /\ signalled \in BOOLEAN /\ listening \in BOOLEAN /\ closing \in BOOLEAN
  /\ timedOut \in BOOLEAN
  /\ database \in Resource /\ nats \in Resource
  /\ active \subseteq Requests
  /\ running \subseteq Goroutines
  /\ firstError \in Errors \cup {None}
  /\ exit \in 0..2 \cup {None}
  /\ cause \in {"signal", "error", None}

Init ==
  /\ stage = "config"
  /\ signalled = FALSE /\ listening = FALSE /\ closing = FALSE /\ timedOut = FALSE
  /\ database = "unopened" /\ nats = "unopened"
  /\ active = {} /\ running = {}
  /\ firstError = None /\ exit = None /\ cause = None

-----------------------------------------------------------------------------
(* Start-up: each stage succeeds, or run returns through its deferred calls *)

Signal ==
  /\ ~signalled /\ stage # "stopped"
  /\ signalled' = TRUE
  /\ cause' = IF firstError = None THEN "signal" ELSE cause
  /\ UNCHANGED <<stage, database, nats, listening, closing, active, running, firstError, timedOut, exit>>

\* Mutant of LoadConfig: an exit code that main does not have.
LoadConfigOtherCode ==
  /\ stage = "config"
  /\ \/ stage' = "database" /\ UNCHANGED exit
     \/ stage' = "stopped" /\ exit' = 78
  /\ UNCHANGED <<signalled, database, nats, listening, closing, active, running,
                 firstError, timedOut, cause>>

LoadConfig ==
  /\ stage = "config"
  /\ \/ stage' = "database" /\ UNCHANGED exit
     \/ stage' = "stopped" /\ exit' = 2
  /\ UNCHANGED <<signalled, database, nats, listening, closing, active, running,
                 firstError, timedOut, cause>>

\* openApplicationDatabase migrates, connects and verifies the role, all under
\* the root context.
OpenDatabase ==
  /\ stage = "database"
  /\ \/ ~signalled /\ stage' = "delivery" /\ database' = "open" /\ UNCHANGED exit
     \/ stage' = "stopped" /\ exit' = 1 /\ UNCHANGED database
  /\ UNCHANGED <<signalled, nats, listening, closing, active, running, firstError, timedOut, cause>>

\* Repositories, reconciliation runtime, NATS connection and publisher; a failed
\* publisher closes its connection itself.
OpenDelivery ==
  /\ stage = "delivery"
  /\ \/ stage' = "application" /\ nats' = "open" /\ UNCHANGED exit
     \/ stage' = "close" /\ exit' = 1 /\ UNCHANGED nats
  /\ UNCHANGED <<signalled, database, listening, closing, active, running, firstError, timedOut, cause>>

\* Operator API and application; then serve starts its four goroutines.
BuildApplication ==
  /\ stage = "application"
  /\ \/ stage' = "serve" /\ running' = Goroutines /\ UNCHANGED exit
     \/ stage' = "drain" /\ exit' = 1 /\ UNCHANGED running
  /\ UNCHANGED <<signalled, database, nats, listening, closing, active, firstError, timedOut, cause>>

-----------------------------------------------------------------------------
(* Serving *)

\* serviceCtx is done: by the parent context or by the first error.
Cancelled == signalled \/ firstError # None

\* Mutant of Record: the last error wins.
RecordLast(e) == firstError' = e

\* errgroup keeps the first error.
Record(e) == firstError' = IF firstError = None THEN e ELSE firstError

Listen ==
  /\ "server" \in running /\ ~listening /\ ~closing
  /\ listening' = TRUE
  /\ UNCHANGED <<stage, signalled, database, nats, closing, active, running, firstError, timedOut, exit, cause>>

ListenFails ==
  /\ "server" \in running /\ ~closing
  /\ listening' = FALSE
  /\ running' = running \ {"server"}
  /\ Record("listen")
  /\ cause' = IF Cancelled THEN cause ELSE "error"
  /\ UNCHANGED <<stage, signalled, database, nats, closing, active, timedOut, exit>>

Accept ==
  /\ listening
  /\ \E q \in Requests \ active : active' = active \cup {q}
  /\ UNCHANGED <<stage, signalled, database, nats, listening, closing, running,
                 firstError, timedOut, exit, cause>>

\* A handler returns: bounded requests at once, watches after at most 30 seconds.
Respond ==
  /\ stage # "stopped"
  /\ \E q \in active : active' = active \ {q}
  /\ UNCHANGED <<stage, signalled, database, nats, listening, closing, running,
                 firstError, timedOut, exit, cause>>

\* Runner.Run and ReconciliationRunner.Run return ctx.Err().
RunnerReturns(g) ==
  /\ g \in running /\ Cancelled
  /\ running' = running \ {g}
  /\ Record("canceled")
  /\ UNCHANGED <<stage, signalled, database, nats, listening, closing, active, timedOut, exit, cause>>

\* server.Shutdown closes the listener, and ListenAndServe returns ErrServerClosed,
\* which is no error.
BeginShutdown ==
  /\ "shutdown" \in running /\ Cancelled /\ ~closing
  /\ closing' = TRUE /\ listening' = FALSE
  /\ UNCHANGED <<stage, signalled, database, nats, active, running, firstError, timedOut, exit, cause>>

ServerReturns ==
  /\ "server" \in running /\ closing
  /\ running' = running \ {"server"}
  /\ UNCHANGED <<stage, signalled, database, nats, listening, closing, active,
                 firstError, timedOut, exit, cause>>

\* Mutant of ShutdownReturns: no deadline, as if requests always ended.
ShutdownUnbounded ==
  /\ "shutdown" \in running /\ closing /\ active = {}
  /\ running' = running \ {"shutdown"}
  /\ UNCHANGED <<stage, signalled, database, nats, listening, closing, active,
                 firstError, timedOut, exit, cause>>

\* Shutdown waits for the requests in flight, or for a deadline of its own that is
\* detached from the cancelled context.
ShutdownReturns ==
  /\ "shutdown" \in running /\ closing
  /\ \/ active = {} /\ UNCHANGED <<firstError, timedOut>>
     \/ active # {} /\ timedOut' = TRUE /\ Record("shutdown")
  /\ running' = running \ {"shutdown"}
  /\ UNCHANGED <<stage, signalled, database, nats, listening, closing, active, exit, cause>>

\* Mutant of AllReturned: serve returns with the first error.
FirstReturned == firstError # None

\* group.Wait.
AllReturned == running = {}

\* serve returns and run chooses the exit code.
ServeReturns ==
  /\ stage = "serve" /\ AllReturned
  /\ stage' = "drain"
  /\ exit' = IF firstError = "canceled" /\ signalled THEN 0 ELSE 1
  /\ UNCHANGED <<signalled, database, nats, listening, closing, active, running,
                 firstError, timedOut, cause>>

\* The deferred calls, last opened first.
Drain ==
  /\ stage = "drain"
  /\ stage' = "close" /\ nats' = "released"
  /\ UNCHANGED <<signalled, database, listening, closing, active, running, firstError, timedOut, exit, cause>>

CloseDatabase ==
  /\ stage = "close"
  /\ stage' = "stopped" /\ database' = "released"
  /\ UNCHANGED <<signalled, nats, listening, closing, active, running, firstError, timedOut, exit, cause>>

-----------------------------------------------------------------------------
(* Specification *)

Boot == LoadConfig \/ OpenDatabase \/ OpenDelivery \/ BuildApplication
Stop == BeginShutdown \/ ServerReturns \/ ShutdownReturns \/ ServeReturns \/ Drain \/ CloseDatabase

Next ==
  \/ Signal \/ Boot \/ Listen \/ ListenFails \/ Accept \/ Respond
  \/ \E g \in Runners : RunnerReturns(g)
  \/ Stop

-----------------------------------------------------------------------------
(* Properties *)

\* Both connections outlive everything that uses them: the runners always, and a
\* request unless Shutdown ran out of time.
ReleasedAfterUse ==
  database = "released" \/ nats = "released" =>
    /\ running = {} /\ ~listening
    /\ active # {} => timedOut

\* Whatever fails, a stopped process has released what it opened and has an exit
\* code, and 0 means that it was asked to stop and nothing had failed before.
ExitTellsCause ==
  /\ stage = "stopped" => database # "open" /\ nats # "open" /\ exit # None
  /\ exit = 0 => cause = "signal"

\* A signal stops the process, also while requests are in flight for ever.
SignalStops == signalled ~> stage = "stopped"
=============================================================================
