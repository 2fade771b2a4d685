------------------------------ MODULE HttpServer ------------------------------
(***************************************************************************)
(* ddp_http.py: one thread accepts connections and gives each a slot and a *)
(* thread; a connection carries one request, received before a deadline,   *)
(* answered once, and possibly as a stream.  run_operation of              *)
(* ddp_operations.py starts a timer, announces the server, serves until    *)
(* the timer or an interrupt, drains the service and leaves, and the       *)
(* threads of connections end with it.                                     *)
(*                                                                         *)
(* GenerationService is seen from outside: it refuses a call or admits it, *)
(* a call hands out tokens, and it returns or raises.  What was written to *)
(* a connection is the sequence of the answers, or of the parts of one.    *)
(***************************************************************************)
EXTENDS Integers, Sequences, FiniteSets

CONSTANTS
  Connections,
  MaxConnections,  \* max_connections
  MaxInflight,     \* max_inflight_requests of the service
  MaxTokens        \* bound: tokens of a generation

ASSUME HttpAssumption ==
  /\ IsFiniteSet(Connections)
  /\ MaxConnections \in Nat \ {0}
  /\ MaxInflight \in Nat \ {0}
  /\ MaxTokens \in Nat

VARIABLES
  slots,     \* of the semaphore
  pc,        \* where the thread of each connection is
  route,     \* /generate or /stream, once that is known
  verdict,   \* what is about to be written
  sent,      \* what was written
  expired,   \* connections whose input was given up
  called,    \* history: connections whose request was given to the service
  active,    \* connections inside generate
  draining,  \* whether the service refuses calls
  main,      \* the thread of run_operation
  stopper,   \* the timer's thread
  stopping   \* whether server.shutdown was called

connection == <<slots, pc, route, verdict, sent, expired, called, active>>
process == <<draining, main, stopper, stopping>>
vars == <<connection, process>>

Stages == {"away", "receiving", "body", "generating", "answering", "closing", "closed"}
Routes == {"generate", "stream"}
Statuses == {"200", "408", "4xx", "5xx"}   \* 400, 404 and 429; 500 and 503
Terminal == {"done", "error"}
Parts == {"headers", "token"} \union Terminal \union Statuses

Open(c) == pc[c] \notin {"away", "closed"}
Streaming(c) == sent[c] # <<>>
Running == main # "exited"

Goto(c, stage) == pc' = [pc EXCEPT ![c] = stage]
Write(c, parts) == sent' = [sent EXCEPT ![c] = @ \o parts]
Decide(c, status) ==
  /\ Goto(c, "answering")
  /\ verdict' = [verdict EXCEPT ![c] = status]
Leave(c) ==
  /\ Goto(c, "closing")
  /\ route' = [route EXCEPT ![c] = "none"]
  /\ verdict' = [verdict EXCEPT ![c] = "none"]

Init ==
  /\ slots = MaxConnections
  /\ pc = [c \in Connections |-> "away"]
  /\ route = [c \in Connections |-> "none"]
  /\ verdict = [c \in Connections |-> "none"]
  /\ sent = [c \in Connections |-> <<>>]
  /\ expired = {} /\ called = {} /\ active = {}
  /\ draining = FALSE
  /\ main = "starting" /\ stopper = "armed" /\ stopping = FALSE

-------------------------------------------------------------------------------
(* BoundedHTTPServer: the accepting thread                                    *)

Accept(c) ==
  /\ main = "serving" /\ pc[c] = "away"
  /\ slots > 0
  /\ slots' = slots - 1
  /\ Goto(c, "receiving")
  /\ UNCHANGED <<route, verdict, sent, expired, called, active, process>>

\* No slot: the accepting thread answers itself, if the peer lets it.
Refuse(c) ==
  /\ main = "serving" /\ pc[c] = "away"
  /\ slots = 0
  /\ Goto(c, "closed")
  /\ \E written \in {<<>>, <<"5xx">>} : Write(c, written)
  /\ UNCHANGED <<slots, route, verdict, expired, called, active, process>>

\* Variant: a slot whose thread did not start stays taken.
NoThreadLeaks(c) ==
  /\ main = "serving" /\ pc[c] = "away"
  /\ slots > 0
  /\ slots' = slots - 1
  /\ Goto(c, "closed")
  /\ UNCHANGED <<route, verdict, sent, expired, called, active, process>>

\* The slot was taken and the thread cannot be started: it is given back.
NoThread(c) ==
  /\ main = "serving" /\ pc[c] = "away"
  /\ slots > 0
  /\ Goto(c, "closed")
  /\ UNCHANGED <<slots, route, verdict, sent, expired, called, active, process>>

-------------------------------------------------------------------------------
(* Handler: receiving                                                         *)

\* The reader meets its deadline, or nothing came for five seconds.
Expire(c) ==
  /\ pc[c] \in {"receiving", "body"}
  /\ expired' = expired \union {c}
  /\ Decide(c, "408")
  /\ UNCHANGED <<slots, route, sent, called, active, process>>

\* The peer goes away before its request is whole.
Vanish(c) ==
  /\ pc[c] \in {"receiving", "body"}
  /\ Leave(c)
  /\ UNCHANGED <<slots, sent, expired, called, active, process>>

\* _complete_input finds the deadline passed when all was read.
TooLate(c) ==
  /\ expired' = expired \union {c}
  /\ Decide(c, "408")

\* do_GET: health, metrics, readiness, or no such path.
Get(c) ==
  /\ pc[c] = "receiving"
  /\ \/ TooLate(c)
     \/ Decide(c, "200") /\ UNCHANGED expired
     \/ Decide(c, "4xx") /\ UNCHANGED expired
     \/ draining /\ Decide(c, "5xx") /\ UNCHANGED expired
  /\ UNCHANGED <<slots, route, sent, called, active, process>>

\* do_POST with a bounded length goes on to the body.
Post(c, r) ==
  /\ pc[c] = "receiving"
  /\ route' = [route EXCEPT ![c] = r]
  /\ Goto(c, "body")
  /\ UNCHANGED <<slots, verdict, sent, expired, called, active, process>>

\* No such path to post to, no length, or nothing the library can parse.
Malformed(c) ==
  /\ pc[c] = "receiving"
  /\ Decide(c, "4xx")
  /\ UNCHANGED <<slots, route, sent, expired, called, active, process>>

\* The body: late, invalid, refused by the service, or inside generate.
Admissible == ~draining /\ Cardinality(active) < MaxInflight

Body(c) ==
  /\ pc[c] = "body"
  /\ \/ TooLate(c) /\ UNCHANGED <<called, active>>
     \/ Decide(c, "4xx") /\ UNCHANGED <<expired, called, active>>
     \/ /\ ~Admissible
        /\ Decide(c, "5xx")
        /\ called' = called \union {c}
        /\ UNCHANGED <<expired, active>>
     \/ /\ Admissible
        /\ Goto(c, "generating")
        /\ called' = called \union {c}
        /\ active' = active \union {c}
        /\ UNCHANGED <<verdict, expired>>
  /\ UNCHANGED <<slots, route, sent, process>>

-------------------------------------------------------------------------------
(* Handler: generate and the answer                                           *)

Tokens(c) == Cardinality({i \in DOMAIN sent[c] : sent[c][i] = "token"})

\* What is written next; the headers of a stream come with its first part.
Pending(c) ==
  LET part == IF pc[c] = "generating" THEN "token" ELSE verdict[c]
  IN IF part \in {"token", "done"} /\ ~Streaming(c) THEN <<"headers", part>> ELSE <<part>>

\* emit, on a stream.
Token(c) ==
  /\ pc[c] = "generating" /\ route[c] = "stream"
  /\ Tokens(c) < MaxTokens
  /\ Write(c, Pending(c))
  /\ UNCHANGED <<slots, pc, route, verdict, expired, called, active, process>>

\* The peer does not read, or left: the call ends without another word.
WriteFails(c) ==
  /\ \/ pc[c] = "answering"
     \/ pc[c] = "generating" /\ route[c] = "stream"
  /\ \E n \in 0..Len(Pending(c)) - 1 : Write(c, SubSeq(Pending(c), 1, n))
  /\ Leave(c)
  /\ active' = active \ {c}
  /\ UNCHANGED <<slots, expired, called, process>>

\* The call is over, and its ticket returned, before its answer is written.
Return(c) ==
  /\ pc[c] = "generating"
  /\ active' = active \ {c}
  /\ Decide(c, IF route[c] = "stream" THEN "done" ELSE "200")
  /\ UNCHANGED <<slots, route, sent, expired, called, process>>

\* Admission of tokens and of the id come before the first token.
Reject(c) ==
  /\ pc[c] = "generating" /\ ~Streaming(c)
  /\ active' = active \ {c}
  /\ Decide(c, "4xx")
  /\ UNCHANGED <<slots, route, sent, expired, called, process>>

\* Variant: a failure is always answered with a status.
RaiseStatus(c) ==
  /\ pc[c] = "generating"
  /\ active' = active \ {c}
  /\ Decide(c, "5xx")
  /\ UNCHANGED <<slots, route, sent, expired, called, process>>

Raise(c) ==
  /\ pc[c] = "generating"
  /\ active' = active \ {c}
  /\ Decide(c, IF Streaming(c) THEN "error" ELSE "5xx")
  /\ UNCHANGED <<slots, route, sent, expired, called, process>>

Answer(c) ==
  /\ pc[c] = "answering"
  /\ Write(c, Pending(c))
  /\ Leave(c)
  /\ UNCHANGED <<slots, expired, called, active, process>>

\* finish: an expired input is drained for a tenth of a second at most.  The
\* connection is closed and its slot released.
Close(c) ==
  /\ pc[c] = "closing"
  /\ slots' = slots + 1
  /\ Goto(c, "closed")
  /\ UNCHANGED <<route, verdict, sent, expired, called, active, process>>

-------------------------------------------------------------------------------
(* run_operation: announce, serve, drain, leave                               *)

\* The announcement is printed after the timer was started.
Listen ==
  /\ main = "starting"
  /\ main' = "serving"
  /\ UNCHANGED <<connection, draining, stopper, stopping>>

\* The announcement raises, or an interrupt comes with it: the try that cancels
\* the timer, drains and closes is not yet entered.
FailStart ==
  /\ main = "starting"
  /\ main' = "failed"
  /\ UNCHANGED <<connection, draining, stopper, stopping>>

\* The timer's thread: service.drain begins, and refuses calls.
Fire ==
  /\ stopper = "armed"
  /\ stopper' = "draining" /\ draining' = TRUE
  /\ UNCHANGED <<connection, main, stopping>>

\* Variant: drain waits for the last call whatever it takes.
DrainsAll(timeout) == active = {}

\* drain returns when the service is empty, or at its timeout.
DrainOver(timeout) == timeout \/ active = {}

Shutdown(timeout) ==
  /\ stopper = "draining" /\ DrainOver(timeout)
  /\ stopper' = "waiting" /\ stopping' = TRUE
  /\ UNCHANGED <<connection, draining, main>>

\* server.shutdown returns when the loop is left, and a loop that was never
\* entered is never left.  Called before the loop, it ends it at its first turn.
Stopped ==
  /\ stopper = "waiting" /\ main \in {"draining", "joining", "exited"}
  /\ stopper' = "done"
  /\ UNCHANGED <<connection, draining, main, stopping>>

\* The loop is left for the timer, or for an exception of the main thread; the
\* timer is cancelled, and the service drained (again).
LeaveLoop(interrupted) ==
  /\ main = "serving" /\ (stopping \/ interrupted)
  /\ main' = "draining" /\ draining' = TRUE
  /\ stopper' = IF stopper = "armed" THEN "cancelled" ELSE stopper
  /\ UNCHANGED <<connection, stopping>>

Drained(timeout) ==
  /\ main = "draining" /\ DrainOver(timeout)
  /\ main' = "joining"
  /\ UNCHANGED <<connection, draining, stopper, stopping>>

\* The process ends when the main thread and the timer's thread have ended, but
\* not only when the threads of connections have.
Exit ==
  /\ main \in {"joining", "failed"} /\ stopper \in {"cancelled", "done"}
  /\ main' = "exited"
  /\ UNCHANGED <<connection, draining, stopper, stopping>>

-------------------------------------------------------------------------------
Handle(c) ==
  \/ Expire(c) \/ Vanish(c) \/ Malformed(c) \/ Body(c)
  \/ Get(c) \/ \E r \in Routes : Post(c, r)
  \/ Token(c) \/ WriteFails(c) \/ Return(c) \/ Reject(c) \/ Raise(c)
  \/ Answer(c) \/ Close(c)

Start == Listen \/ FailStart

Stop ==
  \/ LeaveLoop(FALSE) \/ Stopped \/ Exit
  \/ \E timeout \in BOOLEAN : Shutdown(timeout) \/ Drained(timeout)

Next ==
  \/ /\ Running
     /\ \E c \in Connections : Accept(c) \/ Refuse(c) \/ NoThread(c) \/ Handle(c)
  \/ Start \/ Fire \/ LeaveLoop(TRUE) \/ Stop

Spec == Init /\ [][Next]_vars

\* The announcement ends, the timer fires, and waits with a timeout end.  Nothing
\* is assumed of peers or of the model: a kernel may hang for ever.
FairSpec == Spec /\ WF_vars(Start) /\ WF_vars(Fire) /\ WF_vars(Stop)

-------------------------------------------------------------------------------
(* Properties                                                                 *)

\* The type invariant.
TypeOK ==
  /\ slots \in 0..MaxConnections
  /\ pc \in [Connections -> Stages]
  /\ route \in [Connections -> {"none"} \union Routes]
  /\ verdict \in [Connections -> {"none"} \union Statuses \union Terminal]
  /\ sent \in [Connections -> Seq(Parts)]
  /\ expired \subseteq Connections /\ called \subseteq Connections /\ active \subseteq Connections
  /\ draining \in BOOLEAN /\ stopping \in BOOLEAN
  /\ main \in {"starting", "serving", "failed", "draining", "joining", "exited"}
  /\ stopper \in {"armed", "draining", "waiting", "done", "cancelled"}

\* A connection gets one answer, wherever generate, the peer or the deadline cut
\* it off: a single status, or the headers of a stream, its tokens and at most
\* one closing event, with nothing after it.  Input that was given up is
\* answered as such and never reached the service.
OneAnswer ==
  \A c \in Connections :
    /\ \/ sent[c] = <<>>
       \/ Len(sent[c]) = 1 /\ sent[c][1] \in Statuses \union {"headers"}
       \/ /\ Len(sent[c]) > 1 /\ sent[c][1] = "headers"
          /\ \A i \in 2..Len(sent[c]) - 1 : sent[c][i] = "token"
          /\ sent[c][Len(sent[c])] \in {"token"} \union Terminal
    /\ c \in expired => c \notin called /\ sent[c] \in {<<>>, <<"408">>}

\* However a connection ends, its slot comes back exactly once: those that are
\* not free are those of the connections still open.
SlotsConserved ==
  slots = MaxConnections - Cardinality({c \in Connections : Open(c)})

\* A server that serves has a bounded life: though calls hang, and whether the
\* timer or an interrupt ends the loop, or the timer fired before it, the timer,
\* the loop and the main thread do not wait for one another for ever.
ServerStops == main = "serving" ~> ~Running

\* docs/distributed-cpu-lab.md:269 says it of every server that was started: it
\* announces itself, "then closes at its declared lifetime".
ClosesAtLifetime == <>~Running

===============================================================================
