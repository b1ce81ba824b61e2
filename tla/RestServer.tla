----------------------------- MODULE RestServer -----------------------------
(***************************************************************************)
(* net::RestServer (src/RestServer.cpp) as src/Main.cpp runs it, without   *)
(* TLS: an acceptor, one session per connection, and a fixed number of     *)
(* threads that execute all handlers of one io_context.                    *)
(*                                                                         *)
(* handle_request calls the function of an endpoint synchronously, so a    *)
(* thread is busy until that function returns, and while all threads are,  *)
(* nothing else happens: no accept, no read, not even a timeout.  The      *)
(* session's deadline is set once, in do_handshake, and never again.       *)
(*                                                                         *)
(* External: a completion handler runs on a thread inside io_context::run; *)
(* an operation on a stream whose deadline has passed fails with a         *)
(* timeout, unless its own completion is there first.                      *)
(*                                                                         *)
(* Where a definition has siblings just above it under other names         *)
(* (TimeoutIgnored above TimesOut, ...), those are wrong codings of it     *)
(* that no behaviour uses and that some property below tells apart.        *)
(***************************************************************************)
EXTENDS Naturals, FiniteSets

CONSTANTS Clients,      \* each makes one connection
          MaxThreads,   \* the size of RestServerImpl::threads
          MaxRequests   \* requests of a connection after which counting starts over

ASSUME SizesAssumption ==
  MaxThreads \in Nat /\ MaxRequests \in Nat \ {0} /\ IsFiniteSet(Clients)

VARIABLES
  server,    \* the life of the RestServer object, as main drives it
  acceptor,  \* async_accept: not started, pending, or given up
  outside,   \* threads in workFunc's loop, not inside io_context::run
  inside,    \* threads inside io_context::run, those in a handler included
  conn,      \* the session of each client's connection
  arrived,   \* what the client has sent or done that is not read yet
  overdue,   \* sessions whose deadline has passed
  sent,      \* requests each client has sent since counting started
  handled,   \* requests of it that handle_request was called with
  answered   \* responses that were written to it

vars == <<server, acceptor, outside, inside, conn, arrived, overdue, sent,
          handled, answered>>
threads == <<outside, inside>>
counts == <<sent, handled, answered>>

Life == {"constructing", "listening", "serving", "flagged", "stopped",
         "destroyed", "aborted"}
Sessions == {"none", "pending", "handshake", "reading", "handling", "writing", "closed"}

Init ==
  /\ server = "constructing"
  /\ acceptor = "idle"
  /\ outside = MaxThreads
  /\ inside = 0
  /\ conn = [c \in Clients |-> "none"]
  /\ arrived = [c \in Clients |-> "nothing"]
  /\ overdue = {}
  /\ sent = [c \in Clients |-> 0]
  /\ handled = [c \in Clients |-> 0]
  /\ answered = [c \in Clients |-> 0]

Goto(c, label) == conn' = [conn EXCEPT ![c] = label]

Up == server \in {"constructing", "listening", "serving", "flagged", "stopped"}
Running == server \in {"constructing", "listening", "serving", "flagged"}

Handling == {c \in Clients : conn[c] = "handling"}

\* A thread inside run that is not in an endpoint's function takes the next
\* completion handler, until io_context::stop.
ThreadFree == Running /\ Cardinality(Handling) < inside

(***************************************************************************)
(* main                                                                    *)
(***************************************************************************)

\* The threads run before the constructor binds and listens.
Listen ==
  /\ server = "constructing"
  /\ server' = "listening"
  /\ UNCHANGED <<acceptor, threads, conn, arrived, overdue, counts>>

\* bind or listen throws: the vector of joinable threads is destroyed, which is
\* std::terminate.
BindFails ==
  /\ server = "constructing"
  /\ server' = "aborted"
  /\ outside' = 0
  /\ inside' = 0
  /\ UNCHANGED <<acceptor, conn, arrived, overdue, counts>>

\* RestServer::start.
Start ==
  /\ server = "listening"
  /\ server' = "serving"
  /\ acceptor' = "armed"
  /\ UNCHANGED <<threads, conn, arrived, overdue, counts>>

\* SIGTERM ends main's loop and ~RestServer calls stop: first the flag ...
Stop ==
  /\ server = "serving"
  /\ server' = "flagged"
  /\ UNCHANGED <<acceptor, threads, conn, arrived, overdue, counts>>

\* ... then the work guard and the io_context.
ReleaseWork ==
  /\ server = "flagged"
  /\ server' = IF acceptor = "armed" \/ \E c \in Clients : conn[c] = "reading"
               THEN "flagged" ELSE "stopped"
  /\ UNCHANGED <<acceptor, threads, conn, arrived, overdue, counts>>
StopContext ==
  /\ server = "flagged"
  /\ server' = "stopped"
  /\ UNCHANGED <<acceptor, threads, conn, arrived, overdue, counts>>

\* join returns when the last thread has left workFunc, and the members are
\* destroyed, the sessions with the handlers that own them.
ContextStopped == server = "stopped"
Joined == server = "stopped" /\ outside + inside = 0
DestroyWhen(ready) ==
  /\ ready
  /\ server' = "destroyed"
  /\ conn' = [c \in Clients |->
               IF conn[c] \in {"none", "handling"} THEN conn[c] ELSE "closed"]
  /\ UNCHANGED <<acceptor, threads, arrived, overdue, counts>>
DestroyUnjoined == DestroyWhen(ContextStopped)
Destroy == DestroyWhen(Joined)

(***************************************************************************)
(* The threads: workFunc                                                   *)
(***************************************************************************)

\* The loop's condition, then io_context::run, which returns at once when the
\* context is stopped.
EnterRun ==
  /\ outside > 0
  /\ server \in {"constructing", "listening", "serving"}
  /\ outside' = outside - 1
  /\ inside' = inside + 1
  /\ UNCHANGED <<server, acceptor, conn, arrived, overdue, counts>>

\* A thread that sees shouldStop is done.
ThreadEnds ==
  /\ outside > 0
  /\ server \in {"flagged", "stopped"}
  /\ outside' = outside - 1
  /\ UNCHANGED <<server, acceptor, inside, conn, arrived, overdue, counts>>

\* run returns in a stopped context, once the handler it executes is done.
RunReturns ==
  /\ ContextStopped
  /\ Cardinality(Handling) < inside
  /\ inside' = inside - 1
  /\ outside' = outside + 1
  /\ UNCHANGED <<server, acceptor, conn, arrived, overdue, counts>>

\* An exception that leaves a handler leaves run, is printed, and the loop goes
\* on.
ThreadDies == inside' = inside - 1 /\ UNCHANGED outside
ThrowOutOfRun == inside' = inside - 1 /\ outside' = outside + 1

(***************************************************************************)
(* The clients and the clock                                               *)
(***************************************************************************)

\* The kernel completes a connection as soon as the acceptor listens.
Connect(c) ==
  /\ conn[c] = "none"
  /\ server \in {"listening", "serving", "flagged", "stopped"}
  /\ Goto(c, "pending")
  /\ UNCHANGED <<server, acceptor, threads, arrived, overdue, counts>>

Open(c) == conn[c] \in {"pending", "handshake", "reading", "handling", "writing"}

\* One request at a time: it waits for the response to the one before.  A
\* connection carries any number of them: at MaxRequests all three counters
\* agree and begin anew.
SendRequest(c) ==
  /\ Open(c)
  /\ arrived[c] = "nothing"
  /\ sent[c] = answered[c]
  /\ \/ /\ sent[c] < MaxRequests
        /\ sent' = [sent EXCEPT ![c] = @ + 1]
        /\ UNCHANGED <<handled, answered>>
     \/ /\ sent[c] = MaxRequests
        /\ sent' = [sent EXCEPT ![c] = 1]
        /\ handled' = [handled EXCEPT ![c] = 0]
        /\ answered' = [answered EXCEPT ![c] = 0]
  /\ arrived' = [arrived EXCEPT ![c] = "request"]
  /\ UNCHANGED <<server, acceptor, threads, conn, overdue>>

\* The client closes its side, or the connection breaks.
HangUp(c) ==
  /\ Open(c)
  /\ \/ arrived[c] = "nothing" /\ arrived' = [arrived EXCEPT ![c] = "eof"]
     \/ arrived[c] # "reset" /\ arrived' = [arrived EXCEPT ![c] = "reset"]
  /\ UNCHANGED <<server, acceptor, threads, conn, overdue, counts>>

\* Thirty seconds after the handshake.
Expire(c) ==
  /\ conn[c] \in {"reading", "handling", "writing"}
  /\ c \notin overdue
  /\ Up
  /\ overdue' = overdue \cup {c}
  /\ UNCHANGED <<server, acceptor, threads, conn, arrived, counts>>

(***************************************************************************)
(* The handlers                                                            *)
(***************************************************************************)

\* handle_accept makes the session and calls do_accept again ...
Accept(c) ==
  /\ ThreadFree
  /\ acceptor = "armed"
  /\ conn[c] = "pending"
  /\ Goto(c, "handshake")
  /\ UNCHANGED <<server, acceptor, threads, arrived, overdue, counts>>

\* ... but not after an error, such as having no file descriptor left.
AcceptFails ==
  /\ ThreadFree
  /\ acceptor = "armed"
  /\ acceptor' = "deaf"
  /\ UNCHANGED <<server, threads, conn, arrived, overdue, counts>>

\* do_handshake sets the deadline, handle_handshake calls do_read.
Handshake(c) ==
  /\ ThreadFree
  /\ conn[c] = "handshake"
  /\ Goto(c, "reading")
  /\ UNCHANGED <<server, acceptor, threads, arrived, overdue, counts>>

\* handle_read with a request, and handle_request up to the endpoint's function.
ReadAgain(c) ==
  /\ ThreadFree
  /\ conn[c] = "reading"
  /\ arrived[c] = "request"
  /\ handled' = [handled EXCEPT ![c] = @ + 1]
  /\ Goto(c, "handling")
  /\ UNCHANGED <<server, acceptor, threads, arrived, overdue, sent, answered>>
ReadRequest(c) ==
  /\ ThreadFree
  /\ conn[c] = "reading"
  /\ arrived[c] = "request"
  /\ arrived' = [arrived EXCEPT ![c] = "nothing"]
  /\ handled' = [handled EXCEPT ![c] = @ + 1]
  /\ Goto(c, "handling")
  /\ UNCHANGED <<server, acceptor, threads, overdue, sent, answered>>

\* handle_read after end_of_stream calls do_close; after another error it just
\* returns.  Either way the last reference to the session is gone.
ReadEnds(c) ==
  /\ ThreadFree
  /\ conn[c] = "reading"
  /\ arrived[c] \in {"eof", "reset"}
  /\ Goto(c, "closed")
  /\ UNCHANGED <<server, acceptor, threads, arrived, overdue, counts>>

\* The throwing overload of shutdown in do_close finds the peer gone.
CloseThrows(c) ==
  /\ ThreadFree
  /\ \/ conn[c] = "reading" /\ arrived[c] = "eof" /\ UNCHANGED answered
     \/ conn[c] = "writing" /\ arrived[c] # "reset"
        /\ answered' = [answered EXCEPT ![c] = @ + 1]
  /\ Goto(c, "closed")
  /\ ThrowOutOfRun
  /\ UNCHANGED <<server, acceptor, arrived, overdue, sent, handled>>

\* The read or the write ends with beast::error::timeout, and its handler
\* returns without another operation.
TimeoutIgnored(c) ==
  /\ ThreadFree
  /\ conn[c] \in {"reading", "writing"}
  /\ c \in overdue
  /\ Goto(c, "reading")
  /\ UNCHANGED <<server, acceptor, threads, arrived, overdue, counts>>
TimesOut(c) ==
  /\ ThreadFree
  /\ conn[c] \in {"reading", "writing"}
  /\ c \in overdue
  /\ Goto(c, "closed")
  /\ UNCHANGED <<server, acceptor, threads, arrived, overdue, counts>>

\* The function returns or throws; whatever it throws becomes a response.
Respond(c) ==
  /\ Up
  /\ conn[c] = "handling"
  /\ Goto(c, "writing")
  /\ UNCHANGED <<server, acceptor, threads, arrived, overdue, counts>>

\* handle_send: the response is out, and the session reads on unless the
\* request asked for the connection to be closed.
Written(c) ==
  /\ ThreadFree
  /\ conn[c] = "writing"
  /\ arrived[c] # "reset"
  /\ answered' = [answered EXCEPT ![c] = @ + 1]
  /\ Goto(c, "reading") \/ Goto(c, "closed")
  /\ UNCHANGED <<server, acceptor, threads, arrived, overdue, sent, handled>>

\* The client is gone.
WriteFails(c) ==
  /\ ThreadFree
  /\ conn[c] = "writing"
  /\ arrived[c] = "reset"
  /\ Goto(c, "closed")
  /\ UNCHANGED <<server, acceptor, threads, arrived, overdue, counts>>

Main == Listen \/ Start \/ StopContext \/ Destroy
Worker == EnterRun \/ ThreadEnds \/ RunReturns
Session(c) ==
  \/ Accept(c) \/ Handshake(c) \/ ReadRequest(c) \/ ReadEnds(c) \/ TimesOut(c)
  \/ Respond(c) \/ Written(c) \/ WriteFails(c)
Client(c) == Connect(c) \/ SendRequest(c) \/ HangUp(c)

\* Nothing happens after the end of the object.
Ended == server \in {"destroyed", "aborted"} /\ UNCHANGED vars

Next ==
  \/ Main \/ BindFails \/ Stop \/ Worker \/ AcceptFails \/ Ended
  \/ \E c \in Clients : Session(c) \/ CloseThrows(c) \/ Client(c) \/ Expire(c)

Spec == Init /\ [][Next]_vars

\* main, the threads and the endpoints' functions go on, and time passes.
\* Completed operations wait in the context's queue, first in, first out: a
\* session that is ready again and again has its turn, however often another
\* one's function takes the thread.
Fairness ==
  /\ WF_vars(Main)
  /\ WF_vars(Worker)
  /\ \A c \in Clients : SF_vars(Session(c)) /\ WF_vars(Expire(c))

LiveSpec == Spec /\ Fairness
-----------------------------------------------------------------------------
\* Every variable keeps its type; there are never more threads than were
\* started, nor more functions running than threads.
TypeOK ==
  /\ server \in Life
  /\ acceptor \in {"idle", "armed", "deaf"}
  /\ outside \in 0..MaxThreads /\ inside \in 0..MaxThreads
  /\ outside + inside <= MaxThreads
  /\ conn \in [Clients -> Sessions]
  /\ arrived \in [Clients -> {"nothing", "request", "eof", "reset"}]
  /\ overdue \subseteq Clients
  /\ sent \in [Clients -> 0..MaxRequests]
  /\ handled \in [Clients -> 0..MaxRequests]
  /\ answered \in [Clients -> 0..MaxRequests]

\* Once the object is destroyed no function of an endpoint is running and no
\* thread is left that could call one.
QuietWhenDestroyed ==
  server = "destroyed" => Handling = {} /\ outside + inside = 0

\* What a client is not told: of all its requests at most the last one was
\* handled without an answer, and only if its session is over or still busy
\* with it.  So a client that is answered knows all earlier ones were, too.
OnlyLastUnanswered ==
  \A c \in Clients :
    /\ answered[c] <= handled[c] /\ handled[c] <= answered[c] + 1
    /\ handled[c] # answered[c] => conn[c] \in {"handling", "writing", "closed"}

\* A connected client is accepted, unless the acceptor once had an error or the
\* server is stopped.
ClientsAccepted ==
  \A c \in Clients :
    conn[c] = "pending" ~>
      conn[c] # "pending" \/ acceptor = "deaf" \/ server \in {"stopped", "destroyed"}

\* A session that waits for a request is closed unless one comes: by the
\* deadline, although nothing sets that again after the handshake, and although
\* the threads may be lost to functions and exceptions of other sessions.  A
\* client that always has the next request ready may keep its session for
\* ever, as its reads can end before the timeout does.
SilentSessionsEnd ==
  \A c \in Clients :
    conn[c] = "reading" ~> conn[c] = "closed" \/ arrived[c] = "request"

\* Destroying the server ends, whatever clients are connected and whatever
\* functions are running.
StopEnds == server = "flagged" ~> server = "destroyed"
-----------------------------------------------------------------------------
(***************************************************************************)
(* The inductive invariant behind the three invariants above.              *)
(***************************************************************************)

\* Every function of an endpoint that runs has a thread of its own, so the last
\* thread that leaves, leaves none behind; no client comes before the listening.
ThreadsInv ==
  /\ server # "aborted" => Cardinality(Handling) <= inside
  /\ server \in {"constructing", "aborted"} => \A c \in Clients : conn[c] = "none"
  /\ server = "destroyed" => outside + inside = 0

\* The session and the client take turns.
TurnsInv ==
  \A c \in Clients :
    /\ answered[c] <= handled[c] /\ handled[c] <= sent[c] /\ sent[c] <= answered[c] + 1
    /\ arrived[c] = "request" => handled[c] < sent[c]
    /\ conn[c] \in {"handling", "writing"} => handled[c] = answered[c] + 1
    /\ conn[c] \in {"none", "pending", "handshake", "reading"} => handled[c] = answered[c]

IInv == TypeOK /\ ThreadsInv /\ TurnsInv
=============================================================================
