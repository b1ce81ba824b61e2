-------------------------- MODULE RestServerProofs --------------------------
(***************************************************************************)
(* Proofs about RestServer for any finite set of clients, any number of    *)
(* threads and any number of requests: nothing runs in a destroyed         *)
(* server, and a client misses at most the answer to its last request.     *)
(***************************************************************************)
EXTENDS RestServer, FiniteSetTheorems, TLAPS

LEMMA InitIInv == Init => IInv
<1> SUFFICES ASSUME Init PROVE IInv
  OBVIOUS
<1>1. TypeOK
  BY SizesAssumption DEF Init, TypeOK, Life, Sessions
<1>2. TurnsInv
  BY DEF Init, TurnsInv
<1>3. ThreadsInv
  <2>1. Handling = {}
    BY DEF Init, Handling
  <2>2. Cardinality(Handling) = 0
    BY <2>1, FS_EmptySet
  <2>3. QED
    BY <2>2 DEF Init, ThreadsInv
<1>4. QED
  BY <1>1, <1>2, <1>3 DEF IInv

\* Counting the functions that run.
LEMMA HandlingFinite == IsFiniteSet(Handling) /\ Cardinality(Handling) \in Nat
<1>1. Handling \in SUBSET Clients
  BY DEF Handling
<1>2. QED
  BY <1>1, SizesAssumption, FS_Subset, FS_CardinalityType

LEMMA NoMoreHandling ==
  ASSUME Handling' \subseteq Handling
  PROVE  Cardinality(Handling') \in Nat /\ Cardinality(Handling') <= Cardinality(Handling)
BY HandlingFinite, FS_Subset, FS_CardinalityType

\* While a thread is free a function is not running on every thread.
LEMMA FreeIsInside ==
  ASSUME TypeOK, ThreadFree
  PROVE  /\ inside \in 1..MaxThreads
         /\ Cardinality(Handling) + 1 <= inside
         /\ server \in {"constructing", "listening", "serving", "flagged"}
  BY HandlingFinite, SizesAssumption DEF ThreadFree, TypeOK, Running

LEMMA StepTypeOK == IInv /\ [Next]_vars => TypeOK'
<1> SUFFICES ASSUME IInv, [Next]_vars PROVE TypeOK'
  OBVIOUS
<1> USE SizesAssumption DEF Life, Sessions, threads, counts, Goto
<1>1. TypeOK /\ ThreadsInv /\ TurnsInv
  BY DEF IInv
<1>2. CASE Main \/ Stop \/ BindFails
  BY <1>1, <1>2 DEF TypeOK, Main, Listen, Start, StopContext, Destroy, DestroyWhen, Stop,
     BindFails
<1>3. CASE Worker
  BY <1>1, <1>3, HandlingFinite DEF TypeOK, Worker, EnterRun, ThreadEnds, RunReturns
<1>4. CASE AcceptFails
  BY <1>1, <1>4 DEF TypeOK, AcceptFails
<1>5. ASSUME NEW c \in Clients, Client(c) \/ Expire(c) PROVE TypeOK'
  <2>1. CASE SendRequest(c)
    BY <1>1, <2>1 DEF TypeOK, SendRequest
  <2>2. CASE Connect(c) \/ HangUp(c) \/ Expire(c)
    BY <1>1, <2>2 DEF TypeOK, Connect, HangUp, Expire
  <2>3. QED
    BY <1>5, <2>1, <2>2 DEF Client
<1>6. ASSUME NEW c \in Clients, Session(c) \/ CloseThrows(c) PROVE TypeOK'
  <2>1. CASE \/ Accept(c) \/ Handshake(c) \/ ReadEnds(c) \/ TimesOut(c)
             \/ Respond(c) \/ WriteFails(c)
    BY <1>1, <2>1 DEF TypeOK, Accept, Handshake, ReadEnds, TimesOut, Respond, WriteFails
  <2>2. CASE ReadRequest(c)
    <3>1. handled[c] + 1 \in 0..MaxRequests
      BY <1>1, <2>2 DEF TypeOK, TurnsInv, ReadRequest
    <3>2. QED
      BY <1>1, <2>2, <3>1 DEF TypeOK, ReadRequest
  <2>3. CASE Written(c) \/ CloseThrows(c)
    <3>1. conn[c] = "writing" => answered[c] + 1 \in 0..MaxRequests
      BY <1>1 DEF TypeOK, TurnsInv
    <3>2. CASE Written(c)
      BY <1>1, <3>1, <3>2 DEF TypeOK, Written
    <3>3. CASE CloseThrows(c)
      <4>1. inside \in 1..MaxThreads
        BY <1>1, <3>3, FreeIsInside DEF CloseThrows
      <4>2. answered' \in [Clients -> 0..MaxRequests]
        BY <1>1, <3>1, <3>3 DEF TypeOK, CloseThrows
      <4>3. /\ inside' \in 0..MaxThreads /\ outside' \in 0..MaxThreads
            /\ outside' + inside' <= MaxThreads
        BY <1>1, <3>3, <4>1 DEF TypeOK, CloseThrows, ThrowOutOfRun
      <4>4. conn' \in [Clients -> Sessions]
        BY <1>1, <3>3 DEF TypeOK, CloseThrows
      <4>5. UNCHANGED <<server, acceptor, arrived, overdue, sent, handled>>
        BY <3>3 DEF CloseThrows
      <4>6. QED
        BY <1>1, <4>2, <4>3, <4>4, <4>5 DEF TypeOK
    <3>4. QED
      BY <2>3, <3>2, <3>3
  <2>4. QED
    BY <1>6, <2>1, <2>2, <2>3 DEF Session
<1>7. CASE Ended \/ UNCHANGED vars
  BY <1>1, <1>7 DEF TypeOK, Ended, vars
<1>8. QED
  BY <1>2, <1>3, <1>4, <1>5, <1>6, <1>7 DEF Next

\* Only ReadRequest starts a function, and only on a thread that is free.
LEMMA StepThreads == IInv /\ [Next]_vars => ThreadsInv'
<1> SUFFICES ASSUME IInv, [Next]_vars PROVE ThreadsInv'
  OBVIOUS
<1> USE SizesAssumption, HandlingFinite DEF threads, counts, Goto
<1>1. TypeOK /\ ThreadsInv
  BY DEF IInv
<1>2. outside \in Nat /\ inside \in Nat /\ conn \in [Clients -> Sessions]
  BY <1>1 DEF TypeOK
\* Most steps are of a live server and start nothing.
<1>3. ASSUME Handling' \subseteq Handling, UNCHANGED <<outside, inside>>,
             server' = server \/ /\ server # "aborted"
                                 /\ server' \in {"listening", "serving", "flagged", "stopped"},
             server' \in {"constructing", "aborted"} => \A c \in Clients : conn'[c] = "none"
      PROVE  ThreadsInv'
  <2>1. Cardinality(Handling') \in Nat /\ Cardinality(Handling') <= Cardinality(Handling)
    BY <1>3, NoMoreHandling
  <2>2. server' = "aborted" \/ server # "aborted"
    BY <1>3
  <2>3. server' # "aborted" => Cardinality(Handling') <= inside'
    BY <1>1, <1>2, <1>3, <2>1, <2>2 DEF ThreadsInv
  <2>4. server' = "destroyed" => outside' + inside' = 0
    BY <1>1, <1>3 DEF ThreadsInv
  <2>5. QED
    BY <1>3, <2>3, <2>4 DEF ThreadsInv
<1>4. CASE UNCHANGED vars \/ Ended
  BY <1>1, <1>3, <1>4 DEF Ended, vars, Handling, ThreadsInv
<1>5. CASE Listen \/ Start \/ Stop \/ StopContext \/ AcceptFails
  BY <1>1, <1>3, <1>5 DEF Listen, Start, Stop, StopContext, AcceptFails, Handling, ThreadsInv
<1>6. CASE BindFails
  BY <1>1, <1>6 DEF BindFails, ThreadsInv
<1>7. CASE Destroy
  <2>1. outside + inside = 0 /\ server = "stopped"
    BY <1>7 DEF Destroy, DestroyWhen, Joined
  <2>2. server' = "destroyed" /\ UNCHANGED <<outside, inside>>
    BY <1>7 DEF Destroy, DestroyWhen
  <2>3. Handling' \subseteq Handling
    BY <1>7 DEF Destroy, DestroyWhen, Handling
  <2>4. Cardinality(Handling') <= Cardinality(Handling) /\ Cardinality(Handling') \in Nat
    BY <2>3, NoMoreHandling
  <2>5. QED
    BY <1>1, <1>2, <2>1, <2>2, <2>4 DEF ThreadsInv
<1>8. CASE Worker
  <2>1. Handling' = Handling /\ UNCHANGED <<server, conn>>
    BY <1>8 DEF Worker, EnterRun, ThreadEnds, RunReturns, Handling
  <2>2. server # "destroyed" /\ Cardinality(Handling') <= inside'
    BY <1>1, <1>2, <1>8, <2>1
    DEF Worker, EnterRun, ThreadEnds, RunReturns, ContextStopped, ThreadsInv
  <2>3. QED
    BY <1>1, <2>1, <2>2 DEF ThreadsInv
<1>9. ASSUME NEW c \in Clients, Client(c) \/ Expire(c) PROVE ThreadsInv'
  <2>1. CASE Connect(c)
    BY <1>2, <1>3, <2>1 DEF Connect, Handling
  <2>2. CASE SendRequest(c) \/ HangUp(c) \/ Expire(c)
    BY <1>1, <1>3, <2>2 DEF SendRequest, HangUp, Expire, Handling, ThreadsInv
  <2>3. QED
    BY <1>9, <2>1, <2>2 DEF Client
<1>10. ASSUME NEW c \in Clients, Session(c) \/ CloseThrows(c) PROVE ThreadsInv'
  <2>1. conn[c] # "none" /\ UNCHANGED server
    BY <1>10 DEF Session, CloseThrows, Accept, Handshake, ReadRequest, ReadEnds, TimesOut,
       Respond, Written, WriteFails
  <2>2. server \notin {"constructing", "aborted"}
    BY <1>1, <2>1 DEF ThreadsInv
  <2>3. CASE \/ Accept(c) \/ Handshake(c) \/ ReadEnds(c) \/ TimesOut(c)
             \/ Respond(c) \/ Written(c) \/ WriteFails(c)
    <3>1. Handling' \subseteq Handling
      BY <1>2, <2>3 DEF Accept, Handshake, ReadEnds, TimesOut, Respond, Written, WriteFails,
         Handling
    <3>2. UNCHANGED <<outside, inside>>
      BY <2>3 DEF Accept, Handshake, ReadEnds, TimesOut, Respond, Written, WriteFails
    <3>3. QED
      BY <1>3, <2>1, <2>2, <3>1, <3>2
  <2>4. CASE ReadRequest(c)
    <3>1. Handling' = Handling \cup {c} /\ UNCHANGED <<outside, inside>>
      BY <1>2, <2>4 DEF ReadRequest, Handling
    <3>2. Cardinality(Handling') <= Cardinality(Handling) + 1
      <4>1. Cardinality(Handling') = IF c \in Handling THEN Cardinality(Handling)
                                     ELSE Cardinality(Handling) + 1
        BY <3>1, FS_AddElement
      <4>2. QED
        BY <4>1
    <3>3. Cardinality(Handling) + 1 <= inside /\ server # "destroyed"
      BY <1>1, <2>4, FreeIsInside DEF ReadRequest
    <3>4. Cardinality(Handling') \in Nat
      BY <3>1, FS_AddElement, FS_CardinalityType
    <3>5. QED
      BY <1>2, <2>1, <2>2, <3>1, <3>2, <3>3, <3>4 DEF ThreadsInv
  <2>5. CASE CloseThrows(c)
    <3>1. Handling' \subseteq Handling
      BY <1>2, <2>5 DEF CloseThrows, Handling
    <3>2. Cardinality(Handling) + 1 <= inside /\ server # "destroyed"
      BY <1>1, <2>5, FreeIsInside DEF CloseThrows
    <3>3. inside' = inside - 1
      BY <2>5 DEF CloseThrows, ThrowOutOfRun
    <3>4. Cardinality(Handling') <= Cardinality(Handling) /\ Cardinality(Handling') \in Nat
      BY <3>1, NoMoreHandling
    <3>5. QED
      BY <1>2, <2>1, <2>2, <3>2, <3>3, <3>4 DEF ThreadsInv
  <2>6. QED
    BY <1>10, <2>3, <2>4, <2>5 DEF Session
<1>11. QED
  BY <1>4, <1>5, <1>6, <1>7, <1>8, <1>9, <1>10 DEF Next, Main

\* A client sends after the answer, the session reads after it.
LEMMA StepTurns == IInv /\ [Next]_vars => TurnsInv'
<1> SUFFICES ASSUME IInv, [Next]_vars PROVE TurnsInv'
  OBVIOUS
<1> USE SizesAssumption DEF threads, counts, Goto
<1>1. TypeOK /\ TurnsInv
  BY DEF IInv
<1>2. CASE UNCHANGED <<conn, arrived, counts>>
  BY <1>1, <1>2 DEF TurnsInv
<1>3. CASE Destroy
  BY <1>1, <1>3 DEF Destroy, DestroyWhen, TurnsInv, TypeOK
<1>4. ASSUME NEW c \in Clients, Client(c) PROVE TurnsInv'
  <2>1. CASE Connect(c)
    BY <1>1, <2>1 DEF Connect, TurnsInv, TypeOK
  <2>2. CASE SendRequest(c)
    BY <1>1, <2>2 DEF SendRequest, TurnsInv, TypeOK
  <2>3. CASE HangUp(c)
    BY <1>1, <2>3 DEF HangUp, TurnsInv, TypeOK
  <2>4. QED
    BY <1>4, <2>1, <2>2, <2>3 DEF Client
<1>5. ASSUME NEW c \in Clients, Session(c) \/ CloseThrows(c) PROVE TurnsInv'
  <2>1. CASE \/ Accept(c) \/ Handshake(c) \/ ReadEnds(c) \/ TimesOut(c)
             \/ Respond(c) \/ WriteFails(c)
    BY <1>1, <2>1 DEF Accept, Handshake, ReadEnds, TimesOut, Respond, WriteFails, TurnsInv,
       TypeOK
  <2>2. CASE ReadRequest(c)
    BY <1>1, <2>2 DEF ReadRequest, TurnsInv, TypeOK
  <2>3. CASE Written(c)
    BY <1>1, <2>3 DEF Written, TurnsInv, TypeOK
  <2>4. CASE CloseThrows(c)
    BY <1>1, <2>4 DEF CloseThrows, TurnsInv, TypeOK
  <2>5. QED
    BY <1>5, <2>1, <2>2, <2>3, <2>4 DEF Session
<1>6. QED
  BY <1>2, <1>3, <1>4, <1>5
  DEF Next, Main, Listen, Start, StopContext, BindFails, Stop, Worker, EnterRun, ThreadEnds,
      RunReturns, AcceptFails, Ended, Expire, vars

THEOREM Invariance == Spec => []IInv
<1>1. Init => IInv
  BY InitIInv
<1>2. IInv /\ [Next]_vars => IInv'
  BY StepTypeOK, StepThreads, StepTurns DEF IInv
<1>3. QED
  BY <1>1, <1>2, PTL DEF Spec

\* ~RestServer returns only after the last function has, for any number of
\* threads; exceptions that leave handlers lose no thread on the way.
THEOREM Quiet == Spec => []QuietWhenDestroyed
<1>1. IInv => QuietWhenDestroyed
  <2> SUFFICES ASSUME IInv, server = "destroyed"
               PROVE  Handling = {} /\ outside + inside = 0
    BY DEF QuietWhenDestroyed
  <2>1. outside + inside = 0 /\ Cardinality(Handling) <= inside
    BY DEF IInv, ThreadsInv
  <2>2. outside \in Nat /\ inside \in Nat
    BY SizesAssumption DEF IInv, TypeOK
  <2>3. Cardinality(Handling) = 0
    BY <2>1, <2>2, HandlingFinite
  <2>4. QED
    BY <2>1, <2>3, HandlingFinite, FS_EmptySet
<1>2. QED
  BY <1>1, Invariance, PTL

\* Of a client's requests only the last may have been handled without an
\* answer, whatever timeouts, resets and exceptions there were.
THEOREM LastOnly == Spec => []OnlyLastUnanswered
<1>1. IInv => OnlyLastUnanswered
  BY SizesAssumption DEF IInv, TypeOK, TurnsInv, OnlyLastUnanswered, Sessions
<1>2. QED
  BY <1>1, Invariance, PTL

\* There are never more threads than were started.
THEOREM Typed == Spec => []TypeOK
<1>1. IInv => TypeOK
  BY DEF IInv
<1>2. QED
  BY <1>1, Invariance, PTL
=============================================================================
