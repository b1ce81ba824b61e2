----------------------------- MODULE ModCatalog -----------------------------
(***************************************************************************)
(* What the mod service promises to its clients, with no transaction, row  *)
(* lock, section or thread in sight: a catalogue of published mods in      *)
(* which every name has at most one live mod.  A request publishes its mod *)
(* in one step, which retires the live mod of the same name, and is        *)
(* answered afterwards.  An answer may get lost, or be given by a server   *)
(* that is itself in doubt whether it has published.  ModStore implements  *)
(* this.                                                                   *)
(***************************************************************************)
EXTENDS Naturals

CONSTANTS Requests,   \* the upload requests; a retry is a request of its own
          NameOf,     \* the name of the mod a request carries
          VersionOf,  \* and its version
          MaxId       \* the largest id the store can give

VARIABLES published,  \* the mods ever published: [id, name, version, by]
          live,       \* the ids of those that are current for their name
          inDoubt,    \* published requests of which the server does not know it
          answer      \* what the client of a request has been told

vars == <<published, live, inDoubt, answer>>

Answers == {"none", "ok", "error", "lost"}

Init ==
  /\ published = {}
  /\ live = {}
  /\ inDoubt = {}
  /\ answer = [q \in Requests |-> "none"]

IdsNamed(name) == {r.id : r \in {x \in published : x.name = name}}

\* A published mod gets an id above every earlier one and takes the place of
\* the live mod of its name; word of that may not reach the server.
Publish(q) ==
  /\ answer[q] = "none"
  /\ \A r \in published : r.by # q
  /\ \E id \in 1..MaxId :
       /\ \A r \in published : r.id < id
       /\ published' = published \cup
            {[id |-> id, name |-> NameOf[q], version |-> VersionOf[q], by |-> q]}
       /\ live' = (live \ IdsNamed(NameOf[q])) \cup {id}
  /\ inDoubt' \in {inDoubt, inDoubt \cup {q}}
  /\ UNCHANGED answer

\* "ok" is only said of a published mod, "error" only of one that is not, or
\* that the server is in doubt about.
Tell(q) ==
  /\ answer[q] = "none"
  /\ \/ /\ \E r \in published : r.by = q
        /\ answer' = [answer EXCEPT ![q] = "ok"]
     \/ /\ q \in inDoubt \/ \A r \in published : r.by # q
        /\ answer' = [answer EXCEPT ![q] = "error"]
  /\ UNCHANGED <<published, live, inDoubt>>

\* The answers of some requests get lost, all at once when the server dies.
Lose ==
  /\ \E Q \in SUBSET {q \in Requests : answer[q] = "none"} :
       answer' = [q \in Requests |-> IF q \in Q THEN "lost" ELSE answer[q]]
  /\ UNCHANGED <<published, live, inDoubt>>

Next == (\E q \in Requests : Publish(q) \/ Tell(q)) \/ Lose

Spec == Init /\ [][Next]_vars
-----------------------------------------------------------------------------
=============================================================================
