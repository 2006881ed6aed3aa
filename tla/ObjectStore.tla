----------------------------- MODULE ObjectStore -----------------------------
(***************************************************************************)
(* What the rest of the system relies on for one storage key, whichever    *)
(* backend holds it: a write, a move and a delete take effect at once and  *)
(* entirely, or not at all, and a read answers what is there at one        *)
(* moment, however long it takes to answer.  Any number of callers may     *)
(* have operations under way; each takes effect at most once.              *)
(***************************************************************************)
EXTENDS Contents

CONSTANT Client

VARIABLES
  object,   \* what a reader of the key gets
  held,     \* every content the key has had
  asked,    \* what each client has asked for and has not seen take effect
  answer    \* what each client is being answered

Nothing == [op |-> "none", data |-> None]
Requests == [op : {"write"}, data : Content] \cup [op : {"delete", "read"}, data : {None}]

ObjectTypeOK ==
  /\ object \in Maybe
  /\ held \subseteq Content
  /\ asked \in [Client -> Requests \cup {Nothing}]
  /\ answer \in [Client -> Maybe]

ObjectInit ==
  /\ object \in Maybe
  /\ held = {object} \ {None}
  /\ asked = [c \in Client |-> Nothing]
  /\ answer = [c \in Client |-> None]

Ask(c) ==
  /\ asked[c] = Nothing
  /\ \E r \in Requests : asked' = [asked EXCEPT ![c] = r]
  /\ UNCHANGED <<object, held, answer>>

Written(c) ==
  /\ asked[c].op = "write"
  /\ object' = asked[c].data
  /\ held' = held \cup {asked[c].data}
  /\ asked' = [asked EXCEPT ![c] = Nothing] /\ UNCHANGED answer

\* A delete may bring back what stood under the key before it was written anew.
Deleted(c) ==
  /\ asked[c].op = "delete"
  /\ object' \in held \cup {None}
  /\ UNCHANGED <<held, answer>>
  /\ asked' = [asked EXCEPT ![c] = Nothing]

Read(c) ==
  /\ asked[c].op = "read"
  /\ answer' = [answer EXCEPT ![c] = object]
  /\ asked' = [asked EXCEPT ![c] = Nothing] /\ UNCHANGED <<object, held>>
\* The answer has been given, or the reader has gone.
Answered(c) == answer' = [answer EXCEPT ![c] = None] /\ UNCHANGED <<object, held, asked>>

\* An operation that is refused, or that fails before it takes effect.
Refused(c) ==
  /\ asked[c] # Nothing
  /\ asked' = [asked EXCEPT ![c] = Nothing]
  /\ UNCHANGED <<object, held, answer>>

ObjectNext ==
  \E c \in Client : Ask(c) \/ Written(c) \/ Deleted(c) \/ Read(c) \/ Answered(c) \/ Refused(c)

ObjectSpec == ObjectInit /\ [][ObjectNext]_<<object, held, asked, answer>>
=============================================================================
