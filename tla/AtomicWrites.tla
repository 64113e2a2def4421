---------------------------- MODULE AtomicWrites ----------------------------
(***************************************************************************)
(* What the mutating tools promise: the whole change of a call happens in  *)
(* one step or never, only where it is allowed, and the verdict its caller *)
(* hears agrees with it.  A verdict of "inDoubt" leaves the change open;   *)
(* after any other verdict nothing more happens.                           *)
(***************************************************************************)
CONSTANTS Calls, Objects

VARIABLES
  wants,    \* what each call would do to the objects, and whether it may
  present,  \* the objects that exist
  changed,  \* the calls that have taken effect
  verdict   \* what each caller has been told

WantsType == [adds : SUBSET Objects, removes : SUBSET Objects,
              alters : SUBSET Objects, allowed : BOOLEAN, mayMiss : BOOLEAN]
Verdicts == {"open", "executed", "failed", "inDoubt", "read"}

vars == <<wants, present, changed, verdict>>

Init == /\ wants \in [Calls -> WantsType]
        /\ present \in SUBSET Objects
        /\ changed = {}
        /\ verdict = [c \in Calls |-> "open"]

\* The change as a whole.
Change(c) ==
  /\ c \notin changed
  /\ verdict[c] \in {"open", "inDoubt"}
  /\ wants[c].allowed
  /\ wants[c].adds \cap present = {}
  /\ wants[c].alters \cup wants[c].removes \subseteq present
  /\ present' = (present \cup wants[c].adds) \ wants[c].removes
  /\ changed' = changed \cup {c}
  /\ UNCHANGED <<wants, verdict>>

Tell(c, v) ==
  /\ verdict[c] = "open"
  /\ v = "executed" => c \in changed \/ wants[c].mayMiss
  /\ v \in {"failed", "read"} => c \notin changed
  /\ verdict' = [verdict EXCEPT ![c] = v]
  /\ UNCHANGED <<wants, present, changed>>

Next == \E c \in Calls : Change(c) \/ \E v \in Verdicts \ {"open"} : Tell(c, v)

Spec == Init /\ [][Next]_vars
=============================================================================
