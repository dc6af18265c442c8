----------------------------- MODULE DesiredState -----------------------------
(***************************************************************************)
(* What the kernel-sync queue promises, without a queue: for every server  *)
(* the database wants something, wg-helper has been told something, and    *)
(* whatever is told is what the database wants at that moment.  A change   *)
(* may be dropped (a failed query, a crash), and then it is marked lost;   *)
(* one that is not lost is told in the end.                                *)
(***************************************************************************)

CONSTANTS Server, Peer

VARIABLES
    want,   \* what the rows ask for: nothing, an apply of some peers, a removal
    given,  \* what wg-helper was last told
    lost    \* the difference between the two is nobody's business any more

vars == <<want, given, lost>>

Nothing   == [kind |-> "nothing", peers |-> {}]
Apply(P)  == [kind |-> "apply", peers |-> P]
Remove    == [kind |-> "remove", peers |-> {}]
Wish      == {Nothing, Remove} \cup {Apply(P) : P \in SUBSET Peer}

Init ==
    /\ want = [s \in Server |-> Nothing]
    /\ given = [s \in Server |-> Nothing]
    /\ lost = [s \in Server |-> FALSE]

\* A commit changes what is wanted of any number of servers; a deleted server
\* stays deleted.
Change ==
    /\ want' \in [Server -> Wish]
    /\ \A s \in Server : want[s] = Remove => want'[s] = Remove
    /\ UNCHANGED <<given, lost>>

\* wg-helper is told what the database wants now.
Follow(s) ==
    /\ want[s] # Nothing
    /\ given' = [given EXCEPT ![s] = want[s]]
    /\ lost' = [lost EXCEPT ![s] = FALSE]
    /\ UNCHANGED want

\* An apply overtaken by the deletion of its server goes out with no peers, but
\* never after the removal did.
Straggle(s) ==
    /\ want[s] = Remove
    /\ given[s] # Remove
    /\ given' = [given EXCEPT ![s] = Apply({})]
    /\ UNCHANGED <<want, lost>>

\* Only a part of the wish is told, and the rest is lost; what is not wanted is
\* never told.
Shorten(s) ==
    /\ want[s].kind = "apply"
    /\ \E P \in SUBSET want[s].peers : given' = [given EXCEPT ![s] = Apply(P)]
    /\ lost' = [lost EXCEPT ![s] = TRUE]
    /\ UNCHANGED want

Lose ==
    /\ lost' \in [Server -> BOOLEAN]
    /\ \A s \in Server : lost[s] => lost'[s]
    /\ UNCHANGED <<want, given>>

Next == Change \/ Lose \/ \E s \in Server : Follow(s) \/ Straggle(s) \/ Shorten(s)

Behind(s) == want[s] # Nothing /\ given[s] # want[s] /\ ~lost[s]

SafetySpec == Init /\ [][Next]_vars
Spec == SafetySpec /\ \A s \in Server : WF_vars(Behind(s) /\ Follow(s))
=============================================================================
