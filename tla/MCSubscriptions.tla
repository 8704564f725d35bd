-------------------------- MODULE MCSubscriptions --------------------------
(* Instances of Subscriptions for TLC. *)
EXTENDS Subscriptions, TLC

CONSTANTS u, w, v1, v2, g1, g2, done, again, late, gone, other, forged

TwoUsers   == {u, w}
SomeVisits == {v1, v2}
SomeGrants == {g1, g2}
SomeEvents == {done, again, late, gone, other, forged}

SomeUserOf == [r \in SomeVisits \cup SomeGrants \cup SomeEvents |->
                  IF r \in {other, forged} THEN w ELSE u]
SomeKindOf == done :> "completed" @@ again :> "completed" @@ late :> "updated" @@ gone :> "deleted"
                 @@ other :> "unsupported" @@ forged :> "forged"
SomePlanOf == g1 :> "team" @@ g2 :> "ent" @@ done :> "dev" @@ again :> "dev"
FourPlans  == {"free", "dev", "team", "ent"}
\* The catalogue has lost one of the four.
Prices     == "free" :> 0 @@ "dev" :> 29 @@ "team" :> 99

\* A new user's requests at once; the life of a Stripe subscription beside the user's
\* own requests and an admin's; a checkout that is sent twice; what is refused or ignored.
SomeTogether == {{v1, v2, g1, done}, {v1, done, late, gone}, {g1, g2, done, gone},
                 {v1, done, again}, {v1, g2, other, forged}}
============================================================================
