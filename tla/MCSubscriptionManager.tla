------------------------ MODULE MCSubscriptionManager ------------------------
(* Instances of SubscriptionManager for TLC. *)
EXTENDS SubscriptionManager
CONSTANTS g1, g2
TwoGrants == {g1, g2}
NoErrors == {"grant", "other"}
WithErrors == {"grant", "error"}
==============================================================================
