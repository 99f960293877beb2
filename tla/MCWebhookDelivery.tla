------------------------- MODULE MCWebhookDelivery --------------------------
(* Model values for checking WebhookDelivery with TLC. *)
EXTENDS WebhookDelivery, TLC

CONSTANTS e1, e2

OneEvent == {e1}
TwoEvents == {e1, e2}

\* Events are compared only for equality.
Symmetry == Permutations(Event)
=============================================================================
