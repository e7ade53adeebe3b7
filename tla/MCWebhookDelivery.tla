------------------------- MODULE MCWebhookDelivery -------------------------
(* Small instances of WebhookDelivery for TLC. *)
EXTENDS WebhookDelivery, TLC

CONSTANTS paid, refunded, shop, mirror

MCBoth == paid :> {shop, mirror}
MCOne == paid :> {shop}
MCMixed == paid :> {shop} @@ refunded :> {}
=============================================================================
