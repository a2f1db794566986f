-------------------------- MODULE MCWebhookDelivery --------------------------
\* WebhookDelivery on a small instance: the first attempt and two replicas.
EXTENDS WebhookDelivery
=============================================================================
