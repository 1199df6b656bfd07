----------------------------- MODULE MCWebhook -----------------------------
(* A small instance of Webhook: two updates of one chat, one of another.    *)
EXTENDS Webhook

CONSTANTS u1, u2, u3, a, b

MCUpdates == {u1, u2, u3}
MCChatOf == [u \in MCUpdates |-> IF u = u3 THEN b ELSE a]
MCKeyed == {a, b}
MCUnkeyed == {}
=============================================================================
