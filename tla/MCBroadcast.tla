----------------------------- MODULE MCBroadcast -----------------------------
(* Small instances of Broadcast. *)
EXTENDS Broadcast

CONSTANTS c1, c2

MCClients == {c1, c2}

With(p, o, s, b, t) == [pool |-> p, ops |-> o, subscribed |-> s, budget |-> b, ticks |-> t]

\* Data: two clients that write, publish, invalidate and remove.  Membership:
\* subscriptions that come, go and are aborted around a publish.
MCSetups ==
  {With(FALSE, {"write", "publish"}, {c1, c2}, 4, 1),
   With(FALSE, {"write", "publish"}, {c2}, 3, 3),
   With(FALSE, {"write", "opaque", "invalidate", "remove", "publish"}, {c2}, 4, 1),
   With(TRUE, {"write", "publish", "remove"}, {c1}, 4, 1),
   With(TRUE, {"publish", "subscribe", "unsubscribe", "abort"}, {c2}, 4, 0),
   With(FALSE, {"write", "subscribe", "unsubscribe", "publish", "abort"}, {c1}, 4, 0)}
=============================================================================
