------------------------ MODULE MCNotificationQueue ------------------------
(* Instances of NotificationQueue for TLC: the users and endpoints by number. *)
EXTENDS NotificationQueue, TLC

\* Endpoint 1 is the inbox of user 1, endpoint 2 a browser of user 2.
MCOwner == (1 :> "u1") @@ (2 :> "u2")
MCUsers == {"u1", "u2"}
MCOneForAll == ("m1" :> "all")

MCOneUser == {"u1"}
MCOneOwner == (1 :> "u1")

Symmetry == Permutations(Resolvers) \cup Permutations(Senders)
=============================================================================
