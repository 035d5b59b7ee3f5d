--------------------------- MODULE MCNotification ---------------------------
(* Notification for TLC: who owns which socket, whom the messages name.    *)
EXTENDS Notification, TLC

CONSTANTS p1, p2, s1, s2, s3, m1, n1

MCOwner == (s1 :> p1) @@ (s2 :> p1) @@ (s3 :> p2)
\* Replicas are interchangeable: n1 is the one that s3 is connected to.
MCGateway == (s1 :> Replica) @@ (s2 :> Replica) @@ (s3 :> {n1})
MCNames == (m1 :> <<p1, p2>>) 
=============================================================================
