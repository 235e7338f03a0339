------------------------ MODULE MCTopicSubscription ------------------------
(* Instances of TopicSubscription for TLC. *)
EXTENDS TopicSubscription
=============================================================================
