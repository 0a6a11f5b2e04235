-------------------------- MODULE MCNotifications --------------------------
(***************************************************************************)
(* Notifications with one or two channels and up to three clients.         *)
(***************************************************************************)
EXTENDS Notifications

OneChannel == {"v1"}
TwoChannels == {"v1", "v2"}
OneValue == {1}
TwoValues == {1, 2}
ThreeClients == {"a", "b", "c"}
TwoClients == {"a", "b"}
Mixed == [c \in ThreeClients |-> IF c = "c" THEN "all" ELSE "v1"]
ToAll == [c \in TwoClients |-> "all"]
OneToEach == [c \in TwoClients |-> IF c = "b" THEN "all" ELSE "v1"]
Never == {FALSE}
Sometimes == {FALSE, TRUE}

=============================================================================
