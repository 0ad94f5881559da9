--------------------------- MODULE MCCredentials ---------------------------
(* Instances of Credentials for TLC.                                       *)
EXTENDS Credentials, TLC

CONSTANTS update, process, write, u1, u2, s1, s2

(* update.go and process_user.go read one directory, write.go has its own  *)
(* two samples.                                                            *)
MCList == [l \in Loaders |-> IF l = write THEN <<s2, s1>> ELSE <<u1, u2>>]

MCFinalMark == [l \in Loaders |-> IF l = update THEN "no" ELSE IF l = process THEN "yes" ELSE "none"]

Alike == Permutations(Pods)
=============================================================================
