---------------------------- MODULE MCGroupMembership ----------------------------
(* The TLC instance of GroupMembership.                                        *)
EXTENDS GroupMembership, TLC

Symmetry == Permutations(Users \ {Creator}) \cup Permutations(Requests)

\* A bound.  Everything at once is too much: a group that is full at two is explored under what
\* changes its membership, and one with room for three under transfers and erasures together with
\* what changes roles, or, where joining takes an approval, with what resolves the requests.
OperationsOf(max, approval) ==
    CASE max = 2  -> {"add", "remove", "leave", "delete", "invite"}
      [] approval -> {"transfer", "public", "approve", "reject"}
      [] OTHER    -> {"transfer", "add", "role", "public"}

OneFamily ==
    /\ \A r \in Requests :
          req[r].op \in OperationsOf(settings.max, settings.approval) \cup {"none"}
    /\ IF settings.max = 2 THEN memberCount = Cardinality(here) ELSE link.live
================================================================================
