---------------------------- MODULE MCPostIntake ----------------------------
(* Small instances of PostIntake for TLC. *)
EXTENDS PostIntake

Budget(posts, events, patches, refused, pruned, ended) ==
    [posts |-> posts, events |-> events, patches |-> patches,
     refused |-> refused, pruned |-> pruned, unreachable |-> pruned, ended |-> ended]

\* Two posts and a PATCH with a refused statement; a post, a PATCH and a scan with a
\* connection that is pruned and a reconnect that fails, or with a refused statement;
\* two scans, or a post and a PATCH, with a pruned connection and the end of the process.
IntakeBudgets == {
    Budget(2, 0, 1, 1, 0, 0), Budget(1, 1, 1, 0, 1, 0), Budget(0, 2, 0, 0, 1, 1),
    Budget(1, 0, 1, 0, 1, 1), Budget(1, 1, 1, 1, 0, 0)}

AllRows == PostRows \union EventRows \union ConfigRows
=============================================================================
