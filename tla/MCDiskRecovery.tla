-------------------------- MODULE MCDiskRecovery --------------------------
(* Instances of DiskRecovery: a directory with one file, and one more path.   *)
EXTENDS DiskRecovery

VARIABLE scenario

MCPaths == {"d", "d/f", "e"}
MCParent == [p \in MCPaths |-> IF p = "d/f" THEN "d" ELSE "/"]
MCAbove == [p \in MCPaths |-> IF p = "d/f" THEN {"d", "d/f"} ELSE {p}]
DeepPaths == {"d", "d/f"}

Full == [p \in {"d", "d/f"} |-> IF p = "d" THEN Dir ELSE "old"]
Bare == [p \in {"d", "d/f"} |-> Absent]
DeepTrees == {Full, Bare}
MCTrees == {[p \in MCPaths |-> IF p = "e" THEN Absent ELSE t[p]] : t \in DeepTrees}

\* Many crashes of two transactions over the directory, or one failure and one
\* crash of a transaction over all paths.
Scenarios == [crashes |-> [paths |-> DeepPaths, tx |-> 2, crashes |-> 2, faults |-> 0],
              faults |-> [paths |-> MCPaths, tx |-> 1, crashes |-> 1, faults |-> 1]]
Play == Scenarios[scenario]

MCInit ==
  /\ Init /\ scenario \in DOMAIN Scenarios
  /\ scenario = "faults" => disk["d"] = Dir

Played ==
  /\ tx' <= Play.tx /\ crashes' <= Play.crashes /\ faults' <= Play.faults
  /\ \A e \in op'.todo : e.path \in Play.paths

\* The process keeps recovering once it is up, and is started again when it is
\* down; nothing is assumed of the program that runs transactions.
MCSpec ==
  /\ MCInit /\ [][Next /\ Played /\ UNCHANGED scenario]_<<vars, scenario>>
  /\ WF_vars(Settlement) /\ WF_vars(Recovery)
=============================================================================
