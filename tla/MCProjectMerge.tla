---------------------------- MODULE MCProjectMerge ----------------------------
EXTENDS ProjectMerge, TLC

CONSTANTS
  Source,   \* a column another one is computed from: builderId
  Copy      \* that other column: builderName

MCDerived == [f \in Fields |-> IF f = Source THEN {Copy} ELSE {}]

\* Bounds: the columns and the units start alike, and a write changes the one
\* or the other.
Alike ==
  /\ \A f, g \in Fields : project.fields[f] = project.fields[g]
  /\ \A u, x \in Codes : project.units[u] = project.units[x]
MCInit == Init /\ Alike
MCNext ==
  Next /\ (project'.fields = project.fields \/ project'.units = project.units)
MCSpec == MCInit /\ [][MCNext]_vars

\* Staff members, unit codes and what columns and units hold are interchangeable.
Symmetry == Permutations(Clients) \cup Permutations(Codes) \cup Permutations(UnitValues)
             \cup Permutations(Values)
=============================================================================
