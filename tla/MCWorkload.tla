----------------------------- MODULE MCWorkload -----------------------------
(* Shortened programs of rc-broadcaster/programs for TLC.                  *)
EXTENDS Workload

MCPrograms ==
    { <<Normal, Skip(1), Skip(2)>>,             \* skip.ron
      <<Normal, Skip(0), Normal>>,              \* view_change_skip.ron
      <<Normal, Corrupt("bad", 1), Normal>>,    \* corrupt.ron
      <<Normal, Additional(1, 1), Normal>> }    \* additional.ron

\* The theorems about what the programs generate apply to these.
ASSUME MCProgramsAssumption == \A p \in MCPrograms : Numbered(p) /\ Addressed(p)
=============================================================================
