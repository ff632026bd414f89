-------------------------- MODULE MCArtifactExport --------------------------
(* Three objects; a run is given one prefix, two that overlap, or two apart. *)
EXTENDS ArtifactExport

MCKeys == 1..3
MCPrefixes == {<<{1, 2}>>, <<{1, 2}, {1, 2, 3}>>, <<{3}, {1, 2}>>}
=============================================================================
