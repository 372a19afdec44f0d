------------------------ MODULE MCArtifactPublication ------------------------
(* ArtifactPublication on small instances.                                 *)
EXTENDS ArtifactPublication

(* The record and the session: Markdown last, as the completion marker.    *)
JsonThenMarkdown == <<"json", "markdown">>

(* No property tells one publisher, or one run id, from another.           *)
Interchangeable == Permutations(Publishers) \cup Permutations(Names)

=============================================================================
