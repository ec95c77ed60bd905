-------------------------- MODULE MCDirectoryUpload --------------------------
(* Instance of DirectoryUpload for TLC. *)
EXTENDS DirectoryUpload, TLC

\* Two allowed files, or one and a filtered file or a link.
MCKinds == {<<"allowed", k>> : k \in {"allowed", "filtered", "link"}}

\* Workers differ in nothing but their names, and neither do paths.
Symmetry == Permutations(Worker) \cup Permutations(Path)
=============================================================================
