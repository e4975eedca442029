-------------------------- MODULE MCConfigurations --------------------------
(* The standard configuration with what is cloned from it, the documents of *)
(* one project, and the seed of a tenant.  They share no variable, so that  *)
(* every interleaving projects to the same behaviours of each: the bound of *)
(* this instance is that a behaviour takes steps of one of them, the first  *)
(* two on a tenant of the current version.                                  *)
EXTENDS Configurations, Documents, ProjectSeed, TLC

CONSTANTS standard, c1

MCConfig     == {standard, c1}
Current      == from = Target /\ SeedInit
ProjectsInit == Init /\ DocumentsInit /\ SeedInit
ProjectsNext ==
  \/ DocumentsInit /\ Current /\ Next /\ UNCHANGED <<documentVars, seedVars>>
  \/ Init /\ Current /\ DocumentsNext /\ UNCHANGED <<vars, seedVars>>
  \/ Init /\ DocumentsInit /\ SeedNext /\ UNCHANGED <<vars, documentVars>>
ProjectsSpec == ProjectsInit /\ [][ProjectsNext]_<<vars, documentVars, seedVars>>

Interchangeable == Permutations(Req)
=============================================================================
