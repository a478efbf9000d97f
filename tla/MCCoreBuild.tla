------------------------------ MODULE MCCoreBuild ------------------------------
(***************************************************************************)
(* Two processes, every configuration, a machine with build tools and one  *)
(* without, and a source of which one version does not compile.            *)
(***************************************************************************)
EXTENDS CoreBuild

CONSTANTS c1, c2

MCConfigs ==
    [auto_build : BOOLEAN, elsewhere : BOOLEAN, which : {{}, {"cmake", "g++"}}]
=============================================================================
